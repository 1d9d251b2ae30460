------------------------------- MODULE Acceptor -------------------------------
(***************************************************************************)
(* main of server/server.c and createAndDetachThread, with the life of     *)
(* each connection's descriptor and of the arguments that main shares with *)
(* the thread it starts.  Descriptors and heap blocks are used again as    *)
(* soon as they are free.  The locks and the handlers of a worker are in   *)
(* LockManager and RequestHandlers; what is seen of a handler here is the  *)
(* descriptors of the files it has open, and that it may return.           *)
(***************************************************************************)
EXTENDS Naturals, Sequences, SequencesExt

CONSTANTS
  Clients,      \* the connections clients make, numbered in their order
  Descriptors,  \* the descriptors the process may have for connections and files
  Blocks,       \* the heap: blocks that hold thread_args_t or request_t
  Backlog       \* listen's second argument

ASSUME AcceptorAssumption ==
  /\ Clients \subseteq Nat \ {0}
  /\ Descriptors \subseteq Nat \ {0}
  /\ Blocks \subseteq Nat \ {0}
  /\ Backlog \in Nat \ {0}

VARIABLES
  main,      \* where main is
  lockList,  \* does file_lock_manager point to a list?
  queue,     \* the connections accept has not returned yet
  aborted,   \* connections their client has reset
  fds,       \* the connection behind each descriptor
  files,     \* the descriptors of the files the handler of a connection has open
  client,    \* main: the connection of client_socket_descriptor
  created,   \* main: did pthread_create succeed?
  thread,    \* where the thread of each connection is
  socket,    \* its local variable of that name
  args,      \* the block of its thread_args_t
  request,   \* the block of its request
  heap,      \* what each block holds
  answered   \* connections a response was sent to

None == 0         \* no connection

connections == <<queue, aborted, fds, files, answered>>
mains == <<main, lockList, client, created>>
threads == <<thread, socket, args, request>>
vars == <<connections, mains, threads, heap>>

FreeBlock == [use |-> "free", socket |-> 0, id |-> None]
Lowest(S) == CHOOSE x \in S : \A y \in S : x <= y
FreeDescriptors == {d \in Descriptors : fds[d] = None /\ \A c \in Clients : d \notin files[c]}
FreeBlocks == {b \in Blocks : heap[b].use = "free"}
DescriptorOf(c) == CHOOSE d \in Descriptors : fds[d] = c
MainAt(label) == main = label
At(c, label) == thread[c] = label
GoMain(label) == main' = label
Goto(c, label) == thread' = [thread EXCEPT ![c] = label]

Init ==
  /\ main = "setup"
  /\ lockList = FALSE
  /\ queue = <<>>
  /\ aborted = {}
  /\ fds = [d \in Descriptors |-> None]
  /\ files = [c \in Clients |-> {}]
  /\ client = None
  /\ created = FALSE
  /\ thread = [c \in Clients |-> "none"]
  /\ socket = [c \in Clients |-> 0]
  /\ args = [c \in Clients |-> 0]
  /\ request = [c \in Clients |-> 0]
  /\ heap = [b \in Blocks |-> FreeBlock]
  /\ answered = {}

-----------------------------------------------------------------------------
(* The clients *)

HasConnected(c) == ~At(c, "none") \/ c \in ToSet(queue) \cup answered \cup {client}

Connect(c) ==
  /\ main \notin {"setup", "exited"}
  /\ Len(queue) < Backlog
  /\ ~HasConnected(c)
  /\ \A o \in Clients : o < c => HasConnected(o)
  /\ queue' = Append(queue, c)
  /\ UNCHANGED <<aborted, fds, files, answered, mains, threads, heap>>

Abort(c) ==
  /\ c \in ToSet(queue) \cup {fds[d] : d \in Descriptors}
  /\ c \in Clients \ aborted
  /\ aborted' = aborted \cup {c}
  /\ UNCHANGED <<queue, fds, files, answered, mains, threads, heap>>

Forgotten ==
  /\ lockList' = FALSE
  /\ created' = FALSE
  /\ client' = None
  /\ socket' = [c \in Clients |-> 0]
  /\ args' = [c \in Clients |-> 0]
  /\ request' = [c \in Clients |-> 0]

(***************************************************************************)
(* The process ends, and with it every thread and every connection.        *)
(***************************************************************************)
ProcessEnds ==
  /\ GoMain("exited")
  /\ queue' = <<>>
  /\ fds' = [d \in Descriptors |-> None]
  /\ files' = [c \in Clients |-> {}]
  /\ thread' = [c \in Clients |-> IF At(c, "none") THEN "none" ELSE "ended"]
  /\ heap' = [b \in Blocks |-> FreeBlock]
  /\ UNCHANGED <<aborted, answered>>
  /\ Forgotten

-----------------------------------------------------------------------------
(* main *)

\* socket, bind and listen succeed; createFileLockList may return NULL.
Setup ==
  /\ MainAt("setup")
  /\ lockList' \in BOOLEAN
  /\ GoMain("accept")
  /\ UNCHANGED <<client, created, connections, threads, heap>>

SetupFails == MainAt("setup") /\ ProcessEnds

\* accept returns the lowest descriptor that is free.
Accept ==
  /\ MainAt("accept")
  /\ queue # <<>>
  /\ FreeDescriptors # {}
  /\ fds' = [fds EXCEPT ![Lowest(FreeDescriptors)] = Head(queue)]
  /\ client' = Head(queue)
  /\ queue' = Tail(queue)
  /\ GoMain("create")
  /\ UNCHANGED <<lockList, created, files, aborted, answered, threads, heap>>

(***************************************************************************)
(* No descriptor is left, or the connection is gone already: main returns. *)
(***************************************************************************)
AcceptFails ==
  /\ MainAt("accept")
  /\ \/ FreeDescriptors = {}
     \/ queue # <<>> /\ Head(queue) \in aborted
  /\ ProcessEnds

-----------------------------------------------------------------------------
(* createAndDetachThread *)

\* malloc and pthread_create: from now on the thread runs.
CreateThread ==
  /\ MainAt("create")
  /\ FreeBlocks # {}
  /\ LET b == Lowest(FreeBlocks) IN
       /\ heap' = [heap EXCEPT ![b] = [use |-> "args", socket |-> DescriptorOf(client), id |-> None]]
       /\ args' = [args EXCEPT ![client] = b]
  /\ \/ created' = TRUE /\ Goto(client, "start")
     \/ created' = FALSE /\ UNCHANGED thread
  /\ GoMain("note")
  /\ UNCHANGED <<lockList, client, socket, request, connections>>

\* Nobody looks whether malloc returned NULL.
CreateWithoutMemory == MainAt("create") /\ FreeBlocks = {} /\ ProcessEnds

\* Faulty variant: main closes the socket as well.
NoteThreadClosed ==
  /\ MainAt("note")
  /\ heap' = [heap EXCEPT ![args[client]].id = client]
  /\ fds' = [d \in Descriptors |-> IF created /\ fds[d] = client THEN None ELSE fds[d]]
  /\ GoMain(IF created THEN "accept" ELSE "refuse")
  /\ client' = IF created THEN None ELSE client
  /\ UNCHANGED <<lockList, created, queue, files, aborted, answered, threads>>

\* Faulty variant: main frees what the thread has to free.
NoteThreadFreed ==
  /\ MainAt("note")
  /\ heap' = [heap EXCEPT ![args[client]] = FreeBlock]
  /\ GoMain(IF created THEN "accept" ELSE "refuse")
  /\ client' = IF created THEN None ELSE client
  /\ UNCHANGED <<lockList, created, connections, threads>>

(***************************************************************************)
(* args->thread_id is written, whoever has the block by now; then          *)
(* pthread_detach.  Without a thread the id is uninitialised, and          *)
(* detaching it may be refused or end the process.                         *)
(***************************************************************************)
NoteThread ==
  /\ MainAt("note")
  /\ heap' = [heap EXCEPT ![args[client]].id = client]
  /\ GoMain(IF created THEN "accept" ELSE "refuse")
  /\ client' = IF created THEN None ELSE client
  /\ UNCHANGED <<lockList, created, connections, threads>>

DetachNothing == MainAt("note") /\ ~created /\ ProcessEnds

-----------------------------------------------------------------------------
(***************************************************************************)
(* Responses: to a client that has reset the connection, a send may end    *)
(* the process (SIGPIPE).                                                  *)
(***************************************************************************)
Answer(c) == answered' = answered \cup {c}

BrokenPipe ==
  /\ \/ MainAt("refuse") /\ client \in aborted
     \/ \E c \in aborted : thread[c] \in {"receive", "lock", "handle"}
  /\ ProcessEnds

\* Faulty variant: no response is sent.
RefuseSilently ==
  /\ MainAt("refuse")
  /\ fds' = [fds EXCEPT ![DescriptorOf(client)] = None]
  /\ client' = None
  /\ GoMain("accept")
  /\ UNCHANGED <<lockList, created, queue, files, aborted, answered, threads, heap>>

\* Without a thread main answers and closes.
Refuse ==
  /\ MainAt("refuse")
  /\ Answer(client)
  /\ fds' = [fds EXCEPT ![DescriptorOf(client)] = None]
  /\ client' = None
  /\ GoMain("accept")
  /\ UNCHANGED <<lockList, created, queue, files, aborted, threads, heap>>

-----------------------------------------------------------------------------
(* threadClientHandler *)

Start(c) ==
  /\ At(c, "start")
  /\ socket' = [socket EXCEPT ![c] = heap[args[c]].socket]
  /\ Goto(c, "receive")
  /\ UNCHANGED <<args, request, connections, mains, heap>>

\* The request is on the heap; nothing ever frees it.
Receive(c) ==
  /\ At(c, "receive")
  /\ c \notin aborted
  /\ FreeBlocks # {}
  /\ LET b == Lowest(FreeBlocks) IN
       /\ heap' = [heap EXCEPT ![b] = [FreeBlock EXCEPT !.use = "request"]]
       /\ request' = [request EXCEPT ![c] = b]
  /\ Goto(c, "lock")
  /\ UNCHANGED <<socket, args, connections, mains>>

GetLock(c) ==
  /\ At(c, "lock")
  /\ lockList
  /\ Goto(c, "handle")
  /\ UNCHANGED <<socket, args, request, connections, mains, heap>>

\* No request, or no lock: args is not freed.
Fail(c) ==
  /\ thread[c] \in {"receive", "lock"}
  /\ Answer(c)
  /\ Goto(c, "leave")
  /\ UNCHANGED <<socket, args, request, queue, aborted, fds, files, mains, heap>>

(***************************************************************************)
(* The handlers open at most two files at a time, an old version and its   *)
(* copy, and close what they opened before they return.                    *)
(***************************************************************************)
OpenFile(c) ==
  /\ At(c, "handle")
  /\ FreeDescriptors # {}
  /\ \A d \in files[c] : files[c] = {d}
  /\ files' = [files EXCEPT ![c] = @ \cup {Lowest(FreeDescriptors)}]
  /\ UNCHANGED <<queue, aborted, fds, answered, mains, threads, heap>>

CloseFile(c) ==
  /\ At(c, "handle")
  /\ \E d \in files[c] : files' = [files EXCEPT ![c] = @ \ {d}]
  /\ UNCHANGED <<queue, aborted, fds, answered, mains, threads, heap>>

\* No descriptor is left for the copy: fclose(NULL).
CloseNothing(c) ==
  /\ At(c, "handle")
  /\ files[c] # {}
  /\ FreeDescriptors = {}
  /\ ProcessEnds

Handle(c) ==
  /\ At(c, "handle")
  /\ files[c] = {}
  /\ Answer(c)
  /\ Goto(c, "close")
  /\ UNCHANGED <<socket, args, request, queue, aborted, fds, files, mains, heap>>

\* Its path was overwritten by an id written late: it may be no pointer at all.
HandleGarbage(c) ==
  /\ thread[c] \in {"lock", "handle"}
  /\ heap[request[c]].id # None
  /\ ProcessEnds

\* Faulty variant: the early returns do not close the socket.
CloseOnSuccess(c) ==
  /\ thread[c] \in {"leave", "close"}
  /\ fds' = IF At(c, "close") THEN [fds EXCEPT ![socket[c]] = None] ELSE fds
  /\ Goto(c, IF At(c, "close") THEN "free" ELSE "ended")
  /\ UNCHANGED <<socket, args, request, queue, aborted, files, answered, mains, heap>>

Close(c) ==
  /\ thread[c] \in {"leave", "close"}
  /\ fds' = [fds EXCEPT ![socket[c]] = None]
  /\ Goto(c, IF At(c, "close") THEN "free" ELSE "ended")
  /\ UNCHANGED <<socket, args, request, queue, aborted, files, answered, mains, heap>>

FreeArgs(c) ==
  /\ At(c, "free")
  /\ heap' = [heap EXCEPT ![args[c]] = FreeBlock]
  /\ Goto(c, "ended")
  /\ UNCHANGED <<socket, args, request, connections, mains>>

-----------------------------------------------------------------------------
Main ==
  \/ Setup \/ SetupFails \/ Accept \/ AcceptFails
  \/ CreateThread \/ CreateWithoutMemory \/ NoteThread \/ DetachNothing \/ Refuse

Worker(c) ==
  \/ Start(c) \/ Receive(c) \/ GetLock(c) \/ Fail(c)
  \/ OpenFile(c) \/ CloseFile(c) \/ CloseNothing(c) \/ Handle(c) \/ HandleGarbage(c)
  \/ Close(c) \/ FreeArgs(c)

\* What a worker does without waiting for its client or for its path's lock.
Progress(c) ==
  \/ Start(c) \/ GetLock(c) \/ (At(c, "lock") /\ Fail(c))
  \/ Close(c) \/ FreeArgs(c)

Waiting == (main = "exited" \/ queue = <<>>) /\ UNCHANGED vars

Next ==
  \/ Main \/ BrokenPipe
  \/ \E c \in Clients : Connect(c) \/ Abort(c) \/ Worker(c)
  \/ Waiting

Spec == Init /\ [][Next]_vars

(***************************************************************************)
(* main and the workers are OS threads; clients do as they please.  Not    *)
(* fair: recv, which waits as long as the client sends nothing, and the    *)
(* handler, which waits for its lock and its client and may never return.  *)
(***************************************************************************)
FairSpec == Spec /\ WF_vars(Main) /\ \A c \in Clients : WF_vars(Progress(c))

-----------------------------------------------------------------------------
Labels == {"none", "start", "receive", "lock", "handle", "leave", "close", "free", "ended"}

Using(c) == thread[c] \in {"receive", "lock", "handle", "leave", "close"}

(***************************************************************************)
(* The variables hold what the code's variables can hold; a worker that    *)
(* has started uses a descriptor (thread_manager.c:48).                    *)
(***************************************************************************)
TypeOK ==
  /\ main \in {"setup", "accept", "create", "note", "refuse", "exited"}
  /\ lockList \in BOOLEAN /\ created \in BOOLEAN
  /\ queue \in Seq(Clients) /\ Len(queue) <= Backlog
  /\ aborted \subseteq Clients /\ answered \subseteq Clients
  /\ fds \in [Descriptors -> Clients \cup {None}]
  /\ files \in [Clients -> SUBSET Descriptors]
  /\ client \in Clients \cup {None}
  /\ thread \in [Clients -> Labels]
  /\ socket \in [Clients -> Descriptors \cup {0}]
  /\ \A c \in Clients : Using(c) => socket[c] \in Descriptors
  /\ args \in [Clients -> Blocks \cup {0}]
  /\ request \in [Clients -> Blocks \cup {0}]
  /\ heap \in [Blocks -> [use : {"free", "args", "request"}, socket : Descriptors \cup {0},
                          id : Clients \cup {None}]]

(***************************************************************************)
(* A worker's descriptor is its own connection as long as it uses it,      *)
(* although numbers are given again as soon as they are closed: no worker  *)
(* answers or closes another's client (server.c:89-107,                    *)
(* thread_manager.c:48-104).                                               *)
(***************************************************************************)
OwnSocket == \A c \in Clients : Using(c) => fds[socket[c]] = c

(***************************************************************************)
(* Every open descriptor has somebody who will close it: main, or the one  *)
(* thread of that connection (server.c:103-107, thread_manager.c:51-105).  *)
(***************************************************************************)
EveryDescriptorOwned ==
  \A d \in Descriptors :
    fds[d] # None =>
      \/ client = fds[d] /\ (MainAt("note") => ~created)
      \/ At(fds[d], "start") \/ Using(fds[d])

(***************************************************************************)
(* The arguments of a thread that has not read or freed them are still     *)
(* those main gave it, and no other thread's: what main writes late hits   *)
(* at most a request (thread_manager.c:109-119).                           *)
(***************************************************************************)
ArgsIntact ==
  \A c \in Clients :
    At(c, "start") \/ Using(c) \/ At(c, "free") =>
      /\ heap[args[c]].use = "args"
      /\ heap[args[c]].id \in {None, c}
      /\ At(c, "start") => fds[heap[args[c]].socket] = c
      /\ \A o \in Clients \ {c} : args[o] = args[c] => At(o, "ended")

(***************************************************************************)
(* The server ends while it waits in accept only over a client that gave   *)
(* up, or while every descriptor is the connection, or a file, of a thread *)
(* that still serves: no descriptor is lost over a long run                *)
(* (server.c:92-97).  A worker whose request main has written an id into   *)
(* may end it as well.                                                     *)
(***************************************************************************)
Overwritten == \E b \in Blocks : heap[b].use = "request" /\ heap[b].id # None

StopsOnlyWhenBusy ==
  [][MainAt("accept") /\ main' = "exited" /\ aborted = {} /\ ~Overwritten =>
       \A d \in Descriptors : \E c \in Clients :
         (fds[d] = c \/ d \in files[c]) /\ thread[c] # "ended"]_vars

(***************************************************************************)
(* A connection whose own recv and handler return is answered and closed,  *)
(* as long as the server lives, however long other connections hold their  *)
(* threads: server.c:83, "keep going until server process is terminated".  *)
(***************************************************************************)
Waits(c) == thread[c] \in {"receive", "handle"}

EveryClientAnswered ==
  \A c \in Clients :
    []<>~Waits(c) =>
      (c \in ToSet(queue) ~>
         main = "exited" \/ (c \in answered /\ \A d \in Descriptors : fds[d] # c))
=============================================================================
