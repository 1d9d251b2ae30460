-------------------------- MODULE AcceptorInvariant --------------------------
(***************************************************************************)
(* The inductive invariant behind the safety properties of Acceptor:       *)
(* whose each connection, each descriptor and each block is while main     *)
(* and the threads pass them on.                                           *)
(***************************************************************************)
EXTENDS Acceptor

Queued(c) == c \in ToSet(queue)
IsOpen(c) == \E d \in Descriptors : fds[d] = c
Live(c) == At(c, "start") \/ Using(c) \/ At(c, "free")

(***************************************************************************)
(* main holds a connection from accept until its thread has it, or until   *)
(* it has refused it.                                                      *)
(***************************************************************************)
ClientInv ==
  /\ client # None <=> main \in {"create", "note", "refuse"}
  /\ main \in {"create", "refuse"} \/ (MainAt("note") /\ ~created) =>
       At(client, "none") /\ IsOpen(client)
  /\ MainAt("note") /\ created => ~At(client, "none")

(***************************************************************************)
(* A connection waits once, and has neither a descriptor nor a thread.     *)
(***************************************************************************)
QueueInv ==
  /\ \A i, j \in 1 .. Len(queue) : queue[i] = queue[j] => i = j
  /\ \A c \in Clients : Queued(c) => At(c, "none") /\ c # client /\ ~IsOpen(c)

\* A connection has one descriptor.
DescriptorInv ==
  \A d, e \in Descriptors : fds[d] # None /\ fds[d] = fds[e] => d = e

(***************************************************************************)
(* A thread has its own block of arguments until it frees it; the block    *)
(* of a thread that was never started stays allocated; and main still      *)
(* writes into the block it allocated last, into no other thread's.        *)
(***************************************************************************)
ArgsInv ==
  /\ \A c \in Clients : Live(c) => args[c] \in Blocks
  /\ \A c \in Clients : At(c, "none") /\ args[c] # 0 => heap[args[c]].use = "args"
  /\ \A c \in Clients : At(c, "start") => heap[args[c]].socket \in Descriptors
  /\ MainAt("note") =>
       /\ args[client] \in Blocks
       /\ \A o \in Clients \ {client} : args[o] = args[client] => ~Live(o)

\* The block of a request stays allocated.
RequestsInv ==
  \A c \in Clients : thread[c] \in {"lock", "handle"} =>
    request[c] \in Blocks /\ heap[request[c]].use = "request"

\* Only a handler has files open.
FilesInv == \A c \in Clients : files[c] # {} => At(c, "handle")

AcceptorInv ==
  /\ TypeOK
  /\ ClientInv
  /\ QueueInv
  /\ DescriptorInv
  /\ OwnSocket
  /\ EveryDescriptorOwned
  /\ ArgsInv
  /\ ArgsIntact
  /\ RequestsInv
=============================================================================
