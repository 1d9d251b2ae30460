----------------------------- MODULE LockManager -----------------------------
(***************************************************************************)
(* server/thread_manager.c: the list that maps each remote path to its     *)
(* read/write lock, and the worker threads that search it, extend it and   *)
(* then hold the lock they found while they handle their request.          *)
(*                                                                         *)
(* A lock node is a C struct on the heap.  Nodes are never freed while the *)
(* server runs, so the k-th allocation is node k and the heap is the       *)
(* sequence of the nodes; the list over it is the one the code builds with *)
(* head_node, tail_node and the next pointers.                             *)
(***************************************************************************)
EXTENDS Naturals, Sequences, FiniteSets

CONSTANTS
  Workers,    \* the worker threads: one per accepted connection
  Paths       \* the remote_path strings that requests name

NULL == 0     \* the null pointer; node addresses are 1, 2, ...

Commands == {"WRITE", "GET", "RM", "LS"}
Exclusive == {"WRITE", "RM"}
Request == [command : Commands, path : Paths]

VARIABLES
  pc,         \* where each worker is in threadClientHandler
  request,    \* the request each worker received
  manager,    \* file_lock_manager # NULL: its allocation succeeded
  heap,       \* the file_lock_node structs, in order of allocation
  list,       \* the file_lock_list: length, head_node, tail_node
  mutex,      \* the workers inside lock_list->mutex
  curr,       \* getLockFor's cursor
  steps,      \* getLockFor's loop counter i
  lockNode    \* the node getLockFor returned to threadClientHandler

vars == <<pc, request, manager, heap, list, mutex, curr, steps, lockNode>>

Nodes == 1 .. Len(heap)
PathOf(w) == request[w].path
WantsWrite(w) == request[w].command \in Exclusive

Goto(w, label) == pc' = [pc EXCEPT ![w] = label]

(***************************************************************************)
(* createLockNode and createFileLockList: what a new node and a new list   *)
(* contain.                                                                *)
(***************************************************************************)
\* Faulty variant: next stays what malloc returned, a dangling pointer.
NewNodeUninitialised(p) ==
  [filename |-> p, next |-> 0 - 1, readers |-> {}, writers |-> {}]

NewNode(p) == [filename |-> p, next |-> NULL, readers |-> {}, writers |-> {}]
ListOf(length, head, tail) ==
  [length |-> length, head_node |-> head, tail_node |-> tail]

EmptyList == ListOf(0, NULL, NULL)

(***************************************************************************)
(* A node after an assignment to its next pointer, and after its lock      *)
(* changed hands.                                                          *)
(***************************************************************************)
Linked(node, next) ==
  [filename |-> node.filename, next |-> next,
   readers |-> node.readers, writers |-> node.writers]

Locked(node, readers, writers) ==
  [filename |-> node.filename, next |-> node.next,
   readers |-> readers, writers |-> writers]

SetLock(h, n, readers, writers) == [h EXCEPT ![n] = Locked(@, readers, writers)]

Init ==
  /\ pc = [w \in Workers |-> "receive"]
  /\ request \in [Workers -> Request]
  /\ manager \in BOOLEAN
  /\ heap = <<>>
  /\ list = EmptyList
  /\ mutex = {}
  /\ curr = [w \in Workers |-> NULL]
  /\ steps = [w \in Workers |-> 0]
  /\ lockNode = [w \in Workers |-> NULL]

-----------------------------------------------------------------------------
(* receiveRequest *)

(***************************************************************************)
(* The bytes that arrived form the request this connection's client sent   *)
(* (chosen in Init): the worker asks for the lock of its path.             *)
(***************************************************************************)
ReceiveRequest(w) ==
  /\ pc[w] = "receive"
  /\ Goto(w, "getLock")
  /\ UNCHANGED <<request, manager, heap, list, mutex, curr, steps, lockNode>>

(***************************************************************************)
(* Nothing arrived, or nothing that parses: the worker says so and closes. *)
(***************************************************************************)
ReceiveFails(w) ==
  /\ pc[w] = "receive"
  /\ Goto(w, "closed")
  /\ UNCHANGED <<request, manager, heap, list, mutex, curr, steps, lockNode>>

-----------------------------------------------------------------------------
(* getLockFor *)

(***************************************************************************)
(* The list was never allocated: NULL is returned before the mutex, and    *)
(* threadClientHandler refuses the request.                                *)
(***************************************************************************)
NoManager(w) ==
  /\ pc[w] = "getLock"
  /\ ~manager
  /\ Goto(w, "closed")
  /\ UNCHANGED <<request, manager, heap, list, mutex, curr, steps, lockNode>>

MutexFree == mutex = {}

LockMutex(w) ==
  /\ pc[w] = "getLock"
  /\ manager
  /\ MutexFree
  /\ mutex' = mutex \cup {w}
  /\ curr' = [curr EXCEPT ![w] = list.head_node]
  /\ steps' = [steps EXCEPT ![w] = 0]
  /\ Goto(w, "search")
  /\ UNCHANGED <<request, manager, heap, list, lockNode>>

UnlockMutex(w) == mutex' = mutex \ {w}

Searching(w) ==
  /\ pc[w] = "search"
  /\ steps[w] < list.length
  /\ curr[w] \in Nodes

\* Faulty variant: any node will do.
MatchesAnything(w) == curr[w] \in Nodes

Matches(w) == heap[curr[w]].filename = PathOf(w)

\* Faulty variant: the loop forgets to advance.
AdvanceNot(w) == UNCHANGED <<curr, steps>>

Advance(w) ==
  /\ curr' = [curr EXCEPT ![w] = heap[curr[w]].next]
  /\ steps' = [steps EXCEPT ![w] = @ + 1]

SearchNext(w) ==
  /\ Searching(w)
  /\ ~Matches(w)
  /\ Advance(w)
  /\ UNCHANGED <<pc, request, manager, heap, list, mutex, lockNode>>

SearchHit(w) ==
  /\ Searching(w)
  /\ Matches(w)
  /\ UnlockMutex(w)
  /\ lockNode' = [lockNode EXCEPT ![w] = curr[w]]
  /\ Goto(w, "acquire")
  /\ UNCHANGED <<request, manager, heap, list, curr, steps>>

(***************************************************************************)
(* addLockToList: the three cases on the length of the list.  The first    *)
(* node is the head only; the tail is set from the second node on.         *)
(***************************************************************************)
\* Faulty variant: the new node is counted but not linked.
LinkNothing(h, n, new) == h

LinkAfter(h, n, new) == [h EXCEPT ![n] = Linked(@, new)]

AddLockToList(h, new) ==
  CASE list.length = 0 ->
         /\ heap' = h
         /\ list' = ListOf(1, new, list.tail_node)
    [] list.length = 1 ->
         /\ heap' = LinkAfter(h, list.head_node, new)
         /\ list' = ListOf(2, list.head_node, new)
    [] OTHER ->
         /\ heap' = LinkAfter(h, list.tail_node, new)
         /\ list' = ListOf(list.length + 1, list.head_node, new)

\* Faulty variant: the loop ends before the last node.
NotFoundTooEarly(w) == pc[w] = "search" /\ steps[w] + 1 >= list.length

NotFound(w) == pc[w] = "search" /\ steps[w] >= list.length

AddLock(w) ==
  /\ NotFound(w)
  /\ LET node == Len(heap) + 1 IN
       /\ AddLockToList(Append(heap, NewNode(PathOf(w))), node)
       /\ lockNode' = [lockNode EXCEPT ![w] = node]
  /\ UnlockMutex(w)
  /\ Goto(w, "acquire")
  /\ UNCHANGED <<request, manager, curr, steps>>

(***************************************************************************)
(* createLockNode's malloc returns NULL: addLockToList refuses the NULL,   *)
(* getLockFor returns it and the worker answers "failed to get file lock". *)
(***************************************************************************)
CreateLockFails(w) ==
  /\ NotFound(w)
  /\ UnlockMutex(w)
  /\ Goto(w, "closed")
  /\ UNCHANGED <<request, manager, heap, list, curr, steps, lockNode>>

-----------------------------------------------------------------------------
(* The switch of threadClientHandler *)

\* Faulty variants: GET takes no lock; WRITE and RM wait for writers only.
CanReadAlways(node) == TRUE
CanWriteOverReaders(node) == node.writers = {}

CanRead(node) == node.writers = {}
CanWrite(node) == node.readers = {} /\ node.writers = {}

ReadLock(w) ==
  /\ pc[w] = "acquire"
  /\ request[w].command = "GET"
  /\ CanRead(heap[lockNode[w]])
  /\ LET n == lockNode[w] IN
       heap' = SetLock(heap, n, heap[n].readers \cup {w}, heap[n].writers)
  /\ Goto(w, "handle")
  /\ UNCHANGED <<request, manager, list, mutex, curr, steps, lockNode>>

WriteLock(w) ==
  /\ pc[w] = "acquire"
  /\ WantsWrite(w)
  /\ CanWrite(heap[lockNode[w]])
  /\ LET n == lockNode[w] IN
       heap' = SetLock(heap, n, heap[n].readers, heap[n].writers \cup {w})
  /\ Goto(w, "handle")
  /\ UNCHANGED <<request, manager, list, mutex, curr, steps, lockNode>>

(***************************************************************************)
(* LS is answered without a lock, although its lock node was created.      *)
(***************************************************************************)
AnswerLS(w) ==
  /\ pc[w] = "acquire"
  /\ request[w].command = "LS"
  /\ Goto(w, "closed")
  /\ UNCHANGED <<request, manager, heap, list, mutex, curr, steps, lockNode>>

(***************************************************************************)
(* The handler of the request returns and the worker unlocks its node and  *)
(* closes.  What the handlers do meanwhile is RequestHandlers' subject.    *)
(***************************************************************************)
Unlock(w) ==
  /\ pc[w] = "handle"
  /\ LET n == lockNode[w] IN
       heap' = SetLock(heap, n, heap[n].readers \ {w}, heap[n].writers \ {w})
  /\ Goto(w, "closed")
  /\ UNCHANGED <<request, manager, list, mutex, curr, steps, lockNode>>

-----------------------------------------------------------------------------
WorkerStep(w) ==
  \/ ReceiveRequest(w) \/ ReceiveFails(w)
  \/ NoManager(w) \/ LockMutex(w)
  \/ SearchNext(w) \/ SearchHit(w) \/ AddLock(w) \/ CreateLockFails(w)
  \/ ReadLock(w) \/ WriteLock(w) \/ AnswerLS(w)
  \/ Unlock(w)

(***************************************************************************)
(* Every connection was served: the server idles in accept.                *)
(***************************************************************************)
AllClosed == \A w \in Workers : pc[w] = "closed"
Idle == AllClosed /\ UNCHANGED vars

Next == (\E w \in Workers : WorkerStep(w)) \/ Idle

Spec == Init /\ [][Next]_vars

(***************************************************************************)
(* The steps a thread takes without a partner.  A worker is an OS thread,  *)
(* never suspended for ever, so these are fair.  Its recv may wait for a   *)
(* client that sends nothing (ReceiveRequest, ReceiveFails), and a handler *)
(* may never return (Unlock): nothing promises those steps.  Each worker   *)
(* serves one connection, so weak fairness is enough: nobody can overtake  *)
(* a waiting thread for ever.                                              *)
(***************************************************************************)
Progress(w) ==
  \/ NoManager(w) \/ LockMutex(w)
  \/ SearchNext(w) \/ SearchHit(w) \/ AddLock(w) \/ CreateLockFails(w)
  \/ ReadLock(w) \/ WriteLock(w) \/ AnswerLS(w)

Fairness == \A w \in Workers : WF_vars(Progress(w))
FairSpec == Spec /\ Fairness

-----------------------------------------------------------------------------
Labels == {"receive", "getLock", "search", "acquire", "handle", "closed"}
Node == [filename : Paths, next : Nat,
         readers : SUBSET Workers, writers : SUBSET Workers]

TypeOK ==
  /\ pc \in [Workers -> Labels]
  /\ request \in [Workers -> Request]
  /\ manager \in BOOLEAN
  /\ heap \in Seq(Node)
  /\ list \in [length : Nat, head_node : Nat, tail_node : Nat]
  /\ mutex \in SUBSET Workers
  /\ curr \in [Workers -> Nat]
  /\ steps \in [Workers -> Nat]
  /\ lockNode \in [Workers -> Nat]

(***************************************************************************)
(* The linked list is well formed at every instant a searcher can look: it *)
(* holds exactly the allocated nodes, head_node starts it, every next      *)
(* pointer leads to the following node, the last one is NULL, and          *)
(* tail_node is the last node from the second insertion on                 *)
(* (thread_manager.c:175-199).                                             *)
(***************************************************************************)
ListWellFormed ==
  /\ list.length = Len(heap)
  /\ list.head_node = IF heap = <<>> THEN NULL ELSE 1
  /\ list.tail_node = IF Len(heap) < 2 THEN NULL ELSE Len(heap)
  /\ \A n \in Nodes : heap[n].next = IF n = Len(heap) THEN NULL ELSE n + 1

(***************************************************************************)
(* Two nodes never name the same path, whatever the interleaving of the    *)
(* searches and insertions: getLockFor searches and inserts under one      *)
(* mutex (thread_manager.c:207-224).                                       *)
(***************************************************************************)
OneLockPerPath ==
  \A m, n \in Nodes : heap[m].filename = heap[n].filename => m = n

(***************************************************************************)
(* Two workers that handle requests on the same path at the same time both *)
(* read it.  Needs the uniqueness of the nodes, the pointer that outlives  *)
(* the mutex and the exclusion of the lock itself.                         *)
(***************************************************************************)
PathExclusion ==
  \A v, w \in Workers :
    /\ v # w
    /\ pc[v] = "handle" /\ pc[w] = "handle"
    /\ PathOf(v) = PathOf(w)
    => ~WantsWrite(v) /\ ~WantsWrite(w)

(***************************************************************************)
(* The node pointer a worker took under the mutex and uses after releasing *)
(* it (thread_manager.c:60, 70-93) still leads to a node of its path: a    *)
(* thread never waits for, or releases, the lock of another path.          *)
(***************************************************************************)
PointerStillValid ==
  \A w \in Workers :
    pc[w] \in {"acquire", "handle"} =>
      /\ lockNode[w] \in Nodes
      /\ heap[lockNode[w]].filename = PathOf(w)

(***************************************************************************)
(* The inductive invariant.  MutexInv: the mutex is held exactly by the    *)
(* one thread inside getLockFor's search.  SearchInv: that thread's cursor *)
(* and counter walk the list in step, and no node behind them names its    *)
(* path.  LockInv: a node's lock is held exactly by the threads inside a   *)
(* handler that chose this node, shared or by one writer.                  *)
(***************************************************************************)
MutexInv ==
  /\ mutex = {w \in Workers : pc[w] = "search"}
  /\ \A v, w \in Workers : pc[v] = "search" /\ pc[w] = "search" => v = w

SearchInv ==
  \A w \in Workers : pc[w] = "search" =>
    /\ steps[w] \in 0 .. Len(heap)
    /\ curr[w] = IF steps[w] < Len(heap) THEN steps[w] + 1 ELSE NULL
    /\ \A n \in 1 .. steps[w] : heap[n].filename # PathOf(w)

HolderOf(w, n) == pc[w] = "handle" /\ lockNode[w] = n

HeldByHolders(n) ==
  /\ heap[n].readers = {w \in Workers : HolderOf(w, n) /\ ~WantsWrite(w)}
  /\ heap[n].writers = {w \in Workers : HolderOf(w, n) /\ WantsWrite(w)}
  /\ \A v, w \in Workers :
       HolderOf(v, n) /\ HolderOf(w, n) /\ WantsWrite(w) => v = w

LockInv == \A n \in Nodes : HeldByHolders(n)

IInv ==
  /\ TypeOK /\ ListWellFormed /\ OneLockPerPath /\ PointerStillValid
  /\ MutexInv /\ SearchInv /\ LockInv

Handling(w, p) == pc[w] = "handle" /\ PathOf(w) = p

(***************************************************************************)
(* The threads whose requests name a path get through the list and the     *)
(* lock, and close, when the handlers of that path return.  A handler that *)
(* never returns (utils.c:213-231) holds up the requests on its own path   *)
(* and no other: no thread holds the mutex while it waits for a lock       *)
(* (thread_manager.c:60, 70-93).                                           *)
(***************************************************************************)
HandlersReturn(p) == \A w \in Workers : Handling(w, p) ~> pc[w] = "closed"
Unserved(p) == \E w \in Workers : PathOf(w) = p /\ pc[w] \notin {"receive", "closed"}

EveryConnectionCloses == \A p \in Paths : HandlersReturn(p) => []<>~Unserved(p)

ReadersOf(p) == {w \in Workers : Handling(w, p) /\ ~WantsWrite(w)}
WritersOf(p) == {w \in Workers : Handling(w, p) /\ WantsWrite(w)}

Table == INSTANCE RWLockTable WITH
  readers <- [p \in Paths |-> ReadersOf(p)],
  writers <- [p \in Paths |-> WritersOf(p)]

(***************************************************************************)
(* The detailed table implements the abstract one: the readers and writers *)
(* of a path are the workers inside its GET, and its WRITE or RM, handler. *)
(***************************************************************************)
ImplementsTable == Table!Spec
=============================================================================
