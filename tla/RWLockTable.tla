----------------------------- MODULE RWLockTable -----------------------------
(***************************************************************************)
(* What the worker threads of the server rely on: one reader/writer lock   *)
(* per remote path.  A worker holds at most one lock, a path has many      *)
(* readers or one writer.                                                  *)
(*                                                                         *)
(* LockManager implements this table with a linked list of pthread         *)
(* read/write locks; RequestHandlers takes its locks from it.              *)
(***************************************************************************)
CONSTANTS
  Workers,    \* the worker threads, one per accepted connection
  Paths       \* the remote_path strings the clients name

VARIABLES
  readers,    \* readers[p]: the workers that hold p's lock shared
  writers     \* writers[p]: the workers that hold p's lock exclusively

lockVars == <<readers, writers>>

Holds(w, p) == w \in readers[p] \cup writers[p]
HoldsNothing(w) == \A p \in Paths : ~Holds(w, p)

Init ==
  /\ readers = [p \in Paths |-> {}]
  /\ writers = [p \in Paths |-> {}]

(***************************************************************************)
(* pthread_rwlock_rdlock returns: no writer is inside.                     *)
(***************************************************************************)
AcquireRead(w, p) ==
  /\ HoldsNothing(w)
  /\ writers[p] = {}
  /\ readers' = [readers EXCEPT ![p] = @ \cup {w}]
  /\ UNCHANGED writers

(***************************************************************************)
(* pthread_rwlock_wrlock returns: nobody is inside.                        *)
(***************************************************************************)
AcquireWrite(w, p) ==
  /\ HoldsNothing(w)
  /\ readers[p] = {}
  /\ writers[p] = {}
  /\ writers' = [writers EXCEPT ![p] = @ \cup {w}]
  /\ UNCHANGED readers

(***************************************************************************)
(* pthread_rwlock_unlock by a holder, of either kind.                      *)
(***************************************************************************)
Release(w, p) ==
  /\ Holds(w, p)
  /\ readers' = [readers EXCEPT ![p] = @ \ {w}]
  /\ writers' = [writers EXCEPT ![p] = @ \ {w}]

Next == \E w \in Workers, p \in Paths :
          AcquireRead(w, p) \/ AcquireWrite(w, p) \/ Release(w, p)

Spec == Init /\ [][Next]_lockVars

TypeOK ==
  /\ readers \in [Paths -> SUBSET Workers]
  /\ writers \in [Paths -> SUBSET Workers]

(***************************************************************************)
(* Many readers or one writer: thread_manager.c:68-95 takes the lock of  *)
(* a path shared for GET and exclusively for WRITE and RM.                 *)
(***************************************************************************)
Exclusion ==
  \A p \in Paths :
    /\ writers[p] # {} => readers[p] = {}
    /\ \A w1, w2 \in writers[p] : w1 = w2
=============================================================================
