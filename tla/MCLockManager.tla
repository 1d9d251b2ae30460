---------------------------- MODULE MCLockManager ----------------------------
(***************************************************************************)
(* A small instance of LockManager: three connections that name up to      *)
(* three paths.  Which thread carries which request and which path is      *)
(* which make no difference, so only requests whose paths are numbered in  *)
(* the order of the threads are enumerated.                                *)
(***************************************************************************)
EXTENDS LockManager

ThreeWorkers == 1 .. 3
ThreePaths == 1 .. 3

PathsInOrder ==
  /\ PathOf(1) = 1
  /\ \A w \in 2 .. 3 : PathOf(w) - PathOf(w - 1) \in {0, 1}

InitInOrder == Init /\ PathsInOrder

OrderedSpec == InitInOrder /\ [][Next]_vars /\ Fairness
=============================================================================
