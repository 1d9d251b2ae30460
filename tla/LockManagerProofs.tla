-------------------------- MODULE LockManagerProofs --------------------------
(***************************************************************************)
(* Proofs about LockManager, for any set of workers and any set of paths:  *)
(* its type invariant, the inductive invariant behind its safety           *)
(* properties, and that it implements RWLockTable.                         *)
(***************************************************************************)
EXTENDS LockManager, TLAPS

(***************************************************************************)
(* Operations on a sequence of nodes: appending one, and replacing one.    *)
(***************************************************************************)
LEMMA AppendFacts ==
  ASSUME NEW S, NEW s \in Seq(S), NEW e \in S
  PROVE  /\ Append(s, e) \in Seq(S)
         /\ Len(Append(s, e)) = Len(s) + 1
         /\ \A i \in 1 .. Len(s) : Append(s, e)[i] = s[i]
         /\ Append(s, e)[Len(s) + 1] = e
  OBVIOUS

LEMMA ReplaceFacts ==
  ASSUME NEW S, NEW s \in Seq(S), NEW n \in 1 .. Len(s), NEW e \in S
  PROVE  /\ [s EXCEPT ![n] = e] \in Seq(S)
         /\ Len([s EXCEPT ![n] = e]) = Len(s)
         /\ \A i \in 1 .. Len(s) :
              [s EXCEPT ![n] = e][i] = IF i = n THEN e ELSE s[i]
  OBVIOUS

(***************************************************************************)
(* The node constructors build nodes and keep what they do not change.     *)
(***************************************************************************)
LEMMA NodeFacts ==
  ASSUME NEW node \in Node, NEW next \in Nat,
         NEW R \in SUBSET Workers, NEW W \in SUBSET Workers
  PROVE  /\ Linked(node, next) \in Node
         /\ Linked(node, next).filename = node.filename
         /\ Linked(node, next).next = next
         /\ Linked(node, next).readers = node.readers
         /\ Linked(node, next).writers = node.writers
         /\ Locked(node, R, W) \in Node
         /\ Locked(node, R, W).filename = node.filename
         /\ Locked(node, R, W).next = node.next
         /\ Locked(node, R, W).readers = R
         /\ Locked(node, R, W).writers = W
  BY DEF Node, Linked, Locked

LEMMA NewNodeFacts ==
  ASSUME NEW p \in Paths
  PROVE  /\ NewNode(p) \in Node
         /\ NewNode(p).filename = p
         /\ NewNode(p).next = NULL
         /\ NewNode(p).readers = {}
         /\ NewNode(p).writers = {}
  BY DEF Node, NewNode, NULL

LEMMA ListFacts ==
  ASSUME NEW length \in Nat, NEW head \in Nat, NEW tail \in Nat
  PROVE  /\ ListOf(length, head, tail)
               \in [length : Nat, head_node : Nat, tail_node : Nat]
         /\ ListOf(length, head, tail).length = length
         /\ ListOf(length, head, tail).head_node = head
         /\ ListOf(length, head, tail).tail_node = tail
  BY DEF ListOf

-----------------------------------------------------------------------------
(***************************************************************************)
(* A lock that changes hands: the types stay, and no node but this one     *)
(* changes, and it in its lock sets only.                                  *)
(***************************************************************************)
LEMMA SetLockFacts ==
  ASSUME NEW h \in Seq(Node), NEW n \in 1 .. Len(h),
         NEW R \in SUBSET Workers, NEW W \in SUBSET Workers
  PROVE  /\ SetLock(h, n, R, W) \in Seq(Node)
         /\ Len(SetLock(h, n, R, W)) = Len(h)
         /\ \A i \in 1 .. Len(h) :
              /\ SetLock(h, n, R, W)[i].filename = h[i].filename
              /\ SetLock(h, n, R, W)[i].next = h[i].next
              /\ i # n => SetLock(h, n, R, W)[i] = h[i]
              /\ i = n => /\ SetLock(h, n, R, W)[i].readers = R
                          /\ SetLock(h, n, R, W)[i].writers = W
<1> DEFINE node == Locked(h[n], R, W)
<1>1. h[n] \in Node
  OBVIOUS
<1>2. /\ node \in Node
      /\ node.filename = h[n].filename
      /\ node.next = h[n].next
      /\ node.readers = R
      /\ node.writers = W
  BY <1>1, NodeFacts, 0 \in Nat
<1>3. SetLock(h, n, R, W) = [h EXCEPT ![n] = node]
  BY DEF SetLock
<1>4. QED
  <2> HIDE DEF node
  <2> QED
    BY <1>2, <1>3, ReplaceFacts

(***************************************************************************)
(* What addLockToList does to a well-formed list: one more node, linked    *)
(* from the last one, and nothing else.                                    *)
(***************************************************************************)
LEMMA AddedHeap ==
  ASSUME TypeOK, ListWellFormed, NEW w \in Workers, AddLock(w)
  PROVE  /\ heap' \in Seq(Node)
         /\ Len(heap') = Len(heap) + 1
         /\ \A i \in Nodes :
              /\ heap'[i].filename = heap[i].filename
              /\ heap'[i].readers = heap[i].readers
              /\ heap'[i].writers = heap[i].writers
              /\ heap'[i].next = i + 1
         /\ heap'[Len(heap) + 1].filename = PathOf(w)
         /\ heap'[Len(heap) + 1].readers = {}
         /\ heap'[Len(heap) + 1].writers = {}
         /\ heap'[Len(heap) + 1].next = NULL
         /\ list' \in [length : Nat, head_node : Nat, tail_node : Nat]
         /\ ListWellFormed'
<1> DEFINE last == Len(heap)
           new == Len(heap) + 1
           grown == Append(heap, NewNode(PathOf(w)))
<1>1. /\ heap \in Seq(Node)
      /\ last \in Nat /\ new \in Nat
      /\ \A i \in Nodes : heap[i] \in Node
      /\ PathOf(w) \in Paths
      /\ list \in [length : Nat, head_node : Nat, tail_node : Nat]
  BY DEF TypeOK, Nodes, PathOf, Request
<1>2. /\ grown \in Seq(Node)
      /\ Len(grown) = new
      /\ \A i \in Nodes : grown[i] = heap[i]
      /\ grown[new] = NewNode(PathOf(w))
  BY <1>1, NewNodeFacts, AppendFacts DEF Nodes
<1>3. AddLockToList(grown, new)
  BY DEF AddLock
<1>4. /\ list.length = last
      /\ last = 0 => list.tail_node = NULL
      /\ last = 1 => list.head_node = last
      /\ last # 0 => list.head_node = 1
      /\ last > 1 => list.tail_node = last
      /\ \A i \in Nodes : heap[i].next = IF i = last THEN NULL ELSE i + 1
  BY <1>1 DEF ListWellFormed, NULL
<1>5. CASE last = 0
  <2>1. heap' = grown /\ list' = ListOf(1, new, NULL)
    BY <1>1, <1>3, <1>4, <1>5 DEF AddLockToList
  <2>2. heap' \in Seq(Node) /\ Len(heap') = 1 /\ heap'[1] = NewNode(PathOf(w))
    BY <1>2, <1>5, <2>1
  <2>3. /\ list' \in [length : Nat, head_node : Nat, tail_node : Nat]
        /\ list'.length = 1
        /\ list'.head_node = 1
        /\ list'.tail_node = NULL
    BY <1>5, <2>1, ListFacts DEF NULL
  <2>4. heap' # <<>>
    BY <2>2
  <2>5. ListWellFormed'
    BY <1>1, <2>2, <2>3, <2>4, NewNodeFacts DEF ListWellFormed, Nodes
  <2>6. QED
    BY <1>1, <1>5, <2>2, <2>3, <2>5, NewNodeFacts DEF Nodes
<1>6. CASE last # 0
  <2> DEFINE linked == Linked(heap[last], new)
  <2>1. last \in Nodes /\ last \in 1 .. Len(grown) /\ grown[last] = heap[last]
    BY <1>1, <1>2, <1>6 DEF Nodes
  <2>2. /\ linked \in Node
        /\ linked.filename = heap[last].filename
        /\ linked.next = new
        /\ linked.readers = heap[last].readers
        /\ linked.writers = heap[last].writers
    BY <1>1, <2>1 DEF Linked, Node
  <2>3. heap' = [grown EXCEPT ![last] = linked] /\ list' = ListOf(new, 1, new)
    BY <1>1, <1>3, <1>4, <1>6, <2>1 DEF AddLockToList, LinkAfter
  <2>4. /\ heap' \in Seq(Node)
        /\ Len(heap') = new
        /\ \A i \in 1 .. new : heap'[i] = IF i = last THEN linked ELSE grown[i]
    <3> HIDE DEF linked, grown, last
    <3> QED
      BY <1>2, <2>1, <2>2, <2>3, ReplaceFacts
  <2>5. /\ \A i \in Nodes : i # last => heap'[i] = heap[i]
        /\ heap'[last] = linked
        /\ heap'[new] = NewNode(PathOf(w))
    BY <1>1, <1>2, <2>1, <2>4 DEF Nodes
  <2>6. /\ list' \in [length : Nat, head_node : Nat, tail_node : Nat]
        /\ list'.length = new
        /\ list'.head_node = 1
        /\ list'.tail_node = new
    BY <1>1, <2>3 DEF ListOf
  <2>7. /\ \A i \in Nodes : heap'[i].next = i + 1
        /\ heap'[new].next = NULL
    BY <1>1, <1>4, <2>2, <2>5, NewNodeFacts DEF Nodes
  <2>8. heap' # <<>>
    BY <1>1, <2>4
  <2>9. ListWellFormed'
    <3>1. new \in Nat /\ new >= 2 /\ new # NULL
      BY <1>1, <1>6 DEF NULL
    <3>2. \A i \in 1 .. new : heap'[i].next = IF i = new THEN NULL ELSE i + 1
      BY <1>1, <2>7 DEF Nodes, NULL
    <3>3. list'.length = Len(heap')
      BY <2>4, <2>6
    <3>4. list'.head_node = IF heap' = <<>> THEN NULL ELSE 1
      BY <2>6, <2>8
    <3>5. list'.tail_node = IF Len(heap') < 2 THEN NULL ELSE Len(heap')
      <4> HIDE DEF new
      <4> QED
        BY <2>4, <2>6, <3>1
    <3>6. \A i \in 1 .. Len(heap') : heap'[i].next = IF i = Len(heap') THEN NULL ELSE i + 1
      <4> HIDE DEF new
      <4> QED
        BY <2>4, <3>2
    <3>7. QED
      BY <3>3, <3>4, <3>5, <3>6 DEF ListWellFormed, Nodes
  <2>10. QED
    BY <1>1, <2>2, <2>4, <2>5, <2>6, <2>7, <2>9, NewNodeFacts DEF Nodes
<1>7. QED
  BY <1>5, <1>6

-----------------------------------------------------------------------------
(***************************************************************************)
(* The inductive invariant is inductive.  One step per action; the actions *)
(* that change the list or a lock are split by conjunct.                   *)
(***************************************************************************)
LEMMA InitInv == Init => IInv
  BY DEF Init, IInv, TypeOK, ListWellFormed, OneLockPerPath, PointerStillValid,
         MutexInv, SearchInv, LockInv, HeldByHolders, Labels, EmptyList, ListOf, Nodes, NULL

LEMMA StepInv == IInv /\ [Next]_vars => IInv'
<1> SUFFICES ASSUME IInv, [Next]_vars PROVE IInv'
  OBVIOUS
<1> USE DEF IInv
<1>1. ASSUME NEW w \in Workers, ReceiveRequest(w) PROVE IInv'
  BY <1>1 DEF ReceiveRequest, Goto, TypeOK, Labels, ListWellFormed, OneLockPerPath,
     PointerStillValid, MutexInv, SearchInv, LockInv, HeldByHolders, HolderOf, Nodes, PathOf,
     WantsWrite
<1>2. ASSUME NEW w \in Workers, ReceiveFails(w) PROVE IInv'
  BY <1>2 DEF ReceiveFails, Goto, TypeOK, Labels, ListWellFormed, OneLockPerPath,
     PointerStillValid, MutexInv, SearchInv, LockInv, HeldByHolders, HolderOf, Nodes, PathOf,
     WantsWrite
<1>3. ASSUME NEW w \in Workers, NoManager(w) PROVE IInv'
  BY <1>3 DEF NoManager, Goto, TypeOK, Labels, ListWellFormed, OneLockPerPath,
     PointerStillValid, MutexInv, SearchInv, LockInv, HeldByHolders, HolderOf, Nodes, PathOf,
     WantsWrite
<1>4. ASSUME NEW w \in Workers, LockMutex(w) PROVE IInv'
  BY <1>4 DEF LockMutex, MutexFree, Goto, TypeOK, Labels, ListWellFormed,
     OneLockPerPath, PointerStillValid, MutexInv, SearchInv, LockInv, HeldByHolders, HolderOf,
     Nodes, PathOf, WantsWrite, NULL
<1>5. ASSUME NEW w \in Workers, SearchNext(w) PROVE IInv'
  BY <1>5 DEF SearchNext, Searching, Matches, Advance, TypeOK, ListWellFormed,
     OneLockPerPath, PointerStillValid, MutexInv, SearchInv, LockInv, HeldByHolders, HolderOf,
     Nodes, PathOf, WantsWrite, NULL
<1>6. ASSUME NEW w \in Workers, SearchHit(w) PROVE IInv'
  <2>1. /\ pc[w] = "search" /\ curr[w] \in Nodes /\ heap[curr[w]].filename = PathOf(w)
        /\ pc' = [pc EXCEPT ![w] = "acquire"]
        /\ mutex' = mutex \ {w}
        /\ lockNode' = [lockNode EXCEPT ![w] = curr[w]]
        /\ UNCHANGED <<request, manager, heap, list, curr, steps>>
    BY <1>6 DEF SearchHit, Searching, Matches, UnlockMutex, Goto, SearchInv, PathOf
  <2>2. TypeOK'
    BY <2>1 DEF TypeOK, Labels, Nodes
  <2>3. ListWellFormed' /\ OneLockPerPath'
    BY <2>1 DEF ListWellFormed, OneLockPerPath, Nodes
  <2>4. PointerStillValid'
    BY <2>1 DEF PointerStillValid, TypeOK, Nodes, PathOf
  <2>5. \A v \in Workers : pc'[v] # "search"
    BY <2>1 DEF MutexInv, TypeOK
  <2>6. MutexInv' /\ SearchInv'
    BY <2>1, <2>5 DEF MutexInv, SearchInv, TypeOK
  <2>7. LockInv'
    <3>1. \A n \in Nodes, v \in Workers : HolderOf(v, n)' <=> HolderOf(v, n)
      BY <2>1 DEF HolderOf, TypeOK
    <3>2. Nodes' = Nodes /\ \A v \in Workers : WantsWrite(v)' <=> WantsWrite(v)
      BY <2>1 DEF Nodes, WantsWrite
    <3>3. QED
      BY <2>1, <3>1, <3>2 DEF LockInv, HeldByHolders
  <2>8. QED
    BY <2>2, <2>3, <2>4, <2>6, <2>7
<1>7. ASSUME NEW w \in Workers, AddLock(w) PROVE IInv'
  <2> DEFINE new == Len(heap) + 1
  <2>1. /\ pc[w] = "search" /\ steps[w] >= list.length
        /\ pc' = [pc EXCEPT ![w] = "acquire"]
        /\ mutex' = mutex \ {w}
        /\ lockNode' = [lockNode EXCEPT ![w] = new]
        /\ UNCHANGED <<request, manager, curr, steps>>
    BY <1>7 DEF AddLock, NotFound, UnlockMutex, Goto
  <2>2. /\ heap' \in Seq(Node)
        /\ Len(heap') = new
        /\ \A i \in Nodes :
             /\ heap'[i].filename = heap[i].filename
             /\ heap'[i].readers = heap[i].readers
             /\ heap'[i].writers = heap[i].writers
        /\ heap'[new].filename = PathOf(w)
        /\ heap'[new].readers = {} /\ heap'[new].writers = {}
        /\ list' \in [length : Nat, head_node : Nat, tail_node : Nat]
        /\ ListWellFormed'
    BY <1>7, AddedHeap
  <2>3. /\ heap \in Seq(Node) /\ Len(heap) \in Nat
        /\ \A i : i \in Nodes' <=> i \in Nodes \/ i = new
        /\ new \notin Nodes
    BY <2>2 DEF Nodes, TypeOK
  <2>4. TypeOK'
    BY <2>1, <2>2 DEF TypeOK, Labels
  <2>5. \A n \in Nodes : heap[n].filename # PathOf(w)
    <3>1. steps[w] = Len(heap)
      BY <2>1, <2>3 DEF SearchInv, ListWellFormed
    <3>2. QED
      BY <2>1, <3>1 DEF SearchInv, Nodes
  <2>6. OneLockPerPath'
    <3> HIDE DEF new
    <3> QED
      BY <2>2, <2>3, <2>5 DEF OneLockPerPath
  <2>7. PointerStillValid'
    <3>1. \A v \in Workers : PathOf(v)' = PathOf(v)
      BY <2>1 DEF PathOf
    <3>2. \A v \in Workers \ {w} : pc'[v] = pc[v] /\ lockNode'[v] = lockNode[v]
      BY <2>1 DEF TypeOK
    <3>3. pc'[w] = "acquire" /\ lockNode'[w] = new
      BY <2>1 DEF TypeOK
    <3> HIDE DEF new
    <3>4. \A n \in Nodes : n \in Nodes' /\ heap'[n].filename = heap[n].filename
      BY <2>2, <2>3
    <3>5. new \in Nodes' /\ heap'[new].filename = PathOf(w)
      BY <2>2, <2>3
    <3> QED
      BY <3>1, <3>2, <3>3, <3>4, <3>5 DEF PointerStillValid
  <2>8. MutexInv'
    BY <2>1 DEF MutexInv, TypeOK
  <2>9. \A v \in Workers : pc'[v] # "search"
    BY <2>1 DEF MutexInv, TypeOK
  <2>10. SearchInv'
    BY <2>9 DEF SearchInv
  <2>11. LockInv'
    <3>1. ASSUME NEW n \in Nodes
          PROVE  \A v \in Workers : HolderOf(v, n)' <=> HolderOf(v, n)
      BY <2>1, <2>3 DEF HolderOf, TypeOK
    <3>2. ASSUME NEW n, n = new PROVE \A v \in Workers : ~HolderOf(v, n)'
      BY <2>1, <2>3, <3>2 DEF HolderOf, PointerStillValid, TypeOK
    <3>3. \A v \in Workers : WantsWrite(v)' <=> WantsWrite(v)
      BY <2>1 DEF WantsWrite
    <3>4. \A n \in Nodes : HeldByHolders(n)'
      BY <2>2, <3>1, <3>3 DEF LockInv, HeldByHolders
    <3>5. ASSUME NEW n, n = new PROVE HeldByHolders(n)'
      BY <2>2, <3>2, <3>3, <3>5 DEF HeldByHolders
    <3>6. QED
      BY <2>3, <3>4, <3>5 DEF LockInv
  <2>12. QED
    BY <2>2, <2>4, <2>6, <2>7, <2>8, <2>10, <2>11
<1>8. ASSUME NEW w \in Workers, CreateLockFails(w) PROVE IInv'
  <2>1. pc[w] = "search" /\ pc' = [pc EXCEPT ![w] = "closed"]
    BY <1>8 DEF CreateLockFails, NotFound, Goto
  <2>2. /\ mutex' = mutex \ {w}
        /\ UNCHANGED <<request, manager, heap, list, curr, steps, lockNode>>
    BY <1>8 DEF CreateLockFails, UnlockMutex
  <2>3. TypeOK' /\ ListWellFormed' /\ OneLockPerPath' /\ PointerStillValid'
    BY <2>1, <2>2 DEF TypeOK, Labels, ListWellFormed, OneLockPerPath,
       PointerStillValid, Nodes, PathOf
  <2>4. MutexInv' /\ SearchInv'
    BY <2>1, <2>2 DEF TypeOK, MutexInv, SearchInv, PathOf
  <2>5. LockInv'
    BY <2>1, <2>2 DEF TypeOK, LockInv, HeldByHolders, HolderOf, WantsWrite, Nodes
  <2>6. QED
    BY <2>3, <2>4, <2>5
<1>9. ASSUME NEW w \in Workers, ReadLock(w) PROVE IInv'
  <2> DEFINE l == lockNode[w]
             R == heap[l].readers \cup {w}
             W == heap[l].writers
  <2>1. /\ pc[w] = "acquire" /\ pc' = [pc EXCEPT ![w] = "handle"]
        /\ heap[l].writers = {} /\ ~WantsWrite(w)
        /\ UNCHANGED <<request, manager, list, mutex, curr, steps, lockNode>>
    BY <1>9 DEF ReadLock, CanRead, WantsWrite, Exclusive, Goto
  <2>2. heap' = SetLock(heap, l, R, W)
    BY <1>9 DEF ReadLock
  <2>3. /\ l \in 1 .. Len(heap)
        /\ heap[l].filename = PathOf(w)
        /\ heap[l] \in Node
        /\ heap \in Seq(Node)
    BY <2>1 DEF PointerStillValid, TypeOK, Nodes
  <2>4. R \in SUBSET Workers /\ W \in SUBSET Workers
    BY <2>3 DEF Node
  <2>5. /\ heap' \in Seq(Node)
        /\ Len(heap') = Len(heap)
        /\ \A i \in 1 .. Len(heap) :
             /\ heap'[i].filename = heap[i].filename
             /\ heap'[i].next = heap[i].next
             /\ i # l => heap'[i] = heap[i]
             /\ i = l => heap'[i].readers = R /\ heap'[i].writers = W
    <3> HIDE DEF l, R, W
    <3> QED
      BY <2>2, <2>3, <2>4, SetLockFacts
  <2>6. TypeOK'
    BY <2>1, <2>5 DEF TypeOK, Labels
  <2>7. ListWellFormed'
    BY <2>1, <2>3, <2>5 DEF ListWellFormed, Nodes
  <2>8. OneLockPerPath' /\ PointerStillValid'
    BY <2>1, <2>5 DEF OneLockPerPath, PointerStillValid, PathOf, TypeOK, Nodes
  <2>9. MutexInv'
    BY <2>1 DEF MutexInv, TypeOK
  <2>10. SearchInv'
    BY <2>1, <2>3, <2>5 DEF SearchInv, PathOf, TypeOK
  <2>11. LockInv'
    <3>1. ASSUME NEW n \in Nodes, n # l PROVE \A v \in Workers :
            (HolderOf(v, n)' <=> HolderOf(v, n))
      BY <2>1, <3>1 DEF HolderOf, TypeOK
    <3>2. \A v \in Workers : HolderOf(v, l)' <=> HolderOf(v, l) \/ v = w
      BY <2>1 DEF HolderOf, TypeOK
    <3>3. \A v \in Workers : WantsWrite(v)' <=> WantsWrite(v)
      BY <2>1 DEF WantsWrite
    <3>4. ASSUME NEW n \in Nodes', n # l PROVE HeldByHolders(n)'
      BY <2>5, <3>1, <3>3, <3>4 DEF LockInv, HeldByHolders, Nodes
    <3>5. ASSUME NEW n \in Nodes', n = l PROVE HeldByHolders(n)'
      BY <2>1, <2>3, <2>5, <3>2, <3>3, <3>5 DEF LockInv, HeldByHolders, Nodes
    <3>6. QED
      BY <3>4, <3>5 DEF LockInv
  <2>12. QED
    BY <2>6, <2>7, <2>8, <2>9, <2>10, <2>11
<1>10. ASSUME NEW w \in Workers, WriteLock(w) PROVE IInv'
  <2> DEFINE l == lockNode[w]
             R == heap[l].readers
             W == heap[l].writers \cup {w}
  <2>1. /\ pc[w] = "acquire" /\ pc' = [pc EXCEPT ![w] = "handle"]
        /\ heap[l].readers = {} /\ heap[l].writers = {} /\ WantsWrite(w)
        /\ UNCHANGED <<request, manager, list, mutex, curr, steps, lockNode>>
    BY <1>10 DEF WriteLock, CanWrite, Goto
  <2>2. heap' = SetLock(heap, l, R, W)
    BY <1>10 DEF WriteLock
  <2>3. /\ l \in 1 .. Len(heap)
        /\ heap[l].filename = PathOf(w)
        /\ heap[l] \in Node
        /\ heap \in Seq(Node)
    BY <2>1 DEF PointerStillValid, TypeOK, Nodes
  <2>4. R \in SUBSET Workers /\ W \in SUBSET Workers
    BY <2>3 DEF Node
  <2>5. /\ heap' \in Seq(Node)
        /\ Len(heap') = Len(heap)
        /\ \A i \in 1 .. Len(heap) :
             /\ heap'[i].filename = heap[i].filename
             /\ heap'[i].next = heap[i].next
             /\ i # l => heap'[i] = heap[i]
             /\ i = l => heap'[i].readers = R /\ heap'[i].writers = W
    <3> HIDE DEF l, R, W
    <3> QED
      BY <2>2, <2>3, <2>4, SetLockFacts
  <2>6. TypeOK'
    BY <2>1, <2>5 DEF TypeOK, Labels
  <2>7. ListWellFormed'
    BY <2>1, <2>3, <2>5 DEF ListWellFormed, Nodes
  <2>8. OneLockPerPath' /\ PointerStillValid'
    BY <2>1, <2>5 DEF OneLockPerPath, PointerStillValid, PathOf, TypeOK, Nodes
  <2>9. MutexInv'
    BY <2>1 DEF MutexInv, TypeOK
  <2>10. SearchInv'
    BY <2>1, <2>3, <2>5 DEF SearchInv, PathOf, TypeOK
  <2>11. LockInv'
    <3>1. ASSUME NEW n \in Nodes, n # l PROVE \A v \in Workers :
            (HolderOf(v, n)' <=> HolderOf(v, n))
      BY <2>1, <3>1 DEF HolderOf, TypeOK
    <3>2. \A v \in Workers : HolderOf(v, l)' <=> HolderOf(v, l) \/ v = w
      BY <2>1 DEF HolderOf, TypeOK
    <3>3. \A v \in Workers : WantsWrite(v)' <=> WantsWrite(v)
      BY <2>1 DEF WantsWrite
    <3>4. ASSUME NEW n \in Nodes', n # l PROVE HeldByHolders(n)'
      BY <2>5, <3>1, <3>3, <3>4 DEF LockInv, HeldByHolders, Nodes
    <3>5. ASSUME NEW n \in Nodes', n = l PROVE HeldByHolders(n)'
      BY <2>1, <2>3, <2>5, <3>2, <3>3, <3>5 DEF LockInv, HeldByHolders, Nodes
    <3>6. QED
      BY <3>4, <3>5 DEF LockInv
  <2>12. QED
    BY <2>6, <2>7, <2>8, <2>9, <2>10, <2>11
<1>11. ASSUME NEW w \in Workers, AnswerLS(w) PROVE IInv'
  <2>1. pc[w] = "acquire" /\ pc' = [pc EXCEPT ![w] = "closed"]
    BY <1>11 DEF AnswerLS, Goto
  <2>2. UNCHANGED <<request, manager, heap, list, mutex, curr, steps, lockNode>>
    BY <1>11 DEF AnswerLS
  <2>3. TypeOK' /\ ListWellFormed' /\ OneLockPerPath' /\ PointerStillValid'
    BY <2>1, <2>2 DEF TypeOK, Labels, ListWellFormed, OneLockPerPath,
       PointerStillValid, Nodes, PathOf
  <2>4. MutexInv' /\ SearchInv'
    BY <2>1, <2>2 DEF TypeOK, MutexInv, SearchInv, PathOf
  <2>5. LockInv'
    BY <2>1, <2>2 DEF TypeOK, LockInv, HeldByHolders, HolderOf, WantsWrite, Nodes
  <2>6. QED
    BY <2>3, <2>4, <2>5
<1>12. ASSUME NEW w \in Workers, Unlock(w) PROVE IInv'
  <2> DEFINE l == lockNode[w]
             R == heap[l].readers \ {w}
             W == heap[l].writers \ {w}
  <2>1. /\ pc[w] = "handle" /\ pc' = [pc EXCEPT ![w] = "closed"]
        /\ UNCHANGED <<request, manager, list, mutex, curr, steps, lockNode>>
    BY <1>12 DEF Unlock, Goto
  <2>2. heap' = SetLock(heap, l, R, W)
    BY <1>12 DEF Unlock
  <2>3. /\ l \in 1 .. Len(heap)
        /\ heap[l].filename = PathOf(w)
        /\ heap[l] \in Node
        /\ heap \in Seq(Node)
    BY <2>1 DEF PointerStillValid, TypeOK, Nodes
  <2>4. R \in SUBSET Workers /\ W \in SUBSET Workers
    BY <2>3 DEF Node
  <2>5. /\ heap' \in Seq(Node)
        /\ Len(heap') = Len(heap)
        /\ \A i \in 1 .. Len(heap) :
             /\ heap'[i].filename = heap[i].filename
             /\ heap'[i].next = heap[i].next
             /\ i # l => heap'[i] = heap[i]
             /\ i = l => heap'[i].readers = R /\ heap'[i].writers = W
    <3> HIDE DEF l, R, W
    <3> QED
      BY <2>2, <2>3, <2>4, SetLockFacts
  <2>6. TypeOK'
    BY <2>1, <2>5 DEF TypeOK, Labels
  <2>7. ListWellFormed'
    BY <2>1, <2>3, <2>5 DEF ListWellFormed, Nodes
  <2>8. OneLockPerPath' /\ PointerStillValid'
    BY <2>1, <2>5 DEF OneLockPerPath, PointerStillValid, PathOf, TypeOK, Nodes
  <2>9. MutexInv'
    BY <2>1 DEF MutexInv, TypeOK
  <2>10. SearchInv'
    BY <2>1, <2>3, <2>5 DEF SearchInv, PathOf, TypeOK
  <2>11. LockInv'
    <3>1. ASSUME NEW n \in Nodes, n # l PROVE \A v \in Workers :
            (HolderOf(v, n)' <=> HolderOf(v, n))
      BY <2>1, <3>1 DEF HolderOf, TypeOK
    <3>2. \A v \in Workers : HolderOf(v, l)' <=> HolderOf(v, l) /\ v # w
      BY <2>1 DEF HolderOf, TypeOK
    <3>3. \A v \in Workers : WantsWrite(v)' <=> WantsWrite(v)
      BY <2>1 DEF WantsWrite
    <3>4. ASSUME NEW n \in Nodes', n # l PROVE HeldByHolders(n)'
      BY <2>5, <3>1, <3>3, <3>4 DEF LockInv, HeldByHolders, Nodes
    <3>5. ASSUME NEW n \in Nodes', n = l PROVE HeldByHolders(n)'
      BY <2>1, <2>3, <2>5, <3>2, <3>3, <3>5 DEF LockInv, HeldByHolders, Nodes
    <3>6. QED
      BY <3>4, <3>5 DEF LockInv
  <2>12. QED
    BY <2>6, <2>7, <2>8, <2>9, <2>10, <2>11
<1>13. CASE UNCHANGED vars
  BY <1>13 DEF vars, TypeOK, Labels, ListWellFormed, OneLockPerPath,
     PointerStillValid, MutexInv, SearchInv, LockInv, HeldByHolders, HolderOf, Nodes, PathOf,
     WantsWrite
<1>14. QED
  BY <1>1, <1>2, <1>3, <1>4, <1>5, <1>6, <1>7, <1>8, <1>9, <1>10, <1>11,
     <1>12, <1>13 DEF Next, WorkerStep, Idle

(***************************************************************************)
(* The inductive invariant holds in every reachable state.                 *)
(***************************************************************************)
THEOREM Invariance == Spec => []IInv
  BY InitInv, StepInv, PTL DEF Spec

(***************************************************************************)
(* Every variable keeps its type.                                          *)
(***************************************************************************)
THEOREM TypeCorrect == Spec => []TypeOK
<1>1. IInv => TypeOK
  BY DEF IInv
<1>2. QED
  BY <1>1, Invariance, PTL

(***************************************************************************)
(* Threads inside the handlers of one path chose one node: the node is     *)
(* unique for the path, and their pointers still lead to it.               *)
(***************************************************************************)
LEMMA SamePathSameNode ==
  ASSUME IInv, NEW v \in Workers, NEW w \in Workers,
         pc[v] \in {"acquire", "handle"}, pc[w] \in {"acquire", "handle"},
         PathOf(v) = PathOf(w)
  PROVE  lockNode[v] = lockNode[w] /\ lockNode[w] \in Nodes
  BY DEF IInv, PointerStillValid, OneLockPerPath

(***************************************************************************)
(* Two threads in the handlers of one path at the same time are both       *)
(* readers, for any number of threads and of paths.                        *)
(***************************************************************************)
THEOREM PathsExcluded == Spec => []PathExclusion
<1>1. IInv => PathExclusion
  <2> SUFFICES ASSUME IInv, NEW v \in Workers, NEW w \in Workers, v # w,
                      pc[v] = "handle", pc[w] = "handle", PathOf(v) = PathOf(w)
               PROVE  ~WantsWrite(v) /\ ~WantsWrite(w)
    BY DEF PathExclusion
  <2>1. lockNode[v] = lockNode[w] /\ lockNode[w] \in Nodes
    BY SamePathSameNode
  <2>2. HolderOf(v, lockNode[w]) /\ HolderOf(w, lockNode[w])
    BY <2>1 DEF HolderOf
  <2>3. QED
    BY <2>1, <2>2 DEF IInv, LockInv, HeldByHolders
<1>2. QED
  BY <1>1, Invariance, PTL

(***************************************************************************)
(* The linked list is well formed whenever a searcher can look: it holds   *)
(* exactly the allocated nodes, in order (thread_manager.c:175-199).       *)
(***************************************************************************)
THEOREM ListCorrect == Spec => []ListWellFormed
<1>1. IInv => ListWellFormed
  BY DEF IInv
<1>2. QED
  BY <1>1, Invariance, PTL

(***************************************************************************)
(* No interleaving of searches and insertions gives a path a second node   *)
(* (thread_manager.c:207-224).                                             *)
(***************************************************************************)
THEOREM LocksAreUnique == Spec => []OneLockPerPath
<1>1. IInv => OneLockPerPath
  BY DEF IInv
<1>2. QED
  BY <1>1, Invariance, PTL

(***************************************************************************)
(* A thread waits for, and releases, a lock of its own path, although it   *)
(* uses the pointer after the mutex is gone (thread_manager.c:60, 70-93).  *)
(***************************************************************************)
THEOREM PointersStayValid == Spec => []PointerStillValid
<1>1. IInv => PointerStillValid
  BY DEF IInv
<1>2. QED
  BY <1>1, Invariance, PTL

-----------------------------------------------------------------------------
(***************************************************************************)
(* The refinement of RWLockTable.  A step after which the same threads are *)
(* inside their handlers stutters in the table.                            *)
(***************************************************************************)
InHandler(w) == pc[w] = "handle"

LEMMA TableStutters ==
  ASSUME request' = request, \A v \in Workers : InHandler(v)' <=> InHandler(v)
  PROVE  UNCHANGED Table!lockVars
<1>1. \A v \in Workers, p \in Paths : Handling(v, p)' <=> Handling(v, p)
  BY DEF Handling, InHandler, PathOf
<1>2. \A v \in Workers : WantsWrite(v)' <=> WantsWrite(v)
  BY DEF WantsWrite
<1>3. QED
  BY <1>1, <1>2 DEF Table!lockVars, ReadersOf, WritersOf

(***************************************************************************)
(* Taking the lock of a node is taking the lock of its path in the table.  *)
(***************************************************************************)
LEMMA ReadLockRefines ==
  ASSUME IInv, NEW w \in Workers, ReadLock(w)
  PROVE  Table!AcquireRead(w, PathOf(w))
<1>1. /\ pc[w] = "acquire" /\ pc' = [pc EXCEPT ![w] = "handle"]
      /\ request' = request
      /\ heap[lockNode[w]].writers = {}
      /\ ~WantsWrite(w)
  BY DEF ReadLock, CanRead, Goto, WantsWrite, Exclusive
<1>2. PathOf(w) \in Paths /\ pc \in [Workers -> Labels]
  BY DEF IInv, TypeOK, PathOf, Request
<1>3. \A v \in Workers, p \in Paths :
        Handling(v, p)' <=> Handling(v, p) \/ (v = w /\ p = PathOf(w))
  BY <1>1, <1>2 DEF Handling, PathOf
<1>4. \A v \in Workers : WantsWrite(v)' <=> WantsWrite(v)
  BY <1>1 DEF WantsWrite
<1>5. \A v \in Workers : ~(Handling(v, PathOf(w)) /\ WantsWrite(v))
  <2> SUFFICES ASSUME NEW v \in Workers, Handling(v, PathOf(w)), WantsWrite(v)
               PROVE  FALSE
    OBVIOUS
  <2>1. lockNode[v] = lockNode[w] /\ lockNode[w] \in Nodes
    BY <1>1, SamePathSameNode DEF Handling
  <2>2. v \in heap[lockNode[w]].writers
    BY <2>1 DEF IInv, LockInv, HeldByHolders, HolderOf, Handling
  <2>3. QED
    BY <1>1, <2>2
<1>6. \A p \in Paths : ~Handling(w, p)
  BY <1>1 DEF Handling
<1>7. \A p \in Paths :
        /\ ReadersOf(p)' = IF p = PathOf(w) THEN ReadersOf(p) \cup {w} ELSE ReadersOf(p)
        /\ WritersOf(p)' = WritersOf(p)
  BY <1>1, <1>3, <1>4 DEF ReadersOf, WritersOf
<1>8. WritersOf(PathOf(w)) = {}
  BY <1>5 DEF ReadersOf, WritersOf
<1>9. \A p \in Paths : w \notin ReadersOf(p) \cup WritersOf(p)
  BY <1>6 DEF ReadersOf, WritersOf
<1>10. QED
  BY <1>2, <1>7, <1>8, <1>9
     DEF Table!AcquireRead, Table!HoldsNothing, Table!Holds

LEMMA WriteLockRefines ==
  ASSUME IInv, NEW w \in Workers, WriteLock(w)
  PROVE  Table!AcquireWrite(w, PathOf(w))
<1>1. /\ pc[w] = "acquire" /\ pc' = [pc EXCEPT ![w] = "handle"]
      /\ request' = request
      /\ heap[lockNode[w]].readers = {} /\ heap[lockNode[w]].writers = {}
      /\ WantsWrite(w)
  BY DEF WriteLock, CanWrite, Goto
<1>2. PathOf(w) \in Paths /\ pc \in [Workers -> Labels]
  BY DEF IInv, TypeOK, PathOf, Request
<1>3. \A v \in Workers, p \in Paths :
        Handling(v, p)' <=> Handling(v, p) \/ (v = w /\ p = PathOf(w))
  BY <1>1, <1>2 DEF Handling, PathOf
<1>4. \A v \in Workers : WantsWrite(v)' <=> WantsWrite(v)
  BY <1>1 DEF WantsWrite
<1>5. \A v \in Workers : ~Handling(v, PathOf(w))
  <2> SUFFICES ASSUME NEW v \in Workers, Handling(v, PathOf(w)) PROVE FALSE
    OBVIOUS
  <2>1. lockNode[v] = lockNode[w] /\ lockNode[w] \in Nodes
    BY <1>1, SamePathSameNode DEF Handling
  <2>2. v \in heap[lockNode[w]].readers \cup heap[lockNode[w]].writers
    BY <2>1 DEF IInv, LockInv, HeldByHolders, HolderOf, Handling
  <2>3. QED
    BY <1>1, <2>2
<1>6. \A p \in Paths : ~Handling(w, p)
  BY <1>1 DEF Handling
<1>7. \A p \in Paths :
        /\ WritersOf(p)' = IF p = PathOf(w) THEN WritersOf(p) \cup {w} ELSE WritersOf(p)
        /\ ReadersOf(p)' = ReadersOf(p)
  BY <1>1, <1>3, <1>4 DEF ReadersOf, WritersOf
<1>8. ReadersOf(PathOf(w)) = {} /\ WritersOf(PathOf(w)) = {}
  BY <1>5 DEF ReadersOf, WritersOf
<1>9. \A p \in Paths : w \notin ReadersOf(p) \cup WritersOf(p)
  BY <1>6 DEF ReadersOf, WritersOf
<1>10. QED
  BY <1>2, <1>7, <1>8, <1>9
     DEF Table!AcquireWrite, Table!HoldsNothing, Table!Holds

LEMMA UnlockRefines ==
  ASSUME IInv, NEW w \in Workers, Unlock(w)
  PROVE  Table!Release(w, PathOf(w))
<1>1. /\ pc[w] = "handle" /\ pc' = [pc EXCEPT ![w] = "closed"]
      /\ request' = request
  BY DEF Unlock, Goto
<1>2. PathOf(w) \in Paths /\ pc \in [Workers -> Labels]
  BY DEF IInv, TypeOK, PathOf, Request
<1>3. \A v \in Workers, p \in Paths :
        Handling(v, p)' <=> Handling(v, p) /\ ~(v = w /\ p = PathOf(w))
  BY <1>1, <1>2 DEF Handling, PathOf
<1>4. \A v \in Workers : WantsWrite(v)' <=> WantsWrite(v)
  BY <1>1 DEF WantsWrite
<1>5. Handling(w, PathOf(w))
  BY <1>1 DEF Handling
<1>6. QED
  BY <1>1, <1>2, <1>3, <1>4, <1>5
     DEF Table!Release, Table!Holds, ReadersOf, WritersOf

(***************************************************************************)
(* The linked list of locks under its mutex implements the lock table:     *)
(* handlers can be designed, and are modelled, against the table.          *)
(***************************************************************************)
THEOREM ImplementsLockTable == Spec => ImplementsTable
<1>1. Init => Table!Init
  BY DEF Init, Table!Init, Handling, ReadersOf, WritersOf
<1>2. IInv /\ [Next]_vars => [Table!Next]_(Table!lockVars)
  <2> SUFFICES ASSUME IInv, [Next]_vars
               PROVE  Table!Next \/ UNCHANGED Table!lockVars
    OBVIOUS
  <2>1. ASSUME NEW w \in Workers,
               \/ ReceiveRequest(w) \/ ReceiveFails(w) \/ NoManager(w)
               \/ LockMutex(w) \/ SearchNext(w) \/ SearchHit(w) \/ AddLock(w)
               \/ CreateLockFails(w) \/ AnswerLS(w)
        PROVE  UNCHANGED Table!lockVars
    <3>1. /\ request' = request
          /\ \/ pc' = pc
             \/ /\ pc[w] # "handle"
                /\ \E label \in Labels \ {"handle"} : pc' = [pc EXCEPT ![w] = label]
      BY <2>1 DEF ReceiveRequest, ReceiveFails, NoManager, LockMutex, SearchNext,
         SearchHit, Searching, AddLock, CreateLockFails, NotFound, AnswerLS, Goto,
         Labels
    <3>2. \A v \in Workers : InHandler(v)' <=> InHandler(v)
      BY <3>1 DEF IInv, TypeOK, InHandler
    <3>3. QED
      BY <3>1, <3>2, TableStutters
  <2>2. ASSUME NEW w \in Workers PROVE PathOf(w) \in Paths
    BY DEF IInv, TypeOK, PathOf, Request
  <2>3. ASSUME NEW w \in Workers, ReadLock(w) PROVE Table!Next
    BY <2>2, <2>3, ReadLockRefines DEF Table!Next
  <2>4. ASSUME NEW w \in Workers, WriteLock(w) PROVE Table!Next
    BY <2>2, <2>4, WriteLockRefines DEF Table!Next
  <2>5. ASSUME NEW w \in Workers, Unlock(w) PROVE Table!Next
    BY <2>2, <2>5, UnlockRefines DEF Table!Next
  <2>6. CASE UNCHANGED vars
    BY <2>6, TableStutters DEF vars, InHandler
  <2>7. QED
    BY <2>1, <2>3, <2>4, <2>5, <2>6 DEF Next, WorkerStep, Idle
<1>3. QED
  BY <1>1, <1>2, Invariance, PTL DEF Spec, ImplementsTable, Table!Spec
=============================================================================
