--------------------------- MODULE AcceptorProofs ---------------------------
(***************************************************************************)
(* Proofs about Acceptor, for any number of clients, descriptors and       *)
(* blocks and any backlog: AcceptorInv is inductive, and implies the       *)
(* safety properties of the server's main loop.                            *)
(***************************************************************************)
EXTENDS AcceptorInvariant, SequenceTheorems, WellFoundedInduction, TLAPS

(***************************************************************************)
(* A set of numbers that is not empty has a lowest one.                    *)
(***************************************************************************)
LEMMA LowestFacts ==
  ASSUME NEW S \in SUBSET Nat, S # {}
  PROVE  Lowest(S) \in S
<1> DEFINE Less == OpToRel(<, Nat)
<1>1. PICK x \in S : \A y \in S : <<y, x>> \notin Less
  <2>1. IsWellFoundedOn(Less, Nat)
    BY NatLessThanWellFounded, Zenon
  <2> HIDE DEF Less
  <2>2. QED
    BY <2>1, WFMin
<1>2. \A y \in S : ~(y < x)
  BY <1>1, Zenon DEF OpToRel
<1> HIDE DEF Less
<1>3. \A y \in S : x <= y
  BY <1>2
<1>4. QED
  BY <1>3 DEF Lowest

LEMMA FreeFacts ==
  /\ FreeBlocks # {} => Lowest(FreeBlocks) \in Blocks /\ heap[Lowest(FreeBlocks)].use = "free"
  /\ FreeDescriptors # {} =>
       Lowest(FreeDescriptors) \in Descriptors /\ fds[Lowest(FreeDescriptors)] = None
<1>1. FreeBlocks \in SUBSET Nat /\ FreeDescriptors \in SUBSET Nat
  BY AcceptorAssumption DEF FreeBlocks, FreeDescriptors
<1>2. /\ FreeBlocks # {} => Lowest(FreeBlocks) \in FreeBlocks
      /\ FreeDescriptors # {} => Lowest(FreeDescriptors) \in FreeDescriptors
  BY <1>1, LowestFacts
<1>3. QED
  BY <1>2 DEF FreeBlocks, FreeDescriptors

LEMMA DescriptorOfFacts ==
  ASSUME NEW c, IsOpen(c)
  PROVE  DescriptorOf(c) \in Descriptors /\ fds[DescriptorOf(c)] = c
  BY DEF IsOpen, DescriptorOf

(***************************************************************************)
(* Who is in the queue after an arrival, and after accept.                 *)
(***************************************************************************)
LEMMA ArrivalFacts ==
  ASSUME NEW S, NEW q \in Seq(S), NEW c \in S
  PROVE  /\ ToSet(Append(q, c)) = ToSet(q) \cup {c}
         /\ \A i \in 1 .. Len(q) : Append(q, c)[i] = q[i] /\ q[i] \in ToSet(q)
         /\ Append(q, c)[Len(q) + 1] = c
         /\ Len(Append(q, c)) = Len(q) + 1
         /\ Append(q, c) \in Seq(S)
<1>1. /\ \A i \in 1 .. Len(q) : Append(q, c)[i] = q[i]
      /\ Append(q, c)[Len(q) + 1] = c
      /\ Len(Append(q, c)) = Len(q) + 1
      /\ Append(q, c) \in Seq(S)
  BY AppendProperties
<1>2. DOMAIN q = 1 .. Len(q) /\ DOMAIN Append(q, c) = 1 .. Len(q) + 1 /\ Len(q) \in Nat
  BY <1>1, LenProperties
<1>3. 1 .. Len(q) + 1 = (1 .. Len(q)) \cup {Len(q) + 1}
  BY <1>2
<1>4. QED
  BY <1>1, <1>2, <1>3 DEF ToSet

LEMMA DepartureFacts ==
  ASSUME NEW S, NEW q \in Seq(S), q # <<>>
  PROVE  /\ Head(q) \in S /\ Head(q) = q[1] /\ Head(q) \in ToSet(q)
         /\ Tail(q) \in Seq(S) /\ Len(Tail(q)) = Len(q) - 1 /\ Len(q) \in Nat
         /\ \A i \in 1 .. Len(q) - 1 : Tail(q)[i] = q[i + 1] /\ i + 1 \in 1 .. Len(q)
         /\ \A c \in ToSet(Tail(q)) : \E i \in 1 .. Len(q) : c = q[i] /\ i # 1
         /\ 1 \in 1 .. Len(q)
<1>1. Len(q) \in Nat /\ Len(q) # 0 /\ DOMAIN q = 1 .. Len(q)
  BY EmptySeq, LenProperties
<1>2. Head(q) \in S /\ Tail(q) \in Seq(S) /\ Len(Tail(q)) = Len(q) - 1
  BY HeadTailProperties
<1>3. Head(q) = q[1] /\ 1 \in 1 .. Len(q)
  BY <1>1
<1>4. \A i \in 1 .. Len(q) - 1 : Tail(q)[i] = q[i + 1] /\ i + 1 \in 1 .. Len(q)
  BY <1>1
<1>5. DOMAIN Tail(q) = 1 .. Len(q) - 1
  BY <1>2, LenProperties
<1>6. ASSUME NEW c \in ToSet(Tail(q))
      PROVE  \E i \in 1 .. Len(q) : c = q[i] /\ i # 1
  <2>1. PICK i \in 1 .. Len(q) - 1 : c = Tail(q)[i]
    BY <1>5 DEF ToSet
  <2>2. c = q[i + 1] /\ i + 1 \in 1 .. Len(q) /\ i + 1 # 1
    BY <1>4, <2>1
  <2>3. QED
    BY <2>2
<1>7. QED
  BY <1>1, <1>2, <1>3, <1>4, <1>6 DEF ToSet

(***************************************************************************)
(* The end of the process leaves nothing that could be mistaken.           *)
(***************************************************************************)
LEMMA EndStep ==
  ASSUME AcceptorInv, ProcessEnds
  PROVE  AcceptorInv'
<1> USE AcceptorAssumption DEF AcceptorInv, ProcessEnds, Forgotten, GoMain
<1>1. queue' \in Seq(Clients) /\ Len(queue') = 0 /\ ToSet(queue') = {}
  BY EmptySeq DEF ToSet
<1>2. \A c \in Clients : thread'[c] \in {"none", "ended"}
  BY DEF At
<1>3. TypeOK'
  <2>1. queue' \in Seq(Clients) /\ Len(queue') <= Backlog
    BY <1>1
  <2>2. thread' \in [Clients -> Labels] /\ \A c \in Clients : ~Using(c)'
    BY <1>2 DEF Labels, Using, At
  <2>3. heap' \in [Blocks -> [use : {"free", "args", "request"}, socket : Descriptors \cup {0},
                              id : Clients \cup {None}]]
    BY DEF FreeBlock
  <2>4. QED
    BY <2>1, <2>2, <2>3 DEF TypeOK
<1>4. \A c \in Clients : ~Live(c)' /\ ~Using(c)' /\ ~At(c, "start")' /\ ~At(c, "free")'
  BY <1>2 DEF Live, Using, At
<1>5. ClientInv'
  BY DEF ClientInv, MainAt
<1>6. QueueInv'
  BY <1>1 DEF QueueInv, Queued
<1>7. DescriptorInv' /\ EveryDescriptorOwned'
  BY DEF DescriptorInv, EveryDescriptorOwned
<1>8. OwnSocket' /\ ArgsIntact'
  BY <1>4 DEF OwnSocket, ArgsIntact
<1>9. ArgsInv' /\ RequestsInv'
  BY <1>2, <1>4 DEF ArgsInv, RequestsInv, MainAt
<1>10. QED
  BY <1>3, <1>5, <1>6, <1>7, <1>8, <1>9

(***************************************************************************)
(* The arrival and the reset of a connection.                              *)
(***************************************************************************)
LEMMA ConnectStep ==
  ASSUME AcceptorInv, NEW c \in Clients, Connect(c)
  PROVE  AcceptorInv'
<1> USE AcceptorAssumption DEF AcceptorInv, Connect
<1>1. UNCHANGED <<aborted, fds, files, answered, main, lockList, client, created, thread, socket, args,
                  request, heap>>
  BY DEF mains, threads
<1>2. queue \in Seq(Clients) /\ Len(queue) \in Nat /\ ~HasConnected(c)
  BY DEF TypeOK
<1>3. /\ queue' \in Seq(Clients) /\ Len(queue') = Len(queue) + 1
      /\ ToSet(queue') = ToSet(queue) \cup {c}
      /\ \A i \in 1 .. Len(queue) : queue'[i] = queue[i] /\ queue[i] \in ToSet(queue)
      /\ queue'[Len(queue) + 1] = c
  BY <1>2, ArrivalFacts
<1>4. TypeOK'
  BY <1>1, <1>2, <1>3 DEF TypeOK, Using
<1>5. At(c, "none") /\ c \notin ToSet(queue) /\ c # client
  BY <1>2 DEF HasConnected
<1>6. ~IsOpen(c)
  BY <1>5 DEF IsOpen, EveryDescriptorOwned, Using, At, None
<1>7. QueueInv'
  <2>1. \A i, j \in 1 .. Len(queue) + 1 : queue'[i] = queue'[j] => i = j
    <3>1. \A i \in 1 .. Len(queue) + 1 : i \in 1 .. Len(queue) \/ i = Len(queue) + 1
      BY <1>2
    <3>2. QED
      BY <1>3, <1>5, <3>1 DEF QueueInv
  <2>2. \A o \in Clients : Queued(o)' => At(o, "none") /\ o # client /\ ~IsOpen(o)
    BY <1>3, <1>5, <1>6 DEF QueueInv, Queued
  <2>3. QED
    BY <1>1, <1>3, <2>1, <2>2 DEF QueueInv, At, IsOpen
<1>8. ClientInv' /\ DescriptorInv' /\ OwnSocket' /\ EveryDescriptorOwned'
  BY <1>1 DEF ClientInv, DescriptorInv, OwnSocket, EveryDescriptorOwned, MainAt, At, IsOpen, Using
<1>9. ArgsInv' /\ ArgsIntact' /\ RequestsInv'
  BY <1>1 DEF ArgsInv, ArgsIntact, RequestsInv, MainAt, At, Live, Using
<1>10. QED
  BY <1>4, <1>7, <1>8, <1>9

\* What mentions neither who has reset or was answered nor the files.
LEMMA StutterStep ==
  ASSUME AcceptorInv, aborted' \subseteq Clients, answered' \subseteq Clients,
         files' \in [Clients -> SUBSET Descriptors],
         UNCHANGED <<queue, fds, main, lockList, client, created, thread, socket, args, request, heap>>
  PROVE  AcceptorInv'
<1> USE DEF AcceptorInv
<1>1. TypeOK'
  BY DEF TypeOK, Using
<1>2. /\ ClientInv' /\ DescriptorInv' /\ OwnSocket' /\ EveryDescriptorOwned' /\ ArgsInv'
      /\ ArgsIntact' /\ RequestsInv' /\ QueueInv'
  BY DEF ClientInv, QueueInv, Queued, DescriptorInv, OwnSocket, EveryDescriptorOwned, ArgsInv,
         ArgsIntact, RequestsInv, MainAt, At, IsOpen, Live, Using
<1>3. QED
  BY <1>1, <1>2

-----------------------------------------------------------------------------
(* The steps of main *)

LEMMA SetupStep ==
  ASSUME AcceptorInv, Setup
  PROVE  AcceptorInv'
<1> USE DEF AcceptorInv, Setup, connections, threads, GoMain, MainAt
<1>1. TypeOK'
  BY DEF TypeOK, Using
<1>2. /\ DescriptorInv' /\ OwnSocket' /\ ArgsIntact' /\ RequestsInv' /\ QueueInv'
  BY DEF QueueInv, Queued, DescriptorInv, OwnSocket, ArgsIntact, RequestsInv, At, IsOpen, Using
<1>3. ClientInv' /\ ArgsInv' /\ EveryDescriptorOwned'
  BY DEF ClientInv, EveryDescriptorOwned, ArgsInv, At, Live, Using
<1>4. QED
  BY <1>1, <1>2, <1>3

LEMMA AcceptStep ==
  ASSUME AcceptorInv, Accept
  PROVE  AcceptorInv'
<1> USE AcceptorAssumption DEF AcceptorInv, Accept, GoMain, MainAt
<1> DEFINE c == Head(queue)
           d == Lowest(FreeDescriptors)
<1>1. UNCHANGED <<files, aborted, answered, lockList, created, thread, socket, args, request, heap>>
  BY DEF threads
<1>2. queue \in Seq(Clients) /\ queue # <<>> /\ Backlog \in Nat
  BY DEF TypeOK
<1>3. /\ c \in Clients /\ c = queue[1] /\ Queued(c) /\ 1 \in 1 .. Len(queue)
      /\ queue' \in Seq(Clients) /\ Len(queue') = Len(queue) - 1 /\ Len(queue) \in Nat
      /\ \A i \in 1 .. Len(queue) - 1 : queue'[i] = queue[i + 1] /\ i + 1 \in 1 .. Len(queue)
      /\ \A o : Queued(o)' => \E i \in 1 .. Len(queue) : o = queue[i] /\ i # 1
  BY <1>2, DepartureFacts DEF Queued
<1>4. d \in Descriptors /\ fds[d] = None
  BY FreeFacts
<1>5. client' = c /\ main' = "create" /\ c # None /\ client = None /\ main = "accept"
  BY <1>3 DEF ClientInv, None
<1>6. At(c, "none") /\ ~IsOpen(c)
  BY <1>3 DEF QueueInv
<1> HIDE DEF c, d
<1>7. fds' = [fds EXCEPT ![d] = c] /\ fds \in [Descriptors -> Clients \cup {None}]
  BY DEF c, d, TypeOK
<1>8. TypeOK'
  <2>1. fds' \in [Descriptors -> Clients \cup {None}]
    BY <1>3, <1>4, <1>7
  <2>2. Len(queue') <= Backlog
    BY <1>2, <1>3 DEF TypeOK
  <2>3. QED
    BY <1>1, <1>3, <1>5, <2>1, <2>2 DEF TypeOK, Using
<1>9. fds'[d] = c /\ \A e \in Descriptors \ {d} : fds'[e] = fds[e]
  BY <1>4, <1>7
<1>10. ClientInv'
  BY <1>1, <1>4, <1>5, <1>6, <1>9 DEF ClientInv, At, IsOpen
<1>11. QueueInv'
  <2>1. \A i, j \in 1 .. Len(queue) - 1 : queue'[i] = queue'[j] => i + 1 = j + 1
    BY <1>3 DEF QueueInv
  <2>2. \A i, j \in 1 .. Len(queue') : queue'[i] = queue'[j] => i = j
    BY <1>3, <2>1
  <2>3. \A o : Queued(o)' => Queued(o) /\ o # c
    <3>1. SUFFICES ASSUME NEW o, Queued(o)' PROVE Queued(o) /\ o # c
      OBVIOUS
    <3>2. PICK i \in 1 .. Len(queue) : o = queue[i] /\ i # 1
      BY <1>3, <3>1
    <3>3. Queued(o)
      BY <1>2, <3>2, LenProperties DEF Queued, ToSet
    <3>4. o # c
      BY <1>3, <3>2 DEF QueueInv
    <3>5. QED
      BY <3>3, <3>4
  <2>4. \A o \in Clients : Queued(o)' => At(o, "none")' /\ o # client' /\ ~IsOpen(o)'
    BY <1>1, <1>4, <1>5, <1>9, <2>3 DEF QueueInv, At, IsOpen
  <2>5. QED
    BY <2>2, <2>4 DEF QueueInv
<1>12. DescriptorInv'
  BY <1>6, <1>9 DEF DescriptorInv, IsOpen
<1>13. \A o \in Clients : ~At(o, "none") => \A e \in Descriptors : fds[e] = o => fds'[e] = o
  BY <1>4, <1>9 DEF None
<1>14. OwnSocket'
  <2>1. \A o \in Clients : Using(o) => ~At(o, "none") /\ socket[o] \in Descriptors
    BY DEF Using, At, TypeOK
  <2>2. QED
    BY <1>1, <1>13, <2>1 DEF OwnSocket, Using
<1>15. EveryDescriptorOwned'
  BY <1>1, <1>5, <1>9 DEF EveryDescriptorOwned, At, Using
<1>16. ArgsInv' /\ RequestsInv'
  BY <1>1, <1>5 DEF ArgsInv, RequestsInv, At, Live, Using
<1>17. ArgsIntact'
  <2>1. \A o \in Clients : At(o, "start") => ~At(o, "none") /\ heap[args[o]].socket \in Descriptors
    BY DEF At, ArgsInv
  <2>2. \A o \in Clients : At(o, "start") => fds'[heap[args[o]].socket] = o
    BY <1>13, <2>1 DEF ArgsIntact
  <2>3. QED
    BY <1>1, <2>2 DEF ArgsIntact, At, Using
<1>18. QED
  BY <1>8, <1>10, <1>11, <1>12, <1>14, <1>15, <1>16, <1>17

LEMMA CreateStep ==
  ASSUME AcceptorInv, CreateThread
  PROVE  AcceptorInv'
<1> USE AcceptorAssumption DEF AcceptorInv, CreateThread
<1> DEFINE b == Lowest(FreeBlocks)
           d == DescriptorOf(client)
<1>1. UNCHANGED <<queue, aborted, fds, files, answered, lockList, client, socket, request>>
  BY DEF connections
<1>2. main = "create" /\ main' = "note" /\ client \in Clients /\ IsOpen(client)
      /\ At(client, "none")
  BY DEF MainAt, GoMain, ClientInv, TypeOK, None
<1>3. b \in Blocks /\ heap[b].use = "free"
  BY FreeFacts
<1>4. d \in Descriptors /\ fds[d] = client
  BY <1>2, DescriptorOfFacts
<1> HIDE DEF b, d
<1>5. /\ heap' = [heap EXCEPT ![b] = [use |-> "args", socket |-> d, id |-> None]]
      /\ args' = [args EXCEPT ![client] = b]
      /\ \/ created' = TRUE /\ Goto(client, "start")
         \/ created' = FALSE /\ UNCHANGED thread
  BY DEF b, d
<1>6. /\ heap'[b] = [use |-> "args", socket |-> d, id |-> None]
      /\ \A x \in Blocks \ {b} : heap'[x] = heap[x]
      /\ args'[client] = b
      /\ \A o \in Clients \ {client} : args'[o] = args[o]
  BY <1>2, <1>3, <1>5 DEF TypeOK
<1>7. /\ \A o \in Clients \ {client} : thread'[o] = thread[o]
      /\ thread' \in [Clients -> Labels]
      /\ \/ created' = TRUE /\ thread'[client] = "start"
         \/ created' = FALSE /\ thread'[client] = "none"
  <2>1. thread \in [Clients -> Labels] /\ thread[client] = "none" /\ client \in Clients
    BY <1>2 DEF TypeOK, At
  <2>2. CASE created' = TRUE /\ thread' = [thread EXCEPT ![client] = "start"]
    BY <2>1, <2>2 DEF Labels
  <2>3. CASE created' = FALSE /\ thread' = thread
    BY <2>1, <2>3
  <2>4. QED
    BY <1>5, <2>2, <2>3 DEF Goto
<1>8. \A o \in Clients \ {client} :
        /\ Live(o)' <=> Live(o)
        /\ Using(o)' <=> Using(o)
        /\ Live(o) => args[o] \in Blocks \ {b}
  BY <1>3, <1>7 DEF Live, Using, At, ArgsIntact, ArgsInv
<1>9. ~Using(client)'
  BY <1>7 DEF Using
<1>10. TypeOK'
  <2>1. heap' \in [Blocks -> [use : {"free", "args", "request"}, socket : Descriptors \cup {0},
                               id : Clients \cup {None}]]
    BY <1>3, <1>4, <1>5 DEF TypeOK
  <2>2. \A o \in Clients : Using(o)' => socket'[o] \in Descriptors
    BY <1>1, <1>8, <1>9 DEF TypeOK
  <2>3. args' \in [Clients -> Blocks \cup {0}] /\ created' \in BOOLEAN
    <3>1. args \in [Clients -> Blocks \cup {0}]
      BY DEF TypeOK
    <3>2. args' \in [Clients -> Blocks \cup {0}]
      BY <1>2, <1>3, <1>5, <3>1
    <3>3. created' \in BOOLEAN
      BY <1>7
    <3>4. QED
      BY <3>2, <3>3
  <2>4. QED
    BY <1>1, <1>2, <1>7, <2>1, <2>2, <2>3 DEF TypeOK
<1>11. ClientInv'
  BY <1>1, <1>2, <1>7 DEF ClientInv, MainAt, At, IsOpen, None
<1>12. QueueInv'
  BY <1>1, <1>7 DEF QueueInv, Queued, At, IsOpen
<1>13. DescriptorInv' /\ OwnSocket'
  BY <1>1, <1>8, <1>9 DEF DescriptorInv, OwnSocket
<1>14. EveryDescriptorOwned'
  <2>1. \A o \in Clients \ {client} : At(o, "start") => At(o, "start")'
    BY <1>7 DEF At
  <2>2. ASSUME NEW e \in Descriptors, fds[e] # None
        PROVE  \/ client' = fds[e] /\ (MainAt("note")' => ~created')
               \/ At(fds[e], "start")' \/ Using(fds[e])'
    <3>1. PICK o \in Clients : o = fds[e]
      BY <2>2 DEF TypeOK
    <3>2. CASE o = client
      <4>1. created' => At(o, "start")'
        BY <1>7, <3>2 DEF At
      <4>2. QED
        BY <1>1, <3>1, <3>2, <4>1
    <3>3. CASE o # client
      <4>1. At(o, "start") \/ Using(o)
        BY <2>2, <3>1, <3>3 DEF EveryDescriptorOwned
      <4>2. At(o, "start")' \/ Using(o)'
        BY <1>8, <2>1, <3>3, <4>1
      <4>3. QED
        BY <1>1, <3>1, <4>2
    <3>4. QED
      BY <3>2, <3>3
  <2>3. QED
    BY <1>1, <2>2 DEF EveryDescriptorOwned
<1>15. ArgsInv'
  <2>1. \A o \in Clients \ {client} : At(o, "start")' => At(o, "start") /\ Live(o)
    BY <1>7 DEF At, Live
  <2>2. \A o \in Clients : Live(o)' => args'[o] \in Blocks
    BY <1>3, <1>6, <1>8
  <2>3. ASSUME NEW o \in Clients, At(o, "start")'
        PROVE  heap'[args'[o]].socket \in Descriptors
    <3>1. CASE o = client
      BY <1>4, <1>6, <3>1
    <3>2. CASE o # client
      <4>1. At(o, "start") /\ args'[o] = args[o] /\ heap'[args[o]] = heap[args[o]]
        BY <1>6, <1>8, <2>1, <2>3, <3>2
      <4>2. QED
        BY <4>1 DEF ArgsInv
    <3>3. QED
      BY <3>1, <3>2
  <2>6. ASSUME NEW o \in Clients, At(o, "none")', args'[o] # 0
        PROVE  heap'[args'[o]].use = "args"
    <3>1. CASE o = client
      BY <1>6, <3>1
    <3>2. CASE o # client
      <4>1. At(o, "none") /\ args'[o] = args[o] /\ args[o] # 0
        BY <1>6, <1>7, <2>6, <3>2 DEF At
      <4>2. heap[args[o]].use = "args" /\ args[o] \in Blocks
        BY <4>1 DEF ArgsInv, TypeOK
      <4>3. QED
        BY <1>3, <1>6, <4>1, <4>2
    <3>3. QED
      BY <3>1, <3>2
  <2>4. \A o \in Clients \ {client} : args'[o] = args'[client] => ~Live(o)'
    BY <1>6, <1>8
  <2>5. QED
    BY <1>1, <1>3, <1>6, <2>2, <2>3, <2>4, <2>6 DEF ArgsInv
<1>16. ArgsIntact'
  <2>1. ASSUME NEW o \in Clients, Live(o)', o # client
        PROVE  /\ heap'[args'[o]].use = "args"
               /\ heap'[args'[o]].id \in {None, o}
               /\ At(o, "start")' => fds'[heap'[args'[o]].socket] = o
               /\ \A x \in Clients \ {o} : args'[x] = args'[o] => At(x, "ended")'
    <3>1. Live(o) /\ args'[o] = args[o] /\ args[o] \in Blocks \ {b}
          /\ heap'[args[o]] = heap[args[o]]
      BY <1>6, <1>8, <2>1
    <3>2. At(o, "start")' => At(o, "start")
      BY <1>7, <2>1 DEF At
    <3>3. \A x \in Clients \ {o} : args'[x] = args'[o] => x # client /\ args'[x] = args[x]
      BY <1>6, <3>1
    <3>4. \A x \in Clients \ {o} : args'[x] = args'[o] => At(x, "ended")'
      BY <1>7, <3>1, <3>3 DEF ArgsIntact, At, Live
    <3>5. QED
      BY <1>1, <3>1, <3>2, <3>4 DEF ArgsIntact, Live
  <2>2. ASSUME Live(client)'
        PROVE  /\ heap'[args'[client]].use = "args"
               /\ heap'[args'[client]].id \in {None, client}
               /\ At(client, "start")' => fds'[heap'[args'[client]].socket] = client
               /\ \A x \in Clients \ {client} : args'[x] = args'[client] => At(x, "ended")'
    <3>1. \A x \in Clients \ {client} : args[x] = b => At(x, "ended")
      <4>1. ASSUME NEW x \in Clients \ {client}, args[x] = b PROVE At(x, "ended")
        <5>1. ~Live(x) /\ args[x] # 0
          BY <1>3, <1>8, <4>1
        <5>2. ~At(x, "none")
          BY <1>3, <4>1, <5>1 DEF ArgsInv
        <5>3. QED
          BY <5>1, <5>2 DEF Live, Using, At, TypeOK, Labels
      <4>2. QED
        BY <4>1
    <3>2. /\ heap'[args'[client]] = [use |-> "args", socket |-> d, id |-> None]
          /\ fds'[d] = client'
      BY <1>1, <1>4, <1>6
    <3>3. ASSUME NEW x \in Clients \ {client}, args'[x] = args'[client] PROVE At(x, "ended")'
      <4>1. args[x] = b /\ thread'[x] = thread[x]
        BY <1>6, <1>7, <3>3
      <4>2. QED
        BY <3>1, <4>1 DEF At
    <3>4. QED
      BY <1>1, <3>2, <3>3
  <2>3. QED
    BY <2>1, <2>2 DEF ArgsIntact, Live
<1>17. RequestsInv'
  BY <1>1, <1>3, <1>6, <1>7, <1>8 DEF RequestsInv
<1>18. QED
  BY <1>10, <1>11, <1>12, <1>13, <1>14, <1>15, <1>16, <1>17

LEMMA NoteStep ==
  ASSUME AcceptorInv, NoteThread
  PROVE  AcceptorInv'
<1> USE AcceptorAssumption DEF AcceptorInv, NoteThread
<1> DEFINE b == args[client]
<1>1. UNCHANGED <<queue, aborted, fds, files, answered, lockList, created, thread, socket, args, request>>
  BY DEF connections, threads
<1>2. main = "note" /\ client \in Clients /\ b \in Blocks
  BY DEF MainAt, ClientInv, ArgsInv, TypeOK, None
<1>3. /\ heap'[b] = [heap[b] EXCEPT !.id = client]
      /\ \A x \in Blocks \ {b} : heap'[x] = heap[x]
  BY <1>2 DEF TypeOK
<1>4. \A x \in Blocks : heap'[x].use = heap[x].use /\ heap'[x].socket = heap[x].socket
  BY <1>2, <1>3 DEF TypeOK
<1>5. \A x \in Blocks : heap'[x].id = heap[x].id \/ (x = b /\ heap'[x].id = client)
  BY <1>2, <1>3 DEF TypeOK
<1>6. \/ created = TRUE /\ main' = "accept" /\ client' = None
      \/ created = FALSE /\ main' = "refuse" /\ client' = client
  BY DEF TypeOK, GoMain
<1>7. TypeOK'
  <2> DEFINE Block == [use : {"free", "args", "request"}, socket : Descriptors \cup {0},
                       id : Clients \cup {None}]
  <2>1. heap \in [Blocks -> Block] /\ heap[b] \in Block
    BY <1>2 DEF TypeOK
  <2>2. [heap[b] EXCEPT !.id = client] \in Block
    BY <1>2, <2>1
  <2>3. heap' = [heap EXCEPT ![b] = [heap[b] EXCEPT !.id = client]]
    BY <1>2, <2>1
  <2>4. heap' \in [Blocks -> Block]
    <3> HIDE DEF Block, b
    <3> QED
      BY <2>1, <2>2, <2>3
  <2>5. QED
    BY <1>1, <1>2, <1>6, <2>4 DEF TypeOK, Using
<1>8. ClientInv'
  BY <1>1, <1>2, <1>6 DEF ClientInv, MainAt, At, IsOpen, None
<1>9. QueueInv'
  BY <1>1, <1>6, AcceptorAssumption DEF QueueInv, Queued, At, IsOpen, None
<1>10. DescriptorInv' /\ OwnSocket'
  BY <1>1 DEF DescriptorInv, OwnSocket, Using
<1>11. EveryDescriptorOwned'
  BY <1>1, <1>2, <1>6 DEF EveryDescriptorOwned, MainAt, At, Using
<1>12. ArgsInv'
  <2>1. main' # "note"
    BY <1>6
  <2>2. \A c \in Clients : At(c, "none") /\ args[c] # 0 => heap'[args[c]].use = "args"
    BY <1>4 DEF ArgsInv, TypeOK
  <2>3. \A c \in Clients : At(c, "start") => heap'[args[c]].socket \in Descriptors
    BY <1>4 DEF ArgsInv, Live
  <2>4. QED
    BY <1>1, <2>1, <2>2, <2>3 DEF ArgsInv, MainAt, At, Live, Using
<1>13. ArgsIntact'
  <2>1. ASSUME NEW c \in Clients, Live(c)
        PROVE  /\ heap'[args[c]].use = "args"
               /\ heap'[args[c]].id \in {None, c}
               /\ At(c, "start") => fds[heap'[args[c]].socket] = c
    <3>1. args[c] \in Blocks
      BY <2>1 DEF ArgsInv
    <3>2. c = client \/ args[c] # b
      BY <1>2, <2>1 DEF ArgsInv, MainAt
    <3>3. /\ heap[args[c]].use = "args"
          /\ heap[args[c]].id \in {None, c}
          /\ At(c, "start") => fds[heap[args[c]].socket] = c
      BY <2>1 DEF ArgsIntact, Live
    <3>4. QED
      BY <1>4, <1>5, <3>1, <3>2, <3>3
  <2>2. QED
    BY <1>1, <2>1 DEF ArgsIntact, At, Live, Using
<1>14. RequestsInv'
  BY <1>1, <1>4 DEF RequestsInv
<1>15. QED
  BY <1>7, <1>8, <1>9, <1>10, <1>11, <1>12, <1>13, <1>14

(***************************************************************************)
(* What is left of a connection whose descriptor is closed.                *)
(***************************************************************************)
LEMMA ClosedFacts ==
  ASSUME AcceptorInv, NEW c \in Clients, NEW d \in Descriptors, fds[d] = c,
         fds' = [fds EXCEPT ![d] = None]
  PROVE  /\ \A o \in Clients \ {c} : \A e \in Descriptors : fds[e] = o => fds'[e] = o
         /\ \A o \in Clients : IsOpen(o)' <=> IsOpen(o) /\ o # c
         /\ \A e \in Descriptors : fds'[e] # None => fds'[e] = fds[e] /\ fds[e] # c
         /\ fds' \in [Descriptors -> Clients \cup {None}]
         /\ DescriptorInv'
<1> USE AcceptorAssumption DEF AcceptorInv
<1>1. fds \in [Descriptors -> Clients \cup {None}] /\ c # None
  BY DEF TypeOK, None
<1>2. fds'[d] = None /\ \A e \in Descriptors \ {d} : fds'[e] = fds[e] /\ fds[e] # c
  BY <1>1 DEF DescriptorInv
<1>3. \A o \in Clients : IsOpen(o)' <=> IsOpen(o) /\ o # c
  BY <1>1, <1>2 DEF IsOpen, None
<1>4. \A o \in Clients \ {c} : \A e \in Descriptors : fds[e] = o => fds'[e] = o
  BY <1>2
<1>5. fds' \in [Descriptors -> Clients \cup {None}]
  BY <1>1
<1>6. DescriptorInv'
  BY <1>2 DEF DescriptorInv
<1>7. QED
  BY <1>2, <1>3, <1>4, <1>5, <1>6

LEMMA RefuseStep ==
  ASSUME AcceptorInv, Refuse
  PROVE  AcceptorInv'
<1> USE AcceptorAssumption DEF AcceptorInv, Refuse
<1> DEFINE d == DescriptorOf(client)
<1>1. UNCHANGED <<queue, files, aborted, lockList, created, thread, socket, args, request, heap>>
  BY DEF threads
<1>2. /\ main = "refuse" /\ main' = "accept" /\ client' = None /\ client \in Clients
      /\ IsOpen(client) /\ At(client, "none") /\ answered' = answered \cup {client}
  BY DEF MainAt, GoMain, ClientInv, TypeOK, None, Answer
<1>3. PICK c \in Clients : c = client
  BY <1>2
<1>4. d \in Descriptors /\ fds[d] = c /\ fds' = [fds EXCEPT ![d] = None]
  BY <1>2, <1>3, DescriptorOfFacts
<1> HIDE DEF d
<1>5. /\ \A o \in Clients \ {c} : \A e \in Descriptors : fds[e] = o => fds'[e] = o
      /\ \A o \in Clients : IsOpen(o)' <=> IsOpen(o) /\ o # c
      /\ \A e \in Descriptors : fds'[e] # None => fds'[e] = fds[e] /\ fds[e] # c
      /\ fds' \in [Descriptors -> Clients \cup {None}]
      /\ DescriptorInv'
  BY <1>4, ClosedFacts
<1>6. TypeOK'
  BY <1>1, <1>2, <1>5 DEF TypeOK, Using
<1>7. ClientInv' /\ QueueInv'
  BY <1>1, <1>2, <1>5 DEF ClientInv, QueueInv, Queued, MainAt, At, None
<1>8. OwnSocket'
  <2>1. \A o \in Clients : Using(o) => o # c /\ socket[o] \in Descriptors
    BY <1>2, <1>3 DEF Using, At, TypeOK
  <2>2. QED
    BY <1>1, <1>5, <2>1 DEF OwnSocket, Using
<1>9. EveryDescriptorOwned'
  BY <1>1, <1>2, <1>3, <1>5 DEF EveryDescriptorOwned, MainAt, At, Using
<1>10. ArgsInv' /\ RequestsInv'
  BY <1>1, <1>2 DEF ArgsInv, RequestsInv, MainAt, At, Live, Using
<1>11. ArgsIntact'
  <2>1. \A o \in Clients : At(o, "start") => o # c /\ heap[args[o]].socket \in Descriptors
    BY <1>2, <1>3 DEF At, ArgsInv
  <2>2. \A o \in Clients : At(o, "start") => fds'[heap[args[o]].socket] = o
    BY <1>5, <2>1 DEF ArgsIntact
  <2>3. QED
    BY <1>1, <2>2 DEF ArgsIntact, At, Using
<1>12. QED
  BY <1>5, <1>6, <1>7, <1>8, <1>9, <1>10, <1>11

-----------------------------------------------------------------------------
(* The steps of a thread *)

(***************************************************************************)
(* A thread that goes on changes no other thread's place, and nothing that *)
(* main or the queue rely on.                                              *)
(***************************************************************************)
LEMMA GoesOn ==
  ASSUME AcceptorInv, NEW c \in Clients, ~At(c, "none"),
         NEW label \in Labels \ {"none"}, Goto(c, label),
         UNCHANGED <<main, client, created, queue>>,
         \A o \in Clients \ {c} : IsOpen(o)' <=> IsOpen(o),
         IsOpen(c)' => IsOpen(c)
  PROVE  /\ thread' \in [Clients -> Labels]
         /\ thread'[c] = label
         /\ \A o \in Clients \ {c} : /\ thread'[o] = thread[o]
                                     /\ Live(o)' <=> Live(o)
                                     /\ Using(o)' <=> Using(o)
         /\ ClientInv' /\ QueueInv'
<1> USE AcceptorAssumption DEF AcceptorInv
<1>1. thread' = [thread EXCEPT ![c] = label] /\ thread \in [Clients -> Labels]
  BY DEF TypeOK, Goto
<1>2. thread' \in [Clients -> Labels] /\ thread'[c] = label
  BY <1>1
<1>3. \A o \in Clients \ {c} : thread'[o] = thread[o]
  BY <1>1
<1>4. \A o \in Clients \ {c} : (Live(o)' <=> Live(o)) /\ (Using(o)' <=> Using(o))
  BY <1>3 DEF Live, Using, At
<1>5. \A o \in Clients : At(o, "none")' <=> At(o, "none")
  BY <1>2, <1>3 DEF At
<1>6. ClientInv'
  <2>1. client # None => client \in Clients
    BY DEF TypeOK
  <2>2. main \in {"create", "note", "refuse"} => client \in Clients
    BY <2>1 DEF ClientInv
  <2>3. client \in Clients => (At(client, "none")' <=> At(client, "none"))
    BY <1>5
  <2>4. (main \in {"create", "refuse"} \/ (MainAt("note") /\ ~created)) => client # c
    BY DEF ClientInv
  <2>5. QED
    BY <2>2, <2>3, <2>4 DEF ClientInv, MainAt
<1>7. QueueInv'
  BY <1>5 DEF QueueInv, Queued
<1>8. QED
  BY <1>2, <1>3, <1>4, <1>6, <1>7

LEMMA StartStep ==
  ASSUME AcceptorInv, NEW c \in Clients, Start(c)
  PROVE  AcceptorInv'
<1> USE AcceptorAssumption DEF AcceptorInv, Start
<1>1. UNCHANGED <<queue, aborted, fds, files, answered, main, lockList, client, created, args, request, heap>>
  BY DEF connections, mains
<1>2. thread[c] = "start" /\ Goto(c, "receive") /\ ~At(c, "none") /\ Live(c)
  BY DEF At, Live
<1>3. /\ thread' \in [Clients -> Labels]
      /\ thread'[c] = "receive"
      /\ \A o \in Clients \ {c} : /\ thread'[o] = thread[o]
                                  /\ Live(o)' <=> Live(o)
                                  /\ Using(o)' <=> Using(o)
      /\ ClientInv' /\ QueueInv'
  BY <1>1, <1>2, GoesOn DEF Labels, IsOpen
<1>4. heap[args[c]].socket \in Descriptors /\ fds[heap[args[c]].socket] = c
  BY <1>2 DEF ArgsInv, ArgsIntact, At
<1>5. /\ socket' \in [Clients -> Descriptors \cup {0}]
      /\ socket'[c] = heap[args[c]].socket
      /\ \A o \in Clients \ {c} : socket'[o] = socket[o]
  BY <1>4 DEF TypeOK
<1>6. TypeOK'
  <2>1. \A o \in Clients : Using(o)' => socket'[o] \in Descriptors
    BY <1>3, <1>4, <1>5 DEF TypeOK
  <2>2. QED
    BY <1>1, <1>3, <1>5, <2>1 DEF TypeOK
<1>7. OwnSocket'
  BY <1>1, <1>3, <1>4, <1>5 DEF OwnSocket
<1>8. DescriptorInv'
  BY <1>1 DEF DescriptorInv
<1>9. \A o \in Clients : At(o, "start") \/ Using(o) => Using(o)' \/ At(o, "start")'
  BY <1>3 DEF At, Using
<1>10. EveryDescriptorOwned'
  BY <1>1, <1>9 DEF EveryDescriptorOwned, MainAt, TypeOK
<1>11. \A o \in Clients : /\ At(o, "start")' => At(o, "start")
                          /\ At(o, "none")' => At(o, "none")
                          /\ At(o, "ended") => At(o, "ended")'
                          /\ Live(o)' <=> Live(o)
  BY <1>2, <1>3 DEF At, Live, Using
<1>12. ArgsInv'
  BY <1>1, <1>11 DEF ArgsInv, MainAt
<1>13. ArgsIntact'
  BY <1>1, <1>11 DEF ArgsIntact, Live
<1>14. RequestsInv'
  BY <1>1, <1>3 DEF RequestsInv
<1>15. QED
  BY <1>3, <1>6, <1>7, <1>8, <1>10, <1>12, <1>13, <1>14

LEMMA ReceiveStep ==
  ASSUME AcceptorInv, NEW c \in Clients, Receive(c)
  PROVE  AcceptorInv'
<1> USE AcceptorAssumption DEF AcceptorInv, Receive
<1> DEFINE b == Lowest(FreeBlocks)
<1>1. UNCHANGED <<queue, aborted, fds, files, answered, main, lockList, client, created, socket, args>>
  BY DEF connections, mains
<1>2. thread[c] = "receive" /\ Goto(c, "lock") /\ ~At(c, "none") /\ Live(c) /\ Using(c)
  BY DEF At, Live, Using
<1>3. /\ thread' \in [Clients -> Labels]
      /\ thread'[c] = "lock"
      /\ \A o \in Clients \ {c} : /\ thread'[o] = thread[o]
                                  /\ Live(o)' <=> Live(o)
                                  /\ Using(o)' <=> Using(o)
      /\ ClientInv' /\ QueueInv'
  BY <1>1, <1>2, GoesOn DEF Labels, IsOpen
<1>4. b \in Blocks /\ heap[b].use = "free"
  BY FreeFacts
<1> DEFINE r == [FreeBlock EXCEPT !.use = "request"]
<1>5. heap' = [heap EXCEPT ![b] = r] /\ request' = [request EXCEPT ![c] = b]
  OBVIOUS
<1>6. r = [use |-> "request", socket |-> 0, id |-> None]
  BY DEF FreeBlock
<1>7. heap' = [heap EXCEPT ![b] = [use |-> "request", socket |-> 0, id |-> None]]
  BY <1>5, <1>6
<1> HIDE DEF b, r
<1>8. /\ heap \in [Blocks -> [use : {"free", "args", "request"}, socket : Descriptors \cup {0},
                               id : Clients \cup {None}]]
      /\ request \in [Clients -> Blocks \cup {0}]
  BY DEF TypeOK
<1>9. /\ heap'[b] = [use |-> "request", socket |-> 0, id |-> None]
      /\ \A x \in Blocks \ {b} : heap'[x] = heap[x]
      /\ request'[c] = b
      /\ \A o \in Clients \ {c} : request'[o] = request[o]
  BY <1>4, <1>5, <1>6, <1>8
<1>10. \A o \in Clients : /\ At(o, "start")' => At(o, "start")
                          /\ At(o, "none")' => At(o, "none")
                          /\ At(o, "ended") => At(o, "ended")'
                          /\ Live(o)' <=> Live(o)
                          /\ Using(o)' <=> Using(o)
                          /\ At(o, "start") => At(o, "start")'
  BY <1>2, <1>3 DEF At, Live, Using
<1>11. TypeOK'
  <2>1. heap' \in [Blocks -> [use : {"free", "args", "request"}, socket : Descriptors \cup {0},
                               id : Clients \cup {None}]]
    BY <1>4, <1>7, <1>8
  <2>2. request' \in [Clients -> Blocks \cup {0}]
    BY <1>4, <1>5, <1>8
  <2>3. QED
    BY <1>1, <1>3, <1>10, <2>1, <2>2 DEF TypeOK
<1>12. OwnSocket' /\ DescriptorInv'
  BY <1>1, <1>10 DEF OwnSocket, DescriptorInv
<1>13. EveryDescriptorOwned'
  BY <1>1, <1>10 DEF EveryDescriptorOwned, MainAt, TypeOK
<1>14. \A o \in Clients : Live(o) \/ (At(o, "none") /\ args[o] # 0) =>
         heap'[args[o]] = heap[args[o]]
  BY <1>4, <1>9 DEF ArgsInv, ArgsIntact, Live, TypeOK
<1>15. ArgsInv'
  <2>1. \A o \in Clients : At(o, "start") => Live(o)
    BY DEF Live
  <2>2. QED
    BY <1>1, <1>10, <1>14, <2>1 DEF ArgsInv, MainAt
<1>16. ArgsIntact'
  <2>1. ASSUME NEW o \in Clients, Live(o)'
        PROVE  /\ heap'[args[o]].use = "args"
               /\ heap'[args[o]].id \in {None, o}
               /\ At(o, "start")' => fds[heap'[args[o]].socket] = o
               /\ \A x \in Clients \ {o} : args[x] = args[o] => At(x, "ended")'
    BY <1>10, <1>14, <2>1 DEF ArgsIntact, Live
  <2>2. QED
    BY <1>1, <2>1 DEF ArgsIntact, Live
<1>17. RequestsInv'
  BY <1>3, <1>4, <1>9 DEF RequestsInv
<1>18. QED
  BY <1>3, <1>11, <1>12, <1>13, <1>15, <1>16, <1>17

\* OpenFile and CloseFile: the handler's files are descriptors.
LEMMA FileStep ==
  ASSUME AcceptorInv, NEW c \in Clients, OpenFile(c) \/ CloseFile(c)
  PROVE  AcceptorInv'
<1>1. UNCHANGED <<queue, aborted, fds, answered, main, lockList, client, created, thread, socket,
                  args, request, heap>>
  BY DEF OpenFile, CloseFile, mains, threads
<1>2. files \in [Clients -> SUBSET Descriptors]
  BY DEF AcceptorInv, TypeOK
<1>3. files' \in [Clients -> SUBSET Descriptors]
  <2>1. CASE OpenFile(c)
    BY <1>2, <2>1, FreeFacts DEF OpenFile
  <2>2. CASE CloseFile(c)
    BY <1>2, <2>2 DEF CloseFile
  <2>3. QED
    BY <2>1, <2>2
<1>4. QED
  BY <1>1, <1>3, StutterStep DEF AcceptorInv, TypeOK

\* GetLock, Fail and Handle: the thread keeps its socket, arguments and request.
LEMMA ServeStep ==
  ASSUME AcceptorInv, NEW c \in Clients, GetLock(c) \/ Fail(c) \/ Handle(c)
  PROVE  AcceptorInv'
<1> USE AcceptorAssumption DEF AcceptorInv
<1>1. /\ UNCHANGED <<queue, aborted, fds, files, main, lockList, client, created, socket, args, request, heap>>
      /\ answered' \subseteq Clients
  BY DEF connections, mains, GetLock, Fail, Handle, Answer, TypeOK
<1>2. PICK label \in {"handle", "leave", "close"} :
        Goto(c, label) /\ (label = "handle" => thread[c] = "lock")
  BY DEF GetLock, Fail, Handle, At
<1>3. ~At(c, "none") /\ Live(c) /\ Using(c)
  BY DEF At, Live, Using, GetLock, Fail, Handle
<1>4. /\ thread' \in [Clients -> Labels]
      /\ thread'[c] = label
      /\ \A o \in Clients \ {c} : /\ thread'[o] = thread[o]
                                  /\ Live(o)' <=> Live(o)
                                  /\ Using(o)' <=> Using(o)
      /\ ClientInv' /\ QueueInv'
  BY <1>1, <1>2, <1>3, GoesOn DEF Labels, IsOpen
<1>5. \A o \in Clients : /\ At(o, "start")' <=> At(o, "start")
                         /\ At(o, "none")' => At(o, "none")
                         /\ At(o, "ended") => At(o, "ended")'
                         /\ Live(o)' <=> Live(o)
                         /\ Using(o)' <=> Using(o)
  BY <1>2, <1>3, <1>4 DEF At, Live, Using
<1>6. TypeOK' /\ OwnSocket' /\ DescriptorInv'
  BY <1>1, <1>4, <1>5 DEF TypeOK, OwnSocket, DescriptorInv
<1>7. EveryDescriptorOwned'
  BY <1>1, <1>5 DEF EveryDescriptorOwned, MainAt, TypeOK
<1>8. ArgsInv'
  BY <1>1, <1>5 DEF ArgsInv, MainAt
<1>9. ArgsIntact'
  BY <1>1, <1>5 DEF ArgsIntact, Live
<1>10. RequestsInv'
  BY <1>1, <1>2, <1>4 DEF RequestsInv
<1>11. QED
  BY <1>4, <1>6, <1>7, <1>8, <1>9, <1>10

LEMMA CloseStep ==
  ASSUME AcceptorInv, NEW c \in Clients, Close(c)
  PROVE  AcceptorInv'
<1> USE AcceptorAssumption DEF AcceptorInv
<1>1. UNCHANGED <<queue, files, aborted, answered, main, lockList, client, created, socket, args, request, heap>>
  BY DEF mains, Close
<1>2. /\ ~At(c, "none") /\ Live(c) /\ Using(c)
      /\ \E label \in {"free", "ended"} : Goto(c, label)
  BY DEF At, Live, Using, Close
<1>3. PICK label \in {"free", "ended"} : Goto(c, label)
  BY <1>2
<1>4. socket[c] \in Descriptors /\ fds[socket[c]] = c /\ fds' = [fds EXCEPT ![socket[c]] = None]
  BY <1>2 DEF TypeOK, OwnSocket, Close
<1>5. /\ \A o \in Clients \ {c} : \A e \in Descriptors : fds[e] = o => fds'[e] = o
      /\ \A o \in Clients : IsOpen(o)' <=> IsOpen(o) /\ o # c
      /\ \A e \in Descriptors : fds'[e] # None => fds'[e] = fds[e] /\ fds[e] # c
      /\ fds' \in [Descriptors -> Clients \cup {None}]
      /\ DescriptorInv'
  BY <1>4, ClosedFacts
<1>6. /\ thread' \in [Clients -> Labels]
      /\ thread'[c] = label
      /\ \A o \in Clients \ {c} : /\ thread'[o] = thread[o]
                                  /\ Live(o)' <=> Live(o)
                                  /\ Using(o)' <=> Using(o)
      /\ ClientInv' /\ QueueInv'
  BY <1>1, <1>2, <1>3, <1>5, GoesOn DEF Labels
<1>7. \A o \in Clients : /\ At(o, "start")' <=> At(o, "start")
                         /\ At(o, "none")' => At(o, "none")
                         /\ At(o, "ended") => At(o, "ended")'
                         /\ Live(o)' => Live(o)
                         /\ Using(o)' => Using(o) /\ o # c
  BY <1>2, <1>3, <1>6 DEF At, Live, Using
<1>8. TypeOK'
  BY <1>1, <1>5, <1>6, <1>7 DEF TypeOK
<1>9. OwnSocket'
  <2>1. \A o \in Clients : Using(o)' => socket[o] \in Descriptors /\ fds[socket[o]] = o /\ o # c
    BY <1>7 DEF OwnSocket, TypeOK
  <2>2. QED
    BY <1>1, <1>5, <2>1 DEF OwnSocket
<1>10. EveryDescriptorOwned'
  <2>1. ASSUME NEW e \in Descriptors, fds'[e] # None
        PROVE  (\/ client = fds[e] /\ (MainAt("note") => ~created)
                \/ At(fds[e], "start") \/ Using(fds[e]))'
    <3>1. PICK o \in Clients \ {c} : o = fds'[e] /\ o = fds[e]
      BY <1>5, <2>1 DEF TypeOK
    <3>2. (client = o /\ (MainAt("note") => ~created)) \/ At(o, "start") \/ Using(o)
      BY <1>5, <2>1, <3>1 DEF EveryDescriptorOwned
    <3>3. (At(o, "start") => At(o, "start")') /\ (Using(o) => Using(o)')
      BY <1>6, <1>7
    <3>4. QED
      BY <1>1, <3>1, <3>2, <3>3 DEF MainAt
  <2>2. QED
    BY <2>1 DEF EveryDescriptorOwned
<1>11. ArgsInv'
  BY <1>1, <1>7 DEF ArgsInv, MainAt
<1>12. ArgsIntact'
  <2>1. \A o \in Clients : At(o, "start")' =>
          o # c /\ heap[args[o]].socket \in Descriptors /\ fds[heap[args[o]].socket] = o
    BY <1>2, <1>7 DEF ArgsInv, ArgsIntact, At, Using
  <2>2. \A o \in Clients : At(o, "start")' => fds'[heap[args[o]].socket] = o
    BY <1>5, <2>1
  <2>3. QED
    BY <1>1, <1>7, <2>2 DEF ArgsIntact, Live
<1>13. RequestsInv'
  BY <1>1, <1>6 DEF RequestsInv
<1>14. QED
  BY <1>5, <1>6, <1>8, <1>9, <1>10, <1>11, <1>12, <1>13

LEMMA FreeStep ==
  ASSUME AcceptorInv, NEW c \in Clients, FreeArgs(c)
  PROVE  AcceptorInv'
<1> USE AcceptorAssumption DEF AcceptorInv
<1>1. UNCHANGED <<queue, aborted, fds, files, answered, main, lockList, client, created, socket, args, request>>
  BY DEF connections, mains, FreeArgs
<1>2. thread[c] = "free" /\ ~At(c, "none") /\ Live(c) /\ ~Using(c) /\ Goto(c, "ended")
  BY DEF At, Live, Using, FreeArgs
<1>3. /\ thread' \in [Clients -> Labels]
      /\ thread'[c] = "ended"
      /\ \A o \in Clients \ {c} : /\ thread'[o] = thread[o]
                                  /\ Live(o)' <=> Live(o)
                                  /\ Using(o)' <=> Using(o)
      /\ ClientInv' /\ QueueInv'
  BY <1>1, <1>2, GoesOn DEF Labels, IsOpen
<1>4. \A o \in Clients : /\ At(o, "start")' <=> At(o, "start")
                         /\ At(o, "none")' => At(o, "none")
                         /\ At(o, "ended") => At(o, "ended")'
                         /\ Live(o)' => Live(o) /\ o # c
                         /\ Using(o)' <=> Using(o)
  BY <1>2, <1>3 DEF At, Live, Using
<1>5. args[c] \in Blocks /\ heap[args[c]].use = "args"
  BY <1>2 DEF ArgsInv, ArgsIntact, Live
<1>6. heap' = [heap EXCEPT ![args[c]] = FreeBlock]
  BY DEF FreeArgs
<1>7. \A x \in Blocks \ {args[c]} : heap'[x] = heap[x]
  BY <1>5, <1>6 DEF TypeOK
<1>8. TypeOK'
  <2>1. heap' \in [Blocks -> [use : {"free", "args", "request"}, socket : Descriptors \cup {0},
                               id : Clients \cup {None}]]
    BY <1>5, <1>6 DEF TypeOK, FreeBlock
  <2>2. QED
    BY <1>1, <1>3, <1>4, <2>1 DEF TypeOK
<1>9. OwnSocket' /\ DescriptorInv'
  BY <1>1, <1>4 DEF OwnSocket, DescriptorInv
<1>10. EveryDescriptorOwned'
  BY <1>1, <1>4 DEF EveryDescriptorOwned, MainAt, TypeOK
<1>11. \A o \in Clients : Live(o)' \/ (At(o, "none")' /\ args[o] # 0) =>
         heap'[args[o]] = heap[args[o]]
  <2>1. \A o \in Clients \ {c} : ~At(o, "ended") => args[o] # args[c]
    BY <1>2 DEF ArgsIntact, Live
  <2>2. \A o \in Clients : Live(o)' \/ (At(o, "none")' /\ args[o] # 0) =>
          o # c /\ ~At(o, "ended") /\ args[o] \in Blocks
    BY <1>2, <1>4 DEF At, Live, Using, TypeOK, ArgsInv
  <2>3. QED
    BY <1>7, <2>1, <2>2
<1>12. ArgsInv'
  <2>1. \A o \in Clients : At(o, "start")' => Live(o)'
    BY DEF Live
  <2>2. QED
    BY <1>1, <1>4, <1>11, <2>1 DEF ArgsInv, MainAt
<1>13. ArgsIntact'
  <2>1. ASSUME NEW o \in Clients, Live(o)'
        PROVE  /\ heap'[args[o]].use = "args"
               /\ heap'[args[o]].id \in {None, o}
               /\ At(o, "start")' => fds[heap'[args[o]].socket] = o
               /\ \A x \in Clients \ {o} : args[x] = args[o] => At(x, "ended")'
    BY <1>4, <1>11, <2>1 DEF ArgsIntact, Live
  <2>2. QED
    BY <1>1, <2>1 DEF ArgsIntact, Live
<1>14. RequestsInv'
  <2>1. \A o \in Clients : thread'[o] \in {"lock", "handle"} =>
          request[o] \in Blocks \ {args[c]} /\ heap[request[o]].use = "request"
    BY <1>3, <1>5 DEF RequestsInv
  <2>2. QED
    BY <1>1, <1>7, <2>1 DEF RequestsInv
<1>15. QED
  BY <1>3, <1>8, <1>9, <1>10, <1>12, <1>13, <1>14

-----------------------------------------------------------------------------
LEMMA InitEstablishes == Init => AcceptorInv
<1> SUFFICES ASSUME Init PROVE AcceptorInv
  OBVIOUS
<1> USE AcceptorAssumption DEF Init
<1>1. queue \in Seq(Clients) /\ Len(queue) = 0 /\ ToSet(queue) = {}
  BY EmptySeq DEF ToSet
<1>2. TypeOK
  <2>1. heap \in [Blocks -> [use : {"free", "args", "request"}, socket : Descriptors \cup {0},
                             id : Clients \cup {None}]]
    BY DEF FreeBlock
  <2>2. queue \in Seq(Clients) /\ Len(queue) <= Backlog
    BY <1>1
  <2>3. thread \in [Clients -> Labels] /\ \A c \in Clients : ~Using(c)
    BY DEF Labels, Using
  <2>4. QED
    BY <2>1, <2>2, <2>3 DEF TypeOK, None
<1>3. ClientInv /\ QueueInv /\ DescriptorInv /\ OwnSocket /\ EveryDescriptorOwned
  BY <1>1 DEF ClientInv, QueueInv, Queued, DescriptorInv, OwnSocket, EveryDescriptorOwned, Using,
              MainAt
<1>4. ArgsInv /\ ArgsIntact /\ RequestsInv
  BY DEF ArgsInv, ArgsIntact, RequestsInv, Live, Using, At, MainAt
<1>5. QED
  BY <1>2, <1>3, <1>4 DEF AcceptorInv

LEMMA NextKeeps ==
  ASSUME AcceptorInv, [Next]_vars
  PROVE  AcceptorInv'
<1>1. CASE Setup
  BY <1>1, SetupStep
<1>2. CASE SetupFails \/ AcceptFails \/ CreateWithoutMemory \/ DetachNothing \/ BrokenPipe
  BY <1>2, EndStep DEF SetupFails, AcceptFails, CreateWithoutMemory, DetachNothing, BrokenPipe
<1>3. CASE Accept
  BY <1>3, AcceptStep
<1>4. CASE CreateThread
  BY <1>4, CreateStep
<1>5. CASE NoteThread
  BY <1>5, NoteStep
<1>6. CASE Refuse
  BY <1>6, RefuseStep
<1>7. ASSUME NEW c \in Clients, Connect(c) PROVE AcceptorInv'
  BY <1>7, ConnectStep
<1>8. ASSUME NEW c \in Clients, Abort(c) PROVE AcceptorInv'
  BY <1>8, StutterStep DEF Abort, mains, threads, AcceptorInv, TypeOK
<1>9. ASSUME NEW c \in Clients, Start(c) PROVE AcceptorInv'
  BY <1>9, StartStep
<1>10. ASSUME NEW c \in Clients, Receive(c) PROVE AcceptorInv'
  BY <1>10, ReceiveStep
<1>11. ASSUME NEW c \in Clients, GetLock(c) \/ Fail(c) \/ Handle(c) PROVE AcceptorInv'
  BY <1>11, ServeStep
<1>12. ASSUME NEW c \in Clients, HandleGarbage(c) \/ CloseNothing(c) PROVE AcceptorInv'
  BY <1>12, EndStep DEF HandleGarbage, CloseNothing
<1>13. ASSUME NEW c \in Clients, Close(c) PROVE AcceptorInv'
  BY <1>13, CloseStep
<1>14. ASSUME NEW c \in Clients, FreeArgs(c) PROVE AcceptorInv'
  BY <1>14, FreeStep
<1>15. CASE UNCHANGED vars
  BY <1>15, StutterStep DEF vars, connections, mains, threads, AcceptorInv, TypeOK
<1>16. ASSUME NEW c \in Clients, OpenFile(c) \/ CloseFile(c) PROVE AcceptorInv'
  BY <1>16, FileStep
<1>17. QED
  BY <1>1, <1>2, <1>3, <1>4, <1>5, <1>6, <1>7, <1>8, <1>9, <1>10, <1>11, <1>12, <1>13, <1>14,
     <1>15, <1>16 DEF Next, Main, Worker, Waiting

(***************************************************************************)
(* AcceptorInv is an invariant of Acceptor, whatever the clients do and    *)
(* however main and the threads are scheduled.                             *)
(***************************************************************************)
THEOREM Invariance == Spec => []AcceptorInv
<1>1. Init => AcceptorInv
  BY InitEstablishes
<1>2. AcceptorInv /\ [Next]_vars => AcceptorInv'
  BY NextKeeps
<1>3. QED
  BY <1>1, <1>2, PTL DEF Spec

(***************************************************************************)
(* Only a handler has files open (utils.c:15-26, 57-92 and 197-235,        *)
(* request_handler.c:29-71 and 134-160): none is left open behind it.      *)
(***************************************************************************)
LEMMA FilesAreClosed == Spec => []FilesInv
<1>1. Init => FilesInv
  BY DEF Init, FilesInv
<1>2. ASSUME AcceptorInv, FilesInv, [Next]_vars
      PROVE  FilesInv'
  <2>1. files \in [Clients -> SUBSET Descriptors] /\ thread \in [Clients -> Labels]
    BY <1>2 DEF AcceptorInv, TypeOK
  <2>2. CASE main' = "exited" /\ ProcessEnds
    BY <2>2 DEF ProcessEnds, FilesInv
  <2>3. ASSUME NEW c \in Clients, OpenFile(c) \/ CloseFile(c)
        PROVE  FilesInv'
    BY <1>2, <2>1, <2>3 DEF OpenFile, CloseFile, FilesInv, At, threads
  <2>4. ASSUME NEW c \in Clients, Handle(c)
        PROVE  FilesInv'
    BY <1>2, <2>1, <2>4 DEF Handle, FilesInv, At, Goto
  <2>5. ASSUME NEW c \in Clients,
               Start(c) \/ Receive(c) \/ GetLock(c) \/ Fail(c) \/ Close(c) \/ FreeArgs(c)
        PROVE  FilesInv'
    <3>1. files' = files /\ thread[c] # "handle"
      BY <2>5 DEF Start, Receive, GetLock, Fail, Close, FreeArgs, At, connections
    <3>2. PICK label \in Labels : Goto(c, label)
      BY <2>5 DEF Start, Receive, GetLock, Fail, Close, FreeArgs, Labels
    <3>3. files[c] = {}
      BY <1>2, <3>1 DEF FilesInv, At
    <3>4. QED
      BY <1>2, <2>1, <3>1, <3>2, <3>3 DEF FilesInv, At, Goto
  <2>6. CASE CreateThread
    <3>1. files' = files /\ client \in Clients /\ thread[client] = "none"
      BY <1>2, <2>6 DEF CreateThread, connections, AcceptorInv, ClientInv, TypeOK, MainAt, At
    <3>2. files[client] = {}
      BY <1>2, <3>1 DEF FilesInv, At
    <3>3. QED
      BY <1>2, <2>1, <2>6, <3>1, <3>2 DEF CreateThread, FilesInv, At, Goto
  <2>7. CASE UNCHANGED <<files, thread>>
    BY <1>2, <2>7 DEF FilesInv, At
  <2>8. CASE Main
    BY <2>2, <2>6, <2>7, <2>8
       DEF Main, Setup, SetupFails, Accept, AcceptFails, CreateWithoutMemory, NoteThread,
           DetachNothing, Refuse, ProcessEnds, GoMain, connections, threads
  <2>9. ASSUME NEW c \in Clients, Connect(c) \/ Abort(c)
        PROVE  FilesInv'
    BY <2>7, <2>9 DEF Connect, Abort, threads
  <2>10. CASE BrokenPipe \/ \E c \in Clients : HandleGarbage(c) \/ CloseNothing(c)
    BY <2>2, <2>10 DEF BrokenPipe, HandleGarbage, CloseNothing, ProcessEnds, GoMain
  <2>11. CASE UNCHANGED vars
    BY <2>7, <2>11 DEF vars, connections, threads
  <2>12. QED
    BY <1>2, <2>3, <2>4, <2>5, <2>8, <2>9, <2>10, <2>11 DEF Next, Worker, Waiting
<1>3. QED
  BY <1>1, <1>2, Invariance, PTL DEF Spec

(***************************************************************************)
(* The variables keep their types: a worker that has started uses a        *)
(* descriptor (thread_manager.c:48).                                       *)
(***************************************************************************)
THEOREM TypeCorrect == Spec => []TypeOK
<1>1. AcceptorInv => TypeOK
  BY DEF AcceptorInv
<1>2. QED
  BY <1>1, Invariance, PTL

(***************************************************************************)
(* No worker answers or closes another's client, however often descriptor  *)
(* numbers are given again (server.c:89-107, thread_manager.c:48-104).     *)
(***************************************************************************)
THEOREM SocketsAreOwn == Spec => []OwnSocket
<1>1. AcceptorInv => OwnSocket
  BY DEF AcceptorInv
<1>2. QED
  BY <1>1, Invariance, PTL

(***************************************************************************)
(* Every open descriptor has somebody who will close it, on the error      *)
(* paths too (server.c:103-107, thread_manager.c:51-105).                  *)
(***************************************************************************)
THEOREM DescriptorsAreOwned == Spec => []EveryDescriptorOwned
<1>1. AcceptorInv => EveryDescriptorOwned
  BY DEF AcceptorInv
<1>2. QED
  BY <1>1, Invariance, PTL

(***************************************************************************)
(* Neither the id that main writes late nor another thread touches the     *)
(* arguments of a thread that still needs them                             *)
(* (thread_manager.c:109-119).                                             *)
(***************************************************************************)
THEOREM ArgumentsAreIntact == Spec => []ArgsIntact
<1>1. AcceptorInv => ArgsIntact
  BY DEF AcceptorInv
<1>2. QED
  BY <1>1, Invariance, PTL

(***************************************************************************)
(* The server ends in accept only over a client that gave up or while      *)
(* every descriptor is the connection or a file of a running thread, as    *)
(* long as no request was written into (server.c:92-97): however long it   *)
(* runs, it leaks none.                                                    *)
(***************************************************************************)
THEOREM NoDescriptorIsLost == Spec => StopsOnlyWhenBusy
<1>1. ASSUME AcceptorInv, FilesInv, [Next]_vars, MainAt("accept"), main' = "exited", aborted = {},
             ~Overwritten, NEW d \in Descriptors
      PROVE  \E c \in Clients : (fds[d] = c \/ d \in files[c]) /\ thread[c] # "ended"
  <2>1. FreeDescriptors = {}
    <3>1. ~BrokenPipe
      BY <1>1 DEF BrokenPipe, MainAt
    <3>2. \A c \in Clients : ~HandleGarbage(c)
      BY <1>1 DEF HandleGarbage, Overwritten, AcceptorInv, RequestsInv
    <3>3. AcceptFails \/ \E c \in Clients : CloseNothing(c)
      BY <1>1, <3>1, <3>2
         DEF Next, Main, Worker, Waiting, vars, mains, MainAt, GoMain, Setup, SetupFails, Accept,
             CreateThread, CreateWithoutMemory, NoteThread, DetachNothing, Refuse, Connect, Abort,
             Start, Receive, GetLock, Fail, OpenFile, CloseFile, Handle, Close, FreeArgs
    <3>4. QED
      BY <1>1, <3>3 DEF AcceptFails, CloseNothing
  <2>2. CASE fds[d] # None
    <3>1. fds[d] \in Clients /\ client = None
      BY <1>1, <2>2 DEF AcceptorInv, TypeOK, ClientInv, MainAt
    <3>2. At(fds[d], "start") \/ Using(fds[d])
      BY <1>1, <2>2, <3>1 DEF AcceptorInv, EveryDescriptorOwned
    <3>3. QED
      BY <3>1, <3>2 DEF At, Using
  <2>3. CASE fds[d] = None
    <3>1. PICK c \in Clients : d \in files[c]
      BY <2>1, <2>3 DEF FreeDescriptors
    <3>2. At(c, "handle")
      BY <1>1, <3>1 DEF FilesInv
    <3>3. QED
      BY <3>1, <3>2 DEF At
  <2>4. QED
    BY <2>2, <2>3
<1>2. AcceptorInv /\ FilesInv /\ [Next]_vars =>
        [MainAt("accept") /\ main' = "exited" /\ aborted = {} /\ ~Overwritten =>
           \A d \in Descriptors : \E c \in Clients :
             (fds[d] = c \/ d \in files[c]) /\ thread[c] # "ended"]_vars
  BY <1>1
<1>3. QED
  BY <1>2, Invariance, FilesAreClosed, PTL DEF Spec, StopsOnlyWhenBusy
=============================================================================
