---------------------------- MODULE SessionProofs ---------------------------
(***************************************************************************)
(* Proofs about Session, for any paths, files and window: facts about the  *)
(* two streams, SessionInv step by step, and from it the type invariant of *)
(* every network; then, when headers arrive in one piece, what was sent,   *)
(* stored, downloaded and lost of a file, and from it that the client tells*)
(* the truth and that a request touches its own file.                      *)
(***************************************************************************)
EXTENDS SessionInvariant, SequenceTheorems, WellFoundedInduction, TLAPS

(***************************************************************************)
(* Parts of sequences.                                                     *)
(***************************************************************************)
LEMMA FollowsNothing ==
  ASSUME NEW S, NEW t \in Seq(S), NEW n \in 0 .. Len(t)
  PROVE  Follows(<<>>, n, t)
<1>1. Len(<<>>) = 0 /\ Len(t) \in Nat
  BY LenProperties
<1>2. QED
  BY <1>1 DEF Follows

LEMMA FollowsRest ==
  ASSUME NEW S, NEW s \in Seq(S), NEW t, Len(t) \in Nat, NEW n \in Nat, Follows(s, n, t),
         NEW k \in 0 .. Len(s), NEW r, r = SubSeq(s, k + 1, Len(s))
  PROVE  Follows(r, n + k, t)
<1>1. Len(s) \in Nat /\ \A i \in 1 .. Len(s) : s[i] \in S
  BY LenProperties, ElementOfSeq
<1>2. \A i \in k + 1 .. Len(s) : s[i] \in S
  BY <1>1
<1>3. /\ Len(r) = IF k + 1 <= Len(s) THEN Len(s) - (k + 1) + 1 ELSE 0
      /\ \A i \in 1 .. Len(s) - (k + 1) + 1 : r[i] = s[k + 1 + i - 1]
  BY <1>1, <1>2, SubSeqProperties
<1>4. Len(r) = Len(s) - k
  BY <1>1, <1>3
<1>5. \A i \in 1 .. Len(s) - k : r[i] = s[k + i] /\ k + i \in 1 .. Len(s)
  BY <1>1, <1>3
<1>6. \A i \in 1 .. Len(r) : r[i] = t[(n + k) + i]
  BY <1>1, <1>4, <1>5 DEF Follows
<1>7. (n + k) + Len(r) <= Len(t)
  BY <1>1, <1>4 DEF Follows
<1>8. QED
  BY <1>6, <1>7 DEF Follows

LEMMA FollowsPart ==
  ASSUME NEW S, NEW s \in Seq(S), NEW t, Len(t) \in Nat, NEW n \in Nat, Follows(s, n, t),
         NEW k \in 0 .. Len(s), NEW r, r = SubSeq(s, 1, k)
  PROVE  Follows(r, n, t) /\ Len(r) = k /\ r \in Seq(S)
<1>1. Len(s) \in Nat /\ \A i \in 1 .. Len(s) : s[i] \in S
  BY LenProperties, ElementOfSeq
<1>2. \A i \in 1 .. k : s[i] \in S
  BY <1>1
<1>3. /\ Len(r) = IF 1 <= k THEN k - 1 + 1 ELSE 0
      /\ \A i \in 1 .. k - 1 + 1 : r[i] = s[1 + i - 1]
      /\ r \in Seq(S)
  BY <1>1, <1>2, SubSeqProperties
<1>4. Len(r) = k /\ \A i \in 1 .. k : r[i] = s[i] /\ i \in 1 .. Len(s)
  BY <1>1, <1>3
<1>5. \A i \in 1 .. Len(r) : r[i] = t[n + i]
  BY <1>4 DEF Follows
<1>6. n + Len(r) <= Len(t)
  BY <1>1, <1>4 DEF Follows
<1>7. QED
  BY <1>3, <1>4, <1>5, <1>6 DEF Follows

LEMMA FollowsMore ==
  ASSUME NEW S, NEW s \in Seq(S), NEW r \in Seq(S), NEW t, Len(t) \in Nat, NEW n \in Nat,
         Follows(s, n, t), Follows(r, n + Len(s), t)
  PROVE  Follows(s \o r, n, t) /\ Len(s \o r) = Len(s) + Len(r) /\ s \o r \in Seq(S)
<1>1. Len(s) \in Nat /\ Len(r) \in Nat
  BY LenProperties
<1>2. /\ s \o r \in Seq(S) /\ Len(s \o r) = Len(s) + Len(r)
      /\ \A i \in 1 .. Len(s) + Len(r) : (s \o r)[i] = IF i <= Len(s) THEN s[i] ELSE r[i - Len(s)]
  BY ConcatProperties
<1> DEFINE sr == s \o r
<1> HIDE DEF sr
<1>3. \A i \in 1 .. Len(s) + Len(r) : sr[i] = IF i <= Len(s) THEN s[i] ELSE r[i - Len(s)]
  BY <1>2 DEF sr
<1>4. \A i \in 1 .. Len(s) : sr[i] = t[n + i]
  BY <1>1, <1>3 DEF Follows
<1>5. \A i \in Len(s) + 1 .. Len(s) + Len(r) : sr[i] = t[n + i]
  <2>1. SUFFICES ASSUME NEW i \in Len(s) + 1 .. Len(s) + Len(r) PROVE sr[i] = t[n + i]
    OBVIOUS
  <2>2. i - Len(s) \in 1 .. Len(r) /\ i \in 1 .. Len(s) + Len(r) /\ ~(i <= Len(s))
    BY <1>1
  <2>3. sr[i] = r[i - Len(s)] /\ r[i - Len(s)] = t[(n + Len(s)) + (i - Len(s))]
    BY <1>3, <2>2 DEF Follows
  <2>4. (n + Len(s)) + (i - Len(s)) = n + i
    BY <1>1
  <2>5. QED
    BY <2>3, <2>4
<1>6. \A i \in 1 .. Len(sr) : sr[i] = t[n + i]
  BY <1>1, <1>2, <1>4, <1>5 DEF sr
<1>7. n + Len(sr) <= Len(t)
  BY <1>1, <1>2 DEF Follows, sr
<1>8. QED
  BY <1>2, <1>6, <1>7 DEF Follows, sr

LEMMA FollowsNext ==
  ASSUME NEW S, NEW T, NEW t \in Seq(T), T \subseteq S, NEW s \in Seq(S), NEW n \in Nat,
         Follows(s, n, t), n + Len(s) < Len(t)
  PROVE  LET more == s \o <<t[n + Len(s) + 1]>>
         IN  Follows(more, n, t) /\ Len(more) = Len(s) + 1 /\ more \in Seq(S)
<1> DEFINE e == t[n + Len(s) + 1]
<1>1. Len(s) \in Nat /\ Len(t) \in Nat
  BY LenProperties
<1>2. e \in T
  BY <1>1, ElementOfSeq
<1> HIDE DEF e
<1>3. <<e>> \in Seq(S) /\ Len(<<e>>) = 1 /\ <<e>>[1] = e
  BY <1>2
<1>4. Follows(<<e>>, n + Len(s), t)
  BY <1>1, <1>3 DEF Follows, e
<1>5. Follows(s \o <<e>>, n, t) /\ Len(s \o <<e>>) = Len(s) + 1 /\ s \o <<e>> \in Seq(S)
  BY <1>1, <1>3, <1>4, FollowsMore
<1>6. QED
  BY <1>5 DEF e

LEMMA FollowsAll ==
  ASSUME NEW S, NEW s \in Seq(S), NEW t \in Seq(S), Follows(s, 0, t), Len(s) >= Len(t)
  PROVE  s = t
<1>1. Len(s) \in Nat /\ Len(t) \in Nat
  BY LenProperties
<1>2. Len(s) = Len(t)
  BY <1>1 DEF Follows
<1>3. \A i \in 1 .. Len(s) : s[i] = t[i]
  BY DEF Follows
<1>4. QED
  BY <1>2, <1>3, SeqEqual

\* Beyond the first of two sequences, and within it.
LEMMA FollowsSecond ==
  ASSUME NEW S, NEW a \in Seq(S), NEW b \in Seq(S), NEW s, Len(s) \in Nat,
         NEW n \in Nat, n >= Len(a), Follows(s, n, a \o b)
  PROVE  Follows(s, n - Len(a), b)
<1> DEFINE ab == a \o b
<1>1. Len(a) \in Nat /\ Len(b) \in Nat
  BY LenProperties
<1>2. /\ Len(ab) = Len(a) + Len(b)
      /\ \A i \in 1 .. Len(a) + Len(b) : ab[i] = IF i <= Len(a) THEN a[i] ELSE b[i - Len(a)]
  BY ConcatProperties
<1>3. Follows(s, n, ab)
  OBVIOUS
<1> HIDE DEF ab
<1>4. (n - Len(a)) + Len(s) <= Len(b)
  BY <1>1, <1>2, <1>3 DEF Follows
<1>5. ASSUME NEW i \in 1 .. Len(s) PROVE s[i] = b[(n - Len(a)) + i]
  <2>1. n + i \in 1 .. Len(a) + Len(b) /\ ~(n + i <= Len(a))
    BY <1>1, <1>2, <1>3 DEF Follows
  <2>2. ab[n + i] = b[(n + i) - Len(a)]
    BY <1>2, <2>1
  <2>3. s[i] = ab[n + i]
    BY <1>3 DEF Follows
  <2>4. (n + i) - Len(a) = (n - Len(a)) + i
    BY <1>1
  <2>5. QED
    BY <2>2, <2>3, <2>4
<1>6. QED
  BY <1>4, <1>5 DEF Follows

LEMMA FollowsFirst ==
  ASSUME NEW S, NEW a \in Seq(S), NEW b \in Seq(S), NEW s \in Seq(S),
         Len(s) = Len(a), Follows(s, 0, a \o b)
  PROVE  s = a
<1> DEFINE ab == a \o b
<1>1. Len(a) \in Nat /\ Len(b) \in Nat
  BY LenProperties
<1>2. \A i \in 1 .. Len(a) + Len(b) : ab[i] = IF i <= Len(a) THEN a[i] ELSE b[i - Len(a)]
  BY ConcatProperties
<1>3. Follows(s, 0, ab)
  OBVIOUS
<1> HIDE DEF ab
<1>4. \A i \in 1 .. Len(a) : ab[i] = a[i]
  BY <1>1, <1>2
<1>5. \A i \in 1 .. Len(s) : s[i] = a[i]
  BY <1>3, <1>4 DEF Follows
<1>6. QED
  BY <1>5, SeqEqual

-----------------------------------------------------------------------------
(* The streams *)

StreamTypes ==
  /\ stream \in [Ends -> Seq(Units)]
  /\ \A e \in Ends : Len(stream[e]) <= Window
  /\ status \in [Ends -> {"open", "closed", "reset"}]

Other(e, p) == e \in Ends /\ p \in Ends /\ p = Peer(e) /\ e = Peer(p) /\ e # p

LEMMA TwoEnds ==
  /\ Ends = {"client", "server"}
  /\ Other("client", "server") /\ Other("server", "client")
  BY DEF Ends, Other, Peer

\* What send may do.
LEMMA SendFacts ==
  ASSUME StreamTypes, StatusInv, NEW e, NEW p, Other(e, p), NEW bytes \in Seq(Units), Send(e, bytes)
  PROVE  /\ StreamTypes'
         /\ stream'[e] = stream[e] /\ status'[e] = status[e]
         /\ status[p] = "open" => stream'[p] = stream[p] \o bytes /\ status' = status
         /\ status[p] # "open" => stream' = stream /\ status'[p] = "reset"
         /\ \A x \in Ends : status'[x] = "open" <=> status[x] = "open"
<1> USE DEF StreamTypes
<1>1. e \in Ends /\ p \in Ends /\ e # p /\ p = Peer(e)
  BY DEF Other
<1>2. \A x \in Ends : x = e \/ x = p
  BY <1>1 DEF Ends
<1>3. CASE status[p] = "open"
  <2>1. /\ Len(stream[p]) + Len(bytes) <= Window
        /\ stream' = [stream EXCEPT ![p] = stream[p] \o bytes] /\ status' = status
    BY <1>1, <1>3 DEF Send
  <2>2. stream[p] \in Seq(Units)
    BY <1>1
  <2>3. stream[p] \o bytes \in Seq(Units) /\ Len(stream[p] \o bytes) = Len(stream[p]) + Len(bytes)
    BY <2>2, ConcatProperties
  <2> DEFINE more == stream[p] \o bytes
  <2> HIDE DEF more
  <2>4. stream' = [stream EXCEPT ![p] = more] /\ more \in Seq(Units) /\ Len(more) <= Window
    BY <2>1, <2>3 DEF more
  <2>5. stream'[p] = more /\ stream'[e] = stream[e] /\ stream' \in [Ends -> Seq(Units)]
    BY <1>1, <2>4
  <2>6. \A x \in Ends : Len(stream'[x]) <= Window
    BY <1>2, <2>4, <2>5
  <2>7. QED
    BY <1>3, <2>1, <2>5, <2>6 DEF more
<1>4. CASE status[p] = "closed"
  <2>1. stream' = stream /\ status' = [status EXCEPT ![p] = "reset"]
    BY <1>1, <1>4 DEF Send
  <2>2. QED
    BY <1>1, <1>2, <1>4, <2>1
<1>5. CASE status[p] = "reset"
  <2>1. stream' = stream /\ status' = status
    BY <1>1, <1>5 DEF Send
  <2>2. QED
    BY <1>1, <1>5, <2>1
<1>6. QED
  BY <1>1, <1>3, <1>4, <1>5

\* What recv takes.
LEMMA TakeFacts ==
  ASSUME StreamTypes, NEW e, NEW p, Other(e, p), NEW n \in 1 .. Len(stream[e]), Take(e, n)
  PROVE  /\ stream' \in [Ends -> Seq(Units)] /\ \A x \in Ends : Len(stream'[x]) <= Window
         /\ stream'[p] = stream[p]
         /\ stream'[e] = SubSeq(stream[e], n + 1, Len(stream[e]))
         /\ Len(stream'[e]) = Len(stream[e]) - n
         /\ SubSeq(stream[e], 1, n) \in Seq(Units) /\ Len(SubSeq(stream[e], 1, n)) = n
         /\ SubSeq(stream[e], 1, n)[1] = stream[e][1]
<1> USE DEF StreamTypes
<1> DEFINE s == stream[e]
           rest == SubSeq(s, n + 1, Len(s))
<1>1. e \in Ends /\ p \in Ends /\ e # p /\ \A x \in Ends : x = e \/ x = p
  BY DEF Other, Ends
<1>2. s \in Seq(Units) /\ Len(s) \in Nat /\ \A i \in 1 .. Len(s) : s[i] \in Units
  BY <1>1, LenProperties, ElementOfSeq
<1>3. stream' = [stream EXCEPT ![e] = rest]
  BY DEF Take
<1>4. rest \in Seq(Units) /\ Len(rest) = Len(s) - n
  <2>1. \A i \in n + 1 .. Len(s) : s[i] \in Units
    BY <1>2
  <2>2. rest \in Seq(Units) /\ Len(rest) = IF n + 1 <= Len(s) THEN Len(s) - (n + 1) + 1 ELSE 0
    BY <1>2, <2>1, SubSeqProperties
  <2>3. QED
    BY <1>2, <2>2
<1>5. SubSeq(s, 1, n) \in Seq(Units) /\ Len(SubSeq(s, 1, n)) = n /\ SubSeq(s, 1, n)[1] = s[1]
  <2> DEFINE r == SubSeq(s, 1, n)
  <2>1. \A i \in 1 .. n : s[i] \in Units
    BY <1>2
  <2>2. /\ r \in Seq(Units) /\ Len(r) = IF 1 <= n THEN n - 1 + 1 ELSE 0
        /\ \A i \in 1 .. n - 1 + 1 : r[i] = s[1 + i - 1]
    BY <1>2, <2>1, SubSeqProperties
  <2> HIDE DEF r
  <2>3. Len(r) = n
    BY <1>2, <2>2
  <2>4. r[1] = s[1]
    BY <1>2, <2>2
  <2>5. QED
    BY <2>2, <2>3, <2>4 DEF r
<1> HIDE DEF rest
<1>6. stream'[e] = rest /\ stream'[p] = stream[p] /\ stream' \in [Ends -> Seq(Units)]
  BY <1>1, <1>3, <1>4
<1>7. Len(rest) <= Window
  BY <1>1, <1>2, <1>4, SessionAssumption
<1>8. \A x \in Ends : Len(stream'[x]) <= Window
  BY <1>1, <1>6, <1>7
<1>9. QED
  BY <1>4, <1>5, <1>6, <1>8 DEF rest

\* What the end of a process or a close does.
LEMMA LeaveFacts ==
  ASSUME StreamTypes, NEW e, NEW p, Other(e, p), Leave(e)
  PROVE  /\ StreamTypes'
         /\ stream'[e] = <<>> /\ status'[e] \in {"closed", "reset"} /\ status'[p] = status[p]
         /\ stream[e] = <<>> => stream' = stream /\ status'[e] = "closed"
         /\ Len(stream'[p]) <= Len(stream[p]) /\ Len(stream'[p]) \in Nat
         /\ \A i \in 1 .. Len(stream'[p]) : stream'[p][i] = stream[p][i]
         /\ stream[p] = <<>> => stream'[p] = <<>>
<1> USE DEF StreamTypes
<1>1. e \in Ends /\ p \in Ends /\ e # p /\ p = Peer(e) /\ \A x \in Ends : x = e \/ x = p
  BY DEF Other, Ends
<1>2. stream[p] \in Seq(Units) /\ Len(stream[p]) \in Nat /\ Len(stream[p]) <= Window
  BY <1>1, LenProperties
<1>3. CASE stream[e] = <<>>
  <2>1. stream' = stream /\ status' = [status EXCEPT ![e] = "closed"]
    BY <1>3 DEF Leave
  <2>2. QED
    BY <1>1, <1>2, <1>3, <2>1
<1>4. CASE stream[e] # <<>>
  <2>1. status' = [status EXCEPT ![e] = "reset"]
    BY <1>4 DEF Leave
  <2>2. PICK rest \in Prefixes(stream[p]) : stream' = [stream EXCEPT ![e] = <<>>, ![p] = rest]
    BY <1>1, <1>4 DEF Leave
  <2>3. PICK k \in 0 .. Len(stream[p]) : rest = SubSeq(stream[p], 1, k)
    BY <2>2 DEF Prefixes
  <2>4. Follows(stream[p], 0, stream[p])
    BY <1>2 DEF Follows
  <2>5. Follows(rest, 0, stream[p]) /\ Len(rest) = k /\ rest \in Seq(Units)
    <3>1. PICK s : s = stream[p]
      OBVIOUS
    <3>2. /\ s \in Seq(Units) /\ Len(s) \in Nat /\ Follows(s, 0, s) /\ k \in 0 .. Len(s)
          /\ rest = SubSeq(s, 1, k)
      BY <1>2, <2>3, <2>4, <3>1
    <3>3. Follows(rest, 0, s) /\ Len(rest) = k /\ rest \in Seq(Units)
      BY ONLY <3>2, FollowsPart
    <3>4. QED
      BY <3>1, <3>3
  <2>6. <<>> \in Seq(Units) /\ Len(<<>>) = 0
    BY EmptySeq
  <2>7. /\ stream'[e] = <<>> /\ stream'[p] = rest /\ stream' \in [Ends -> Seq(Units)]
    BY <1>1, <2>2, <2>5, <2>6
  <2>8. \A x \in Ends : Len(stream'[x]) <= Window
    <3>1. Len(rest) <= Window /\ Len(<<>>) <= Window
      BY <1>2, <2>3, <2>5, <2>6, SessionAssumption
    <3>2. QED
      BY <1>1, <2>7, <3>1
  <2>9. status'[e] = "reset" /\ status'[p] = status[p] /\ status' \in [Ends -> {"open", "closed", "reset"}]
    BY <1>1, <2>1
  <2>10. \A i \in 1 .. Len(rest) : rest[i] = stream[p][i]
    BY <2>5 DEF Follows
  <2>11. stream[p] = <<>> => rest = <<>>
    <3>1. ASSUME stream[p] = <<>> PROVE Len(rest) = 0
      BY <2>3, <2>5, <2>6, <3>1
    <3>2. QED
      BY <2>5, <3>1, EmptySeq
  <2>12. QED
    BY <1>2, <1>4, <2>3, <2>5, <2>7, <2>8, <2>9, <2>10, <2>11
<1>5. QED
  BY <1>3, <1>4

(***************************************************************************)
(* The bytes of a request.                                                 *)
(***************************************************************************)
LEMMA UploadFacts ==
  ASSUME command \in [command : Commands, path : Paths],
         Asks("WRITE") => local \in Contents \cup {Absent}
  PROVE  /\ command.path \in Seq(Pieces) /\ command.path \in Seq(Units)
         /\ Len(command.path) \in Nat /\ Len(command.path) >= 1
         /\ Len(Header) = Len(command.path) + 1 /\ Len(Header) <= Window
         /\ Tail(Header) = command.path
         /\ Header[1] = [command |-> command.command, data_len |-> DataLen]
         /\ Payload \in Seq(Chunks) /\ Payload \in Seq(Units) /\ Len(Payload) \in Nat
         /\ Asks("WRITE") /\ Buildable => Payload = local /\ local \in Contents /\ DataLen = Len(local)
         /\ Asks("WRITE") /\ local # Absent => Buildable
         /\ Buildable => /\ DataLen \in Nat
                         /\ Header \in Seq(Units) /\ Upload \in Seq(Units)
                         /\ Len(Upload) = Len(Header) + Len(Payload)
                         /\ Upload[1] = Header[1]
                         /\ \A i \in 1 .. Len(Payload) : Upload[Len(Header) + i] = Payload[i]
<1> USE SessionAssumption
<1>1. command.path \in Paths /\ command.command \in Commands
  OBVIOUS
<1>2. Pieces \subseteq Units /\ Chunks \subseteq Units
  BY DEF Units
<1>3. command.path \in Seq(Pieces) /\ command.path \in Seq(Units) /\ Len(command.path) \in Nat
  BY <1>1, <1>2, SeqMonotonic, LenProperties
<1>4. Len(command.path) \in 1 .. Window - 1
  BY <1>1
<1>5. \A x \in Contents : x \in Seq(Chunks) /\ x \in Seq(Units) /\ Len(x) \in Nat
  BY <1>2, SeqMonotonic, LenProperties
<1>6. Asks("WRITE") /\ Buildable => Payload = local /\ local \in Contents /\ DataLen = Len(local)
  BY DEF Buildable, DataLen, FileSize, Payload
<1>7. Asks("WRITE") /\ local # Absent => Buildable
  BY <1>5 DEF Buildable, DataLen, FileSize
<1>8. Payload \in Seq(Chunks) /\ Payload \in Seq(Units) /\ Len(Payload) \in Nat
  <2>1. <<>> \in Seq(Chunks) /\ <<>> \in Seq(Units) /\ Len(<<>>) = 0
    BY EmptySeq
  <2>2. QED
    BY <1>5, <1>6, <2>1 DEF Payload
<1> DEFINE first == [command |-> command.command, data_len |-> DataLen]
           path == command.path
<1>9. Header = <<first>> \o path
  BY DEF Header, SerializeRequest
<1> HIDE DEF first, path
<1>10. <<first>> \in Seq({first}) /\ Len(<<first>>) = 1 /\ <<first>>[1] = first
  OBVIOUS
<1> DEFINE U == Units \cup {first}
<1>11. <<first>> \in Seq(U) /\ path \in Seq(U)
  BY <1>3, <1>10, SeqMonotonic DEF path
<1>12. /\ Header \in Seq(U) /\ Len(Header) = 1 + Len(path)
       /\ \A i \in 1 .. 1 + Len(path) : Header[i] = IF i <= 1 THEN <<first>>[i] ELSE path[i - 1]
  BY <1>9, <1>10, <1>11, ConcatProperties
<1>13. Header[1] = first
  BY <1>3, <1>10, <1>12 DEF path
<1>14. Tail(Header) = path
  <2>1. Header # <<>>
    BY <1>3, <1>12, EmptySeq DEF path
  <2>2. Tail(Header) \in Seq(U) /\ Len(Tail(Header)) = Len(path)
    BY <1>3, <1>12, <2>1, HeadTailProperties DEF path
  <2>3. \A i \in 1 .. Len(path) : Tail(Header)[i] = Header[i + 1]
    BY <1>3, <1>12, <2>2 DEF path
  <2>4. \A i \in 1 .. Len(path) : Header[i + 1] = path[i]
    BY <1>3, <1>12 DEF path
  <2>5. \A i \in 1 .. Len(Tail(Header)) : Tail(Header)[i] = path[i]
    BY <2>2, <2>3, <2>4
  <2>6. QED
    BY <1>11, <2>2, <2>5, SeqEqual
<1>15. ASSUME Buildable
       PROVE  /\ DataLen \in Nat
              /\ Header \in Seq(Units) /\ Upload \in Seq(Units)
              /\ Len(Upload) = Len(Header) + Len(Payload)
              /\ Upload[1] = Header[1]
              /\ \A i \in 1 .. Len(Payload) : Upload[Len(Header) + i] = Payload[i]
  <2>1. DataLen \in Nat
    BY <1>5, <1>6, <1>15 DEF DataLen
  <2>2. first \in Units
    BY <1>1, <2>1 DEF first, Units
  <2>3. Header \in Seq(Units)
    BY <1>12, <2>2, SeqMonotonic
  <2>4. /\ Upload \in Seq(Units) /\ Len(Upload) = Len(Header) + Len(Payload)
        /\ \A i \in 1 .. Len(Header) + Len(Payload) :
             Upload[i] = IF i <= Len(Header) THEN Header[i] ELSE Payload[i - Len(Header)]
    BY <1>8, <2>3, ConcatProperties DEF Upload
  <2>5. Upload[1] = Header[1]
    BY <1>3, <1>8, <1>12, <2>4 DEF path
  <2>6. Len(Header) \in Nat
    BY <2>3, LenProperties
  <2>7. ASSUME NEW i \in 1 .. Len(Payload) PROVE Upload[Len(Header) + i] = Payload[i]
    <3>1. /\ Len(Header) + i \in 1 .. Len(Header) + Len(Payload) /\ ~(Len(Header) + i <= Len(Header))
          /\ (Len(Header) + i) - Len(Header) = i
      BY <1>8, <2>6
    <3>2. QED
      BY <2>4, <3>1
  <2>8. QED
    BY <2>1, <2>3, <2>4, <2>5, <2>7
<1>16. Len(path) >= 1 /\ Len(Header) = Len(path) + 1 /\ Len(Header) <= Window
  BY <1>3, <1>4, <1>12 DEF path
<1>17. QED
  BY <1>3, <1>6, <1>7, <1>8, <1>13, <1>14, <1>15, <1>16 DEF first, path

-----------------------------------------------------------------------------
(* What is made of a header *)

LEMMA MinFacts ==
  ASSUME NEW S \in SUBSET Nat, S # {}
  PROVE  Min(S) \in S
<1> DEFINE Less == OpToRel(<, Nat)
<1>1. PICK x \in S : \A y \in S : <<y, x>> \notin Less
  <2>1. IsWellFoundedOn(Less, Nat)
    BY NatLessThanWellFounded, Zenon
  <2> HIDE DEF Less
  <2>2. QED
    BY <2>1, WFMin
<1>2. \A y \in S : ~(y < x)
  BY <1>1, Zenon DEF OpToRel
<1> HIDE DEF Less
<1>3. \A y \in S : x <= y
  BY <1>2
<1>4. QED
  BY <1>3 DEF Min

LEMMA ThirdFieldFacts ==
  ASSUME NEW bytes \in Seq(Units)
  PROVE  /\ ThirdField(bytes) \in Seq(Units)
         /\ (\A i \in 1 .. Len(bytes) : bytes[i] \notin Separators) => ThirdField(bytes) = bytes
<1> DEFINE I == {i \in 1 .. Len(bytes) : bytes[i] \in Separators}
           end == IF I # {} THEN Min(I) ELSE 0
<1>1. ThirdField(bytes) = IF end = 0 THEN bytes ELSE SubSeq(bytes, 1, end - 1)
  BY DEF ThirdField, SelectInSeq
<1>2. Len(bytes) \in Nat /\ \A i \in 1 .. Len(bytes) : bytes[i] \in Units
  BY LenProperties, ElementOfSeq
<1>3. I # {} => Min(I) \in I
  <2>1. I \in SUBSET Nat
    BY <1>2
  <2> HIDE DEF I
  <2>2. QED
    BY <2>1, MinFacts
<1>4. end \in 0 .. Len(bytes)
  BY <1>2, <1>3
<1>5. I = {} => end = 0
  OBVIOUS
<1>6. (\A i \in 1 .. Len(bytes) : bytes[i] \notin Separators) => I = {}
  OBVIOUS
<1> HIDE DEF I, end
<1>7. CASE end = 0
  BY <1>1, <1>7
<1>8. CASE end # 0
  <2>1. \A i \in 1 .. end - 1 : bytes[i] \in Units
    BY <1>2, <1>4, <1>8
  <2>2. end \in Int /\ end - 1 \in Int
    BY <1>4
  <2>3. SubSeq(bytes, 1, end - 1) \in Seq(Units)
    BY <2>1, <2>2, SubSeqProperties
  <2>4. QED
    BY <1>1, <1>5, <1>6, <1>8, <2>3
<1>9. QED
  BY <1>7, <1>8

\* The request the worker parses, from the first of its bytes.
LEMMA ParsedFacts ==
  ASSUME NEW bytes \in Seq(Units), Buildable, DataLen \in Nat,
         command \in [command : Commands, path : Paths],
         Len(bytes) >= 1 => bytes[1] = [command |-> command.command, data_len |-> DataLen],
         NEW request, request = DeSerializeRequest(bytes)
  PROVE  /\ request \in [command : Commands \cup {"none"}, data_len : Nat, path : Seq(Units)]
         /\ request.command # "none" =>
              /\ request.command = command.command
              /\ request.data_len = DataLen
              /\ request.path = ThirdField(Tail(bytes))
         /\ Len(bytes) >= 2 => request.command # "none"
<1>1. Len(bytes) \in Nat /\ command.command \in Commands /\ command.command # "none"
  BY LenProperties DEF Commands
<1>2. CASE Len(bytes) < 2
  <2>1. request = [command |-> "none", data_len |-> 0, path |-> <<>>]
    BY <1>2 DEF DeSerializeRequest, NoRequest
  <2>2. <<>> \in Seq(Units)
    BY EmptySeq
  <2>3. QED
    BY <1>1, <1>2, <2>1, <2>2
<1>3. CASE Len(bytes) >= 2
  <2>1. bytes[1].command = command.command /\ bytes[1].data_len = DataLen
    BY <1>1, <1>3
  <2>2. request = [command |-> command.command, data_len |-> DataLen,
                   path |-> ThirdField(Tail(bytes))]
    BY <1>1, <1>3, <2>1 DEF DeSerializeRequest
  <2>3. bytes # <<>>
    BY <1>3, EmptySeq
  <2>4. ThirdField(Tail(bytes)) \in Seq(Units)
    BY <2>3, HeadTailProperties, ThirdFieldFacts
  <2>5. QED
    BY <1>1, <2>2, <2>4
<1>4. QED
  BY <1>1, <1>2, <1>3

-----------------------------------------------------------------------------
(* The invariants for every network *)

LEMMA SessionTypes ==
  ASSUME SessionInv
  PROVE  /\ StreamTypes /\ StatusInv
         /\ pc \in [Ends -> Labels] /\ pos \in [Ends -> Nat] /\ left \in [Ends -> Int]
         /\ command \in [command : Commands, path : Paths]
         /\ Asks("WRITE") => local \in Contents \cup {Absent}
  BY DEF SessionInv, TypeOK, StreamTypes, ClientInv

\* The request stays what it is.
LEMMA SameRequest ==
  ASSUME command' = command, Asks("WRITE") => local' = local
  PROVE  /\ \A c : Asks(c)' <=> Asks(c)
         /\ UNCHANGED <<DataLen, Header, Payload, Upload>>
         /\ Buildable' <=> Buildable
<1>1. DataLen' = DataLen /\ \A c : Asks(c)' <=> Asks(c)
  BY DEF DataLen, Asks
<1>2. Buildable' <=> Buildable
  BY <1>1 DEF Buildable
<1>3. Header' = Header /\ Payload' = Payload
  BY <1>1, <1>2 DEF Header, Payload
<1>4. QED
  BY <1>1, <1>2, <1>3 DEF Upload

\* The client leaves.
LEMMA ClientLeavesStep ==
  ASSUME SessionInv, Running("client"), Leave("client"),
         NEW label \in {"exited", "killed", "broken"}, Goto("client", label),
         UNCHANGED <<command, network, local, files, got, pos, left>>,
         outcome' \in {outcome, "failed"}
  PROVE  SessionInv'
<1> USE TwoEnds
<1>1. /\ StreamTypes /\ StatusInv
      /\ pc \in [Ends -> Labels] /\ pos \in [Ends -> Nat] /\ left \in [Ends -> Int]
  BY SessionTypes
<1>2. /\ StreamTypes'
      /\ stream'["client"] = <<>> /\ status'["client"] \in {"closed", "reset"}
      /\ status'["server"] = status["server"]
      /\ stream["client"] = <<>> => stream' = stream
      /\ stream["server"] = <<>> => stream'["server"] = <<>>
  BY <1>1, LeaveFacts
<1>3. /\ pc' \in [Ends -> Labels] /\ pc'["client"] = label /\ pc'["server"] = pc["server"]
  BY <1>1 DEF Goto, Labels
<1>4. /\ \A c : Asks(c)' <=> Asks(c)
      /\ UNCHANGED <<DataLen, Header, Payload, Upload>>
      /\ Buildable' <=> Buildable
  BY SameRequest
<1>5. TypeOK'
  BY <1>2, <1>3 DEF SessionInv, TypeOK, StreamTypes
<1>6. StatusInv'
  BY <1>1, <1>2, <1>3 DEF StatusInv, Running
<1>7. ClientInv'
  BY <1>2, <1>3, <1>4 DEF SessionInv, ClientInv, ClientLabels, At, Expects
<1>8. ArrivingInv'
  <2>1. At("server", "receive") => stream' = stream
    BY <1>2 DEF SessionInv, AnswerInv, Silent, At
  <2>2. QED
    BY <1>3, <1>4, <2>1 DEF SessionInv, ArrivingInv, At, Expects, Parsed, Follows
<1>9. AnswerInv'
  BY <1>2, <1>3 DEF SessionInv, AnswerInv, Silent, Expects, At
<1>10. ServerInv'
  BY <1>3 DEF SessionInv, ServerInv, Silent, At, Parsed
<1>11. QED
  BY <1>5, <1>6, <1>7, <1>8, <1>9, <1>10 DEF SessionInv

\* The server's thread leaves.
LEMMA ServerLeavesStep ==
  ASSUME SessionInv, Running("server"), Leave("server"),
         NEW label \in {"closed", "killed", "broken"}, Goto("server", label),
         UNCHANGED <<command, network, local, files, got, pos, left, outcome>>
  PROVE  SessionInv'
<1> USE TwoEnds
<1>1. /\ StreamTypes /\ StatusInv
      /\ pc \in [Ends -> Labels] /\ pos \in [Ends -> Nat] /\ left \in [Ends -> Int]
  BY SessionTypes
<1>2. /\ StreamTypes'
      /\ stream'["server"] = <<>> /\ status'["server"] \in {"closed", "reset"}
      /\ status'["client"] = status["client"]
      /\ Len(stream'["client"]) <= Len(stream["client"]) /\ Len(stream'["client"]) \in Nat
      /\ \A i \in 1 .. Len(stream'["client"]) : stream'["client"][i] = stream["client"][i]
      /\ stream["client"] = <<>> => stream'["client"] = <<>>
  BY <1>1, LeaveFacts
<1>3. /\ pc' \in [Ends -> Labels] /\ pc'["server"] = label /\ pc'["client"] = pc["client"]
  BY <1>1 DEF Goto, Labels
<1>4. /\ \A c : Asks(c)' <=> Asks(c)
      /\ UNCHANGED <<DataLen, Header, Payload, Upload>>
      /\ Buildable' <=> Buildable
  BY SameRequest
<1>5. TypeOK'
  BY <1>2, <1>3 DEF SessionInv, TypeOK, StreamTypes
<1>6. StatusInv'
  BY <1>1, <1>2, <1>3 DEF StatusInv, Running
<1>7. ClientInv'
  BY <1>2, <1>3, <1>4 DEF SessionInv, ClientInv, ClientLabels, At, Expects, Parsed, Running
<1>8. ArrivingInv'
  BY <1>3 DEF ArrivingInv, At
<1>9. AnswerInv'
  <2>1. stream'["client"] # <<>> => Len(stream'["client"]) >= 1
    BY <1>2, EmptySeq DEF StreamTypes
  <2>2. stream'["client"] # <<>> => stream'["client"][1] = stream["client"][1] /\ stream["client"] # <<>>
    BY <1>2, <2>1
  <2>3. QED
    BY <1>3, <2>2 DEF SessionInv, AnswerInv, Silent, Expects, At
<1>10. ServerInv'
  BY <1>3 DEF SessionInv, ServerInv, Silent, At, Parsed, ServerLabels
<1>11. QED
  BY <1>5, <1>6, <1>7, <1>8, <1>9, <1>10 DEF SessionInv

LEMMA SendRequestStep ==
  ASSUME SessionInv, SendRequest
  PROVE  SessionInv'
<1> USE TwoEnds
<1> DEFINE label == IF Asks("WRITE") THEN "upload" ELSE "response"
<1>1. /\ StreamTypes /\ StatusInv
      /\ pc \in [Ends -> Labels] /\ pos \in [Ends -> Nat] /\ left \in [Ends -> Int]
  BY SessionTypes
<1>2. /\ pc["client"] = "start" /\ Buildable /\ Goto("client", label)
      /\ Send("client", Header)
      /\ UNCHANGED <<command, network, local, files, got, pos, left, outcome>>
  BY DEF SendRequest, At, Header
<1>3. /\ Header \in Seq(Units) /\ Upload \in Seq(Units) /\ Len(Header) \in Nat
      /\ Len(Header) = Len(command.path) + 1 /\ Len(command.path) \in Nat
      /\ Len(Upload) = Len(Header) + Len(Payload) /\ Len(Payload) \in Nat
  BY <1>2, SessionTypes, UploadFacts
<1>4. /\ StreamTypes'
      /\ stream'["client"] = stream["client"]
      /\ status["server"] = "open" => stream'["server"] = stream["server"] \o Header
      /\ status["server"] # "open" => stream'["server"] = stream["server"]
      /\ \A x \in Ends : status'[x] = "open" <=> status[x] = "open"
  BY <1>1, <1>2, <1>3, SendFacts
<1>5. /\ pc' \in [Ends -> Labels] /\ pc'["client"] = label /\ pc'["server"] = pc["server"]
      /\ label \in {"upload", "response"}
  BY <1>1, <1>2 DEF Goto, Labels
<1>6. /\ \A c : Asks(c)' <=> Asks(c)
      /\ UNCHANGED <<DataLen, Header, Payload, Upload>>
      /\ Buildable' <=> Buildable
  BY <1>2, SameRequest
<1>7. stream["client"] = <<>> /\ stream["server"] = <<>> /\ pos["client"] = 0 /\ ~Parsed
      /\ (At("server", "receive") \/ ~Running("server"))
  BY <1>2 DEF SessionInv, ClientInv, At
<1>8. status["server"] = "open" => stream'["server"] = Header
  BY <1>3, <1>4, <1>7, ConcatEmptySeq
<1>9. TypeOK'
  BY <1>2, <1>4, <1>5 DEF SessionInv, TypeOK, StreamTypes
<1>10. StatusInv'
  BY <1>1, <1>2, <1>4, <1>5, <1>7 DEF StatusInv, Running
<1>11. ClientInv'
  BY <1>2, <1>5, <1>6 DEF SessionInv, ClientInv, ClientLabels, At, Expects
<1>12. ArrivingInv'
  <2>1. SUFFICES ASSUME At("server", "receive")' PROVE ArrivingInv'
    BY DEF ArrivingInv
  <2>2. stream'["server"] = Header
    BY <1>1, <1>5, <1>8, <2>1 DEF StatusInv, Running, At
  <2>3. Follows(Header, 0, Upload)
    <3>1. Follows(Upload, 0, Upload)
      BY <1>3 DEF Follows
    <3>2. \A i \in 1 .. Len(Header) : Upload[i] = Header[i]
      <4>1. Payload \in Seq(Units)
        BY SessionTypes, UploadFacts
      <4>2. \A i \in 1 .. Len(Header) + Len(Payload) :
              Upload[i] = IF i <= Len(Header) THEN Header[i] ELSE Payload[i - Len(Header)]
        BY <1>3, <4>1, ConcatProperties DEF Upload
      <4>3. QED
        BY <1>3, <4>2
    <3>3. QED
      BY <1>3, <3>2 DEF Follows
  <2>4. Header # <<>>
    BY <1>3, EmptySeq
  <2>5. Follows(stream["server"], 0, Upload)'
    BY <1>6, <2>2, <2>3 DEF Follows
  <2>6. QED
    BY <1>2, <1>3, <1>6, <1>7, <2>2, <2>4, <2>5 DEF ArrivingInv, Parsed
<1>13. AnswerInv'
  BY <1>2, <1>4, <1>5, <1>7 DEF SessionInv, AnswerInv, Silent, Expects, At, Running
<1>14. ServerInv'
  BY <1>2, <1>5, <1>7 DEF SessionInv, ServerInv, Silent, At, Parsed
<1>15. QED
  BY <1>9, <1>10, <1>11, <1>12, <1>13, <1>14 DEF SessionInv

LEMMA UploadChunkStep ==
  ASSUME SessionInv, UploadChunk
  PROVE  SessionInv'
<1> USE TwoEnds
<1> DEFINE next == local[pos["client"] + 1]
<1>1. /\ StreamTypes /\ StatusInv
      /\ pc \in [Ends -> Labels] /\ pos \in [Ends -> Nat] /\ left \in [Ends -> Int]
  BY SessionTypes
<1>2. /\ pc["client"] = "upload" /\ pos["client"] < Len(local)
      /\ Send("client", <<next>>) /\ pos' = [pos EXCEPT !["client"] = @ + 1]
      /\ UNCHANGED <<pc, command, network, local, files, got, left, outcome>>
  BY DEF UploadChunk, MoreToUpload, At
<1>3. Asks("WRITE") /\ Buildable
  BY <1>2 DEF SessionInv, ClientInv, At, Expects
<1>4. /\ Payload = local /\ local \in Seq(Units) /\ Len(local) \in Nat
      /\ Upload \in Seq(Units) /\ Len(Upload) = Len(Header) + Len(local) /\ Len(Header) \in Nat
      /\ \A i \in 1 .. Len(local) : Upload[Len(Header) + i] = local[i]
  BY <1>3, SessionTypes, UploadFacts
<1>5. next \in Units /\ <<next>> \in Seq(Units)
  BY <1>1, <1>2, <1>4, ElementOfSeq
<1>6. /\ StreamTypes'
      /\ stream'["client"] = stream["client"]
      /\ status["server"] = "open" => stream'["server"] = stream["server"] \o <<next>>
      /\ status["server"] # "open" => stream'["server"] = stream["server"]
      /\ \A x \in Ends : status'[x] = "open" <=> status[x] = "open"
  BY <1>1, <1>2, <1>5, SendFacts
<1>7. pos'["client"] = pos["client"] + 1 /\ pos'["server"] = pos["server"] /\ pos' \in [Ends -> Nat]
  BY <1>1, <1>2
<1>8. /\ \A c : Asks(c)' <=> Asks(c)
      /\ UNCHANGED <<DataLen, Header, Payload, Upload>>
      /\ Buildable' <=> Buildable
  BY <1>2, SameRequest
<1>9. TypeOK'
  BY <1>2, <1>6, <1>7 DEF SessionInv, TypeOK, StreamTypes
<1>10. StatusInv'
  BY <1>1, <1>2, <1>6 DEF StatusInv, Running
<1>11. ClientInv'
  BY <1>1, <1>2, <1>4, <1>7, <1>8 DEF SessionInv, ClientInv, ClientLabels, At, Expects
<1>12. ArrivingInv'
  <2>1. SUFFICES ASSUME At("server", "receive") PROVE ArrivingInv'
    BY <1>2 DEF ArrivingInv, At
  <2> DEFINE s == stream["server"]
  <2>2. /\ s # <<>> /\ Len(s) = Len(Header) + pos["client"] /\ Follows(s, 0, Upload) /\ ~Parsed
        /\ s \in Seq(Units)
    BY <1>1, <1>2, <2>1 DEF SessionInv, ArrivingInv, Expects, StreamTypes
  <2>3. stream'["server"] = s \o <<next>>
    BY <1>1, <1>6, <2>1 DEF StatusInv, Running, At
  <2> HIDE DEF s
  <2>4. 0 + Len(s) < Len(Upload) /\ 0 + Len(s) + 1 = Len(Header) + (pos["client"] + 1)
    BY <1>1, <1>2, <1>4, <2>2
  <2>5. Upload[0 + Len(s) + 1] = next
    <3>1. pos["client"] + 1 \in 1 .. Len(local)
      BY <1>1, <1>2, <1>4
    <3>2. Upload[Len(Header) + (pos["client"] + 1)] = next
      BY <1>4, <3>1
    <3>3. QED
      BY <2>4, <3>2
  <2>6. /\ Follows(s \o <<Upload[0 + Len(s) + 1]>>, 0, Upload)
        /\ Len(s \o <<Upload[0 + Len(s) + 1]>>) = Len(s) + 1
        /\ s \o <<Upload[0 + Len(s) + 1]>> \in Seq(Units)
    BY <1>4, <2>2, <2>4, FollowsNext
  <2>7. Follows(stream'["server"], 0, Upload) /\ Len(stream'["server"]) = Len(s) + 1
    BY <2>3, <2>5, <2>6
  <2>8. stream'["server"] # <<>>
    BY <1>1, <1>4, <2>2, <2>7, EmptySeq
  <2>9. Follows(stream["server"], 0, Upload)'
    BY <1>8, <2>7 DEF Follows
  <2>10. Len(stream'["server"]) = Len(Header') + pos'["client"]
    BY <1>1, <1>4, <1>7, <1>8, <2>2, <2>7
  <2>11. QED
    BY <1>2, <1>3, <1>8, <2>2, <2>8, <2>9, <2>10 DEF ArrivingInv, Parsed
<1>13. AnswerInv'
  BY <1>2, <1>6 DEF SessionInv, AnswerInv, Silent, Expects, At
<1>14. ServerInv'
  BY <1>2, <1>7 DEF SessionInv, ServerInv, Silent, At, Parsed
<1>15. QED
  BY <1>9, <1>10, <1>11, <1>12, <1>13, <1>14 DEF SessionInv

LEMMA UploadDoneStep ==
  ASSUME SessionInv, UploadDone
  PROVE  SessionInv'
<1> USE TwoEnds
<1>1. pc \in [Ends -> Labels]
  BY SessionTypes
<1>2. /\ pc["client"] = "upload" /\ Goto("client", "response")
      /\ UNCHANGED <<command, network, stream, status, local, files, got, pos, left, outcome>>
  BY DEF UploadDone, At
<1>3. pc' \in [Ends -> Labels] /\ pc'["client"] = "response" /\ pc'["server"] = pc["server"]
  BY <1>1, <1>2 DEF Goto, Labels
<1>4. /\ \A c : Asks(c)' <=> Asks(c)
      /\ UNCHANGED <<DataLen, Header, Payload, Upload>>
      /\ Buildable' <=> Buildable
  BY <1>2, SameRequest
<1>5. TypeOK' /\ StatusInv'
  BY <1>2, <1>3 DEF SessionInv, TypeOK, StatusInv, Running
<1>6. ClientInv'
  BY <1>2, <1>3, <1>4 DEF SessionInv, ClientInv, ClientLabels, At, Expects
<1>7. ArrivingInv'
  BY <1>2, <1>3, <1>4 DEF SessionInv, ArrivingInv, At, Expects, Parsed, Follows
<1>8. AnswerInv'
  BY <1>2, <1>3 DEF SessionInv, AnswerInv, Silent, Expects, At
<1>9. ServerInv'
  BY <1>2, <1>3 DEF SessionInv, ServerInv, Silent, At, Parsed
<1>10. QED
  BY <1>5, <1>6, <1>7, <1>8, <1>9 DEF SessionInv

LEMMA ReceiveResponseStep ==
  ASSUME SessionInv, ReceiveResponse
  PROVE  SessionInv'
<1> USE TwoEnds
<1> DEFINE first == stream["client"][1]
<1>1. /\ StreamTypes /\ StatusInv
      /\ pc \in [Ends -> Labels] /\ pos \in [Ends -> Nat] /\ left \in [Ends -> Int]
  BY SessionTypes
<1>2. /\ pc["client"] = "response"
      /\ UNCHANGED <<command, network, status, files, got, pos>>
  BY DEF ReceiveResponse, At
<1>3. PICK n \in 1 .. Window :
        /\ Arrives("client", n, 2)
        /\ Take("client", n)
        /\ \/ /\ outcome' \in {"success", "error", "failed", "none"} /\ Goto("client", "exit")
              /\ UNCHANGED <<local, left>>
           \/ /\ Response(n) # NoResponse /\ IsDownload(Response(n))
              /\ local' = <<>> /\ left' = [left EXCEPT !["client"] = Response(n).data_len]
              /\ Goto("client", "download") /\ UNCHANGED outcome
           \/ /\ Goto("client", "exit") /\ UNCHANGED <<local, left, outcome>>
  BY DEF ReceiveResponse, Shown
<1>4. n \in 1 .. Len(stream["client"])
  BY <1>3 DEF Arrives
<1>5. /\ stream' \in [Ends -> Seq(Units)] /\ \A x \in Ends : Len(stream'[x]) <= Window
      /\ stream'["server"] = stream["server"]
      /\ SubSeq(stream["client"], 1, n) \in Seq(Units) /\ Len(SubSeq(stream["client"], 1, n)) = n
      /\ SubSeq(stream["client"], 1, n)[1] = first
  BY <1>1, <1>3, <1>4, TakeFacts
<1>6. stream["client"] # <<>> /\ Expects
  BY <1>2, <1>4, EmptySeq DEF Expects
<1>7. first \in [success : BOOLEAN, data_len : Nat] /\ ~Silent
  BY <1>6 DEF SessionInv, AnswerInv
<1>8. Response(n) # NoResponse => Response(n).data_len \in Nat
  BY <1>3, <1>5, <1>7 DEF Response, DeSerializeResponse
<1>9. PICK label \in {"exit", "download"} :
        /\ Goto("client", label)
        /\ label = "download" => Asks("GET") /\ local' = <<>>
        /\ label = "exit" => local' = local
        /\ left' \in [Ends -> Int]
        /\ outcome' \in {"success", "error", "failed", "none", outcome}
  BY <1>1, <1>3, <1>8 DEF IsDownload
<1>10. pc' \in [Ends -> Labels] /\ pc'["client"] = label /\ pc'["server"] = pc["server"]
  BY <1>1, <1>9 DEF Goto, Labels
<1>11. Asks("WRITE") => local' = local
  BY <1>9 DEF Asks
<1>12. /\ \A c : Asks(c)' <=> Asks(c)
       /\ UNCHANGED <<DataLen, Header, Payload, Upload>>
       /\ Buildable' <=> Buildable
  BY <1>2, <1>11, SameRequest
<1>13. <<>> \in Seq(Units)
  BY EmptySeq
<1>14. TypeOK'
  BY <1>2, <1>5, <1>9, <1>10, <1>13 DEF SessionInv, TypeOK
<1>15. StatusInv'
  BY <1>1, <1>2, <1>5, <1>9, <1>10 DEF StatusInv, Running
<1>16. ClientInv'
  BY <1>2, <1>9, <1>10, <1>11, <1>12, <1>13 DEF SessionInv, ClientInv, ClientLabels, At, Expects
<1>17. ArrivingInv'
  BY <1>7, <1>10 DEF ArrivingInv, At, Silent
<1>18. AnswerInv'
  BY <1>7, <1>10 DEF SessionInv, AnswerInv, Silent, Expects, At
<1>19. ServerInv'
  BY <1>2, <1>10 DEF SessionInv, ServerInv, Silent, At, Parsed
<1>20. QED
  BY <1>14, <1>15, <1>16, <1>17, <1>18, <1>19 DEF SessionInv

LEMMA NoResponseStep ==
  ASSUME SessionInv, NoResponseArrives
  PROVE  SessionInv'
<1> USE TwoEnds
<1>1. pc \in [Ends -> Labels] /\ StatusInv
  BY SessionTypes
<1>2. /\ pc["client"] = "response" /\ Goto("client", "exit") /\ status["server"] # "open"
      /\ UNCHANGED <<command, network, stream, status, local, files, got, pos, left>>
      /\ outcome' = "failed"
  BY DEF NoResponseArrives, At, Over, Peer
<1>3. pc' \in [Ends -> Labels] /\ pc'["client"] = "exit" /\ pc'["server"] = pc["server"]
  BY <1>1, <1>2 DEF Goto, Labels
<1>4. ~Silent
  BY <1>1, <1>2 DEF StatusInv, Running, Silent
<1>5. /\ \A c : Asks(c)' <=> Asks(c)
      /\ UNCHANGED <<DataLen, Header, Payload, Upload>>
      /\ Buildable' <=> Buildable
  BY <1>2, SameRequest
<1>6. TypeOK' /\ StatusInv'
  BY <1>1, <1>2, <1>3 DEF SessionInv, TypeOK, StatusInv, Running
<1>7. ClientInv'
  BY <1>2, <1>3, <1>5 DEF SessionInv, ClientInv, ClientLabels, At, Expects
<1>8. ArrivingInv'
  BY <1>3, <1>4 DEF ArrivingInv, At, Silent
<1>9. AnswerInv' /\ ServerInv'
  BY <1>2, <1>3, <1>4 DEF SessionInv, AnswerInv, ServerInv, Silent, Expects, At, Parsed
<1>10. QED
  BY <1>6, <1>7, <1>8, <1>9 DEF SessionInv

LEMMA DownloadChunksStep ==
  ASSUME SessionInv, DownloadChunks
  PROVE  SessionInv'
<1> USE TwoEnds
<1>1. /\ StreamTypes /\ StatusInv
      /\ pc \in [Ends -> Labels] /\ pos \in [Ends -> Nat] /\ left \in [Ends -> Int]
  BY SessionTypes
<1>2. /\ pc["client"] = "download"
      /\ UNCHANGED <<pc, command, network, status, files, got, pos, outcome>>
  BY DEF DownloadChunks, At
<1>3. PICK n \in 1 .. Len(stream["client"]) :
        /\ Take("client", n)
        /\ local' = local \o SubSeq(stream["client"], 1, n)
        /\ left' = [left EXCEPT !["client"] = @ - n]
  BY DEF DownloadChunks
<1>4. /\ stream' \in [Ends -> Seq(Units)] /\ \A x \in Ends : Len(stream'[x]) <= Window
      /\ stream'["server"] = stream["server"]
      /\ SubSeq(stream["client"], 1, n) \in Seq(Units)
  BY <1>1, <1>3, TakeFacts
<1>5. Asks("GET") /\ local \in Seq(Units) /\ ~Silent
  BY <1>2 DEF SessionInv, ClientInv, AnswerInv, At
<1>6. local' \in Seq(Units)
  BY <1>3, <1>4, <1>5, ConcatProperties
<1>7. left' \in [Ends -> Int]
  <2>1. n \in Int /\ left["client"] \in Int
    BY <1>1
  <2>2. QED
    BY <1>1, <1>3, <2>1
<1>8. /\ \A c : Asks(c)' <=> Asks(c)
      /\ UNCHANGED <<DataLen, Header, Payload, Upload>>
      /\ Buildable' <=> Buildable
  BY <1>2, <1>5, SameRequest DEF Asks
<1>9. TypeOK'
  BY <1>2, <1>4, <1>6, <1>7 DEF SessionInv, TypeOK
<1>10. StatusInv'
  BY <1>1, <1>2, <1>4 DEF StatusInv, Running
<1>11. ClientInv'
  BY <1>2, <1>5, <1>6, <1>8 DEF SessionInv, ClientInv, ClientLabels, At, Expects, Asks
<1>12. ArrivingInv'
  BY <1>2, <1>5 DEF ArrivingInv, At, Silent
<1>13. AnswerInv' /\ ServerInv'
  BY <1>2, <1>5 DEF SessionInv, AnswerInv, ServerInv, Silent, Expects, At, Parsed
<1>14. QED
  BY <1>9, <1>10, <1>11, <1>12, <1>13 DEF SessionInv

LEMMA DownloadDoneStep ==
  ASSUME SessionInv, DownloadDone
  PROVE  SessionInv'
<1> USE TwoEnds
<1>1. pc \in [Ends -> Labels] /\ StatusInv
  BY SessionTypes
<1>2. /\ pc["client"] = "download" /\ Goto("client", "exit") /\ outcome' = "received"
      /\ UNCHANGED <<command, network, stream, status, local, files, got, pos, left>>
  BY DEF DownloadDone, At
<1>3. pc' \in [Ends -> Labels] /\ pc'["client"] = "exit" /\ pc'["server"] = pc["server"]
  BY <1>1, <1>2 DEF Goto, Labels
<1>4. ~Silent
  BY <1>2 DEF SessionInv, AnswerInv
<1>5. /\ \A c : Asks(c)' <=> Asks(c)
      /\ UNCHANGED <<DataLen, Header, Payload, Upload>>
      /\ Buildable' <=> Buildable
  BY <1>2, SameRequest
<1>6. TypeOK' /\ StatusInv'
  BY <1>1, <1>2, <1>3 DEF SessionInv, TypeOK, StatusInv, Running
<1>7. ClientInv'
  BY <1>2, <1>3, <1>5 DEF SessionInv, ClientInv, ClientLabels, At, Expects
<1>8. ArrivingInv'
  BY <1>3, <1>4 DEF ArrivingInv, At, Silent
<1>9. AnswerInv' /\ ServerInv'
  BY <1>2, <1>3, <1>4 DEF SessionInv, AnswerInv, ServerInv, Silent, Expects, At, Parsed
<1>10. QED
  BY <1>6, <1>7, <1>8, <1>9 DEF SessionInv

LEMMA ReceiveRequestStep ==
  ASSUME SessionInv, ReceiveRequest
  PROVE  SessionInv'
<1> USE TwoEnds
<1>1. /\ StreamTypes /\ StatusInv
      /\ pc \in [Ends -> Labels] /\ pos \in [Ends -> Nat] /\ left \in [Ends -> Int]
      /\ command \in [command : Commands, path : Paths]
  BY SessionTypes
<1>2. /\ pc["server"] = "receive" /\ Goto("server", "handle")
      /\ UNCHANGED <<command, network, status, local, files, pos, left, outcome>>
  BY DEF ReceiveRequest, At
<1>3. PICK n \in 1 .. Window :
        /\ Arrives("server", n, HeaderLen)
        /\ Take("server", n)
        /\ got' = DeSerializeRequest(SubSeq(stream["server"], 1, n))
  BY DEF ReceiveRequest
<1>4. PICK bytes : bytes = SubSeq(stream["server"], 1, n)
  OBVIOUS
<1>5. n \in 1 .. Len(stream["server"])
  BY <1>3 DEF Arrives
<1>6. /\ stream' \in [Ends -> Seq(Units)] /\ \A x \in Ends : Len(stream'[x]) <= Window
      /\ stream'["client"] = stream["client"]
      /\ bytes \in Seq(Units) /\ Len(bytes) = n /\ bytes[1] = stream["server"][1]
  BY <1>1, <1>3, <1>4, <1>5, TakeFacts
<1>7. stream["server"] # <<>> /\ Buildable /\ Follows(stream["server"], 0, Upload)
  BY <1>2, <1>5, EmptySeq DEF SessionInv, ArrivingInv, At
<1>8. DataLen \in Nat /\ bytes[1] = [command |-> command.command, data_len |-> DataLen]
  <2>1. DataLen \in Nat /\ Upload[1] = [command |-> command.command, data_len |-> DataLen]
    BY <1>7, SessionTypes, UploadFacts
  <2>2. 1 \in 1 .. Len(stream["server"])
    BY <1>5
  <2>3. stream["server"][1] = Upload[0 + 1]
    BY <1>7, <2>2 DEF Follows
  <2>4. QED
    BY <1>6, <2>1, <2>3
<1>9. /\ got' \in [command : Commands \cup {"none"}, data_len : Nat, path : Seq(Units)]
      /\ got'.command # "none" => got'.command = command.command
  <2>1. PICK request : request = got'
    OBVIOUS
  <2>2. request = DeSerializeRequest(bytes)
    BY <1>3, <1>4, <2>1
  <2>3. /\ request \in [command : Commands \cup {"none"}, data_len : Nat, path : Seq(Units)]
        /\ request.command # "none" => request.command = command.command
    BY ONLY <1>1, <1>6, <1>7, <1>8, <2>2, ParsedFacts
  <2>4. QED
    BY <2>1, <2>3
<1>10. pc' \in [Ends -> Labels] /\ pc'["server"] = "handle" /\ pc'["client"] = pc["client"]
  BY <1>1, <1>2 DEF Goto, Labels
<1>11. ~At("client", "start")
  BY <1>7 DEF SessionInv, ClientInv
<1>12. /\ \A c : Asks(c)' <=> Asks(c)
       /\ UNCHANGED <<DataLen, Header, Payload, Upload>>
       /\ Buildable' <=> Buildable
  BY <1>2, SameRequest
<1>13. TypeOK'
  BY <1>2, <1>6, <1>9, <1>10 DEF SessionInv, TypeOK
<1>14. StatusInv'
  <2>1. Running("server") /\ status["server"] = "open"
    BY <1>1, <1>2 DEF StatusInv, Running
  <2>2. QED
    BY <1>1, <1>2, <1>6, <1>10, <2>1 DEF StatusInv, Running
<1>15. ClientInv'
  BY <1>2, <1>10, <1>11, <1>12 DEF SessionInv, ClientInv, ClientLabels, At, Expects
<1>16. ArrivingInv'
  BY <1>10 DEF ArrivingInv, At
<1>17. AnswerInv'
  BY <1>2, <1>6, <1>10 DEF SessionInv, AnswerInv, Silent, Expects, At
<1>18. ServerInv'
  BY <1>2, <1>9, <1>10, <1>11 DEF SessionInv, ServerInv, Silent, At, Parsed, ServerLabels
<1>19. QED
  BY <1>13, <1>14, <1>15, <1>16, <1>17, <1>18 DEF SessionInv

LEMMA NothingArrivesStep ==
  ASSUME SessionInv, NothingArrives
  PROVE  SessionInv'
<1> USE TwoEnds
<1>1. pc \in [Ends -> Labels] /\ StatusInv
  BY SessionTypes
<1>2. /\ pc["server"] = "receive" /\ Goto("server", "handle") /\ status["client"] # "open"
      /\ UNCHANGED <<command, network, stream, status, local, files, got, pos, left, outcome>>
  BY DEF NothingArrives, At, Over, Peer
<1>3. pc' \in [Ends -> Labels] /\ pc'["server"] = "handle" /\ pc'["client"] = pc["client"]
  BY <1>1, <1>2 DEF Goto, Labels
<1>4. ~Running("client") /\ ~At("client", "start") /\ ~Expects
  BY <1>1, <1>2 DEF StatusInv, Running, At, Expects
<1>5. /\ \A c : Asks(c)' <=> Asks(c)
      /\ UNCHANGED <<DataLen, Header, Payload, Upload>>
      /\ Buildable' <=> Buildable
  BY <1>2, SameRequest
<1>6. ~Parsed
  BY <1>2 DEF SessionInv, ArrivingInv, At
<1>7. TypeOK' /\ StatusInv'
  BY <1>1, <1>2, <1>3 DEF SessionInv, TypeOK, StatusInv, Running
<1>8. ClientInv'
  BY <1>2, <1>3, <1>4, <1>5 DEF SessionInv, ClientInv, ClientLabels, At, Expects
<1>9. ArrivingInv'
  BY <1>3 DEF ArrivingInv, At
<1>10. AnswerInv' /\ ServerInv'
  BY <1>2, <1>3, <1>6 DEF SessionInv, AnswerInv, ServerInv, Silent, Expects, At, Parsed, ServerLabels
<1>11. QED
  BY <1>7, <1>8, <1>9, <1>10 DEF SessionInv

\* A response is two units, the first of them what the client looks at.
LEMMA ResponseFacts ==
  ASSUME NEW success \in BOOLEAN, NEW len \in Nat,
         NEW response, response = SerializeResponse(success, len)
  PROVE  /\ response \in Seq(Units) /\ Len(response) = 2 /\ response # <<>>
         /\ response[1] = [success |-> success, data_len |-> len]
         /\ response[1] \in [success : BOOLEAN, data_len : Nat]
<1> DEFINE first == [success |-> success, data_len |-> len]
<1>1. first \in [success : BOOLEAN, data_len : Nat]
  OBVIOUS
<1>2. first \in Units /\ Message \in Units
  BY <1>1 DEF Units
<1>3. response = <<first, Message>>
  BY DEF SerializeResponse
<1> HIDE DEF first
<1>4. response \in Seq(Units) /\ Len(response) = 2 /\ response[1] = first
  BY <1>2, <1>3
<1>5. response # <<>>
  BY <1>4, EmptySeq
<1>6. QED
  BY <1>1, <1>4, <1>5 DEF first

\* The worker answers, and nothing was on its way to the client before.
LEMMA RespondFacts ==
  ASSUME SessionInv, NEW success \in BOOLEAN, NEW len \in Nat, NEW next \in {"close", "send"},
         At("server", "handle") \/ At("server", "store"), Respond(success, len, next)
  PROVE  /\ StreamTypes' /\ StatusInv'
         /\ pc' \in [Ends -> Labels] /\ pc'["server"] = next /\ pc'["client"] = pc["client"]
         /\ stream'["server"] = stream["server"] /\ stream["client"] = <<>>
         /\ Running("client") => stream'["client"] = SerializeResponse(success, len)
         /\ ~Running("client") => stream'["client"] = <<>>
         /\ status'["server"] = status["server"]
         /\ ~Silent' /\ ~At("client", "start") /\ pos["server"] = 0
<1> USE TwoEnds
<1>1. StreamTypes /\ StatusInv /\ pc \in [Ends -> Labels]
  BY SessionTypes
<1>2. PICK response : response = SerializeResponse(success, len)
  OBVIOUS
<1>3. Goto("server", next) /\ Send("server", response)
  BY <1>2 DEF Respond
<1>4. response \in Seq(Units)
  BY <1>2, ResponseFacts
<1>5. /\ StreamTypes'
      /\ stream'["server"] = stream["server"] /\ status'["server"] = status["server"]
      /\ status["client"] = "open" => stream'["client"] = stream["client"] \o response
      /\ status["client"] # "open" => stream'["client"] = stream["client"]
      /\ \A x \in Ends : status'[x] = "open" <=> status[x] = "open"
  BY <1>1, <1>3, <1>4, SendFacts
<1>6. pc' \in [Ends -> Labels] /\ pc'["server"] = next /\ pc'["client"] = pc["client"]
  BY <1>1, <1>3 DEF Goto, Labels
<1>7. Silent /\ Running("server")
  BY DEF At, Silent, Running
<1>8. stream["client"] = <<>> /\ pos["server"] = 0 /\ ~At("client", "start")
  BY <1>7 DEF SessionInv, AnswerInv, ServerInv, ClientInv, At
<1>9. stream["client"] \o response = response
  BY <1>4, <1>8, ConcatEmptySeq
<1>10. /\ Running("client") => stream'["client"] = response
       /\ ~Running("client") => stream'["client"] = <<>>
  BY <1>1, <1>5, <1>8, <1>9 DEF StatusInv
<1>11. StatusInv'
  BY <1>1, <1>5, <1>6, <1>7, <1>10 DEF StatusInv, Running
<1>12. ~Silent'
  BY <1>6 DEF Silent
<1>13. QED
  BY <1>2, <1>5, <1>6, <1>8, <1>10, <1>11, <1>12

LEMMA RespondStep ==
  ASSUME SessionInv, NEW success \in BOOLEAN, NEW len \in Nat, NEW next \in {"close", "send"},
         At("server", "handle") \/ At("server", "store"), Respond(success, len, next),
         UNCHANGED <<command, network, local, got, pos, left, outcome>>,
         DOMAIN files' \subseteq Seq(Units), files' \in [DOMAIN files' -> Seq(Units)],
         next = "send" => got.command = "GET" /\ Exists /\ files' = files
  PROVE  SessionInv'
<1> USE TwoEnds
<1>1. pc \in [Ends -> Labels] /\ StatusInv
  BY SessionTypes
<1>2. /\ StreamTypes' /\ StatusInv'
      /\ pc' \in [Ends -> Labels] /\ pc'["server"] = next /\ pc'["client"] = pc["client"]
      /\ stream'["server"] = stream["server"]
      /\ Running("client") => stream'["client"] = SerializeResponse(success, len)
      /\ ~Running("client") => stream'["client"] = <<>>
      /\ ~Silent' /\ ~At("client", "start") /\ pos["server"] = 0
  BY RespondFacts
<1>3. /\ \A c : Asks(c)' <=> Asks(c)
      /\ UNCHANGED <<DataLen, Header, Payload, Upload>>
      /\ Buildable' <=> Buildable
  BY SameRequest
<1>4. PICK response : response = SerializeResponse(success, len)
  OBVIOUS
<1>5. response # <<>> /\ response[1] \in [success : BOOLEAN, data_len : Nat]
  BY <1>4, ResponseFacts
<1>6. Expects => Running("client")
  BY DEF Expects, Running
<1>7. TypeOK'
  BY <1>2 DEF SessionInv, TypeOK, StreamTypes
<1>8. ClientInv'
  BY <1>2, <1>3 DEF SessionInv, ClientInv, ClientLabels, At, Expects
<1>9. ArrivingInv'
  BY <1>2 DEF ArrivingInv, At
<1>10. AnswerInv'
  <2>1. next = "send" => ~At("client", "upload")
    <3>1. next = "send" => command.command = "GET"
      BY DEF SessionInv, ServerInv, Parsed
    <3>2. QED
      BY <3>1 DEF SessionInv, ClientInv, Asks
  <2>2. (Expects => stream["client"] # <<>> /\ stream["client"][1] \in [success : BOOLEAN, data_len : Nat])'
    BY <1>2, <1>4, <1>5, <1>6 DEF Expects
  <2>3. QED
    BY <1>2, <2>1, <2>2 DEF AnswerInv, Expects, At
<1>11. ServerInv'
  <2>1. next = "send" => got.path \in DOMAIN files /\ Len(files[got.path]) \in Nat
    BY LenProperties DEF Exists, SessionInv, TypeOK
  <2>2. QED
    BY <1>2, <2>1 DEF SessionInv, ServerInv, ServerLabels, At, Parsed, Exists
<1>12. QED
  BY <1>2, <1>7, <1>8, <1>9, <1>10, <1>11 DEF SessionInv

LEMMA AnswersStep ==
  ASSUME SessionInv,
         Refuse \/ RefuseWrite \/ StoreDone \/ AnnounceFile \/ RemoveFile
  PROVE  SessionInv'
<1>1. DOMAIN files \subseteq Seq(Units) /\ files \in [DOMAIN files -> Seq(Units)]
  BY DEF SessionInv, TypeOK
<1>2. CASE Refuse
  BY <1>1, <1>2, RespondStep DEF Refuse
<1>3. CASE RefuseWrite
  BY <1>1, <1>3, RespondStep DEF RefuseWrite
<1>4. CASE StoreDone
  BY <1>1, <1>4, RespondStep DEF StoreDone
<1>5. CASE AnnounceFile
  <2>1. Len(files[got.path]) \in Nat
    BY <1>1, <1>5, LenProperties DEF AnnounceFile, Exists
  <2>2. QED
    BY <1>1, <1>5, <2>1, RespondStep DEF AnnounceFile
<1>6. CASE RemoveFile
  <2>1. DOMAIN files' \subseteq Seq(Units) /\ files' \in [DOMAIN files' -> Seq(Units)]
    BY <1>1, <1>6 DEF RemoveFile
  <2>2. QED
    BY <1>6, <2>1, RespondStep DEF RemoveFile
<1>7. QED
  BY <1>2, <1>3, <1>4, <1>5, <1>6

\* Writing to a file.
LEMMA PutFacts ==
  ASSUME NEW path \in Seq(Units), NEW contents \in Seq(Units), Put(path, contents),
         DOMAIN files \subseteq Seq(Units), files \in [DOMAIN files -> Seq(Units)]
  PROVE  /\ DOMAIN files' = DOMAIN files \cup {path} /\ DOMAIN files' \subseteq Seq(Units)
         /\ files' \in [DOMAIN files' -> Seq(Units)]
         /\ files'[path] = contents
         /\ \A p \in DOMAIN files : p # path => files'[p] = files[p]
  BY DEF Put

LEMMA OpenTargetStep ==
  ASSUME SessionInv, OpenTarget
  PROVE  SessionInv'
<1> USE TwoEnds
<1>1. /\ StatusInv /\ pc \in [Ends -> Labels] /\ left \in [Ends -> Int]
  BY SessionTypes
<1>2. /\ pc["server"] = "handle" /\ Goto("server", "store") /\ got.command = "WRITE"
      /\ Put(got.path, <<>>) /\ left' = [left EXCEPT !["server"] = got.data_len]
      /\ UNCHANGED <<command, network, stream, status, local, got, pos, outcome>>
  BY DEF OpenTarget, At
<1>3. pc' \in [Ends -> Labels] /\ pc'["server"] = "store" /\ pc'["client"] = pc["client"]
  BY <1>1, <1>2 DEF Goto, Labels
<1>4. /\ DOMAIN files' \subseteq Seq(Units) /\ files' \in [DOMAIN files' -> Seq(Units)]
      /\ got.path \in DOMAIN files'
  <2>1. <<>> \in Seq(Units) /\ got.path \in Seq(Units)
    BY EmptySeq DEF SessionInv, TypeOK
  <2>2. DOMAIN files \subseteq Seq(Units) /\ files \in [DOMAIN files -> Seq(Units)]
    BY DEF SessionInv, TypeOK
  <2>3. QED
    BY <1>2, <2>1, <2>2, PutFacts
<1>5. left' \in [Ends -> Int]
  <2>1. got.data_len \in Int
    BY DEF SessionInv, TypeOK
  <2>2. QED
    BY <1>1, <1>2, <2>1
<1>6. /\ \A c : Asks(c)' <=> Asks(c)
      /\ UNCHANGED <<DataLen, Header, Payload, Upload>>
      /\ Buildable' <=> Buildable
  BY <1>2, SameRequest
<1>7. ~At("client", "start")
  BY <1>2 DEF SessionInv, ServerInv, Parsed
<1>8. TypeOK'
  BY <1>2, <1>3, <1>4, <1>5 DEF SessionInv, TypeOK
<1>9. StatusInv'
  BY <1>1, <1>2, <1>3 DEF StatusInv, Running
<1>10. ClientInv'
  BY <1>2, <1>3, <1>6, <1>7 DEF SessionInv, ClientInv, ClientLabels, At, Expects
<1>11. ArrivingInv'
  BY <1>3 DEF ArrivingInv, At
<1>12. AnswerInv' /\ ServerInv'
  BY <1>2, <1>3, <1>4 DEF SessionInv, AnswerInv, ServerInv, Silent, Expects, At, Parsed, ServerLabels
<1>13. QED
  BY <1>8, <1>9, <1>10, <1>11, <1>12 DEF SessionInv

LEMMA StoreChunksStep ==
  ASSUME SessionInv, StoreChunks
  PROVE  SessionInv'
<1> USE TwoEnds
<1>1. /\ StreamTypes /\ StatusInv /\ left \in [Ends -> Int]
  BY SessionTypes
<1>2. /\ pc["server"] = "store"
      /\ UNCHANGED <<pc, command, network, status, local, got, pos, outcome>>
  BY DEF StoreChunks, At
<1>3. PICK n \in 1 .. Len(stream["server"]) :
        /\ Take("server", n)
        /\ Put(got.path, files[got.path] \o SubSeq(stream["server"], 1, n))
        /\ left' = [left EXCEPT !["server"] = @ - n]
  BY DEF StoreChunks
<1>4. /\ stream' \in [Ends -> Seq(Units)] /\ \A x \in Ends : Len(stream'[x]) <= Window
      /\ stream'["client"] = stream["client"]
      /\ SubSeq(stream["server"], 1, n) \in Seq(Units)
  BY <1>1, <1>3, TakeFacts
<1>5. /\ got.command = "WRITE" /\ got.path \in DOMAIN files /\ ~At("client", "start")
  BY <1>2 DEF SessionInv, ServerInv, At, Parsed
<1>6. /\ DOMAIN files' \subseteq Seq(Units) /\ files' \in [DOMAIN files' -> Seq(Units)]
      /\ got.path \in DOMAIN files'
  <2>1. DOMAIN files \subseteq Seq(Units) /\ files \in [DOMAIN files -> Seq(Units)]
    BY DEF SessionInv, TypeOK
  <2>2. files[got.path] \in Seq(Units) /\ got.path \in Seq(Units)
    BY <1>5, <2>1
  <2>3. files[got.path] \o SubSeq(stream["server"], 1, n) \in Seq(Units)
    BY <1>4, <2>2, ConcatProperties
  <2>4. QED
    BY <1>3, <2>1, <2>2, <2>3, PutFacts
<1>7. left' \in [Ends -> Int]
  <2>1. n \in Int /\ left["server"] \in Int
    BY <1>1
  <2>2. QED
    BY <1>1, <1>3, <2>1
<1>8. /\ \A c : Asks(c)' <=> Asks(c)
      /\ UNCHANGED <<DataLen, Header, Payload, Upload>>
      /\ Buildable' <=> Buildable
  BY <1>2, SameRequest
<1>9. TypeOK'
  BY <1>2, <1>4, <1>6, <1>7 DEF SessionInv, TypeOK
<1>10. StatusInv'
  BY <1>1, <1>2, <1>4 DEF StatusInv, Running
<1>11. ClientInv'
  BY <1>2, <1>5, <1>8 DEF SessionInv, ClientInv, ClientLabels, At, Expects
<1>12. ArrivingInv'
  BY <1>2 DEF ArrivingInv, At
<1>13. AnswerInv' /\ ServerInv'
  BY <1>2, <1>4, <1>6 DEF SessionInv, AnswerInv, ServerInv, Silent, Expects, At, Parsed
<1>14. QED
  BY <1>9, <1>10, <1>11, <1>12, <1>13 DEF SessionInv

LEMMA SendChunkStep ==
  ASSUME SessionInv, SendChunk
  PROVE  SessionInv'
<1> USE TwoEnds
<1>1. /\ StreamTypes /\ StatusInv /\ pos \in [Ends -> Nat]
  BY SessionTypes
<1>2. PICK next : next = files[got.path][pos["server"] + 1]
  OBVIOUS
<1>3. /\ pc["server"] = "send" /\ pos["server"] < Len(files[got.path])
      /\ Send("server", <<next>>) /\ pos' = [pos EXCEPT !["server"] = @ + 1]
      /\ UNCHANGED <<pc, command, network, local, files, got, left, outcome>>
  BY <1>2 DEF SendChunk, MoreToSend, At
<1>4. files[got.path] \in Seq(Units) /\ Len(files[got.path]) \in Nat
  BY <1>3, LenProperties DEF SessionInv, TypeOK, ServerInv, At
<1>5. <<next>> \in Seq(Units)
  <2>1. pos["server"] + 1 \in 1 .. Len(files[got.path])
    BY <1>1, <1>3, <1>4
  <2>2. next \in Units
    BY <1>2, <1>4, <2>1, ElementOfSeq
  <2>3. QED
    BY <2>2
<1>6. /\ StreamTypes' /\ stream'["server"] = stream["server"]
      /\ status["client"] = "open" => stream'["client"] = stream["client"] \o <<next>>
      /\ status["client"] # "open" => stream'["client"] = stream["client"]
      /\ \A x \in Ends : status'[x] = "open" <=> status[x] = "open"
  BY <1>1, <1>3, <1>5, SendFacts
<1>7. stream["client"] # <<>> => stream'["client"] # <<>> /\ stream'["client"][1] = stream["client"][1]
  <2>1. PICK s : s = stream["client"]
    OBVIOUS
  <2>2. s \in Seq(Units)
    BY <1>1, <2>1 DEF StreamTypes
  <2>3. s # <<>> => s \o <<next>> # <<>> /\ (s \o <<next>>)[1] = s[1]
    <3>1. /\ s \o <<next>> \in Seq(Units) /\ Len(s \o <<next>>) = Len(s) + Len(<<next>>)
          /\ Len(s) \in Nat /\ Len(<<next>>) = 1
          /\ \A i \in 1 .. Len(s) + Len(<<next>>) :
               (s \o <<next>>)[i] = IF i <= Len(s) THEN s[i] ELSE <<next>>[i - Len(s)]
      BY <1>5, <2>2, ConcatProperties, LenProperties
    <3>2. s # <<>> => Len(s) >= 1
      BY <2>2, <3>1, EmptySeq
    <3>3. Len(s) >= 1 => 1 \in 1 .. Len(s) + Len(<<next>>) /\ Len(s \o <<next>>) # 0
      BY <3>1
    <3>4. QED
      BY <3>1, <3>2, <3>3, EmptySeq
  <2>4. QED
    BY <1>1, <1>6, <2>1, <2>3 DEF StreamTypes
<1>8. pos'["server"] = pos["server"] + 1 /\ pos'["client"] = pos["client"] /\ pos' \in [Ends -> Nat]
  BY <1>1, <1>3
<1>9. /\ \A c : Asks(c)' <=> Asks(c)
      /\ UNCHANGED <<DataLen, Header, Payload, Upload>>
      /\ Buildable' <=> Buildable
  BY <1>3, SameRequest
<1>10. got.command = "GET" /\ ~At("client", "start")
  BY <1>3 DEF SessionInv, ServerInv, At, Parsed
<1>11. TypeOK'
  BY <1>3, <1>6, <1>8 DEF SessionInv, TypeOK, StreamTypes
<1>12. StatusInv'
  BY <1>1, <1>3, <1>6 DEF StatusInv, Running
<1>13. ClientInv'
  BY <1>3, <1>8, <1>9, <1>10 DEF SessionInv, ClientInv, ClientLabels, At, Expects
<1>14. ArrivingInv'
  BY <1>3 DEF ArrivingInv, At
<1>15. AnswerInv'
  BY <1>3, <1>7 DEF SessionInv, AnswerInv, Silent, Expects, At
<1>16. ServerInv'
  BY <1>1, <1>3, <1>4, <1>8 DEF SessionInv, ServerInv, Silent, At, Parsed
<1>17. QED
  BY <1>11, <1>12, <1>13, <1>14, <1>15, <1>16 DEF SessionInv

LEMMA SendDoneStep ==
  ASSUME SessionInv, SendDone
  PROVE  SessionInv'
<1> USE TwoEnds
<1>1. pc \in [Ends -> Labels] /\ StatusInv
  BY SessionTypes
<1>2. /\ pc["server"] = "send" /\ Goto("server", "close")
      /\ UNCHANGED <<command, network, stream, status, local, files, got, pos, left, outcome>>
  BY DEF SendDone, At
<1>3. pc' \in [Ends -> Labels] /\ pc'["server"] = "close" /\ pc'["client"] = pc["client"]
  BY <1>1, <1>2 DEF Goto, Labels
<1>4. /\ \A c : Asks(c)' <=> Asks(c)
      /\ UNCHANGED <<DataLen, Header, Payload, Upload>>
      /\ Buildable' <=> Buildable
  BY <1>2, SameRequest
<1>5. ~At("client", "start")
  BY <1>2 DEF SessionInv, ServerInv, At, Parsed
<1>6. TypeOK' /\ StatusInv'
  BY <1>1, <1>2, <1>3 DEF SessionInv, TypeOK, StatusInv, Running
<1>7. ClientInv'
  BY <1>2, <1>3, <1>4, <1>5 DEF SessionInv, ClientInv, ClientLabels, At, Expects
<1>8. ArrivingInv'
  BY <1>3 DEF ArrivingInv, At
<1>9. AnswerInv' /\ ServerInv'
  BY <1>2, <1>3 DEF SessionInv, AnswerInv, ServerInv, Silent, Expects, At, Parsed, ServerLabels
<1>10. QED
  BY <1>6, <1>7, <1>8, <1>9 DEF SessionInv

\* Death and departure.
LEMMA LeavesStep ==
  ASSUME SessionInv,
         \/ StartFails \/ Exit \/ Close
         \/ \E e \in Ends : BrokenPipe(e) \/ Kill(e)
  PROVE  SessionInv'
<1>1. CASE StartFails
  BY <1>1, ClientLeavesStep DEF StartFails, At, Running
<1>2. CASE Exit
  BY <1>2, ClientLeavesStep DEF Exit, At, Running
<1>3. CASE Close
  BY <1>3, ServerLeavesStep DEF Close, At, Running
<1>4. ASSUME NEW e \in Ends, BrokenPipe(e) \/ Kill(e)
      PROVE  SessionInv'
  <2>1. PICK label \in {"broken", "killed"} : Goto(e, label)
    BY <1>4 DEF BrokenPipe, Kill
  <2>2. /\ Running(e) /\ Leave(e)
        /\ UNCHANGED <<command, network, local, files, got, pos, left, outcome>>
    BY <1>4 DEF BrokenPipe, Kill, MoreToUpload, MoreToSend, At, Running
  <2>3. CASE e = "client"
    BY <2>1, <2>2, <2>3, ClientLeavesStep
  <2>4. CASE e = "server"
    BY <2>1, <2>2, <2>4, ServerLeavesStep
  <2>5. QED
    BY <2>3, <2>4 DEF Ends
<1>5. QED
  BY <1>1, <1>2, <1>3, <1>4

LEMMA StutterStep ==
  ASSUME SessionInv, UNCHANGED vars
  PROVE  SessionInv'
<1>1. /\ \A c : Asks(c)' <=> Asks(c)
      /\ UNCHANGED <<DataLen, Header, Payload, Upload>>
      /\ Buildable' <=> Buildable
  BY SameRequest DEF vars
<1>2. TypeOK' /\ StatusInv'
  BY DEF SessionInv, TypeOK, StatusInv, Running, vars
<1>3. ClientInv' /\ ArrivingInv'
  BY <1>1 DEF SessionInv, ClientInv, ArrivingInv, At, Expects, Running, Parsed, Follows, vars
<1>4. AnswerInv' /\ ServerInv'
  BY DEF SessionInv, AnswerInv, ServerInv, Silent, Expects, At, Parsed, vars
<1>5. QED
  BY <1>2, <1>3, <1>4 DEF SessionInv

LEMMA InitEstablishes ==
  ASSUME Init
  PROVE  SessionInv
<1> USE TwoEnds DEF Init
<1>1. <<>> \in Seq(Units) /\ Len(<<>>) = 0 /\ 0 <= Window
  BY EmptySeq, SessionAssumption
<1>2. pc["client"] = "start" /\ pc["server"] = "receive" /\ pc \in [Ends -> Labels]
  BY DEF Labels
<1>3. \A e \in Ends : stream[e] = <<>> /\ status[e] = "open" /\ pos[e] = 0
  OBVIOUS
<1>4. local = Absent \/ local \in Seq(Units)
  BY SessionAssumption, SeqMonotonic DEF Units
<1>5. DOMAIN files \subseteq Seq(Units) /\ files \in [DOMAIN files -> Seq(Units)]
  <2>1. PICK present \in SUBSET Paths : files \in [present -> Contents]
    OBVIOUS
  <2>2. Paths \subseteq Seq(Units) /\ Contents \subseteq Seq(Units)
    BY SessionAssumption, SeqMonotonic DEF Units
  <2>3. QED
    BY <2>1, <2>2
<1>6. TypeOK
  <2>1. got \in [command : Commands \cup {"none"}, data_len : Nat, path : Seq(Units)]
    BY <1>1 DEF NoRequest
  <2>2. stream \in [Ends -> Seq(Units)] /\ \A e \in Ends : Len(stream[e]) <= Window
    BY <1>1, <1>3
  <2>3. status \in [Ends -> {"open", "closed", "reset"}] /\ pos \in [Ends -> Nat] /\ left \in [Ends -> Int]
    OBVIOUS
  <2>4. command \in [command : Commands, path : Paths] /\ network \in Networks /\ outcome = "none"
    OBVIOUS
  <2>5. QED
    BY <1>2, <1>4, <1>5, <2>1, <2>2, <2>3, <2>4 DEF TypeOK
<1>7. StatusInv
  BY <1>2, <1>3 DEF StatusInv, Running
<1>8. ~Parsed /\ ~Expects /\ Silent
  BY <1>2 DEF Parsed, NoRequest, Expects, Silent
<1>9. command \in [command : Commands, path : Paths] /\ local \in Contents \cup {Absent}
  OBVIOUS
<1>10. Len(Payload) \in Nat
  BY <1>9, UploadFacts
<1>11. ClientInv
  BY <1>2, <1>3, <1>8, <1>9, <1>10 DEF ClientInv, ClientLabels, At, Running
<1>12. ArrivingInv /\ AnswerInv
  BY <1>2, <1>3, <1>8 DEF ArrivingInv, AnswerInv, At
<1>13. ServerInv
  BY <1>2, <1>3, <1>8 DEF ServerInv, ServerLabels, At
<1>14. QED
  BY <1>6, <1>7, <1>11, <1>12, <1>13 DEF SessionInv

LEMMA NextKeeps ==
  ASSUME SessionInv, [Next]_vars
  PROVE  SessionInv'
<1>1. CASE ClientStep
  BY <1>1, TwoEnds, LeavesStep, SendRequestStep, UploadChunkStep, UploadDoneStep, ReceiveResponseStep,
     NoResponseStep, DownloadChunksStep, DownloadDoneStep, StutterStep
     DEF ClientStep, DownloadNothing
<1>2. CASE ServerStep
  BY <1>2, TwoEnds, LeavesStep, ReceiveRequestStep, NothingArrivesStep, AnswersStep, OpenTargetStep,
     StoreChunksStep, SendChunkStep, SendDoneStep, StutterStep
     DEF ServerStep, StoreNothing
<1>3. CASE \E e \in Ends : Kill(e)
  BY <1>3, LeavesStep
<1>4. CASE UNCHANGED vars
  BY <1>4, StutterStep
<1>5. QED
  BY <1>1, <1>2, <1>3, <1>4 DEF Next

(***************************************************************************)
(* What is on its way between client and worker is what the one has sent   *)
(* and the other has not read: the request before anything else, and       *)
(* nothing for the client before the worker has answered (client.c:34-170, *)
(* thread_manager.c:18-96).  For every network, window and file.           *)
(***************************************************************************)
THEOREM Invariance == Spec => []SessionInv
<1>1. Init => SessionInv
  BY InitEstablishes
<1>2. SessionInv /\ [Next]_vars => SessionInv'
  BY NextKeeps
<1>3. QED
  BY <1>1, <1>2, PTL DEF Spec

(***************************************************************************)
(* The type invariant, which needs all of it: a request and a response are *)
(* parsed from what arrives, and it is only because nothing else can be    *)
(* first in the stream that its first unit has the fields of a header.     *)
(***************************************************************************)
THEOREM TypeCorrect == Spec => []TypeOK
<1>1. SessionInv => TypeOK
  BY DEF SessionInv
<1>2. QED
  BY <1>1, Invariance, PTL

-----------------------------------------------------------------------------
(* A network that does not split headers *)

\* TruthInv of a network that does not split headers.
Truth == RequestInv /\ ResponseInv /\ OutcomeInv

\* Nothing of the request or of what is stored changes.
LEMMA RequestFrame ==
  ASSUME RequestInv, ServerInv, UNCHANGED <<command, network, files, got>>,
         pc'["server"] = pc["server"], stream'["server"] = stream["server"],
         pos'["client"] = pos["client"], left'["server"] = left["server"],
         Asks("WRITE") => local' = local
  PROVE  RequestInv'
<1>1. /\ \A c : Asks(c)' <=> Asks(c)
      /\ UNCHANGED DataLen /\ (Buildable' <=> Buildable)
  BY SameRequest
<1>2. UNCHANGED <<Stored, LostUp>>
  BY DEF Stored, LostUp, At
<1>3. got.command = "WRITE" => Asks("WRITE")
  BY DEF ServerInv, Parsed, Asks
<1>4. /\ Parsed' <=> Parsed
      /\ Silent' <=> Silent
      /\ \A label : At("server", label)' <=> At("server", label)
  BY DEF Parsed, Silent, At
<1>5. got.command = "WRITE" =>
        /\ Follows(Stored, LostUp, local)' <=> Follows(Stored, LostUp, local)
        /\ Follows(stream["server"], LostUp + Len(Stored), local)'
             <=> Follows(stream["server"], LostUp + Len(Stored), local)
  BY <1>2, <1>3 DEF Follows
<1>6. QED
  BY <1>1, <1>2, <1>4, <1>5 DEF RequestInv

\* The worker has answered or left.
LEMMA RequestOver ==
  ASSUME RequestInv, UNCHANGED <<command, network, got>>, ~Silent',
         ~Asks("WRITE") => stream'["server"] = <<>>
  PROVE  RequestInv'
  BY DEF RequestInv, Parsed, Asks

\* Nothing of the response or of what is downloaded changes.
LEMMA ResponseFrame ==
  ASSUME ResponseInv, UNCHANGED <<command, files, got, local>>,
         status'["server"] = status["server"], stream'["client"] = stream["client"],
         pos'["server"] = pos["server"], left'["client"] = left["client"],
         Expects' => Expects,
         Asks("GET") /\ At("client", "response")' => At("client", "response"),
         At("client", "download")' => At("client", "download")
  PROVE  ResponseInv'
<1>1. \A c : Asks(c)' <=> Asks(c)
  BY DEF Asks
<1>2. /\ Done' <=> Done
      /\ UNCHANGED <<Download, LostDown>>
      /\ Parsed' <=> Parsed
  BY <1>1 DEF Done, Download, LostDown, Parsed
<1>3. /\ Follows(stream["client"], 0, Download)' <=> Follows(stream["client"], 0, Download)
      /\ Follows(local, LostDown, files[command.path])' <=> Follows(local, LostDown, files[command.path])
      /\ Follows(stream["client"], LostDown + Len(local), files[command.path])'
           <=> Follows(stream["client"], LostDown + Len(local), files[command.path])
  BY <1>2 DEF Follows
<1>4. (Expects /\ stream["client"] # <<>> =>
         IF stream["client"][1].success THEN Done ELSE stream["client"][1].data_len = 0)'
  BY <1>2 DEF ResponseInv
<1>5. (Asks("GET") /\ At("client", "response") /\ stream["client"] # <<>> =>
         /\ status["server"] # "reset"
         /\ Len(stream["client"]) >= 2
         /\ stream["client"][1].success =>
              /\ got.path = command.path /\ Parsed
              /\ Follows(stream["client"], 0, Download)
              /\ Len(stream["client"]) = 2 + pos["server"])'
  BY <1>1, <1>2, <1>3 DEF ResponseInv
<1>6. (At("client", "download") =>
         /\ got.path = command.path /\ Parsed
         /\ status["server"] # "reset"
         /\ command.path \in DOMAIN files
         /\ left["client"] = Len(files[command.path]) - Len(local)
         /\ LostDown >= 0
         /\ Follows(local, LostDown, files[command.path])
         /\ Follows(stream["client"], LostDown + Len(local), files[command.path]))'
  BY <1>2, <1>3 DEF ResponseInv
<1>7. QED
  BY <1>4, <1>5, <1>6 DEF ResponseInv

\* What was reported is as true as before.
LEMMA OutcomeFrame ==
  ASSUME OutcomeInv, UNCHANGED <<command, files, local>>,
         outcome' \in {outcome, "none", "error", "failed"},
         outcome' # "none" => pc'["client"] \notin {"start", "upload", "response", "download"}
  PROVE  OutcomeInv'
<1>1. /\ \A c : Asks(c)' <=> Asks(c)
      /\ Done' <=> Done
  BY DEF Done, Asks
<1>2. QED
  BY <1>1 DEF OutcomeInv

\* While the server is silent nothing was reported, whatever becomes of the files.
LEMMA SilentFrame ==
  ASSUME AnswerInv, OutcomeInv, Silent,
         pc'["client"] = pc["client"], stream'["client"] = stream["client"], outcome' = outcome
  PROVE  ResponseInv' /\ OutcomeInv'
<1>1. /\ stream'["client"] = <<>> /\ pc'["client"] # "download"
      /\ outcome' \in {"none", "failed"}
  BY DEF AnswerInv
<1>2. ResponseInv'
  BY <1>1 DEF ResponseInv, At
<1>3. OutcomeInv'
  BY <1>1 DEF OutcomeInv
<1>4. QED
  BY <1>2, <1>3

LEMMA ClientLeavesTruth ==
  ASSUME SessionInv, Truth, Running("client"), Leave("client"),
         NEW label \in {"exited", "killed", "broken"}, Goto("client", label),
         UNCHANGED <<command, network, local, files, got, pos, left>>,
         outcome' \in {outcome, "failed"}
  PROVE  Truth'
<1> USE TwoEnds
<1>1. StreamTypes /\ pc \in [Ends -> Labels]
  BY SessionTypes
<1>2. /\ stream["client"] = <<>> => stream' = stream
      /\ stream["server"] = <<>> => stream'["server"] = <<>>
  BY <1>1, LeaveFacts
<1>3. pc'["client"] = label /\ pc'["server"] = pc["server"]
  BY <1>1 DEF Goto
<1>4. RequestInv'
  <2>1. CASE Silent
    <3>1. stream' = stream
      BY <1>2, <2>1 DEF SessionInv, AnswerInv
    <3>2. QED
      BY <1>3, <3>1, RequestFrame DEF SessionInv, Truth
  <2>2. CASE ~Silent
    <3>1. ~Silent' /\ ~At("server", "receive")
      BY <1>3, <2>2 DEF Silent, At
    <3>2. QED
      BY <1>2, <3>1, RequestOver DEF Truth, RequestInv
  <2>3. QED
    BY <2>1, <2>2
<1>5. ResponseInv'
  BY <1>3 DEF ResponseInv, Expects, At
<1>6. OutcomeInv'
  BY <1>3, OutcomeFrame DEF Truth
<1>7. QED
  BY <1>4, <1>5, <1>6 DEF Truth

LEMMA ServerLeavesTruth ==
  ASSUME SessionInv, Truth, Running("server"), Leave("server"),
         NEW label \in {"closed", "killed", "broken"}, Goto("server", label),
         UNCHANGED <<command, network, local, files, got, pos, left, outcome>>
  PROVE  Truth'
<1> USE TwoEnds
<1>1. StreamTypes /\ pc \in [Ends -> Labels]
  BY SessionTypes
<1>2. /\ stream'["server"] = <<>>
      /\ stream["server"] = <<>> => stream' = stream /\ status'["server"] = "closed"
      /\ Len(stream'["client"]) \in Nat
      /\ \A i \in 1 .. Len(stream'["client"]) : stream'["client"][i] = stream["client"][i]
      /\ stream["client"] = <<>> => stream'["client"] = <<>>
      /\ StreamTypes'
  BY <1>1, LeaveFacts
<1>3. pc'["server"] = label /\ pc'["client"] = pc["client"]
  BY <1>1 DEF Goto
<1>4. RequestInv'
  <2>1. ~Silent'
    BY <1>3 DEF Silent
  <2>2. QED
    BY <1>2, <2>1, RequestOver DEF Truth
<1>5. stream'["client"] # <<>> => stream["client"] # <<>> /\ stream'["client"][1] = stream["client"][1]
  <2>1. stream'["client"] # <<>> => Len(stream'["client"]) # 0
    BY <1>2, EmptySeq DEF StreamTypes
  <2>2. QED
    BY <1>2, <2>1
<1>6. \A c : Asks(c)' <=> Asks(c)
  BY DEF Asks
<1>7. ResponseInv'
  <2>1. CASE Silent
    <3>1. stream'["client"] = <<>> /\ ~At("client", "download")
      BY <1>2, <2>1 DEF SessionInv, AnswerInv, At
    <3>2. QED
      BY <1>3, <3>1 DEF ResponseInv, At
  <2>2. CASE ~Silent /\ Asks("WRITE")
    <3>1. ~Asks("GET") /\ ~At("client", "download") /\ (Done' <=> Done)
      BY <1>6, <2>2 DEF SessionInv, ClientInv, Done, Asks
    <3>2. (Expects /\ stream["client"] # <<>> =>
             IF stream["client"][1].success THEN Done ELSE stream["client"][1].data_len = 0)'
      BY <1>3, <1>5, <3>1 DEF Truth, ResponseInv, Expects
    <3>3. QED
      BY <1>3, <1>6, <3>1, <3>2 DEF ResponseInv, At
  <2>3. CASE ~Silent /\ ~Asks("WRITE")
    <3>1. stream["server"] = <<>>
      BY <2>3 DEF Truth, RequestInv, Silent, At
    <3>2. stream' = stream /\ status'["server"] = "closed"
      BY <1>2, <3>1
    <3>3. Done' <=> Done
      BY <1>6 DEF Done
    <3>4. /\ UNCHANGED <<Download, LostDown>>
          /\ Parsed' <=> Parsed
      BY <3>2 DEF Download, LostDown, Parsed
    <3>5. (Asks("GET") /\ At("client", "response") /\ stream["client"] # <<>> =>
             /\ status["server"] # "reset"
             /\ Len(stream["client"]) >= 2
             /\ stream["client"][1].success =>
                  /\ got.path = command.path /\ Parsed
                  /\ Follows(stream["client"], 0, Download)
                  /\ Len(stream["client"]) = 2 + pos["server"])'
      BY <1>3, <1>6, <3>2, <3>4 DEF Truth, ResponseInv, At, Follows
    <3>6. (At("client", "download") =>
             /\ got.path = command.path /\ Parsed
             /\ status["server"] # "reset"
             /\ command.path \in DOMAIN files
             /\ left["client"] = Len(files[command.path]) - Len(local)
             /\ LostDown >= 0
             /\ Follows(local, LostDown, files[command.path])
             /\ Follows(stream["client"], LostDown + Len(local), files[command.path]))'
      BY <1>3, <3>2, <3>4 DEF Truth, ResponseInv, At, Follows
    <3>7. (Expects /\ stream["client"] # <<>> =>
             IF stream["client"][1].success THEN Done ELSE stream["client"][1].data_len = 0)'
      BY <1>3, <3>2, <3>3 DEF Truth, ResponseInv, Expects
    <3>8. QED
      BY <3>5, <3>6, <3>7 DEF ResponseInv
  <2>4. QED
    BY <2>1, <2>2, <2>3
<1>8. OutcomeInv'
  BY <1>3, OutcomeFrame DEF Truth, OutcomeInv
<1>9. QED
  BY <1>4, <1>7, <1>8 DEF Truth

LEMMA SendRequestTruth ==
  ASSUME SessionInv, SessionInv', Truth, SendRequest
  PROVE  Truth'
<1> USE TwoEnds
<1>1. pc \in [Ends -> Labels] /\ StreamTypes /\ StatusInv
  BY SessionTypes
<1>2. /\ pc["client"] = "start" /\ Buildable
      /\ Goto("client", IF Asks("WRITE") THEN "upload" ELSE "response")
      /\ Send("client", Header)
      /\ UNCHANGED <<command, network, local, files, got, pos, left, outcome>>
  BY DEF SendRequest, At, Header
<1>3. pc'["client"] \in {"upload", "response"} /\ pc'["server"] = pc["server"]
  BY <1>1, <1>2 DEF Goto
<1>4. stream["client"] = <<>> /\ ~Parsed /\ (At("server", "receive") \/ ~Running("server"))
  BY <1>2 DEF SessionInv, ClientInv, At
<1>5. stream'["client"] = <<>>
  <2>1. Header \in Seq(Units)
    BY <1>2, SessionTypes, UploadFacts
  <2>2. stream'["client"] = stream["client"]
    BY <1>1, <1>2, <2>1, SendFacts
  <2>3. QED
    BY <1>4, <2>2
<1>6. ~Parsed' /\ got'.command # "WRITE"
  BY <1>2, <1>4 DEF Parsed
<1>7. ~At("server", "receive")' => stream'["server"] = <<>>
  BY <1>3, <1>4 DEF At, Running, SessionInv, StatusInv
<1>8. RequestInv'
  BY <1>6, <1>7 DEF RequestInv
<1>9. ResponseInv'
  BY <1>3, <1>5 DEF ResponseInv, At
<1>10. OutcomeInv'
  BY <1>2, OutcomeFrame DEF Truth, OutcomeInv
<1>11. QED
  BY <1>8, <1>9, <1>10 DEF Truth

LEMMA UploadChunkTruth ==
  ASSUME SessionInv, Truth, UploadChunk
  PROVE  Truth'
<1> USE TwoEnds
<1>1. /\ StreamTypes /\ StatusInv /\ pos \in [Ends -> Nat]
  BY SessionTypes
<1>2. PICK next : next = local[pos["client"] + 1]
  OBVIOUS
<1>3. /\ pc["client"] = "upload" /\ pos["client"] < Len(local)
      /\ Send("client", <<next>>) /\ pos' = [pos EXCEPT !["client"] = @ + 1]
      /\ UNCHANGED <<pc, command, network, local, files, got, left, outcome>>
  BY <1>2 DEF UploadChunk, MoreToUpload, At
<1>4. Asks("WRITE") /\ Buildable /\ ~Asks("GET")
  BY <1>3 DEF SessionInv, ClientInv, At, Expects, Asks
<1>5. local \in Seq(Units) /\ Len(local) \in Nat
  BY <1>4, SessionTypes, UploadFacts
<1>6. next \in Units /\ <<next>> \in Seq(Units)
  BY <1>1, <1>2, <1>3, <1>5, ElementOfSeq
<1>7. /\ stream'["client"] = stream["client"]
      /\ status["server"] = "open" => stream'["server"] = stream["server"] \o <<next>>
  BY <1>1, <1>3, <1>6, SendFacts
<1>8. pos'["client"] = pos["client"] + 1 /\ pos'["server"] = pos["server"]
  BY <1>1, <1>3
<1>9. \A c : Asks(c)' <=> Asks(c)
  BY <1>3 DEF Asks
<1>10. RequestInv'
  <2>1. CASE ~Silent
    BY <1>3, <1>4, <2>1, RequestOver DEF Truth, Silent
  <2>2. CASE Silent
    <3>1. /\ DataLen' = DataLen /\ (Buildable' <=> Buildable)
          /\ Stored' = Stored /\ (Parsed' <=> Parsed) /\ (Silent' <=> Silent)
      BY <1>3, SameRequest DEF Stored, Parsed, Silent, At
    <3>2. CASE got.command # "WRITE"
      BY <1>3, <1>4, <1>9, <3>1, <3>2 DEF Truth, RequestInv
    <3>3. CASE got.command = "WRITE"
      <4>1. PICK s : s = stream["server"]
        OBVIOUS
      <4>2. PICK a : a = LostUp + Len(Stored)
        OBVIOUS
      <4>3. s \in Seq(Units) /\ Len(s) \in Nat
        BY <1>1, <4>1, LenProperties DEF StreamTypes
      <4>4. Len(Stored) \in Nat
        BY EmptySeq, LenProperties DEF Stored, SessionInv, TypeOK, ServerInv, At
      <4>5. LostUp \in Int /\ LostUp >= 0 /\ Follows(s, a, local)
        BY <1>1, <2>2, <3>3, <4>1, <4>2, <4>3, <4>4 DEF Truth, RequestInv, LostUp
      <4>6. a \in Nat /\ a + Len(s) = pos["client"]
        BY <1>1, <4>1, <4>2, <4>3, <4>4, <4>5 DEF LostUp
      <4>7. stream'["server"] = s \o <<next>>
        BY <1>1, <1>7, <2>2, <4>1 DEF StatusInv, Running, Silent
      <4>8. /\ Follows(s \o <<next>>, a, local) /\ Len(s \o <<next>>) = Len(s) + 1
        <5>1. next = local[a + Len(s) + 1] /\ a + Len(s) < Len(local)
          BY <1>2, <1>3, <4>6
        <5>2. QED
          BY <1>5, <4>3, <4>5, <4>6, <5>1, FollowsNext
      <4>9. LostUp' = LostUp
        <5>1. LostUp' = (pos["client"] + 1) - Len(Stored) - (Len(s) + 1)
          BY <1>8, <3>1, <4>7, <4>8 DEF LostUp
        <5>2. QED
          BY <1>1, <4>1, <4>3, <4>4, <5>1 DEF LostUp
      <4>10. (LostUp + Len(Stored))' = a
        BY <3>1, <4>2, <4>9
      <4>11. Follows(stream["server"], LostUp + Len(Stored), local)'
        BY <1>3, <4>7, <4>8, <4>10 DEF Follows
      <4>12. Follows(Stored, LostUp, local)'
        BY <1>3, <2>2, <3>1, <3>3, <4>9 DEF Truth, RequestInv, Follows
      <4>13. (At("server", "store") => left["server"] = DataLen - Len(Stored))'
        BY <1>3, <2>2, <3>1, <3>3 DEF Truth, RequestInv, At
      <4>14. QED
        BY <1>3, <1>4, <1>9, <2>2, <3>1, <3>3, <4>5, <4>9, <4>11, <4>12, <4>13 DEF Truth, RequestInv
    <3>4. QED
      BY <3>2, <3>3
  <2>3. QED
    BY <2>1, <2>2
<1>11. ResponseInv'
  <2>1. Done' <=> Done
    BY <1>3, <1>9 DEF Done
  <2>2. QED
    BY <1>3, <1>4, <1>7, <1>9, <2>1 DEF Truth, ResponseInv, Expects, At
<1>12. OutcomeInv'
  BY <1>3, OutcomeFrame DEF Truth, OutcomeInv
<1>13. QED
  BY <1>10, <1>11, <1>12 DEF Truth

LEMMA UploadDoneTruth ==
  ASSUME SessionInv, Truth, UploadDone
  PROVE  Truth'
<1> USE TwoEnds
<1>1. pc \in [Ends -> Labels]
  BY SessionTypes
<1>2. /\ pc["client"] = "upload" /\ Goto("client", "response")
      /\ UNCHANGED <<command, network, stream, status, local, files, got, pos, left, outcome>>
  BY DEF UploadDone, At
<1>3. pc'["client"] = "response" /\ pc'["server"] = pc["server"]
  BY <1>1, <1>2 DEF Goto
<1>4. Asks("WRITE") /\ ~Asks("GET")
  BY <1>2 DEF SessionInv, ClientInv, At, Asks
<1>5. RequestInv'
  BY <1>2, <1>3, RequestFrame DEF SessionInv, Truth
<1>6. ResponseInv'
  BY <1>2, <1>3, <1>4, ResponseFrame DEF Truth, Expects, At
<1>7. OutcomeInv'
  BY <1>2, OutcomeFrame DEF Truth, OutcomeInv
<1>8. QED
  BY <1>5, <1>6, <1>7 DEF Truth

LEMMA NoResponseTruth ==
  ASSUME SessionInv, Truth, NoResponseArrives
  PROVE  Truth'
<1> USE TwoEnds
<1>1. pc \in [Ends -> Labels]
  BY SessionTypes
<1>2. /\ Goto("client", "exit") /\ outcome' = "failed"
      /\ UNCHANGED <<command, network, stream, status, local, files, got, pos, left>>
  BY DEF NoResponseArrives
<1>3. pc'["client"] = "exit" /\ pc'["server"] = pc["server"]
  BY <1>1, <1>2 DEF Goto
<1>4. RequestInv'
  BY <1>2, <1>3, RequestFrame DEF SessionInv, Truth
<1>5. ResponseInv'
  BY <1>3 DEF ResponseInv, Expects, At
<1>6. OutcomeInv'
  BY <1>2, <1>3, OutcomeFrame DEF Truth
<1>7. QED
  BY <1>4, <1>5, <1>6 DEF Truth

\* The bytes of the answer to a GET.
LEMMA DownloadFacts ==
  ASSUME SessionInv, command.path \in DOMAIN files,
         NEW file, file = files[command.path]
  PROVE  /\ file \in Seq(Units) /\ Len(file) \in Nat
         /\ SerializeResponse(TRUE, Len(file)) \in Seq(Units)
         /\ Len(SerializeResponse(TRUE, Len(file))) = 2
         /\ Download = SerializeResponse(TRUE, Len(file)) \o file
         /\ Download \in Seq(Units) /\ Len(Download) = 2 + Len(file)
         /\ Download[1] = [success |-> TRUE, data_len |-> Len(file)]
         /\ \A i \in 1 .. Len(file) : Download[2 + i] = file[i]
<1>1. file \in Seq(Units) /\ Len(file) \in Nat
  BY LenProperties DEF SessionInv, TypeOK
<1>2. PICK header : header = SerializeResponse(TRUE, Len(file))
  OBVIOUS
<1>3. /\ header \in Seq(Units) /\ Len(header) = 2
      /\ header[1] = [success |-> TRUE, data_len |-> Len(file)]
  BY <1>1, <1>2, ResponseFacts
<1>4. Download = header \o file
  BY <1>2 DEF Download
<1>5. /\ Download \in Seq(Units) /\ Len(Download) = 2 + Len(file)
      /\ \A i \in 1 .. 2 + Len(file) : Download[i] = IF i <= 2 THEN header[i] ELSE file[i - 2]
  <2>1. /\ header \o file \in Seq(Units) /\ Len(header \o file) = Len(header) + Len(file)
        /\ \A i \in 1 .. Len(header) + Len(file) :
             (header \o file)[i] = IF i <= Len(header) THEN header[i] ELSE file[i - Len(header)]
    BY ONLY <1>1, <1>3, ConcatProperties
  <2>2. QED
    BY ONLY <1>3, <1>4, <2>1
<1>6. Download[1] = [success |-> TRUE, data_len |-> Len(file)]
  <2>1. 1 \in 1 .. 2 + Len(file)
    BY <1>1
  <2>2. Download[1] = header[1]
    BY ONLY <1>5, <2>1
  <2>3. QED
    BY <1>3, <2>2
<1>7. ASSUME NEW i \in 1 .. Len(file) PROVE Download[2 + i] = file[i]
  <2>1. 2 + i \in 1 .. 2 + Len(file) /\ ~(2 + i <= 2) /\ (2 + i) - 2 = i
    BY <1>1
  <2>2. QED
    BY <1>5, <2>1
<1>8. QED
  BY <1>1, <1>2, <1>3, <1>4, <1>5, <1>6, <1>7

LEMMA ReceiveResponseTruth ==
  ASSUME SessionInv, Truth, network # "split", ReceiveResponse
  PROVE  Truth'
<1> USE TwoEnds
<1>1. /\ StreamTypes /\ pc \in [Ends -> Labels]
      /\ pos \in [Ends -> Nat] /\ left \in [Ends -> Int]
  BY SessionTypes
<1>2. PICK s : s = stream["client"]
  OBVIOUS
<1>3. /\ pc["client"] = "response"
      /\ UNCHANGED <<command, network, status, files, got, pos>>
  BY DEF ReceiveResponse, At
<1>4. PICK n \in 1 .. Window :
        /\ Arrives("client", n, 2)
        /\ Take("client", n)
        /\ \/ /\ Response(n) = NoResponse /\ outcome' = "failed" /\ Goto("client", "exit")
              /\ UNCHANGED <<local, left>>
           \/ /\ Response(n) # NoResponse /\ IsDownload(Response(n))
              /\ local' = <<>> /\ left' = [left EXCEPT !["client"] = Response(n).data_len]
              /\ Goto("client", "download") /\ UNCHANGED outcome
           \/ /\ Goto("client", "exit") /\ UNCHANGED <<local, left, outcome>>
           \/ /\ Response(n) # NoResponse /\ ~IsDownload(Response(n))
              /\ outcome' = Shown(Response(n)) /\ Goto("client", "exit")
              /\ UNCHANGED <<local, left>>
  BY DEF ReceiveResponse
<1>5. n \in 1 .. Len(s) /\ s \in Seq(Units) /\ Len(s) \in Nat
  BY <1>1, <1>2, <1>4, LenProperties DEF Arrives, StreamTypes
<1>6. /\ stream'["server"] = stream["server"] /\ stream'["client"] = SubSeq(s, n + 1, Len(s))
      /\ Len(stream'["client"]) = Len(s) - n
      /\ SubSeq(s, 1, n) \in Seq(Units) /\ Len(SubSeq(s, 1, n)) = n /\ SubSeq(s, 1, n)[1] = s[1]
  BY <1>1, <1>2, <1>4, <1>5, TakeFacts
<1>7. s # <<>> /\ Expects /\ outcome = "none"
  BY <1>3, <1>5, EmptySeq DEF Expects, Truth, OutcomeInv
<1>8. s[1] \in [success : BOOLEAN, data_len : Nat]
  BY <1>2, <1>7 DEF SessionInv, AnswerInv
<1>9. Response(n) # NoResponse => n >= 2 /\ Response(n) = s[1]
  BY <1>2, <1>5, <1>6 DEF Response, DeSerializeResponse
<1>10. PICK label \in {"exit", "download"} :
         /\ Goto("client", label)
         /\ label = "exit" => UNCHANGED <<local, left>>
         /\ label = "download" =>
              /\ Asks("GET") /\ s[1].data_len > 0 /\ local' = <<>>
              /\ left' = [left EXCEPT !["client"] = s[1].data_len]
              /\ UNCHANGED outcome /\ n >= 2
         /\ outcome' \in {"none", "failed", "error", "success"}
         /\ outcome' = "success" =>
              /\ label = "exit" /\ s[1].success
              /\ Asks("GET") => ~(s[1].data_len > 0)
  BY <1>4, <1>7, <1>8, <1>9 DEF IsDownload, Shown
<1>11. pc'["client"] = label /\ pc'["server"] = pc["server"]
  BY <1>1, <1>10 DEF Goto
<1>12. Asks("WRITE") => local' = local
  BY <1>10 DEF Asks
<1>13. left'["server"] = left["server"]
  BY <1>1, <1>10
<1>14. RequestInv'
  BY <1>3, <1>6, <1>11, <1>12, <1>13, RequestFrame DEF SessionInv, Truth
<1>15. Asks("GET") /\ s[1].success =>
         /\ command.path \in DOMAIN files /\ got.path = command.path /\ Parsed
         /\ status["server"] # "reset"
         /\ Follows(s, 0, Download) /\ Len(s) = 2 + pos["server"]
         /\ s[1].data_len = Len(files[command.path])
  <2>1. SUFFICES ASSUME Asks("GET"), s[1].success
                 PROVE  /\ command.path \in DOMAIN files /\ got.path = command.path /\ Parsed
                        /\ status["server"] # "reset"
                        /\ Follows(s, 0, Download) /\ Len(s) = 2 + pos["server"]
                        /\ s[1].data_len = Len(files[command.path])
    OBVIOUS
  <2>2. /\ got.path = command.path /\ Parsed /\ status["server"] # "reset"
        /\ Follows(s, 0, Download) /\ Len(s) = 2 + pos["server"]
    BY <1>2, <1>3, <1>7, <2>1 DEF Truth, ResponseInv, At
  <2>3. command.path \in DOMAIN files
    BY <1>2, <1>7, <2>1 DEF Truth, ResponseInv, Done, Asks
  <2>4. Download[1] = [success |-> TRUE, data_len |-> Len(files[command.path])]
    BY <2>3, DownloadFacts
  <2>5. s[1] = Download[0 + 1] /\ 0 + 1 = 1
    BY <1>5, <2>2 DEF Follows
  <2>6. s[1].data_len = Len(files[command.path])
    BY <2>4, <2>5
  <2>7. QED
    BY <2>2, <2>3, <2>6
<1>16. ResponseInv'
  <2>1. CASE label = "exit"
    BY <1>11, <2>1 DEF ResponseInv, Expects, At
  <2>2. CASE label = "download"
    <3>1. Asks("GET") /\ s[1].success /\ n >= 2
      BY <1>2, <1>7, <1>8, <1>10, <2>2 DEF Truth, ResponseInv
    <3>2. PICK file : file = files[command.path]
      OBVIOUS
    <3>3. PICK header : header = SerializeResponse(TRUE, Len(file))
      OBVIOUS
    <3>4. /\ file \in Seq(Units) /\ Len(file) \in Nat /\ header \in Seq(Units) /\ Len(header) = 2
          /\ Download = header \o file /\ Download \in Seq(Units) /\ Len(Download) = 2 + Len(file)
      BY <1>15, <3>1, <3>2, <3>3, DownloadFacts
    <3>5. PICK rest : rest = SubSeq(s, n + 1, Len(s))
      OBVIOUS
    <3>6. Follows(rest, n, Download)
      <4>1. Follows(rest, 0 + n, Download)
        <5>1. PICK t : t = Download
          OBVIOUS
        <5>2. Len(t) \in Nat /\ Follows(s, 0, t) /\ n \in 0 .. Len(s)
          BY <1>5, <1>15, <3>1, <3>4, <5>1
        <5>3. Follows(rest, 0 + n, t)
          BY ONLY <1>5, <3>5, <5>2, FollowsRest
        <5>4. QED
          BY <5>1, <5>3
      <4>2. QED
        BY <4>1
    <3>7. Len(rest) = Len(s) - n
      BY <1>6, <3>5
    <3>8. Follows(rest, n - 2, file)
      <4>1. Follows(rest, n - Len(header), file)
        <5>1. n >= Len(header) /\ n \in Nat /\ Len(rest) \in Nat /\ Follows(rest, n, header \o file)
          BY <1>5, <3>1, <3>4, <3>6, <3>7
        <5>2. QED
          BY <3>4, <5>1, FollowsSecond
      <4>2. QED
        BY <3>4, <4>1
    <3>9. local' = <<>> /\ Len(<<>>) = 0
      BY <1>10, <2>2, EmptySeq
    <3>10. Follows(<<>>, n - 2, file)
      <4>1. n - 2 \in 0 .. Len(file)
        BY <1>5, <1>15, <3>1, <3>4 DEF Follows
      <4>2. QED
        BY <3>4, <4>1, FollowsNothing
    <3>11. LostDown' = n - 2
      <4>1. LostDown' = pos["server"] - 0 - (Len(s) - n)
        BY <1>3, <1>6, <3>9 DEF LostDown
      <4>2. QED
        BY <1>1, <1>5, <1>15, <3>1, <4>1
    <3>12. files'[command'.path] = file /\ stream'["client"] = rest
      BY <1>3, <1>6, <3>2, <3>5
    <3>13. Follows(local, LostDown, files[command.path])'
      BY <3>9, <3>10, <3>11, <3>12 DEF Follows
    <3>14. Follows(stream["client"], LostDown + Len(local), files[command.path])'
      <4>1. (LostDown + Len(local))' = n - 2
        BY <1>5, <3>9, <3>11
      <4>2. QED
        BY <3>8, <3>12, <4>1 DEF Follows
    <3>15. left'["client"] = Len(files'[command'.path]) - Len(local')
      <4>1. left'["client"] = Len(file)
        BY <1>1, <1>10, <1>15, <2>2, <3>1, <3>2
      <4>2. QED
        BY <3>4, <3>9, <3>12, <4>1
    <3>16. (/\ got.path = command.path /\ Parsed
            /\ status["server"] # "reset"
            /\ command.path \in DOMAIN files)'
      BY <1>3, <1>15, <3>1 DEF Parsed
    <3>17. LostDown' >= 0
      BY <1>5, <3>1, <3>11
    <3>18. pc'["client"] = "download"
      BY <1>11, <2>2
    <3>19. QED
      BY <3>13, <3>14, <3>15, <3>16, <3>17, <3>18 DEF ResponseInv, Expects, At
  <2>3. QED
    BY <2>1, <2>2
<1>17. OutcomeInv'
  <2>1. CASE outcome' # "success"
    <3>1. label = "download" => outcome' = "none"
      BY <1>7, <1>10
    <3>2. outcome' # "none" => pc'["client"] = "exit"
      BY <1>11, <3>1
    <3>3. outcome' \in {"none", "failed", "error"}
      BY <1>10, <2>1
    <3>4. QED
      BY <3>2, <3>3 DEF OutcomeInv
  <2>2. CASE outcome' = "success"
    <3>1. s[1].success /\ local' = local /\ pc'["client"] = "exit"
      BY <1>10, <1>11, <2>2
    <3>2. Done
      BY <1>2, <1>7, <3>1 DEF Truth, ResponseInv
    <3>3. Done' /\ \A c : Asks(c)' <=> Asks(c)
      BY <1>3, <3>1, <3>2 DEF Done, Asks
    <3>4. Asks("GET") => files[command.path] = <<>>
      <4>1. SUFFICES ASSUME Asks("GET") PROVE files[command.path] = <<>>
        OBVIOUS
      <4>2. Len(files[command.path]) = 0
        BY <1>8, <1>10, <1>15, <2>2, <3>1, <4>1
      <4>3. files[command.path] \in Seq(Units)
        BY <1>15, <3>1, <4>1 DEF SessionInv, TypeOK
      <4>4. QED
        BY <4>2, <4>3, EmptySeq
    <3>5. QED
      BY <1>3, <2>2, <3>1, <3>3, <3>4 DEF OutcomeInv
  <2>3. QED
    BY <2>1, <2>2
<1>18. QED
  BY <1>14, <1>16, <1>17 DEF Truth

LEMMA DownloadChunksTruth ==
  ASSUME SessionInv, Truth, DownloadChunks
  PROVE  Truth'
<1> USE TwoEnds
<1>1. /\ StreamTypes /\ pos \in [Ends -> Nat] /\ left \in [Ends -> Int]
  BY SessionTypes
<1>2. /\ pc["client"] = "download"
      /\ UNCHANGED <<pc, command, network, status, files, got, pos, outcome>>
  BY DEF DownloadChunks, At
<1>3. PICK s : s = stream["client"]
  OBVIOUS
<1>4. PICK n \in 1 .. Len(s) :
        /\ Take("client", n)
        /\ local' = local \o SubSeq(s, 1, n)
        /\ left' = [left EXCEPT !["client"] = @ - n]
  BY <1>3 DEF DownloadChunks
<1>5. s \in Seq(Units) /\ Len(s) \in Nat
  BY <1>1, <1>3, LenProperties DEF StreamTypes
<1>6. /\ stream'["server"] = stream["server"] /\ stream'["client"] = SubSeq(s, n + 1, Len(s))
      /\ Len(stream'["client"]) = Len(s) - n
  BY <1>1, <1>3, <1>4, TakeFacts
<1>7. Asks("GET") /\ local \in Seq(Units) /\ Len(local) \in Nat /\ ~Asks("WRITE")
  BY <1>2, LenProperties DEF SessionInv, ClientInv, At, Asks
<1>8. left'["client"] = left["client"] - n /\ left'["server"] = left["server"]
  BY <1>1, <1>4
<1>9. RequestInv'
  BY <1>2, <1>6, <1>7, <1>8, RequestFrame DEF SessionInv, Truth
<1>10. PICK file : file = files[command.path]
  OBVIOUS
<1>11. /\ got.path = command.path /\ Parsed /\ status["server"] # "reset"
       /\ command.path \in DOMAIN files
       /\ left["client"] = Len(file) - Len(local) /\ LostDown >= 0
       /\ Follows(local, LostDown, file) /\ Follows(s, LostDown + Len(local), file)
  BY <1>2, <1>3, <1>10 DEF Truth, ResponseInv, At
<1>12. Len(file) \in Nat
  BY <1>10, <1>11, LenProperties DEF SessionInv, TypeOK
<1>13. PICK a : a = LostDown
  OBVIOUS
<1>14. a \in Nat /\ a = pos["server"] - Len(local) - Len(s)
  BY <1>1, <1>3, <1>5, <1>7, <1>11, <1>13 DEF LostDown
<1>15. PICK part, rest : part = SubSeq(s, 1, n) /\ rest = SubSeq(s, n + 1, Len(s))
  OBVIOUS
<1>16. Follows(s, a + Len(local), file) /\ a + Len(local) \in Nat /\ n \in 0 .. Len(s)
  BY <1>5, <1>7, <1>11, <1>13, <1>14
<1>17. Follows(part, a + Len(local), file) /\ Len(part) = n /\ part \in Seq(Units)
  BY ONLY <1>5, <1>12, <1>15, <1>16, FollowsPart
<1>18. Follows(rest, (a + Len(local)) + n, file)
  BY ONLY <1>5, <1>12, <1>15, <1>16, FollowsRest
<1>19. Follows(local, a, file)
  BY <1>11, <1>13
<1>20. Follows(local \o part, a, file) /\ Len(local \o part) = Len(local) + n
  BY ONLY <1>7, <1>12, <1>14, <1>17, <1>19, FollowsMore
<1>21. local' = local \o part /\ Len(local') = Len(local) + n /\ stream'["client"] = rest
  BY <1>4, <1>6, <1>15, <1>20
<1>22. LostDown' = a
  <2>1. LostDown' = pos["server"] - (Len(local) + n) - (Len(s) - n)
    BY <1>2, <1>6, <1>21 DEF LostDown
  <2>2. QED
    BY <1>1, <1>5, <1>7, <1>14, <2>1
<1>23. (LostDown + Len(local))' = (a + Len(local)) + n
  BY <1>5, <1>7, <1>14, <1>21, <1>22
<1>24. files'[command'.path] = file
  BY <1>2, <1>10
<1>25. Follows(local, LostDown, files[command.path])'
  BY <1>20, <1>21, <1>22, <1>24 DEF Follows
<1>26. Follows(stream["client"], LostDown + Len(local), files[command.path])'
  BY <1>18, <1>21, <1>23, <1>24 DEF Follows
<1>27. left'["client"] = Len(files'[command'.path]) - Len(local')
  <2>1. left'["client"] = (Len(file) - Len(local)) - n
    BY <1>8, <1>11
  <2>2. QED
    BY <1>5, <1>7, <1>12, <1>21, <1>24, <2>1
<1>28. ResponseInv'
  BY <1>2, <1>11, <1>14, <1>22, <1>25, <1>26, <1>27 DEF ResponseInv, Expects, At, Parsed
<1>29. OutcomeInv'
  <2>1. outcome' = "none"
    BY <1>2 DEF Truth, OutcomeInv
  <2>2. QED
    BY <2>1 DEF OutcomeInv
<1>30. QED
  BY <1>9, <1>28, <1>29 DEF Truth

LEMMA DownloadDoneTruth ==
  ASSUME SessionInv, Truth, DownloadDone
  PROVE  Truth'
<1> USE TwoEnds
<1>1. /\ pc \in [Ends -> Labels] /\ StreamTypes
      /\ pos \in [Ends -> Nat] /\ left \in [Ends -> Int]
  BY SessionTypes
<1>2. /\ pc["client"] = "download" /\ (Enough("client") \/ Reset("client"))
      /\ Goto("client", "exit") /\ outcome' = "received"
      /\ UNCHANGED <<command, network, stream, status, local, files, got, pos, left>>
  BY DEF DownloadDone, At
<1>3. pc'["client"] = "exit" /\ pc'["server"] = pc["server"]
  BY <1>1, <1>2 DEF Goto
<1>4. PICK file : file = files[command.path]
  OBVIOUS
<1>5. /\ status["server"] # "reset" /\ command.path \in DOMAIN files
      /\ left["client"] = Len(file) - Len(local) /\ LostDown >= 0 /\ Follows(local, LostDown, file)
  BY <1>2, <1>4 DEF Truth, ResponseInv, At
<1>6. Asks("GET") /\ local \in Seq(Units) /\ Len(local) \in Nat
  BY <1>2, LenProperties DEF SessionInv, ClientInv, At
<1>7. file \in Seq(Units) /\ Len(file) \in Nat
  BY <1>4, <1>5, LenProperties DEF SessionInv, TypeOK
<1>8. left["client"] <= 0
  BY <1>2, <1>5 DEF Enough, Reset, Peer
<1>9. Len(stream["client"]) \in Nat
  BY <1>1, LenProperties DEF StreamTypes
<1>10. LostDown = 0
  <2>1. LostDown \in Int
    BY <1>1, <1>6, <1>9 DEF LostDown
  <2>2. LostDown + Len(local) <= Len(file)
    BY <1>5 DEF Follows
  <2>3. QED
    BY <1>5, <1>6, <1>7, <1>8, <2>1, <2>2
<1>11. local = file
  <2>1. Follows(local, 0, file) /\ Len(local) >= Len(file)
    BY <1>5, <1>6, <1>7, <1>8, <1>10
  <2>2. QED
    BY <1>6, <1>7, <2>1, FollowsAll
<1>12. RequestInv'
  BY <1>2, <1>3, RequestFrame DEF SessionInv, Truth
<1>13. ResponseInv'
  BY <1>3 DEF ResponseInv, Expects, At
<1>14. OutcomeInv'
  BY <1>2, <1>3, <1>4, <1>5, <1>6, <1>11 DEF OutcomeInv, Asks
<1>15. QED
  BY <1>12, <1>13, <1>14 DEF Truth

(***************************************************************************)
(* The worker's first recv: it ends with the header or takes part of the   *)
(* upload with it, and that part is lost.                                  *)
(***************************************************************************)
LEMMA ReceiveRequestTruth ==
  ASSUME PlainNames, SessionInv, Truth, network # "split", ReceiveRequest
  PROVE  Truth'
<1> USE TwoEnds
<1>1. /\ StreamTypes /\ pc \in [Ends -> Labels] /\ pos \in [Ends -> Nat]
      /\ command \in [command : Commands, path : Paths]
  BY SessionTypes
<1>2. /\ pc["server"] = "receive" /\ Goto("server", "handle")
      /\ UNCHANGED <<command, network, status, local, files, pos, left, outcome>>
  BY DEF ReceiveRequest, At
<1>3. PICK s : s = stream["server"]
  OBVIOUS
<1>4. PICK n \in 1 .. Window :
        /\ Arrives("server", n, HeaderLen)
        /\ Take("server", n)
        /\ got' = DeSerializeRequest(SubSeq(s, 1, n))
  BY <1>3 DEF ReceiveRequest
<1>5. s \in Seq(Units) /\ Len(s) \in Nat /\ n \in 1 .. Len(s)
  BY <1>1, <1>3, <1>4, LenProperties DEF Arrives, StreamTypes
<1>6. /\ stream'["server"] = SubSeq(s, n + 1, Len(s)) /\ Len(stream'["server"]) = Len(s) - n
      /\ stream'["client"] = stream["client"]
      /\ SubSeq(s, 1, n) \in Seq(Units) /\ Len(SubSeq(s, 1, n)) = n /\ SubSeq(s, 1, n)[1] = s[1]
  BY <1>1, <1>3, <1>4, <1>5, TakeFacts
<1>7. pc'["server"] = "handle" /\ pc'["client"] = pc["client"]
  BY <1>1, <1>2 DEF Goto
<1>8. s # <<>>
  BY <1>5, EmptySeq
<1>9. Buildable /\ Len(s) = Len(Header) + pos["client"] /\ Follows(s, 0, Upload)
  BY <1>2, <1>3, <1>8 DEF SessionInv, ArrivingInv, At
<1>10. /\ command.path \in Seq(Pieces) /\ command.path \in Seq(Units) /\ Len(command.path) \in Nat
       /\ Len(command.path) >= 1 /\ Len(Header) = Len(command.path) + 1 /\ Tail(Header) = command.path
       /\ Header[1] = [command |-> command.command, data_len |-> DataLen]
       /\ Payload \in Seq(Units) /\ Len(Payload) \in Nat
       /\ Asks("WRITE") => Payload = local /\ DataLen = Len(local)
       /\ DataLen \in Nat /\ Header \in Seq(Units) /\ Upload \in Seq(Units)
       /\ Len(Upload) = Len(Header) + Len(Payload) /\ Upload[1] = Header[1]
  BY <1>9, SessionTypes, UploadFacts
<1>11. pos["client"] <= Len(Payload)
  BY DEF SessionInv, ClientInv
<1>12. n >= Len(Header)
  BY <1>1, <1>2, <1>3, <1>4, <1>9, <1>10 DEF Arrives, HeaderLen
<1>13. network = "whole" \/ ~Asks("WRITE") => n = Len(Header)
  <2>1. network = "whole" => n = Len(Header)
    BY <1>1, <1>4, <1>5, <1>10, <1>12 DEF Arrives, HeaderLen
  <2>2. ~Asks("WRITE") => n = Len(Header)
    <3>1. ~Asks("WRITE") => Len(Payload) = 0
      BY EmptySeq DEF Payload
    <3>2. QED
      BY <1>1, <1>5, <1>9, <1>10, <1>11, <1>12, <3>1
  <2>3. QED
    BY <2>1, <2>2
<1>14. PICK bytes : bytes = SubSeq(s, 1, n)
  OBVIOUS
<1>15. bytes \in Seq(Units) /\ Len(bytes) = n /\ bytes[1] = s[1]
  BY <1>6, <1>14
<1>16. bytes[1] = [command |-> command.command, data_len |-> DataLen]
  <2>1. 1 \in 1 .. Len(s)
    BY <1>5
  <2>2. s[1] = Upload[0 + 1]
    BY <1>9, <2>1 DEF Follows
  <2>3. QED
    BY <1>10, <1>15, <2>2
<1>17. PICK request : request = got'
  OBVIOUS
<1>18. /\ request.command = command.command
       /\ request.data_len = DataLen
       /\ request.path = ThirdField(Tail(bytes))
  <2>1. request = DeSerializeRequest(bytes) /\ Len(bytes) >= 2
    BY <1>4, <1>5, <1>10, <1>12, <1>14, <1>15, <1>17
  <2>2. /\ request.command # "none" =>
              /\ request.command = command.command
              /\ request.data_len = DataLen
              /\ request.path = ThirdField(Tail(bytes))
        /\ Len(bytes) >= 2 => request.command # "none"
    BY ONLY <1>1, <1>9, <1>10, <1>15, <1>16, <2>1, ParsedFacts
  <2>3. QED
    BY <2>1, <2>2
<1>19. n = Len(Header) => request.path = command.path
  <2>1. SUFFICES ASSUME n = Len(Header) PROVE request.path = command.path
    OBVIOUS
  <2>2. PICK t, h, payload : t = Upload /\ h = Header /\ payload = Payload
    OBVIOUS
  <2>3. /\ Len(t) \in Nat /\ Follows(s, 0, t) /\ n \in 0 .. Len(s) /\ 0 \in Nat
        /\ h \in Seq(Units) /\ payload \in Seq(Units) /\ t = h \o payload /\ n = Len(h)
    BY <1>5, <1>9, <1>10, <2>1, <2>2 DEF Upload
  <2>4. Follows(bytes, 0, t)
    <3>1. Len(t) \in Nat /\ Follows(s, 0, t) /\ n \in 0 .. Len(s) /\ 0 \in Nat /\ s \in Seq(Units)
      BY <1>5, <2>3
    <3>2. QED
      BY ONLY <1>14, <3>1, FollowsPart
  <2>5. bytes = h
    BY ONLY <1>15, <2>3, <2>4, FollowsFirst
  <2>6. Tail(bytes) = command.path
    BY <1>10, <2>2, <2>5
  <2>7. \A i \in 1 .. Len(command.path) : command.path[i] \notin Separators
    <3>1. \A i \in 1 .. Len(command.path) : command.path[i] \in Pieces
      BY <1>10, ElementOfSeq
    <3>2. QED
      BY <3>1 DEF PlainNames
  <2>8. ThirdField(command.path) = command.path
    BY <1>10, <2>7, ThirdFieldFacts
  <2>9. QED
    BY <1>18, <2>6, <2>8
<1>20. /\ \A c : Asks(c)' <=> Asks(c)
       /\ DataLen' = DataLen /\ (Buildable' <=> Buildable)
  BY <1>2, SameRequest
<1>21. Stored' = <<>> /\ Len(<<>>) = 0
  BY <1>7, EmptySeq DEF Stored, At
<1>22. LostUp' = n - Len(Header)
  <2>1. LostUp' = pos["client"] - 0 - (Len(s) - n)
    BY <1>2, <1>6, <1>21 DEF LostUp
  <2>2. PICK a, h : a = pos["client"] /\ h = Len(Header)
    OBVIOUS
  <2>3. a \in Nat /\ h \in Nat /\ Len(s) = h + a /\ n \in Nat
    BY <1>1, <1>5, <1>9, <1>10, <2>2
  <2>4. a - 0 - (Len(s) - n) = n - h
    BY ONLY <2>3
  <2>5. QED
    BY <2>1, <2>2, <2>4
<1>23. Asks("WRITE") => Follows(<<>>, n - Len(Header), local) /\ Follows(stream'["server"], n - Len(Header), local)
  <2>1. SUFFICES ASSUME Asks("WRITE")
                 PROVE  /\ Follows(<<>>, n - Len(Header), local)
                        /\ Follows(stream'["server"], n - Len(Header), local)
    OBVIOUS
  <2>2. PICK t, h, rest : t = Upload /\ h = Header /\ rest = SubSeq(s, n + 1, Len(s))
    OBVIOUS
  <2>3. /\ Len(t) \in Nat /\ Follows(s, 0, t) /\ n \in 0 .. Len(s) /\ 0 \in Nat
        /\ h \in Seq(Units) /\ local \in Seq(Units) /\ t = h \o local
    <3>1. Follows(s, 0, t) /\ n \in 0 .. Len(s)
      BY <1>5, <1>9, <2>2
    <3>2. Payload = local /\ Len(t) = Len(Header) + Len(Payload)
      BY <1>10, <2>1, <2>2
    <3>3. t = h \o local
      BY <2>2, <3>2 DEF Upload
    <3>4. Len(t) \in Nat
      BY <1>10, <2>2, LenProperties
    <3>5. QED
      BY <1>10, <2>2, <3>1, <3>2, <3>3, <3>4
  <2>4. Follows(rest, 0 + n, t)
    BY ONLY <1>5, <2>2, <2>3, FollowsRest
  <2>5. Follows(rest, n, h \o local) /\ n \in Nat /\ n >= Len(h) /\ Len(rest) \in Nat
    BY <1>5, <1>6, <1>12, <2>2, <2>3, <2>4
  <2>6. Follows(rest, n - Len(h), local)
    BY ONLY <2>3, <2>5, FollowsSecond
  <2>7. n - Len(h) \in 0 .. Len(local)
    BY <1>1, <1>5, <1>9, <1>10, <1>11, <1>12, <2>1, <2>2
  <2>8. Follows(<<>>, n - Len(h), local)
    BY ONLY <2>3, <2>7, FollowsNothing
  <2>9. QED
    BY <1>6, <2>2, <2>6, <2>8
<1>24. RequestInv'
  <2>1. (Parsed /\ (network = "whole" \/ ~Asks("WRITE")) => got.path = command.path)'
    BY <1>2, <1>13, <1>17, <1>19, <1>20
  <2>2. (~Asks("WRITE") /\ ~At("server", "receive") => stream["server"] = <<>>)'
    <3>1. SUFFICES ASSUME ~Asks("WRITE") PROVE stream'["server"] = <<>>
      BY <1>20
    <3>2. Len(stream'["server"]) = 0
      <4>1. ~Asks("WRITE") => Len(Payload) = 0
        BY EmptySeq DEF Payload
      <4>2. QED
        BY <1>1, <1>5, <1>6, <1>9, <1>10, <1>11, <1>13, <3>1, <4>1
    <3>3. stream'["server"] \in Seq(Units)
      BY <1>1, <1>3, <1>4, <1>5, TakeFacts
    <3>4. QED
      BY <3>2, <3>3, EmptySeq
  <2>3. (got.command = "WRITE" /\ Silent =>
           /\ Buildable
           /\ got.data_len = DataLen
           /\ LostUp >= 0
           /\ LostUp = 0 => got.path = command.path
           /\ Follows(Stored, LostUp, local)
           /\ Follows(stream["server"], LostUp + Len(Stored), local)
           /\ At("server", "store") => left["server"] = DataLen - Len(Stored))'
    <3>1. SUFFICES ASSUME got'.command = "WRITE"
                   PROVE  (/\ Buildable
                           /\ got.data_len = DataLen
                           /\ LostUp >= 0
                           /\ LostUp = 0 => got.path = command.path
                           /\ Follows(Stored, LostUp, local)
                           /\ Follows(stream["server"], LostUp + Len(Stored), local)
                           /\ At("server", "store") => left["server"] = DataLen - Len(Stored))'
      OBVIOUS
    <3>2. Asks("WRITE")
      BY <1>17, <1>18, <3>1 DEF Asks
    <3>3. Buildable' /\ got'.data_len = DataLen'
      BY <1>9, <1>17, <1>18, <1>20
    <3>4. LostUp' >= 0 /\ (LostUp' = 0 => got'.path = command'.path)
      BY <1>2, <1>5, <1>10, <1>12, <1>17, <1>19, <1>22
    <3>5. Follows(Stored, LostUp, local)'
      BY <1>2, <1>21, <1>22, <1>23, <3>2 DEF Follows
    <3>6. Follows(stream["server"], LostUp + Len(Stored), local)'
      <4>1. (LostUp + Len(Stored))' = n - Len(Header)
        BY <1>5, <1>10, <1>21, <1>22
      <4>2. QED
        BY <1>2, <1>23, <3>2, <4>1 DEF Follows
    <3>7. ~At("server", "store")'
      BY <1>7 DEF At
    <3>8. QED
      BY <3>3, <3>4, <3>5, <3>6, <3>7
  <2>4. QED
    BY <2>1, <2>2, <2>3 DEF RequestInv
<1>25. ResponseInv' /\ OutcomeInv'
  BY <1>2, <1>6, <1>7, SilentFrame DEF Silent, SessionInv, Truth
<1>26. QED
  BY <1>24, <1>25 DEF Truth

LEMMA NothingArrivesTruth ==
  ASSUME SessionInv, Truth, NothingArrives
  PROVE  Truth'
<1> USE TwoEnds
<1>1. pc \in [Ends -> Labels]
  BY SessionTypes
<1>2. /\ pc["server"] = "receive" /\ Goto("server", "handle") /\ stream["server"] = <<>>
      /\ UNCHANGED <<command, network, stream, status, local, files, got, pos, left, outcome>>
  BY DEF NothingArrives, At, Over
<1>3. pc'["server"] = "handle" /\ pc'["client"] = pc["client"]
  BY <1>1, <1>2 DEF Goto
<1>4. ~Parsed
  BY <1>2 DEF SessionInv, ArrivingInv, At
<1>5. RequestInv'
  BY <1>2, <1>4 DEF RequestInv, Parsed
<1>6. ResponseInv' /\ OutcomeInv'
  BY <1>2, <1>3, SilentFrame DEF Silent, SessionInv, Truth
<1>7. QED
  BY <1>5, <1>6 DEF Truth

LEMMA RespondTruth ==
  ASSUME SessionInv, Truth, NEW success \in BOOLEAN, NEW len \in Nat, NEW next \in {"close", "send"},
         At("server", "handle") \/ At("server", "store"), Respond(success, len, next),
         UNCHANGED <<command, network, local, got, pos, left, outcome>>,
         IF success THEN Expects => Done' ELSE len = 0,
         success /\ Asks("GET") =>
           got.path = command.path /\ Parsed /\ command.path \in DOMAIN files
             /\ files' = files /\ len = Len(files[command.path])
  PROVE  Truth'
<1> USE TwoEnds
<1>1. /\ StatusInv'
      /\ pc'["server"] = next /\ pc'["client"] = pc["client"]
      /\ stream'["server"] = stream["server"]
      /\ Running("client") => stream'["client"] = SerializeResponse(success, len)
      /\ status'["server"] = status["server"]
      /\ ~Silent' /\ pos["server"] = 0
  BY RespondFacts
<1>2. Silent /\ ~At("server", "receive") /\ Running("server")
  BY DEF At, Silent, Running
<1>3. \A c : Asks(c)' <=> Asks(c)
  BY DEF Asks
<1>4. status'["server"] # "reset"
  BY <1>1, <1>2, SessionTypes DEF StatusInv
<1>5. PICK response : response = SerializeResponse(success, len)
  OBVIOUS
<1>6. /\ response \in Seq(Units) /\ Len(response) = 2
      /\ response[1] = [success |-> success, data_len |-> len]
  BY <1>5, ResponseFacts
<1>7. ~At("client", "download") /\ outcome \in {"none", "failed"}
  BY <1>2 DEF SessionInv, AnswerInv, At
<1>8. Expects => stream'["client"] = response
  BY <1>1, <1>5 DEF Expects, Running
<1>9. RequestInv'
  BY <1>1, <1>2, RequestOver DEF Truth, RequestInv
<1>10. (Expects /\ stream["client"] # <<>> =>
          IF stream["client"][1].success THEN Done ELSE stream["client"][1].data_len = 0)'
  BY <1>1, <1>6, <1>8 DEF Expects
<1>11. (Asks("GET") /\ At("client", "response") /\ stream["client"] # <<>> =>
          /\ status["server"] # "reset"
          /\ Len(stream["client"]) >= 2
          /\ stream["client"][1].success =>
               /\ got.path = command.path /\ Parsed
               /\ Follows(stream["client"], 0, Download)
               /\ Len(stream["client"]) = 2 + pos["server"])'
  <2>1. SUFFICES ASSUME Asks("GET"), At("client", "response")'
                 PROVE  /\ Len(stream'["client"]) >= 2
                        /\ stream'["client"][1].success =>
                             /\ got'.path = command'.path /\ Parsed'
                             /\ Follows(stream["client"], 0, Download)'
                             /\ Len(stream'["client"]) = 2 + pos'["server"]
    BY <1>3, <1>4
  <2>2. stream'["client"] = response
    BY <1>1, <1>8, <2>1 DEF Expects, At
  <2>3. ASSUME success PROVE Follows(stream["client"], 0, Download)'
    <3>1. command.path \in DOMAIN files /\ files' = files /\ len = Len(files[command.path])
      BY <2>1, <2>3
    <3>2. PICK file, download : file = files[command.path] /\ download = Download
      OBVIOUS
    <3>3. /\ file \in Seq(Units) /\ Len(file) \in Nat /\ response = SerializeResponse(TRUE, Len(file))
          /\ download = response \o file
      BY <1>5, <2>3, <3>1, <3>2, DownloadFacts
    <3>4. /\ Len(response \o file) = Len(response) + Len(file)
          /\ \A i \in 1 .. Len(response) + Len(file) :
               (response \o file)[i] = IF i <= Len(response) THEN response[i] ELSE file[i - Len(response)]
      BY ONLY <1>6, <3>3, ConcatProperties
    <3>5. Follows(response, 0, download)
      <4>1. Len(download) = 2 + Len(file) /\ \A i \in 1 .. 2 + Len(file) : i <= 2 => download[i] = response[i]
        BY ONLY <1>6, <3>3, <3>4
      <4>2. \A i \in 1 .. 2 : i \in 1 .. 2 + Len(file) /\ i <= 2 /\ 0 + i = i
        BY <3>3
      <4>3. \A i \in 1 .. 2 : response[i] = download[0 + i]
        BY ONLY <4>1, <4>2
      <4>4. 0 + 2 <= Len(download)
        <5>1. Len(download) = 2 + Len(file) /\ Len(file) \in Nat
          BY <3>3, <4>1, Zenon
        <5>2. QED
          BY ONLY <5>1
      <4>5. QED
        BY <1>6, <4>3, <4>4 DEF Follows
    <3>6. Download' = download
      BY <3>1, <3>2 DEF Download
    <3>7. QED
      BY <2>2, <3>5, <3>6 DEF Follows
  <2>4. response[1].success => success
    BY <1>6
  <2>5. Parsed' <=> Parsed
    BY DEF Parsed
  <2>6. Len(stream'["client"]) = 2 /\ (stream'["client"][1].success => success)
    BY <1>6, <2>2, <2>4
  <2>7. 2 = 2 + pos'["server"]
    BY <1>1
  <2>8. success => got'.path = command'.path /\ Parsed'
    BY <2>1, <2>5
  <2>9. Len(stream'["client"]) >= 2
    BY <2>6
  <2>10. QED
    BY <2>3, <2>6, <2>7, <2>8, <2>9
<1>12. ResponseInv'
  BY <1>1, <1>7, <1>10, <1>11 DEF ResponseInv, At
<1>13. OutcomeInv'
  BY <1>1, <1>7 DEF Truth, OutcomeInv
<1>14. QED
  BY <1>9, <1>12, <1>13 DEF Truth

(***************************************************************************)
(* The worker reports the success of an upload: then nothing of it went    *)
(* with the header, or it would still be waiting.                          *)
(***************************************************************************)
LEMMA StoredIsLocal ==
  ASSUME SessionInv, Truth, At("server", "store"), Enough("server")
  PROVE  got.path = command.path /\ command.path \in DOMAIN files /\ files[command.path] = local
<1> USE TwoEnds
<1>1. got.command = "WRITE" /\ got.path \in DOMAIN files /\ Silent
  BY DEF SessionInv, ServerInv, At, Silent
<1>2. Asks("WRITE")
  BY <1>1 DEF SessionInv, ServerInv, Parsed, Asks
<1>3. PICK file : file = files[got.path]
  OBVIOUS
<1>4. Stored = file /\ file \in Seq(Units) /\ Len(file) \in Nat
  BY <1>1, <1>3, LenProperties DEF Stored, SessionInv, TypeOK
<1>5. /\ Buildable /\ LostUp >= 0 /\ (LostUp = 0 => got.path = command.path)
      /\ Follows(file, LostUp, local) /\ left["server"] = DataLen - Len(file)
  BY <1>1, <1>4 DEF Truth, RequestInv
<1>6. DataLen = Len(local) /\ local \in Seq(Units) /\ Len(local) \in Nat
  BY <1>2, <1>5, SessionTypes, UploadFacts
<1>7. LostUp \in Int
  <2>1. Len(stream["server"]) \in Int /\ pos["client"] \in Int
    BY SessionTypes, LenProperties DEF StreamTypes
  <2>2. QED
    BY <1>4, <2>1 DEF LostUp
<1>8. LostUp = 0 /\ Len(file) >= Len(local)
  <2>1. Len(file) >= Len(local)
    BY <1>4, <1>5, <1>6 DEF Enough
  <2>2. LostUp + Len(file) <= Len(local)
    BY <1>5 DEF Follows
  <2>3. QED
    BY <1>4, <1>5, <1>6, <1>7, <2>1, <2>2
<1>9. file = local
  BY <1>4, <1>5, <1>6, <1>8, FollowsAll
<1>10. QED
  BY <1>1, <1>3, <1>5, <1>8, <1>9

LEMMA AnswersTruth ==
  ASSUME SessionInv, Truth,
         Refuse \/ RefuseWrite \/ StoreDone \/ AnnounceFile \/ RemoveFile
  PROVE  Truth'
<1> USE TwoEnds
<1>1. CASE Refuse
  BY <1>1, RespondTruth DEF Refuse
<1>2. CASE RefuseWrite
  BY <1>2, RespondTruth DEF RefuseWrite
<1>3. CASE StoreDone
  <2>1. /\ At("server", "store") /\ Respond(TRUE, 0, "close") /\ (Enough("server") \/ Reset("server"))
        /\ UNCHANGED <<command, network, local, files, got, pos, left, outcome>>
    BY <1>3 DEF StoreDone
  <2>2. Asks("WRITE") /\ ~Asks("GET")
    BY <2>1 DEF SessionInv, ServerInv, At, Parsed, Asks
  <2>3. Expects => status["client"] # "reset"
    BY SessionTypes DEF StatusInv, Expects, Running
  <2>4. Expects => Enough("server")
    BY <2>1, <2>3 DEF Reset, Peer
  <2>5. Expects => Done
    BY <2>1, <2>2, <2>4, StoredIsLocal DEF Done, Asks
  <2>6. Done' <=> Done
    BY <2>1 DEF Done, Asks
  <2>7. QED
    BY <2>1, <2>2, <2>5, <2>6, RespondTruth
<1>4. CASE AnnounceFile
  <2>1. /\ At("server", "handle") /\ Respond(TRUE, Len(files[got.path]), "send")
        /\ got.command = "GET" /\ got.path \in DOMAIN files
        /\ UNCHANGED <<command, network, local, files, got, pos, left, outcome>>
    BY <1>4 DEF AnnounceFile, Exists
  <2>2. Asks("GET") /\ ~Asks("WRITE") /\ Parsed
    BY <2>1 DEF SessionInv, ServerInv, Parsed, Asks
  <2>3. got.path = command.path
    BY <2>2 DEF Truth, RequestInv
  <2>4. Done'
    BY <2>1, <2>2, <2>3 DEF Done, Asks
  <2>5. Len(files[got.path]) \in Nat
    BY <2>1, LenProperties DEF SessionInv, TypeOK
  <2>6. QED
    BY <2>1, <2>2, <2>3, <2>4, <2>5, RespondTruth
<1>5. CASE RemoveFile
  <2>1. /\ At("server", "handle") /\ Respond(TRUE, 0, "close") /\ got.command = "RM"
        /\ files' = [p \in DOMAIN files \ {got.path} |-> files[p]]
        /\ UNCHANGED <<command, network, local, got, pos, left, outcome>>
    BY <1>5 DEF RemoveFile
  <2>2. Asks("RM") /\ ~Asks("WRITE") /\ ~Asks("GET") /\ Parsed
    BY <2>1 DEF SessionInv, ServerInv, Parsed, Asks
  <2>3. got.path = command.path
    BY <2>2 DEF Truth, RequestInv
  <2>4. Done'
    BY <2>1, <2>2, <2>3 DEF Done, Asks
  <2>5. QED
    BY <2>1, <2>2, <2>4, RespondTruth
<1>6. QED
  BY <1>1, <1>2, <1>3, <1>4, <1>5

LEMMA OpenTargetTruth ==
  ASSUME SessionInv, Truth, OpenTarget
  PROVE  Truth'
<1> USE TwoEnds
<1>1. /\ pc \in [Ends -> Labels] /\ left \in [Ends -> Int]
  BY SessionTypes
<1>2. /\ pc["server"] = "handle" /\ Goto("server", "store") /\ got.command = "WRITE"
      /\ Put(got.path, <<>>) /\ left' = [left EXCEPT !["server"] = got.data_len]
      /\ UNCHANGED <<command, network, stream, status, local, got, pos, outcome>>
  BY DEF OpenTarget, At
<1>3. pc'["server"] = "store" /\ pc'["client"] = pc["client"] /\ left'["server"] = got.data_len
  BY <1>1, <1>2 DEF Goto
<1>4. Asks("WRITE") /\ Silent
  BY <1>2 DEF SessionInv, ServerInv, Parsed, Asks, Silent
<1>5. Stored = <<>> /\ Stored' = <<>>
  <2>1. Stored = <<>>
    BY <1>2 DEF Stored, At
  <2>2. files'[got.path] = <<>>
    BY <1>2 DEF Put
  <2>3. QED
    BY <1>2, <1>3, <2>1, <2>2 DEF Stored, At
<1>6. LostUp' = LostUp
  BY <1>2, <1>5 DEF LostUp
<1>7. /\ \A c : Asks(c)' <=> Asks(c)
      /\ DataLen' = DataLen /\ (Buildable' <=> Buildable)
  BY <1>2, SameRequest
<1>8. /\ Buildable /\ got.data_len = DataLen /\ LostUp >= 0
      /\ LostUp = 0 => got.path = command.path
      /\ Follows(Stored, LostUp, local)
      /\ Follows(stream["server"], LostUp + Len(Stored), local)
  BY <1>2, <1>4 DEF Truth, RequestInv
<1>9. DataLen = DataLen - 0 /\ Len(<<>>) = 0
  <2>1. DataLen \in Nat
    BY <1>8, SessionTypes, UploadFacts
  <2>2. QED
    BY <2>1, EmptySeq
<1>10. left'["server"] = DataLen' - Len(Stored')
  BY <1>3, <1>5, <1>7, <1>8, <1>9
<1>11. Follows(Stored, LostUp, local)' /\ Follows(stream["server"], LostUp + Len(Stored), local)'
  BY <1>2, <1>5, <1>6, <1>8 DEF Follows
<1>12. RequestInv'
  <2>1. (Parsed /\ (network = "whole" \/ ~Asks("WRITE")) => got.path = command.path)'
    BY <1>2, <1>7 DEF Truth, RequestInv, Parsed
  <2>2. QED
    BY <1>2, <1>4, <1>6, <1>7, <1>8, <1>10, <1>11, <2>1 DEF RequestInv
<1>13. ResponseInv' /\ OutcomeInv'
  BY <1>2, <1>3, <1>4, SilentFrame DEF SessionInv, Truth
<1>14. QED
  BY <1>12, <1>13 DEF Truth

LEMMA StoreChunksTruth ==
  ASSUME SessionInv, Truth, StoreChunks
  PROVE  Truth'
<1> USE TwoEnds
<1>1. /\ StreamTypes /\ pos \in [Ends -> Nat] /\ left \in [Ends -> Int]
  BY SessionTypes
<1>2. /\ pc["server"] = "store"
      /\ UNCHANGED <<pc, command, network, status, local, got, pos, outcome>>
  BY DEF StoreChunks, At
<1>3. PICK s : s = stream["server"]
  OBVIOUS
<1>4. PICK n \in 1 .. Len(s) :
        /\ Take("server", n)
        /\ Put(got.path, files[got.path] \o SubSeq(s, 1, n))
        /\ left' = [left EXCEPT !["server"] = @ - n]
  BY <1>3 DEF StoreChunks
<1>5. s \in Seq(Units) /\ Len(s) \in Nat
  BY <1>1, <1>3, LenProperties DEF StreamTypes
<1>6. /\ stream'["client"] = stream["client"] /\ stream'["server"] = SubSeq(s, n + 1, Len(s))
      /\ Len(stream'["server"]) = Len(s) - n
  BY <1>1, <1>3, <1>4, TakeFacts
<1>7. got.command = "WRITE" /\ got.path \in DOMAIN files /\ Asks("WRITE") /\ Silent
  BY <1>2 DEF SessionInv, ServerInv, At, Parsed, Asks, Silent
<1>8. PICK old, part, rest : /\ old = files[got.path]
                             /\ part = SubSeq(s, 1, n) /\ rest = SubSeq(s, n + 1, Len(s))
  OBVIOUS
<1>9. old \in Seq(Units) /\ Len(old) \in Nat
  BY <1>7, <1>8, LenProperties DEF SessionInv, TypeOK
<1>10. Stored = old
  BY <1>2, <1>8 DEF Stored, At
<1>11. /\ Buildable /\ got.data_len = DataLen /\ LostUp >= 0
       /\ LostUp = 0 => got.path = command.path
       /\ Follows(old, LostUp, local) /\ Follows(s, LostUp + Len(old), local)
       /\ left["server"] = DataLen - Len(old)
  BY <1>2, <1>3, <1>7, <1>10 DEF Truth, RequestInv, At
<1>12. DataLen \in Nat /\ Len(local) \in Nat
  BY <1>7, <1>11, SessionTypes, UploadFacts
<1>13. PICK a : a = LostUp
  OBVIOUS
<1>14. a = pos["client"] - Len(old) - Len(s) /\ a \in Nat
  BY <1>1, <1>3, <1>5, <1>9, <1>10, <1>11, <1>13 DEF LostUp
<1>15. Follows(s, a + Len(old), local) /\ a + Len(old) \in Nat /\ n \in 0 .. Len(s) /\ Follows(old, a, local)
  BY <1>5, <1>9, <1>11, <1>13, <1>14
<1>16. Follows(part, a + Len(old), local) /\ Len(part) = n /\ part \in Seq(Units)
  <2>1. PICK k : k = a + Len(old)
    OBVIOUS
  <2>2. k \in Nat /\ s \in Seq(Units) /\ Len(local) \in Nat /\ Follows(s, k, local)
        /\ n \in 0 .. Len(s) /\ part = SubSeq(s, 1, n)
    BY <1>5, <1>8, <1>12, <1>15, <2>1
  <2>3. Follows(part, k, local) /\ Len(part) = n /\ part \in Seq(Units)
    BY ONLY <2>2, FollowsPart
  <2>4. QED
    BY <2>1, <2>3
<1>17. Follows(rest, (a + Len(old)) + n, local)
  BY ONLY <1>5, <1>8, <1>12, <1>15, FollowsRest
<1>18. Follows(old \o part, a, local) /\ Len(old \o part) = Len(old) + n
  BY ONLY <1>9, <1>12, <1>14, <1>15, <1>16, FollowsMore
<1>19. Stored' = old \o part
  <2>1. files'[got.path] = old \o part
    BY <1>4, <1>8 DEF Put
  <2>2. QED
    BY <1>2, <2>1 DEF Stored, At
<1>20. Len(Stored') = Len(old) + n /\ stream'["server"] = rest
  BY <1>6, <1>8, <1>18, <1>19
<1>21. LostUp' = a
  <2>1. LostUp' = pos["client"] - (Len(old) + n) - (Len(s) - n)
    BY <1>2, <1>6, <1>20 DEF LostUp
  <2>2. QED
    BY <1>1, <1>5, <1>9, <1>14, <2>1
<1>22. (LostUp + Len(Stored))' = (a + Len(old)) + n
  BY <1>5, <1>9, <1>14, <1>20, <1>21
<1>23. Follows(Stored, LostUp, local)'
  BY <1>2, <1>18, <1>19, <1>21 DEF Follows
<1>24. Follows(stream["server"], LostUp + Len(Stored), local)'
  BY <1>2, <1>17, <1>20, <1>22 DEF Follows
<1>25. /\ \A c : Asks(c)' <=> Asks(c)
       /\ DataLen' = DataLen /\ (Buildable' <=> Buildable)
  BY <1>2, SameRequest
<1>26. left'["server"] = DataLen' - Len(Stored')
  <2>1. left'["server"] = (DataLen - Len(old)) - n
    BY <1>1, <1>4, <1>11
  <2>2. QED
    BY <1>5, <1>9, <1>12, <1>20, <1>25, <2>1
<1>27. RequestInv'
  <2>1. (Parsed /\ (network = "whole" \/ ~Asks("WRITE")) => got.path = command.path)'
    BY <1>2, <1>25 DEF Truth, RequestInv, Parsed
  <2>2. Buildable' /\ got'.data_len = DataLen' /\ LostUp' >= 0 /\ (LostUp' = 0 => got'.path = command'.path)
    BY <1>2, <1>11, <1>13, <1>14, <1>21, <1>25
  <2>3. QED
    BY <1>7, <1>23, <1>24, <1>25, <1>26, <2>1, <2>2 DEF RequestInv
<1>28. ResponseInv' /\ OutcomeInv'
  BY <1>2, <1>6, <1>7, SilentFrame DEF SessionInv, Truth
<1>29. QED
  BY <1>27, <1>28 DEF Truth

LEMMA SendChunkTruth ==
  ASSUME SessionInv, Truth, SendChunk
  PROVE  Truth'
<1> USE TwoEnds
<1>1. /\ StreamTypes /\ StatusInv /\ pos \in [Ends -> Nat]
  BY SessionTypes
<1>2. PICK file : file = files[got.path]
  OBVIOUS
<1>3. PICK next : next = file[pos["server"] + 1]
  OBVIOUS
<1>4. /\ pc["server"] = "send" /\ pos["server"] < Len(file)
      /\ Send("server", <<next>>) /\ pos' = [pos EXCEPT !["server"] = @ + 1]
      /\ UNCHANGED <<pc, command, network, local, files, got, left, outcome>>
  BY <1>2, <1>3 DEF SendChunk, MoreToSend, At
<1>5. /\ file \in Seq(Units) /\ Len(file) \in Nat /\ got.path \in DOMAIN files
      /\ got.command = "GET"
  BY <1>2, <1>4, LenProperties DEF SessionInv, TypeOK, ServerInv, At
<1>6. Asks("GET") /\ ~Asks("WRITE") /\ Parsed
  BY <1>5 DEF SessionInv, ServerInv, Parsed, Asks
<1>7. got.path = command.path
  BY <1>6 DEF Truth, RequestInv
<1>8. next \in Units /\ <<next>> \in Seq(Units)
  <2>1. pos["server"] + 1 \in 1 .. Len(file)
    BY <1>1, <1>4, <1>5
  <2>2. QED
    BY <1>3, <1>5, <2>1, ElementOfSeq
<1>9. PICK s : s = stream["client"]
  OBVIOUS
<1>10. s \in Seq(Units) /\ Len(s) \in Nat
  BY <1>1, <1>9, LenProperties DEF StreamTypes
<1>11. /\ stream'["server"] = stream["server"]
       /\ Running("client") => stream'["client"] = s \o <<next>>
       /\ status'["server"] = status["server"]
  BY <1>1, <1>4, <1>8, <1>9, SendFacts DEF StatusInv
<1>12. pos'["server"] = pos["server"] + 1 /\ pos'["client"] = pos["client"]
  BY <1>1, <1>4
<1>13. /\ Len(s \o <<next>>) = Len(s) + 1
       /\ s # <<>> => (s \o <<next>>)[1] = s[1]
  <2>1. /\ Len(s \o <<next>>) = Len(s) + Len(<<next>>) /\ Len(<<next>>) = 1
        /\ \A i \in 1 .. Len(s) + Len(<<next>>) :
             (s \o <<next>>)[i] = IF i <= Len(s) THEN s[i] ELSE <<next>>[i - Len(s)]
    BY ONLY <1>8, <1>10, ConcatProperties
  <2>2. s # <<>> => Len(s) >= 1
    BY <1>10, EmptySeq
  <2>3. s # <<>> => 1 \in 1 .. Len(s) + Len(<<next>>) /\ 1 <= Len(s)
    BY <1>10, <2>1, <2>2
  <2>4. s # <<>> => (s \o <<next>>)[1] = s[1]
    BY ONLY <2>1, <2>3
  <2>5. QED
    BY <2>1, <2>4
<1>14. /\ \A c : Asks(c)' <=> Asks(c)
       /\ (Done' <=> Done) /\ (Parsed' <=> Parsed) /\ Download' = Download
  BY <1>4 DEF Done, Asks, Parsed, Download
<1>15. RequestInv'
  BY <1>4, <1>11, <1>12, RequestFrame DEF SessionInv, Truth
<1>16. Expects => s # <<>>
  BY <1>4, <1>9 DEF SessionInv, AnswerInv, At
<1>17. (Expects /\ stream["client"] # <<>> =>
          IF stream["client"][1].success THEN Done ELSE stream["client"][1].data_len = 0)'
  <2>1. SUFFICES ASSUME Expects
                 PROVE  IF stream'["client"][1].success THEN Done' ELSE stream'["client"][1].data_len = 0
    BY <1>4 DEF Expects
  <2>2. stream'["client"][1] = s[1]
    BY <1>11, <1>13, <1>16, <2>1 DEF Expects, Running
  <2>3. QED
    BY <1>9, <1>14, <1>16, <2>1, <2>2 DEF Truth, ResponseInv
<1>18. PICK download : download = Download
  OBVIOUS
<1>19. /\ download \in Seq(Units) /\ Len(download) = 2 + Len(file)
       /\ \A i \in 1 .. Len(file) : download[2 + i] = file[i]
  BY <1>2, <1>5, <1>7, <1>18, DownloadFacts
<1>20. (Asks("GET") /\ At("client", "response") /\ stream["client"] # <<>> =>
          /\ status["server"] # "reset"
          /\ Len(stream["client"]) >= 2
          /\ stream["client"][1].success =>
               /\ got.path = command.path /\ Parsed
               /\ Follows(stream["client"], 0, Download)
               /\ Len(stream["client"]) = 2 + pos["server"])'
  <2>1. SUFFICES ASSUME At("client", "response")
                 PROVE  /\ status'["server"] # "reset"
                        /\ Len(stream'["client"]) >= 2
                        /\ stream'["client"][1].success =>
                             /\ got'.path = command'.path /\ Parsed'
                             /\ Follows(stream["client"], 0, Download)'
                             /\ Len(stream'["client"]) = 2 + pos'["server"]
    BY <1>4 DEF At
  <2>2. Expects /\ Running("client") /\ s # <<>>
    BY <1>16, <2>1 DEF Expects, Running, At
  <2>3. /\ status["server"] # "reset" /\ Len(s) >= 2
        /\ s[1].success => Follows(s, 0, download) /\ Len(s) = 2 + pos["server"]
    BY <1>6, <1>9, <1>18, <2>1, <2>2 DEF Truth, ResponseInv
  <2>4. stream'["client"] = s \o <<next>> /\ stream'["client"][1] = s[1]
    BY <1>11, <1>13, <2>2
  <2>5. Len(stream'["client"]) = Len(s) + 1
    BY <1>13, <2>4
  <2>6. ASSUME s[1].success
        PROVE  Follows(s \o <<next>>, 0, download)
    <3>1. 0 + Len(s) + 1 = 2 + (pos["server"] + 1) /\ pos["server"] + 1 \in 1 .. Len(file)
      BY <1>1, <1>4, <1>5, <2>3, <2>6
    <3>2. next = download[0 + Len(s) + 1]
      BY <1>3, <1>19, <3>1
    <3>3. 0 + Len(s) < Len(download) /\ 0 \in Nat
      BY <1>10, <1>19, <3>1
    <3>4. Follows(s, 0, download)
      BY <2>3, <2>6
    <3>5. QED
      BY ONLY <1>10, <1>19, <3>2, <3>3, <3>4, FollowsNext
  <2>7. s[1].success => Follows(stream["client"], 0, Download)'
    BY <1>14, <1>18, <2>4, <2>6 DEF Follows
  <2>8. s[1].success => Len(stream'["client"]) = 2 + pos'["server"]
    BY <1>1, <1>10, <1>12, <2>3, <2>5
  <2>9. Len(stream'["client"]) >= 2
    BY <1>10, <2>3, <2>5
  <2>10. QED
    BY <1>4, <1>6, <1>7, <1>11, <1>14, <2>3, <2>4, <2>7, <2>8, <2>9
<1>21. (At("client", "download") =>
          /\ got.path = command.path /\ Parsed
          /\ status["server"] # "reset"
          /\ command.path \in DOMAIN files
          /\ left["client"] = Len(files[command.path]) - Len(local)
          /\ LostDown >= 0
          /\ Follows(local, LostDown, files[command.path])
          /\ Follows(stream["client"], LostDown + Len(local), files[command.path]))'
  <2>1. SUFFICES ASSUME At("client", "download")
                 PROVE  (/\ got.path = command.path /\ Parsed
                         /\ status["server"] # "reset"
                         /\ command.path \in DOMAIN files
                         /\ left["client"] = Len(files[command.path]) - Len(local)
                         /\ LostDown >= 0
                         /\ Follows(local, LostDown, files[command.path])
                         /\ Follows(stream["client"], LostDown + Len(local), files[command.path]))'
    BY <1>4 DEF At
  <2>2. /\ status["server"] # "reset" /\ command.path \in DOMAIN files
        /\ left["client"] = Len(file) - Len(local) /\ LostDown >= 0
        /\ Follows(local, LostDown, file) /\ Follows(s, LostDown + Len(local), file)
    BY <1>2, <1>7, <1>9, <2>1 DEF Truth, ResponseInv
  <2>3. Len(local) \in Nat
    BY <2>1, LenProperties DEF SessionInv, ClientInv
  <2>4. stream'["client"] = s \o <<next>>
    BY <1>11, <2>1 DEF Running, At
  <2>5. PICK a : a = LostDown + Len(local)
    OBVIOUS
  <2>6. LostDown = pos["server"] - Len(local) - Len(s)
    BY <1>9 DEF LostDown
  <2>7. a \in Nat /\ a + Len(s) = pos["server"]
    BY <1>1, <1>10, <2>2, <2>3, <2>5, <2>6
  <2>8. Follows(s \o <<next>>, a, file)
    <3>1. Follows(s, a, file) /\ a + Len(s) < Len(file) /\ next = file[a + Len(s) + 1]
      BY <1>3, <1>4, <2>2, <2>5, <2>7
    <3>2. QED
      BY ONLY <1>5, <1>10, <2>7, <3>1, FollowsNext
  <2>9. LostDown' = LostDown
    <3>1. LostDown' = (pos["server"] + 1) - Len(local) - (Len(s) + 1)
      BY <1>4, <1>12, <1>13, <2>4 DEF LostDown
    <3>2. QED
      BY <1>1, <1>10, <2>3, <2>6, <3>1
  <2>10. files'[command'.path] = file
    BY <1>2, <1>4, <1>7
  <2>11. Follows(local, LostDown, files[command.path])'
    BY <1>4, <2>2, <2>9, <2>10 DEF Follows
  <2>12. Follows(stream["client"], LostDown + Len(local), files[command.path])'
    BY <1>4, <2>4, <2>5, <2>8, <2>9, <2>10 DEF Follows
  <2>13. QED
    BY <1>2, <1>4, <1>6, <1>7, <1>11, <1>14, <2>2, <2>9, <2>10, <2>11, <2>12
<1>22. ResponseInv'
  BY <1>17, <1>20, <1>21 DEF ResponseInv
<1>23. OutcomeInv'
  BY <1>4, OutcomeFrame DEF Truth, OutcomeInv
<1>24. QED
  BY <1>15, <1>22, <1>23 DEF Truth

LEMMA SendDoneTruth ==
  ASSUME SessionInv, Truth, SendDone
  PROVE  Truth'
<1> USE TwoEnds
<1>1. pc \in [Ends -> Labels]
  BY SessionTypes
<1>2. /\ pc["server"] = "send" /\ Goto("server", "close")
      /\ UNCHANGED <<command, network, stream, status, local, files, got, pos, left, outcome>>
  BY DEF SendDone, At
<1>3. pc'["server"] = "close" /\ pc'["client"] = pc["client"]
  BY <1>1, <1>2 DEF Goto
<1>4. RequestInv'
  <2>1. ~Silent' /\ ~At("server", "receive")
    BY <1>2, <1>3 DEF Silent, At
  <2>2. QED
    BY <1>2, <2>1, RequestOver DEF Truth, RequestInv
<1>5. ResponseInv'
  BY <1>2, <1>3, ResponseFrame DEF Truth, Expects, At
<1>6. OutcomeInv'
  BY <1>2, <1>3, OutcomeFrame DEF Truth, OutcomeInv
<1>7. QED
  BY <1>4, <1>5, <1>6 DEF Truth

LEMMA LeavesTruth ==
  ASSUME SessionInv, Truth,
         \/ StartFails \/ Exit \/ Close
         \/ \E e \in Ends : BrokenPipe(e) \/ Kill(e)
  PROVE  Truth'
<1>1. CASE StartFails
  BY <1>1, ClientLeavesTruth DEF StartFails, At, Running
<1>2. CASE Exit
  BY <1>2, ClientLeavesTruth DEF Exit, At, Running
<1>3. CASE Close
  BY <1>3, ServerLeavesTruth DEF Close, At, Running
<1>4. ASSUME NEW e \in Ends, BrokenPipe(e) \/ Kill(e)
      PROVE  Truth'
  <2>1. PICK label \in {"broken", "killed"} : Goto(e, label)
    BY <1>4 DEF BrokenPipe, Kill
  <2>2. /\ Running(e) /\ Leave(e)
        /\ UNCHANGED <<command, network, local, files, got, pos, left, outcome>>
    BY <1>4 DEF BrokenPipe, Kill, MoreToUpload, MoreToSend, At, Running
  <2>3. CASE e = "client"
    BY <2>1, <2>2, <2>3, ClientLeavesTruth
  <2>4. CASE e = "server"
    BY <2>1, <2>2, <2>4, ServerLeavesTruth
  <2>5. QED
    BY <2>3, <2>4 DEF Ends
<1>5. QED
  BY <1>1, <1>2, <1>3, <1>4

LEMMA StutterTruth ==
  ASSUME SessionInv, Truth, UNCHANGED vars
  PROVE  Truth'
<1>1. RequestInv'
  BY RequestFrame DEF SessionInv, Truth, vars
<1>2. ResponseInv'
  BY ResponseFrame DEF Truth, Expects, At, vars
<1>3. OutcomeInv'
  BY OutcomeFrame DEF Truth, OutcomeInv, vars
<1>4. QED
  BY <1>1, <1>2, <1>3 DEF Truth

LEMMA InitTruth ==
  ASSUME Init
  PROVE  Truth
<1>1. /\ pc["client"] = "start" /\ pc["server"] = "receive"
      /\ ~Parsed /\ got.command # "WRITE" /\ outcome = "none"
  BY DEF Init, Parsed, NoRequest
<1>2. RequestInv
  BY <1>1 DEF RequestInv, At
<1>3. ResponseInv /\ OutcomeInv
  BY <1>1 DEF ResponseInv, OutcomeInv, Expects, At
<1>4. QED
  BY <1>2, <1>3 DEF Truth

LEMMA NextTruth ==
  ASSUME PlainNames, SessionInv, SessionInv', Truth, network # "split", [Next]_vars
  PROVE  Truth'
<1>1. CASE ClientStep
  BY <1>1, TwoEnds, LeavesTruth, SendRequestTruth, UploadChunkTruth, UploadDoneTruth, ReceiveResponseTruth,
     NoResponseTruth, DownloadChunksTruth, DownloadDoneTruth, StutterTruth
     DEF ClientStep, DownloadNothing
<1>2. CASE ServerStep
  BY <1>2, TwoEnds, LeavesTruth, ReceiveRequestTruth, NothingArrivesTruth, AnswersTruth, OpenTargetTruth,
     StoreChunksTruth, SendChunkTruth, SendDoneTruth, StutterTruth
     DEF ServerStep, StoreNothing
<1>3. CASE \E e \in Ends : Kill(e)
  BY <1>3, LeavesTruth
<1>4. CASE UNCHANGED vars
  BY <1>4, StutterTruth
<1>5. QED
  BY <1>1, <1>2, <1>3, <1>4 DEF Next

(***************************************************************************)
(* With names that hold no comma, and a network that delivers a header in  *)
(* one piece, alone or with what follows it: the bytes of a file are, in   *)
(* this order, lost with the header, stored, or still on their way         *)
(* (thread_manager.c:29, utils.c:198-230, client.c:136).                   *)
(***************************************************************************)
THEOREM TruthInvariance ==
  ASSUME PlainNames
  PROVE  Spec => [](SessionInv /\ TruthInv)
<1>1. Init => SessionInv /\ TruthInv
  BY InitEstablishes, InitTruth DEF TruthInv, Truth
<1>2. SessionInv /\ TruthInv /\ [Next]_vars => (SessionInv /\ TruthInv)'
  <2>1. SUFFICES ASSUME SessionInv, TruthInv, [Next]_vars
                 PROVE  SessionInv' /\ TruthInv'
    OBVIOUS
  <2>2. SessionInv'
    BY <2>1, NextKeeps
  <2>3. network' = network
    BY <2>1 DEF Next, ClientStep, ServerStep, StartFails, SendRequest, UploadChunk, UploadDone,
       ReceiveResponse, NoResponseArrives, DownloadChunks, DownloadNothing, DownloadDone, Exit,
       ReceiveRequest, NothingArrives, Refuse, RefuseWrite, OpenTarget, StoreChunks, StoreNothing,
       StoreDone, AnnounceFile, SendChunk, SendDone, RemoveFile, Close, BrokenPipe, Kill, vars
  <2>4. network # "split" => Truth'
    BY <2>1, <2>2, NextTruth DEF TruthInv, Truth
  <2>5. QED
    BY <2>2, <2>3, <2>4 DEF TruthInv, Truth
<1>3. QED
  BY <1>1, <1>2, PTL DEF Spec

(***************************************************************************)
(* The client tells the truth: whoever is killed and whatever is reset, a  *)
(* WRITE or RM that shows success has taken place at the server, and a GET *)
(* that ends its receive loop has the server's file (client.c:85-97 and    *)
(* 153-165), for files and paths of any length.                            *)
(***************************************************************************)
THEOREM OutcomesAreTruthful ==
  ASSUME PlainNames
  PROVE  Spec => []OutcomeTruthful
<1>1. TruthInv => OutcomeTruthful
  BY DEF TruthInv, OutcomeInv, OutcomeTruthful, Done, Asks
<1>2. QED
  BY <1>1, TruthInvariance, PTL

(***************************************************************************)
(* When each header is received as it was sent, no file changes but the    *)
(* one the request names (thread_manager.c:29, protocol.c:129-130).        *)
(***************************************************************************)
THEOREM FilesAreLeftAlone ==
  ASSUME PlainNames
  PROVE  Spec => OnlyItsPath
<1> DEFINE Others ==
      network = "whole" =>
        \A p \in (DOMAIN files \cup DOMAIN files') \ {command.path} :
          p \in DOMAIN files /\ p \in DOMAIN files' /\ files'[p] = files[p]
<1>1. SessionInv /\ TruthInv /\ [Next]_vars => [Others]_vars
  <2>1. SUFFICES ASSUME SessionInv, TruthInv, Next, network = "whole"
                 PROVE  Others
    BY DEF vars
  <2>2. CASE files' = files
    BY <2>2
  <2>3. CASE files' # files
    <3>1. OpenTarget \/ StoreChunks \/ RemoveFile
      BY <2>1, <2>3 DEF Next, ClientStep, ServerStep, StartFails, SendRequest, UploadChunk, UploadDone,
         ReceiveResponse, NoResponseArrives, DownloadChunks, DownloadNothing, DownloadDone, Exit,
         ReceiveRequest, NothingArrives, Refuse, RefuseWrite, StoreNothing,
         StoreDone, AnnounceFile, SendChunk, SendDone, Close, BrokenPipe, Kill, vars
    <3>2. Parsed
      <4>1. got.command \in {"WRITE", "RM"}
        BY <2>1, <3>1 DEF OpenTarget, StoreChunks, RemoveFile, SessionInv, ServerInv
      <4>2. QED
        BY <4>1 DEF Parsed
    <3>3. got.path = command.path
      BY <2>1, <3>2 DEF TruthInv, RequestInv
    <3>4. \/ DOMAIN files' = DOMAIN files \cup {got.path}
          \/ DOMAIN files' = DOMAIN files \ {got.path}
      BY <3>1 DEF OpenTarget, StoreChunks, RemoveFile, Put
    <3>5. \A p \in DOMAIN files : p # got.path => p \in DOMAIN files' /\ files'[p] = files[p]
      BY <3>1 DEF OpenTarget, StoreChunks, RemoveFile, Put
    <3>6. QED
      BY <3>3, <3>4, <3>5
  <2>4. QED
    BY <2>2, <2>3
<1>2. QED
  BY <1>1, TruthInvariance, PTL DEF Spec, OnlyItsPath
=============================================================================
