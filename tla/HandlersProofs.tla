--------------------------- MODULE HandlersProofs ---------------------------
(***************************************************************************)
(* Proofs about RequestHandlers, for any set of workers, paths and         *)
(* uploads: the invariants of HandlersInvariant are inductive, and imply   *)
(* the safety properties of the handlers.                                  *)
(***************************************************************************)
EXTENDS HandlersInvariant, SequenceTheorems, TLAPS

(***************************************************************************)
(* Writing, removing and appending to an entry of a function from names to *)
(* contents.                                                               *)
(***************************************************************************)
LEMMA StoreFacts ==
  ASSUME NEW S, NEW D, NEW f \in [D -> S], NEW key, NEW value \in S
  PROVE  /\ Store(f, key, value) \in [D \cup {key} -> S]
         /\ DOMAIN Store(f, key, value) = D \cup {key}
         /\ Store(f, key, value)[key] = value
         /\ \A k \in D \ {key} : Store(f, key, value)[k] = f[k]
  BY DEF Store

LEMMA EraseFacts ==
  ASSUME NEW S, NEW D, NEW f \in [D -> S], NEW key
  PROVE  /\ Erase(f, key) \in [D \ {key} -> S]
         /\ DOMAIN Erase(f, key) = D \ {key}
         /\ \A k \in D \ {key} : Erase(f, key)[k] = f[k]
  BY DEF Erase, Restrict

LEMMA ExtendFacts ==
  ASSUME NEW S, NEW D, NEW f \in [D -> Seq(S)], NEW key, NEW chunk \in S
  PROVE  /\ Extend(f, key, chunk) \in [D -> Seq(S)]
         /\ DOMAIN Extend(f, key, chunk) = D
         /\ key \in D => Extend(f, key, chunk)[key] = Append(f[key], chunk)
         /\ \A k \in D \ {key} : Extend(f, key, chunk)[k] = f[k]
  BY DEF Extend

(***************************************************************************)
(* Beginnings of a sequence.                                               *)
(***************************************************************************)
LEMMA PrefixFacts ==
  ASSUME NEW S, NEW s \in Seq(S), NEW n \in Nat, n <= Len(s)
  PROVE  /\ SubSeq(s, 1, n) \in Seq(S)
         /\ SubSeq(s, 1, 0) = <<>>
         /\ SubSeq(s, 1, Len(s)) = s
         /\ n < Len(s) => SubSeq(s, 1, n + 1) = Append(SubSeq(s, 1, n), s[n + 1])
<1>1. SubSeq(s, 1, n) \in Seq(S) /\ SubSeq(s, 1, 0) = <<>> /\ SubSeq(s, 1, Len(s)) = s
  BY SubSeqProperties, SubSeqEmpty, SubSeqFull, ElementOfSeq
<1>2. ASSUME n < Len(s) PROVE SubSeq(s, 1, n + 1) = Append(SubSeq(s, 1, n), s[n + 1])
  BY <1>2, SubSeqProperties
<1>3. QED
  BY <1>1, <1>2

Beginning(s, t) == \E n \in 0 .. Len(t) : s = SubSeq(t, 1, n)

LEMMA TruncatedFacts ==
  ASSUME NEW S, NEW s \in Seq(S), NEW n \in Nat
  PROVE  Truncated(s, n) \in Seq(S) /\ Beginning(Truncated(s, n), s)
<1>1. CASE n < Len(s)
  BY <1>1, PrefixFacts DEF Truncated, Beginning
<1>2. CASE ~(n < Len(s))
  BY <1>2, PrefixFacts DEF Truncated, Beginning
<1>3. QED
  BY <1>1, <1>2

(***************************************************************************)
(* The requests that can arrive are requests.                              *)
(***************************************************************************)
LEMMA UploadFacts ==
  ASSUME NEW u \in Uploads
  PROVE  u[1] \in Seq(Chunks) /\ u[2] \in Nat
<1>1. \A c \in Contents : c \in Seq(Chunks) /\ 0 .. Len(c) \subseteq Nat
  BY HandlersAssumption
<1>2. UNION {0 .. Len(c) : c \in Contents} \subseteq Nat
  BY <1>1
<1>3. u \in (Contents \cup {<<>>}) \X UNION {0 .. Len(c) : c \in Contents}
  BY DEF Uploads
<1>4. u[1] \in Contents \cup {<<>>} /\ u[2] \in UNION {0 .. Len(c) : c \in Contents}
  BY <1>3
<1>5. <<>> \in Seq(Chunks)
  OBVIOUS
<1>6. u[1] \in Seq(Chunks)
  BY <1>1, <1>4, <1>5
<1>7. QED
  BY <1>2, <1>4, <1>6

(***************************************************************************)
(* What the request of a worker that is served consists of.                *)
(***************************************************************************)
LEMMA RequestFacts ==
  ASSUME RequestInv, NEW w \in Workers, HasRequest(w)
  PROVE  /\ PathOf(w) \in Paths
         /\ request[w].command \in {"WRITE", "GET", "RM"}
         /\ Uploading(w) \in Seq(Chunks)
         /\ request[w].sent \in Nat
  BY DEF RequestInv, Request, PathOf, Uploading

LEMMA FirstStepFacts ==
  /\ FirstStep["WRITE"] = "save"
  /\ FirstStep["GET"] = "stat"
  /\ FirstStep["RM"] = "remove"
  BY DEF FirstStep

-----------------------------------------------------------------------------
(***************************************************************************)
(* Type correctness, of the disk and of the rest.                          *)
(***************************************************************************)
DiskTypes ==
  /\ DOMAIN files \subseteq Paths /\ files \in [DOMAIN files -> Seq(Chunks)]
  /\ DOMAIN versions \subseteq Names /\ versions \in [DOMAIN versions -> Seq(Chunks)]
  /\ DOMAIN acked \subseteq Paths /\ acked \in [DOMAIN acked -> Seq(Chunks)]

RunTypes ==
  /\ pc \in [Workers -> Labels]
  /\ request \in [Workers -> Request \cup {NoRequest}]
  /\ Locks!TypeOK
  /\ clock \in Nat
  /\ stamp \in [Workers -> Nat]
  /\ pos \in [Workers -> Nat]
  /\ ok \in [Workers -> BOOLEAN]
  /\ todo \in [Workers -> SUBSET Names]
  /\ seen \in [Workers -> SUBSET Names]
  /\ out \in [Workers -> Seq(Chunks)]
  /\ response \in [Workers -> [success : BOOLEAN, data_len : Nat]]
  /\ crashes \in 0 .. MaxCrashes

StuckTypes == stuck \in SUBSET Workers

LEMMA TypesSplit ==
  /\ TypeOK <=> DiskTypes /\ RunTypes /\ StuckTypes
  /\ TypeOK' <=> DiskTypes' /\ RunTypes' /\ StuckTypes'
  BY DEF TypeOK, DiskTypes, RunTypes, StuckTypes

LEMMA InitTypes == Init => TypeOK
  BY HandlersAssumption
     DEF Init, TypeOK, Locks!Init, Locks!TypeOK, Labels, Names, NoResponse, NoRequest

(***************************************************************************)
(* The time a version is named with.                                       *)
(***************************************************************************)
LEMMA NextTime ==
  ASSUME RunTypes, NEW w \in Workers, SaveCurrentVersion(w)
  PROVE  clock' \in Nat /\ clock' # 0 /\ (ClockAdvances => clock < clock')
<1>1. PICK d \in ClockSteps : clock' = clock + d
  BY DEF SaveCurrentVersion
<1>2. d \in Int /\ clock \in Nat /\ clock' > 0
  BY <1>1, HandlersAssumption DEF SaveCurrentVersion, RunTypes
<1>3. QED
  BY <1>1, <1>2 DEF ClockAdvances

LEMMA AcceptTypes ==
  ASSUME RunTypes, NEW w \in Workers, AcceptAny(w)
  PROVE  RunTypes'
<1>1. PICK r : Accept(w, r) /\ r \in Request
  BY UploadFacts DEF AcceptAny, Request
<1>2. QED
  BY <1>1 DEF Accept, RunTypes, At, Goto, Labels, Locks!TypeOK, locks, listing, answers

(***************************************************************************)
(* The lock table keeps its type, and its exclusion.                       *)
(***************************************************************************)
LEMMA TableTypes ==
  ASSUME Locks!TypeOK, NEW w \in Workers, NEW p \in Paths,
         Locks!AcquireRead(w, p) \/ Locks!AcquireWrite(w, p) \/ Locks!Release(w, p)
  PROVE  Locks!TypeOK'
  BY DEF Locks!TypeOK, Locks!AcquireRead, Locks!AcquireWrite, Locks!Release

LEMMA LockTypes ==
  ASSUME RunTypes, RequestInv, NEW w \in Workers, TakeLock(w)
  PROVE  RunTypes'
<1>1. PathOf(w) \in Paths /\ FirstStep[request[w].command] \in Labels
  BY RequestFacts, FirstStepFacts DEF TakeLock, HasRequest, Labels, At
<1>2. Locks!TypeOK'
  BY <1>1, TableTypes DEF RunTypes, TakeLock
<1>3. QED
  BY <1>1, <1>2 DEF TakeLock, RunTypes, Goto, listing, answers

\* A status is kept or becomes FALSE.
LEMMA StatusType ==
  ASSUME RunTypes, NEW w \in Workers, ok' = ok \/ ok' = [ok EXCEPT ![w] = FALSE]
  PROVE  ok' \in [Workers -> BOOLEAN]
<1>1. CASE ok' = ok
  BY <1>1 DEF RunTypes
<1>2. CASE ok' = [ok EXCEPT ![w] = FALSE]
  BY <1>2 DEF RunTypes
<1>3. QED
  BY <1>1, <1>2

LEMMA WriteTypes ==
  ASSUME DiskTypes, RunTypes, RequestInv, NEW w \in Workers, HandleWrite(w)
  PROVE  RunTypes'
<1> USE DEF RunTypes, At, Goto, Labels, Locks!TypeOK, locks, listing, answers
<1>1. CASE NothingToSave(w)
  BY <1>1 DEF NothingToSave
<1>2. CASE SaveCurrentVersion(w)
  <2>1. clock' \in Nat
    BY <1>2, NextTime
  <2>2. QED
    BY <1>2, <2>1 DEF SaveCurrentVersion
<1>3. CASE CopyChunk(w)
  BY <1>3 DEF CopyChunk
<1>4. CASE CopyDone(w)
  BY <1>4 DEF CopyDone
<1>5. CASE OpenTarget(w)
  BY <1>5 DEF OpenTarget
<1>6. CASE OpenTargetFails(w)
  BY <1>6 DEF OpenTargetFails
<1>7. CASE ReceiveChunk(w)
  <2>1. /\ pos' = [pos EXCEPT ![w] = @ + 1]
        /\ UNCHANGED <<pc, request, locks, clock, stamp, listing, out, response, crashes>>
    BY <1>7 DEF ReceiveChunk
  <2>2. ok' \in [Workers -> BOOLEAN]
    BY <1>7, StatusType DEF ReceiveChunk
  <2>3. pos' \in [Workers -> Nat]
    BY <2>1
  <2>4. QED
    BY <2>1, <2>2, <2>3
<1>8. CASE ReceiveError(w)
  BY <1>8 DEF ReceiveError
<1>9. CASE ReceiveNothing(w)
  BY <1>9 DEF ReceiveNothing, vars, served
<1>10. CASE ReceiveDone(w)
  BY <1>10 DEF ReceiveDone
<1>11. QED
  BY <1>1, <1>2, <1>3, <1>4, <1>5, <1>6, <1>7, <1>8, <1>9, <1>10 DEF HandleWrite

LEMMA GetTypes ==
  ASSUME DiskTypes, RunTypes, SnapshotInv, NEW w \in Workers, HandleGet(w)
  PROVE  RunTypes'
<1> USE DEF RunTypes, At, Goto, Labels, Locks!TypeOK, locks, listing, answers
<1>1. CASE AnnounceSize(w)
  BY <1>1 DEF AnnounceSize, DiskTypes
<1>2. CASE NoSize(w)
  BY <1>2 DEF NoSize
<1>3. CASE OpenSource(w)
  BY <1>3 DEF OpenSource
<1>4. CASE OpenSourceFails(w)
  BY <1>4 DEF OpenSourceFails
<1>5. CASE SendChunk(w)
  <2>1. files[PathOf(w)][pos[w] + 1] \in Chunks
    BY <1>5 DEF SendChunk, SnapshotInv, Announced, DiskTypes
  <2>2. QED
    BY <1>5, <2>1 DEF SendChunk
<1>6. CASE SendDone(w)
  BY <1>6 DEF SendDone
<1>7. QED
  BY <1>1, <1>2, <1>3, <1>4, <1>5, <1>6 DEF HandleGet

LEMMA RemoveTypes ==
  ASSUME DiskTypes, RunTypes, NEW w \in Workers, HandleRemove(w)
  PROVE  RunTypes'
<1> USE DEF RunTypes, At, Goto, Labels, Locks!TypeOK, locks, listing, answers
<1>1. CASE RemoveFile(w)
  BY <1>1 DEF RemoveFile
<1>2. CASE RemoveFileFails(w)
  BY <1>2 DEF RemoveFileFails
<1>3. CASE OpenHistory(w)
  BY <1>3 DEF OpenHistory, Prior, DiskTypes
<1>4. CASE NoHistory(w)
  BY <1>4 DEF NoHistory
<1>5. CASE RemoveVersion(w)
  <2>1. /\ \E v \in todo[w] \cup Prior(w) : seen' = [seen EXCEPT ![w] = @ \cup {v}]
        /\ UNCHANGED <<pc, request, locks, clock, stamp, pos, todo, out, response, crashes>>
    BY <1>5 DEF RemoveVersion
  <2>2. todo[w] \cup Prior(w) \subseteq Names
    BY DEF Prior, DiskTypes
  <2>3. ok' \in [Workers -> BOOLEAN]
    BY <1>5, StatusType DEF RemoveVersion
  <2>4. seen' \in [Workers -> SUBSET Names]
    BY <2>1, <2>2
  <2>5. QED
    BY <2>1, <2>3, <2>4
<1>6. CASE RemoveDone(w)
  BY <1>6 DEF RemoveDone
<1>7. QED
  BY <1>1, <1>2, <1>3, <1>4, <1>5, <1>6 DEF HandleRemove

LEMMA EndTypes ==
  ASSUME RunTypes, RequestInv, NEW w \in Workers, Reply(w) \/ Unlock(w)
  PROVE  RunTypes'
<1> USE DEF RunTypes, At, Goto, Labels, locks, listing, answers
<1>1. CASE Reply(w)
  BY <1>1 DEF Reply, Locks!TypeOK
<1>2. CASE Unlock(w)
  <2>1. PathOf(w) \in Paths
    BY <1>2, RequestFacts DEF Unlock, HasRequest, Inside
  <2>2. Locks!TypeOK'
    BY <1>2, <2>1, TableTypes DEF Unlock
  <2>3. QED
    BY <1>2, <2>2 DEF Unlock, NoResponse
<1>3. QED
  BY <1>1, <1>2

LEMMA DeathTypes ==
  ASSUME RunTypes, ServerDies, crashes' \in 0 .. MaxCrashes
  PROVE  RunTypes'
  BY DEF RunTypes, ServerDies, Labels, Locks!TypeOK, NoResponse, NoRequest

(***************************************************************************)
(* The disk keeps its type.                                                *)
(***************************************************************************)
LEMMA SaveDiskTypes ==
  ASSUME DiskTypes, RunTypes, RequestInv, CopyInv, NEW w \in Workers,
         SaveCurrentVersion(w) \/ CopyChunk(w)
  PROVE  DiskTypes'
<1>1. CASE SaveCurrentVersion(w)
  <2>1. PathOf(w) \in Paths /\ <<PathOf(w), clock'>> \in Names
    BY <1>1, NextTime DEF SaveCurrentVersion, DiskTypes, RunTypes, Names
  <2>2. versions' = Store(versions, <<PathOf(w), clock'>>, <<>>) /\ files' = files /\ acked' = acked
    BY <1>1 DEF SaveCurrentVersion, answers
  <2>3. versions' \in [DOMAIN versions \cup {<<PathOf(w), clock'>>} -> Seq(Chunks)]
    BY <2>2, StoreFacts, EmptySeq DEF DiskTypes
  <2>4. QED
    BY <2>1, <2>2, <2>3 DEF DiskTypes
<1>2. CASE CopyChunk(w)
  <2>1. files[PathOf(w)][pos[w] + 1] \in Chunks
    BY <1>2 DEF CopyChunk, Copying, CopyInv, DiskTypes, RunTypes
  <2>2. files' = files /\ acked' = acked
    BY <1>2 DEF CopyChunk, answers
  <2>3. Extend(versions, Version(w), files[PathOf(w)][pos[w] + 1])
          \in [DOMAIN versions -> Seq(Chunks)]
    <3> DEFINE chunk == files[PathOf(w)][pos[w] + 1]
    <3>1. chunk \in Chunks
      BY <2>1
    <3> HIDE DEF chunk
    <3>2. Extend(versions, Version(w), chunk) \in [DOMAIN versions -> Seq(Chunks)]
      BY <3>1, ExtendFacts DEF DiskTypes
    <3>3. QED
      BY <3>2 DEF chunk
  <2>4. versions' \in [DOMAIN versions -> Seq(Chunks)]
    BY <1>2, <2>3 DEF CopyChunk, DiskTypes
  <2>5. QED
    BY <2>2, <2>4 DEF DiskTypes
<1>3. QED
  BY <1>1, <1>2

LEMMA ReceiveDiskTypes ==
  ASSUME DiskTypes, RunTypes, RequestInv, NEW w \in Workers,
         OpenTarget(w) \/ ReceiveChunk(w) \/ ReceiveDone(w)
  PROVE  DiskTypes'
<1>1. HasRequest(w) /\ PathOf(w) \in Paths /\ Uploading(w) \in Seq(Chunks)
  BY RequestFacts DEF OpenTarget, ReceiveChunk, ReceiveDone, At, HasRequest, Inside, WriteLabels
<1>2. versions' = versions /\ acked' = acked
  BY DEF OpenTarget, ReceiveChunk, ReceiveDone, answers
<1>3. DOMAIN files' \subseteq Paths /\ files' \in [DOMAIN files' -> Seq(Chunks)]
  <2>1. CASE OpenTarget(w)
    <3>1. files' \in [DOMAIN files \cup {PathOf(w)} -> Seq(Chunks)]
      BY <2>1, StoreFacts, EmptySeq DEF OpenTarget, DiskTypes
    <3>2. QED
      BY <1>1, <3>1 DEF DiskTypes
  <2>2. CASE ReceiveChunk(w)
    <3>1. Uploading(w)[pos[w] + 1] \in Chunks
      BY <1>1, <2>2 DEF ReceiveChunk, Remaining, RunTypes
    <3> DEFINE chunk == Uploading(w)[pos[w] + 1]
    <3>2. Extend(files, PathOf(w), chunk) \in [DOMAIN files -> Seq(Chunks)]
      <4>1. chunk \in Chunks
        BY <3>1
      <4> HIDE DEF chunk
      <4>2. QED
        BY <4>1, ExtendFacts DEF DiskTypes
    <3>3. files' \in [DOMAIN files -> Seq(Chunks)]
      BY <2>2, <3>2 DEF ReceiveChunk, DiskTypes
    <3>4. QED
      BY <3>3 DEF DiskTypes
  <2>3. CASE ReceiveDone(w)
    <3>1. CASE files' = files
      BY <3>1 DEF DiskTypes
    <3>2. CASE files' = [files EXCEPT ![PathOf(w)] = SubSeq(@, 1, Len(@) - 1)] /\ files[PathOf(w)] # <<>>
      <4>1. PathOf(w) \in DOMAIN files =>
              SubSeq(files[PathOf(w)], 1, Len(files[PathOf(w)]) - 1) \in Seq(Chunks)
        BY <3>2, PrefixFacts, EmptySeq DEF DiskTypes
      <4>2. QED
        BY <3>2, <4>1 DEF DiskTypes
    <3>3. QED
      BY <2>3, <3>1, <3>2 DEF ReceiveDone
  <2>4. QED
    BY <2>1, <2>2, <2>3
<1>4. QED
  BY <1>2, <1>3 DEF DiskTypes

LEMMA RemoveDiskTypes ==
  ASSUME DiskTypes, NEW w \in Workers, RemoveFile(w) \/ RemoveVersion(w)
  PROVE  DiskTypes'
<1>1. CASE RemoveFile(w)
  <2>1. /\ files' \in [DOMAIN files \ {PathOf(w)} -> Seq(Chunks)]
        /\ acked' \in [DOMAIN acked \ {PathOf(w)} -> Seq(Chunks)]
    BY <1>1, EraseFacts DEF RemoveFile, DiskTypes
  <2>2. versions' = versions
    BY <1>1 DEF RemoveFile
  <2>3. QED
    BY <2>1, <2>2 DEF DiskTypes
<1>2. CASE RemoveVersion(w)
  <2>1. \A v : Erase(versions, v) \in [DOMAIN versions \ {v} -> Seq(Chunks)]
    BY EraseFacts DEF DiskTypes
  <2>2. files' = files /\ acked' = acked
    BY <1>2 DEF RemoveVersion, answers
  <2>3. versions' = versions \/ \E v : versions' = Erase(versions, v)
    BY <1>2 DEF RemoveVersion
  <2>4. QED
    BY <2>1, <2>2, <2>3 DEF DiskTypes
<1>3. QED
  BY <1>1, <1>2

LEMMA ReplyDiskTypes ==
  ASSUME DiskTypes, RequestInv, NEW w \in Workers, Reply(w)
  PROVE  DiskTypes'
<1>1. PathOf(w) \in Paths /\ Uploading(w) \in Seq(Chunks)
  BY RequestFacts DEF Reply, At, HasRequest, Inside
<1>2. files' = files /\ versions' = versions
  BY DEF Reply, disk
<1>3. acked' = acked \/ acked' \in [DOMAIN acked \cup {PathOf(w)} -> Seq(Chunks)]
  BY <1>1, StoreFacts DEF Reply, DiskTypes
<1>4. QED
  BY <1>1, <1>2, <1>3 DEF DiskTypes

(***************************************************************************)
(* A server that dies leaves the names on the disk, and of each file and   *)
(* version a beginning.                                                    *)
(***************************************************************************)
LEMMA DeathDisk ==
  ASSUME DiskTypes, ServerDies
  PROVE  /\ acked' = acked /\ clock' = clock
         /\ files' \in [DOMAIN files -> Seq(Chunks)]
         /\ \A p \in DOMAIN files : Beginning(files'[p], files[p])
         /\ \A p \in DOMAIN files :
              (\A w \in Workers : ~FileWriter(w, p)) => files'[p] = files[p]
         /\ versions' \in [DOMAIN versions -> Seq(Chunks)]
         /\ \A v \in DOMAIN versions : Beginning(versions'[v], versions[v])
         /\ \A v \in DOMAIN versions :
              (\A w \in Workers : ~VersionWriter(w, v)) => versions'[v] = versions[v]
<1>1. PICK flushed \in [OpenStreams -> Lengths] :
        LET Left(contents, owner) ==
              IF owner = {} THEN contents
              ELSE Truncated(contents, flushed[CHOOSE w \in owner : TRUE])
        IN /\ files' = [p \in DOMAIN files |->
                          Left(files[p], {w \in OpenStreams : FileWriter(w, p)})]
           /\ versions' = [v \in DOMAIN versions |->
                          Left(versions[v], {w \in OpenStreams : VersionWriter(w, v)})]
  BY DEF ServerDies
<1> DEFINE Left(contents, owner) ==
             IF owner = {} THEN contents
             ELSE Truncated(contents, flushed[CHOOSE w \in owner : TRUE])
<1>2. Lengths \subseteq Nat
  <2>1. \A c \in Contents : 0 .. Len(c) \subseteq Nat
    BY HandlersAssumption
  <2>2. QED
    BY <2>1 DEF Lengths
<1>3. ASSUME NEW contents \in Seq(Chunks), NEW owner \in SUBSET OpenStreams
      PROVE  Left(contents, owner) \in Seq(Chunks) /\ Beginning(Left(contents, owner), contents)
  <2>1. CASE owner = {}
    BY <2>1, PrefixFacts DEF Beginning
  <2>2. CASE owner # {}
    <3>1. (CHOOSE w \in owner : TRUE) \in OpenStreams
      BY <2>2
    <3>2. flushed[CHOOSE w \in owner : TRUE] \in Nat
      BY <1>2, <3>1
    <3>3. QED
      BY <2>2, <3>2, TruncatedFacts
  <2>3. QED
    BY <2>1, <2>2
<1>4. ASSUME NEW contents PROVE Left(contents, {}) = contents
  OBVIOUS
<1>5. /\ files' = [p \in DOMAIN files |->
                    Left(files[p], {w \in OpenStreams : FileWriter(w, p)})]
      /\ versions' = [v \in DOMAIN versions |->
                    Left(versions[v], {w \in OpenStreams : VersionWriter(w, v)})]
  BY <1>1
<1> HIDE DEF Left
<1>6. /\ files' \in [DOMAIN files -> Seq(Chunks)]
      /\ versions' \in [DOMAIN versions -> Seq(Chunks)]
      /\ \A p \in DOMAIN files : Beginning(files'[p], files[p])
      /\ \A v \in DOMAIN versions : Beginning(versions'[v], versions[v])
  BY <1>3, <1>5 DEF DiskTypes
<1>7. ASSUME NEW p \in DOMAIN files, \A w \in Workers : ~FileWriter(w, p)
      PROVE  files'[p] = files[p]
  <2>1. {w \in OpenStreams : FileWriter(w, p)} = {}
    BY <1>7 DEF OpenStreams
  <2>2. QED
    BY <1>4, <1>5, <2>1
<1>8. ASSUME NEW v \in DOMAIN versions, \A w \in Workers : ~VersionWriter(w, v)
      PROVE  versions'[v] = versions[v]
  <2>1. {w \in OpenStreams : VersionWriter(w, v)} = {}
    BY <1>8 DEF OpenStreams
  <2>2. QED
    BY <1>4, <1>5, <2>1
<1>9. acked' = acked /\ clock' = clock
  BY DEF ServerDies
<1>10. QED
  BY <1>6, <1>7, <1>8, <1>9

-----------------------------------------------------------------------------
(***************************************************************************)
(* Frames.  A step inside a handler moves one worker from one place inside *)
(* to another; the others' variables, the requests and the locks stay.     *)
(***************************************************************************)
HandlerStep(w) == HandleWrite(w) \/ HandleGet(w) \/ HandleRemove(w) \/ Reply(w)

SameWorker(x) ==
  /\ pc'[x] = pc[x] /\ stamp'[x] = stamp[x] /\ pos'[x] = pos[x] /\ ok'[x] = ok[x]
  /\ todo'[x] = todo[x] /\ seen'[x] = seen[x]
  /\ out'[x] = out[x] /\ response'[x] = response[x]

KindKept(w) ==
  /\ pc'[w] \in WriteLabels => pc[w] \in WriteLabels
  /\ pc'[w] \in GetLabels => pc[w] \in GetLabels
  /\ pc'[w] \in RemoveLabels => pc[w] \in RemoveLabels
  /\ pc'[w] \notin {"idle", "lock", "save", "stat", "remove"}
  /\ pc'[w] = "list" => pc[w] = "remove" /\ seen'[w] = seen[w]

LEMMA WriteFrame ==
  ASSUME RunTypes, NEW w \in Workers, HandleWrite(w)
  PROVE  /\ Inside(w) /\ Inside(w)' /\ KindKept(w)
         /\ UNCHANGED <<request, readers, writers>>
         /\ \A x \in Workers \ {w} : SameWorker(x)
<1> USE DEF RunTypes, At, Goto, Inside, WriteLabels, GetLabels, RemoveLabels, KindKept,
   SameWorker, locks, listing, answers
<1>1. CASE NothingToSave(w)
  BY <1>1 DEF NothingToSave
<1>2. CASE SaveCurrentVersion(w)
  BY <1>2 DEF SaveCurrentVersion
<1>3. CASE CopyChunk(w)
  BY <1>3 DEF CopyChunk, Copying
<1>4. CASE CopyDone(w)
  BY <1>4 DEF CopyDone
<1>5. CASE OpenTarget(w)
  BY <1>5 DEF OpenTarget
<1>6. CASE OpenTargetFails(w)
  BY <1>6 DEF OpenTargetFails
<1>7. CASE ReceiveChunk(w)
  BY <1>7 DEF ReceiveChunk
<1>8. CASE ReceiveError(w)
  BY <1>8 DEF ReceiveError
<1>9. CASE ReceiveNothing(w)
  BY <1>9 DEF ReceiveNothing, Starved, vars, served
<1>10. CASE ReceiveDone(w)
  BY <1>10 DEF ReceiveDone
<1>11. QED
  BY <1>1, <1>2, <1>3, <1>4, <1>5, <1>6, <1>7, <1>8, <1>9, <1>10 DEF HandleWrite

LEMMA GetFrame ==
  ASSUME RunTypes, NEW w \in Workers, HandleGet(w)
  PROVE  /\ Inside(w) /\ Inside(w)' /\ KindKept(w)
         /\ UNCHANGED <<request, readers, writers, files, versions, acked, clock>>
         /\ \A x \in Workers \ {w} : SameWorker(x)
<1> USE DEF RunTypes, At, Goto, Inside, WriteLabels, GetLabels, RemoveLabels, KindKept,
   SameWorker, locks, disk, listing, answers
<1>1. CASE AnnounceSize(w)
  BY <1>1 DEF AnnounceSize
<1>2. CASE NoSize(w)
  BY <1>2 DEF NoSize
<1>3. CASE OpenSource(w)
  BY <1>3 DEF OpenSource
<1>4. CASE OpenSourceFails(w)
  BY <1>4 DEF OpenSourceFails
<1>5. CASE SendChunk(w)
  BY <1>5 DEF SendChunk
<1>6. CASE SendDone(w)
  BY <1>6 DEF SendDone
<1>7. QED
  BY <1>1, <1>2, <1>3, <1>4, <1>5, <1>6 DEF HandleGet

LEMMA RemoveFrame ==
  ASSUME RunTypes, NEW w \in Workers, HandleRemove(w) \/ Reply(w)
  PROVE  /\ Inside(w) /\ Inside(w)' /\ KindKept(w)
         /\ UNCHANGED <<request, readers, writers, clock>>
         /\ \A x \in Workers \ {w} : SameWorker(x)
<1> USE DEF RunTypes, At, Goto, Inside, WriteLabels, GetLabels, RemoveLabels, KindKept,
   SameWorker, locks, disk, listing, answers
<1>1. CASE RemoveFile(w)
  BY <1>1 DEF RemoveFile
<1>2. CASE RemoveFileFails(w)
  BY <1>2 DEF RemoveFileFails
<1>3. CASE OpenHistory(w)
  BY <1>3 DEF OpenHistory
<1>4. CASE NoHistory(w)
  BY <1>4 DEF NoHistory
<1>5. CASE RemoveVersion(w)
  BY <1>5 DEF RemoveVersion
<1>6. CASE RemoveDone(w)
  BY <1>6 DEF RemoveDone
<1>7. CASE Reply(w)
  BY <1>7 DEF Reply
<1>8. QED
  BY <1>1, <1>2, <1>3, <1>4, <1>5, <1>6, <1>7 DEF HandleRemove

LEMMA HandlerFrame ==
  ASSUME RunTypes, NEW w \in Workers, HandlerStep(w)
  PROVE  /\ Inside(w) /\ Inside(w)' /\ KindKept(w)
         /\ UNCHANGED <<request, readers, writers>>
         /\ \A x \in Workers \ {w} : SameWorker(x)
  BY WriteFrame, GetFrame, RemoveFrame DEF HandlerStep

(***************************************************************************)
(* What one step of w leaves of another path on the disk: the file as it   *)
(* is, and of the versions at most some, unless w is removing versions and *)
(* its basename begins theirs.                                             *)
(***************************************************************************)
SameFile(p) ==
  /\ p \in DOMAIN files' <=> p \in DOMAIN files
  /\ p \in DOMAIN files => files'[p] = files[p]

SameVersion(v) ==
  /\ v \in DOMAIN versions' <=> v \in DOMAIN versions
  /\ v \in DOMAIN versions => versions'[v] = versions[v]

FewerVersions(v) ==
  v \in DOMAIN versions' => v \in DOMAIN versions /\ versions'[v] = versions[v]

LEMMA FileFrame ==
  ASSUME DiskTypes, NEW w \in Workers, HandlerStep(w), NEW p, p # PathOf(w)
  PROVE  /\ SameFile(p)
         /\ p \in DOMAIN acked' <=> p \in DOMAIN acked
         /\ p \in DOMAIN acked => acked'[p] = acked[p]
<1> USE DEF SameFile, disk, answers
<1>1. CASE HandleWrite(w)
  <2>1. acked' = acked
    BY <1>1 DEF HandleWrite, NothingToSave, SaveCurrentVersion, CopyChunk, CopyDone,
       OpenTarget, OpenTargetFails, ReceiveChunk, ReceiveError, ReceiveNothing,
       ReceiveDone, vars, served
  <2>2. \/ files' = files
        \/ files' = Store(files, PathOf(w), <<>>)
        \/ \E chunk : files' = Extend(files, PathOf(w), chunk)
        \/ \E contents : files' = [files EXCEPT ![PathOf(w)] = contents]
    BY <1>1 DEF HandleWrite, NothingToSave, SaveCurrentVersion, CopyChunk, CopyDone,
       OpenTarget, OpenTargetFails, ReceiveChunk, ReceiveError, ReceiveNothing,
       ReceiveDone, vars, served
  <2>3. QED
    BY <2>1, <2>2 DEF Store, Extend, DiskTypes
<1>2. CASE HandleGet(w)
  BY <1>2 DEF HandleGet, AnnounceSize, NoSize, OpenSource, OpenSourceFails, SendChunk,
     SendDone
<1>3. CASE HandleRemove(w)
  <2>1. \/ files' = files /\ acked' = acked
        \/ files' = Erase(files, PathOf(w)) /\ acked' = Erase(acked, PathOf(w))
    BY <1>3 DEF HandleRemove, RemoveFile, RemoveFileFails, OpenHistory, NoHistory,
       RemoveVersion, RemoveDone
  <2>2. QED
    BY <2>1 DEF Erase, Restrict
<1>4. CASE Reply(w)
  <2>1. files' = files
    BY <1>4 DEF Reply
  <2>2. acked' = acked \/ acked' = Store(acked, PathOf(w), Uploading(w))
    BY <1>4 DEF Reply
  <2>3. QED
    BY <2>1, <2>2 DEF Store
<1>5. QED
  BY <1>1, <1>2, <1>3, <1>4 DEF HandlerStep

LEMMA VersionFrame ==
  ASSUME DiskTypes, PurgeInv, NEW w \in Workers, HandlerStep(w),
         NEW v, v[1] # PathOf(w)
  PROVE  /\ FewerVersions(v)
         /\ <<v[1], PathOf(w)>> \notin StartsWith => SameVersion(v)
<1> USE DEF SameVersion, FewerVersions, disk, answers
<1>1. CASE HandleWrite(w)
  <2>1. \/ versions' = versions
        \/ versions' = Store(versions, <<PathOf(w), clock'>>, <<>>)
        \/ \E chunk : versions' = Extend(versions, Version(w), chunk)
    BY <1>1 DEF HandleWrite, NothingToSave, SaveCurrentVersion, CopyChunk, CopyDone,
       OpenTarget, OpenTargetFails, ReceiveChunk, ReceiveError, ReceiveNothing,
       ReceiveDone, vars, served
  <2>2. v # <<PathOf(w), clock'>> /\ v # Version(w)
    BY DEF Version
  <2>3. QED
    BY <2>1, <2>2 DEF Store, Extend, DiskTypes
<1>2. CASE HandleGet(w) \/ Reply(w)
  BY <1>2 DEF HandleGet, AnnounceSize, NoSize, OpenSource, OpenSourceFails, SendChunk,
     SendDone, Reply
<1>3. CASE HandleRemove(w)
  <2>1. CASE RemoveVersion(w)
    <3>1. \/ versions' = versions
          \/ \E u \in todo[w] \cup Prior(w) : versions' = Erase(versions, u)
      BY <2>1 DEF RemoveVersion
    <3>2. \A u \in todo[w] \cup Prior(w) : <<u[1], PathOf(w)>> \in StartsWith
      BY <2>1 DEF RemoveVersion, Prior, PurgeInv
    <3>3. QED
      BY <3>1, <3>2 DEF Erase, Restrict
  <2>2. CASE ~RemoveVersion(w)
    BY <1>3, <2>2 DEF HandleRemove, RemoveFile, RemoveFileFails, OpenHistory, NoHistory,
       RemoveDone
  <2>3. QED
    BY <2>1, <2>2
<1>4. QED
  BY <1>1, <1>2, <1>3 DEF HandlerStep

(***************************************************************************)
(* Two workers inside handlers of one path are both reading it, so that a  *)
(* step of one leaves the other's file as it is, and adds no versions.     *)
(***************************************************************************)
LEMMA Exclusive ==
  ASSUME Locks!Exclusion, RequestInv, HeldInv, NEW w \in Workers, NEW x \in Workers,
         w # x, Inside(w), Inside(x), PathOf(w) = PathOf(x)
  PROVE  HasCommand(w, "GET") /\ HasCommand(x, "GET")
<1>1. PathOf(w) \in Paths
  BY RequestFacts DEF HasRequest
<1>2. QED
  BY <1>1 DEF Locks!Exclusion, HeldInv

LEMMA GetIsHandleGet ==
  ASSUME RequestInv, NEW w \in Workers, HandlerStep(w), HasCommand(w, "GET")
  PROVE  HandleGet(w) \/ Reply(w)
<1>1. pc[w] \notin WriteLabels \cup RemoveLabels
  BY DEF RequestInv, HasCommand
<1>2. ~HandleWrite(w)
  BY <1>1 DEF WriteLabels, At, HandleWrite, NothingToSave, SaveCurrentVersion,
     CopyChunk, Copying, CopyDone, OpenTarget, OpenTargetFails, ReceiveChunk,
     ReceiveError, ReceiveNothing, Starved, ReceiveDone
<1>3. ~HandleRemove(w)
  BY <1>1 DEF RemoveLabels, At, HandleRemove, RemoveFile, RemoveFileFails, OpenHistory,
     NoHistory, RemoveVersion, RemoveDone
<1>4. QED
  BY <1>2, <1>3 DEF HandlerStep

LEMMA GetChangesNothing ==
  ASSUME RunTypes, RequestInv, NEW w \in Workers, HandlerStep(w), HasCommand(w, "GET")
  PROVE  UNCHANGED <<files, versions, acked>>
<1>1. CASE HandleGet(w)
  BY <1>1, GetFrame
<1>2. CASE Reply(w)
  BY <1>2 DEF Reply, HasCommand, disk
<1>3. QED
  BY <1>1, <1>2, GetIsHandleGet

LEMMA OthersUndisturbed ==
  ASSUME HandlersInv, NEW w \in Workers, HandlerStep(w),
         NEW x \in Workers \ {w}, Inside(x)
  PROVE  /\ SameFile(PathOf(x))
         /\ \A v : v[1] = PathOf(x) => FewerVersions(v)
         /\ DistinctBasenames => \A v : v[1] = PathOf(x) => SameVersion(v)
<1> USE DEF HandlersInv
<1>1. DiskTypes /\ RunTypes
  BY TypesSplit
<1>2. Inside(w)
  BY <1>1, HandlerFrame
<1>3. PathOf(w) \in Paths /\ PathOf(x) \in Paths
  BY <1>2, RequestFacts DEF HasRequest
<1>4. CASE PathOf(w) = PathOf(x)
  <2>1. HasCommand(w, "GET")
    BY <1>2, <1>4, Exclusive
  <2>2. QED
    BY <1>1, <2>1, GetChangesNothing DEF SameFile, SameVersion, FewerVersions
<1>5. CASE PathOf(w) # PathOf(x)
  <2>1. SameFile(PathOf(x))
    BY <1>1, <1>5, FileFrame
  <2>2. \A v : v[1] = PathOf(x) =>
          /\ FewerVersions(v)
          /\ <<v[1], PathOf(w)>> \notin StartsWith => SameVersion(v)
    BY <1>1, <1>5, VersionFrame
  <2>3. DistinctBasenames => <<PathOf(x), PathOf(w)>> \notin StartsWith
    BY <1>3, <1>5 DEF DistinctBasenames
  <2>4. QED
    BY <2>1, <2>2, <2>3
<1>6. QED
  BY <1>4, <1>5

(***************************************************************************)
(* The steps of Next: one worker outside or inside its handler, the death  *)
(* of the server, or nothing.                                              *)
(***************************************************************************)
OutsideStep(w) == AcceptAny(w) \/ TakeLock(w) \/ Unlock(w)

LEMMA NextCases ==
  ASSUME [Next]_vars, RunTypes
  PROVE  \/ \E w \in Workers : OutsideStep(w) \/ HandlerStep(w)
         \/ ServerDies /\ Busy /\ crashes' \in 0 .. MaxCrashes
         \/ UNCHANGED served
<1>1. CASE Crash
  BY <1>1, HandlersAssumption DEF Crash, RunTypes
<1>2. ASSUME NEW w \in Workers, BrokenPipe(w) \/ VersionUnwritable(w)
      PROVE  ServerDies /\ Busy /\ crashes' \in 0 .. MaxCrashes
  BY <1>2 DEF BrokenPipe, VersionUnwritable, Busy, At, RunTypes
<1>3. CASE Idle \/ UNCHANGED vars \/ \E w \in Workers : GetStuck(w) \/ StayStuck(w)
  BY <1>3 DEF Idle, GetStuck, StayStuck, vars
<1>4. ASSUME NEW w \in Workers, AcceptAny(w) \/ WorkerStep(w)
      PROVE  OutsideStep(w) \/ HandlerStep(w)
  BY <1>4 DEF WorkerStep, OutsideStep, HandlerStep
<1>5. QED
  BY <1>1, <1>2, <1>3, <1>4 DEF Next

LEMMA OutsideFrame ==
  ASSUME RunTypes, NEW w \in Workers, OutsideStep(w)
  PROVE  /\ UNCHANGED <<files, versions, acked, clock, crashes>>
         /\ \A x \in Workers \ {w} : SameWorker(x) /\ request'[x] = request[x]
<1> USE DEF RunTypes, At, Goto, SameWorker, disk, listing, answers
<1>1. CASE AcceptAny(w)
  BY <1>1 DEF AcceptAny, Accept
<1>2. CASE TakeLock(w)
  BY <1>2 DEF TakeLock
<1>3. CASE Unlock(w)
  BY <1>3 DEF Unlock
<1>4. QED
  BY <1>1, <1>2, <1>3 DEF OutsideStep

LEMMA OthersFrame ==
  ASSUME HandlersInv, NEW w \in Workers, OutsideStep(w) \/ HandlerStep(w),
         NEW x \in Workers \ {w}
  PROVE  /\ SameWorker(x) /\ request'[x] = request[x]
         /\ Inside(x) => /\ SameFile(PathOf(x))
                         /\ \A v : v[1] = PathOf(x) => FewerVersions(v)
                         /\ DistinctBasenames =>
                              \A v : v[1] = PathOf(x) => SameVersion(v)
<1>1. RunTypes
  BY TypesSplit DEF HandlersInv
<1>2. CASE OutsideStep(w)
  BY <1>1, <1>2, OutsideFrame DEF SameFile, SameVersion, FewerVersions
<1>3. CASE HandlerStep(w)
  <2>1. SameWorker(x) /\ request' = request
    BY <1>1, <1>3, HandlerFrame
  <2>2. QED
    BY <1>3, <2>1, OthersUndisturbed
<1>4. QED
  BY <1>2, <1>3

(***************************************************************************)
(* Where a step can take its worker.                                       *)
(***************************************************************************)
LEMMA OutsidePlaces ==
  ASSUME RunTypes, RequestInv, NEW w \in Workers, OutsideStep(w)
  PROVE  /\ pc[w] \in {"idle", "lock", "unlock"}
         /\ pc'[w] \in {"lock", "save", "stat", "remove", "closed"}
<1>1. CASE TakeLock(w)
  BY <1>1, RequestFacts, FirstStepFacts DEF TakeLock, RunTypes, Goto, HasRequest, At
<1>2. CASE AcceptAny(w) \/ Unlock(w)
  BY <1>2 DEF AcceptAny, Accept, Unlock, RunTypes, Goto, At
<1>3. QED
  BY <1>1, <1>2 DEF OutsideStep

LEMMA Arrivals ==
  ASSUME RunTypes, NEW w \in Workers, HandlerStep(w)
  PROVE  /\ pc'[w] = "copy" => SaveCurrentVersion(w) \/ CopyChunk(w)
         /\ pc'[w] = "open" => NothingToSave(w) \/ CopyDone(w)
         /\ pc'[w] = "receive" =>
              OpenTarget(w) \/ ReceiveChunk(w) \/ ReceiveNothing(w)
         /\ pc'[w] = "list" => RemoveFile(w)
         /\ pc'[w] = "purge" => OpenHistory(w) \/ RemoveVersion(w)
         /\ pc'[w] = "reply" =>
              \/ OpenTargetFails(w) \/ ReceiveError(w) \/ ReceiveDone(w)
              \/ NoSize(w) \/ RemoveFileFails(w) \/ NoHistory(w) \/ RemoveDone(w)
         /\ pc'[w] = "unlock" => OpenSourceFails(w) \/ SendDone(w) \/ Reply(w)
<1> USE DEF RunTypes, At, Goto
<1>1. CASE HandleWrite(w)
  BY <1>1 DEF HandleWrite, NothingToSave, SaveCurrentVersion, CopyChunk, Copying,
     CopyDone, OpenTarget, OpenTargetFails, ReceiveChunk, ReceiveError,
     ReceiveNothing, Starved, ReceiveDone, vars, served
<1>2. CASE HandleGet(w)
  BY <1>2 DEF HandleGet, AnnounceSize, NoSize, OpenSource, OpenSourceFails, SendChunk,
     SendDone
<1>3. CASE HandleRemove(w)
  BY <1>3 DEF HandleRemove, RemoveFile, RemoveFileFails, OpenHistory, NoHistory,
     RemoveVersion, RemoveDone
<1>4. CASE Reply(w)
  BY <1>4 DEF Reply
<1>5. QED
  BY <1>1, <1>2, <1>3, <1>4 DEF HandlerStep

(***************************************************************************)
(* After the death of the server every thread is gone, or was not there.   *)
(***************************************************************************)
LEMMA DeathFrame ==
  ASSUME RunTypes, ServerDies
  PROVE  \A w \in Workers :
           /\ pc'[w] \in {"idle", "closed", "dead"}
           /\ stamp'[w] = 0 /\ pos'[w] = 0 /\ ok'[w] /\ seen'[w] = {}
           /\ out'[w] = <<>> /\ response'[w] = NoResponse
  BY DEF RunTypes, ServerDies

-----------------------------------------------------------------------------
(***************************************************************************)
(* The conjuncts of HandlersInv, one lemma each.                           *)
(***************************************************************************)
LEMMA StuckStep ==
  ASSUME StuckTypes, [Next]_vars
  PROVE  StuckTypes'
<1> USE DEF StuckTypes
<1>1. ASSUME NEW w \in Workers, HandleWrite(w) PROVE stuck' = stuck
  BY <1>1 DEF HandleWrite, NothingToSave, SaveCurrentVersion, CopyChunk, CopyDone, OpenTarget,
     OpenTargetFails, ReceiveChunk, ReceiveError, ReceiveNothing, ReceiveDone, vars
<1>2. ASSUME NEW w \in Workers, HandleGet(w) PROVE stuck' = stuck
  BY <1>2 DEF HandleGet, AnnounceSize, NoSize, OpenSource, OpenSourceFails, SendChunk, SendDone
<1>3. ASSUME NEW w \in Workers, HandleRemove(w) PROVE stuck' = stuck
  BY <1>3 DEF HandleRemove, RemoveFile, RemoveFileFails, OpenHistory, NoHistory,
     RemoveVersion, RemoveDone
<1>4. ASSUME NEW w \in Workers, AcceptAny(w) \/ WorkerStep(w) PROVE stuck' = stuck
  BY <1>1, <1>2, <1>3, <1>4 DEF WorkerStep, AcceptAny, Accept, TakeLock, Reply, Unlock
<1>5. ASSUME NEW w \in Workers, GetStuck(w) \/ StayStuck(w) PROVE StuckTypes'
  BY <1>5 DEF GetStuck, StayStuck, vars
<1>6. ASSUME ServerDies PROVE StuckTypes'
  BY <1>6 DEF ServerDies
<1>7. ASSUME UNCHANGED vars PROVE StuckTypes'
  BY <1>7 DEF vars
<1>8. QED
  BY <1>4, <1>5, <1>6, <1>7 DEF Next, Crash, Idle, BrokenPipe, VersionUnwritable

LEMMA TypesStep ==
  ASSUME HandlersInv, [Next]_vars
  PROVE  TypeOK'
<1> USE DEF HandlersInv
<1>1. DiskTypes /\ RunTypes /\ StuckTypes'
  BY TypesSplit, StuckStep
<1>2. CASE \E w \in Workers : OutsideStep(w)
  <2>1. PICK w \in Workers : OutsideStep(w)
    BY <1>2
  <2>2. RunTypes'
    BY <1>1, <2>1, AcceptTypes, LockTypes, EndTypes DEF OutsideStep
  <2>3. DiskTypes'
    BY <1>1, <2>1, OutsideFrame DEF DiskTypes
  <2>4. QED
    BY <1>1, <2>2, <2>3, TypesSplit
<1>3. CASE \E w \in Workers : HandlerStep(w)
  <2>1. PICK w \in Workers : HandlerStep(w)
    BY <1>3
  <2>2. RunTypes'
    BY <1>1, <2>1, WriteTypes, GetTypes, RemoveTypes, EndTypes DEF HandlerStep
  <2>3. CASE UNCHANGED <<files, versions, acked>>
    BY <1>1, <2>2, <2>3, TypesSplit DEF DiskTypes
  <2>4. CASE ~UNCHANGED <<files, versions, acked>>
    <3>1. \/ SaveCurrentVersion(w) \/ CopyChunk(w) \/ OpenTarget(w) \/ ReceiveChunk(w)
          \/ ReceiveDone(w) \/ RemoveFile(w) \/ RemoveVersion(w) \/ Reply(w)
      <4> USE DEF disk, answers, vars, served
      <4>1. CASE HandleWrite(w)
        BY <2>4, <4>1 DEF HandleWrite, NothingToSave, CopyDone, OpenTargetFails,
           ReceiveError, ReceiveNothing
      <4>2. CASE HandleGet(w)
        BY <1>1, <2>4, <4>2, GetFrame
      <4>3. CASE HandleRemove(w)
        BY <2>4, <4>3 DEF HandleRemove, RemoveFileFails, OpenHistory, NoHistory,
           RemoveDone
      <4>4. QED
        BY <2>1, <4>1, <4>2, <4>3 DEF HandlerStep
    <3>2. DiskTypes'
      BY <1>1, <3>1, SaveDiskTypes, ReceiveDiskTypes, RemoveDiskTypes, ReplyDiskTypes
    <3>3. QED
      BY <1>1, <2>2, <3>2, TypesSplit
  <2>5. QED
    BY <2>2, <2>3, <2>4, TypesSplit
<1>4. CASE ServerDies /\ crashes' \in 0 .. MaxCrashes
  <2>1. RunTypes'
    BY <1>1, <1>4, DeathTypes
  <2>2. DiskTypes'
    BY <1>1, <1>4, DeathDisk DEF DiskTypes
  <2>3. QED
    BY <1>1, <2>1, <2>2, TypesSplit
<1>5. CASE UNCHANGED served
  <2> USE DEF vars, served, locks, disk, listing, answers
  <2>1. RunTypes'
    BY <1>1, <1>5 DEF RunTypes, Locks!TypeOK
  <2>2. DiskTypes'
    BY <1>1, <1>5 DEF DiskTypes
  <2>3. QED
    BY <1>1, <2>1, <2>2, TypesSplit
<1>6. QED
  BY <1>1, <1>2, <1>3, <1>4, <1>5, NextCases

LEMMA RequestsStep ==
  ASSUME HandlersInv, [Next]_vars
  PROVE  RequestInv'
<1> USE DEF HandlersInv
<1>1. RunTypes
  BY TypesSplit
<1> USE DEF HasRequest, HasCommand, Uploading, Inside, WriteLabels, GetLabels,
   RemoveLabels, At
<1>2. ASSUME NEW w \in Workers, OutsideStep(w) PROVE RequestInv'
  <2>1. \A x \in Workers \ {w} : pc'[x] = pc[x] /\ request'[x] = request[x]
    BY <1>1, <1>2, OutsideFrame DEF SameWorker
  <2>2. CASE AcceptAny(w)
    <3>1. PICK r : /\ Accept(w, r) /\ r \in Request
                   /\ r.command = "WRITE" => r.content \in Contents
      BY <2>2, UploadFacts DEF AcceptAny, Request
    <3>2. pc'[w] = "lock" /\ request'[w] = r
      BY <1>1, <3>1 DEF Accept, RunTypes, Goto
    <3>3. QED
      BY <2>1, <3>1, <3>2 DEF RequestInv
  <2>3. CASE TakeLock(w)
    <3>1. request[w].command \in {"WRITE", "GET", "RM"}
      BY <2>3, RequestFacts DEF TakeLock
    <3>2. request' = request /\ pc'[w] = FirstStep[request[w].command]
      BY <1>1, <2>3 DEF TakeLock, RunTypes, Goto
    <3>3. QED
      BY <2>1, <2>3, <3>1, <3>2, FirstStepFacts DEF RequestInv, TakeLock
  <2>4. CASE Unlock(w)
    <3>1. pc'[w] = "closed"
      BY <1>1, <2>4 DEF Unlock, RunTypes, Goto
    <3>2. QED
      BY <2>1, <3>1 DEF RequestInv
  <2>5. QED
    BY <1>2, <2>2, <2>3, <2>4 DEF OutsideStep
<1>3. ASSUME NEW w \in Workers, HandlerStep(w) PROVE RequestInv'
  <2>1. request' = request /\ \A x \in Workers \ {w} : pc'[x] = pc[x]
    BY <1>1, <1>3, HandlerFrame DEF SameWorker
  <2>2. KindKept(w) /\ Inside(w)
    BY <1>1, <1>3, HandlerFrame
  <2>3. QED
    BY <2>1, <2>2 DEF RequestInv, KindKept
<1>4. CASE ServerDies
  BY <1>1, <1>4, DeathFrame DEF RequestInv
<1>5. CASE UNCHANGED served
  BY <1>5 DEF RequestInv, vars, served
<1>6. QED
  BY <1>1, <1>2, <1>3, <1>4, <1>5, NextCases

LEMMA LocksStep ==
  ASSUME HandlersInv, [Next]_vars
  PROVE  Locks!Exclusion' /\ HeldInv'
<1> USE DEF HandlersInv
<1>1. RunTypes
  BY TypesSplit
<1>2. ASSUME NEW w \in Workers, OutsideStep(w) PROVE Locks!Exclusion' /\ HeldInv'
  <2>1. \A x \in Workers \ {w} :
          pc'[x] = pc[x] /\ request'[x] = request[x] /\ (Inside(x)' <=> Inside(x))
    BY <1>1, <1>2, OutsideFrame DEF SameWorker, Inside
  <2>2. CASE AcceptAny(w)
    <3>1. pc'[w] = "lock" /\ UNCHANGED <<readers, writers>>
      BY <1>1, <2>2 DEF AcceptAny, Accept, RunTypes, Goto, locks
    <3>2. ~Inside(w)'
      BY <3>1 DEF Inside, WriteLabels, GetLabels, RemoveLabels
    <3>3. QED
      BY <2>1, <3>1, <3>2 DEF HeldInv, HasCommand, PathOf, Locks!Exclusion
  <2>3. CASE TakeLock(w)
    <3>1. PathOf(w) \in Paths /\ request' = request
      BY <2>3, RequestFacts DEF TakeLock, HasRequest
    <3>2. CASE HasCommand(w, "GET")
      <4>1. Locks!AcquireRead(w, PathOf(w))
        BY <2>3, <3>2 DEF TakeLock, HasCommand
      <4>2. Locks!Exclusion'
        BY <1>1, <3>1, <4>1 DEF RunTypes, Locks!TypeOK, Locks!AcquireRead, Locks!Exclusion
      <4>3. w \in readers'[PathOf(w)] /\ writers' = writers
            /\ \A p \in Paths : readers[p] \subseteq readers'[p]
        BY <1>1, <3>1, <4>1 DEF RunTypes, Locks!TypeOK, Locks!AcquireRead
      <4>4. HeldInv'
        BY <2>1, <3>1, <3>2, <4>3, RequestFacts DEF HeldInv, HasCommand, PathOf, HasRequest
      <4>5. QED
        BY <4>2, <4>4
    <3>3. CASE ~HasCommand(w, "GET")
      <4>1. Locks!AcquireWrite(w, PathOf(w))
        BY <2>3, <3>3 DEF TakeLock, HasCommand
      <4>2. Locks!Exclusion'
        BY <1>1, <3>1, <4>1 DEF RunTypes, Locks!TypeOK, Locks!AcquireWrite, Locks!Exclusion
      <4>3. w \in writers'[PathOf(w)] /\ readers' = readers
            /\ \A p \in Paths : writers[p] \subseteq writers'[p]
        BY <1>1, <3>1, <4>1 DEF RunTypes, Locks!TypeOK, Locks!AcquireWrite
      <4>4. HeldInv'
        BY <2>1, <3>1, <3>3, <4>3, RequestFacts DEF HeldInv, HasCommand, PathOf, HasRequest
      <4>5. QED
        BY <4>2, <4>4
    <3>4. QED
      BY <3>2, <3>3
  <2>4. CASE Unlock(w)
    <3>1. PathOf(w) \in Paths
      BY <2>4, RequestFacts DEF Unlock, HasRequest, Inside, At
    <3>2. Locks!Release(w, PathOf(w)) /\ pc'[w] = "closed"
      BY <1>1, <2>4 DEF Unlock, RunTypes, Goto
    <3>3. Locks!Exclusion'
      BY <1>1, <3>1, <3>2 DEF RunTypes, Locks!TypeOK, Locks!Release, Locks!Exclusion
    <3>4. \A p \in Paths : readers[p] \ {w} \subseteq readers'[p]
                           /\ writers[p] \ {w} \subseteq writers'[p]
      BY <1>1, <3>1, <3>2 DEF RunTypes, Locks!TypeOK, Locks!Release
    <3>5. ~Inside(w)'
      BY <3>2 DEF Inside, WriteLabels, GetLabels, RemoveLabels
    <3>6. HeldInv'
      BY <2>1, <3>4, <3>5, RequestFacts DEF HeldInv, HasCommand, PathOf, HasRequest
    <3>7. QED
      BY <3>3, <3>6
  <2>5. QED
    BY <1>2, <2>2, <2>3, <2>4 DEF OutsideStep
<1>3. ASSUME NEW w \in Workers, HandlerStep(w) PROVE Locks!Exclusion' /\ HeldInv'
  <2>1. /\ UNCHANGED <<request, readers, writers>>
        /\ Inside(w) /\ \A x \in Workers \ {w} : Inside(x)' <=> Inside(x)
    BY <1>1, <1>3, HandlerFrame DEF SameWorker, Inside
  <2>2. QED
    BY <2>1 DEF HeldInv, HasCommand, PathOf, Locks!Exclusion
<1>4. CASE ServerDies
  <2>1. \A w \in Workers : ~Inside(w)'
    BY <1>1, <1>4, DeathFrame DEF Inside, WriteLabels, GetLabels, RemoveLabels
  <2>2. Locks!Exclusion'
    BY <1>4 DEF ServerDies, Locks!Exclusion
  <2>3. QED
    BY <2>1, <2>2 DEF HeldInv
<1>5. CASE UNCHANGED served
  BY <1>5 DEF HeldInv, vars, served, locks, Locks!Exclusion, Inside, HasCommand, PathOf
<1>6. QED
  BY <1>1, <1>2, <1>3, <1>4, <1>5, NextCases

LEMMA FreshStep ==
  ASSUME HandlersInv, [Next]_vars
  PROVE  FreshInv'
<1> USE DEF HandlersInv
<1>1. RunTypes
  BY TypesSplit
<1>2. ASSUME NEW w \in Workers, OutsideStep(w) PROVE FreshInv'
  <2>1. \A x \in Workers \ {w} : SameWorker(x)
    BY <1>1, <1>2, OutsideFrame
  <2>2. CASE AcceptAny(w)
    BY <1>1, <2>1, <2>2
       DEF AcceptAny, Accept, RunTypes, Goto, At, FreshInv, SameWorker, listing, answers
  <2>3. CASE TakeLock(w)
    <3>1. UNCHANGED <<stamp, pos, ok, out, response, seen>> /\ pc[w] = "lock"
      BY <2>3 DEF TakeLock, At, listing, answers
    <3>2. QED
      BY <2>1, <3>1 DEF FreshInv, SameWorker
  <2>4. CASE Unlock(w)
    <3>1. pc'[w] = "closed"
      BY <1>1, <2>4 DEF Unlock, RunTypes, Goto
    <3>2. QED
      BY <2>1, <3>1 DEF FreshInv, SameWorker
  <2>5. QED
    BY <1>2, <2>2, <2>3, <2>4 DEF OutsideStep
<1>3. ASSUME NEW w \in Workers, HandlerStep(w) PROVE FreshInv'
  <2>1. \A x \in Workers \ {w} : SameWorker(x)
    BY <1>1, <1>3, HandlerFrame
  <2>2. KindKept(w)
    BY <1>1, <1>3, HandlerFrame
  <2>3. QED
    BY <2>1, <2>2 DEF FreshInv, SameWorker, KindKept
<1>4. CASE ServerDies
  BY <1>1, <1>4, DeathFrame DEF FreshInv
<1>5. CASE UNCHANGED served
  BY <1>5 DEF FreshInv, vars, served, listing, answers
<1>6. QED
  BY <1>1, <1>2, <1>3, <1>4, <1>5, NextCases

(***************************************************************************)
(* Only saveCurrentVersion adds a version, and it takes a new stamp.       *)
(***************************************************************************)
LEMMA VersionNames ==
  ASSUME DiskTypes, RunTypes, NEW w \in Workers, HandlerStep(w)
  PROVE  \/ /\ SaveCurrentVersion(w)
            /\ clock' \in Nat /\ clock' # 0 /\ (ClockAdvances => clock <= clock')
            /\ stamp' = [stamp EXCEPT ![w] = clock']
            /\ DOMAIN versions' = DOMAIN versions \cup {<<PathOf(w), clock'>>}
         \/ /\ clock' = clock /\ stamp' = stamp
            /\ DOMAIN versions' \subseteq DOMAIN versions
<1> USE DEF disk, listing, answers
<1>1. CASE SaveCurrentVersion(w)
  <2>1. clock' \in Nat /\ clock' # 0 /\ (ClockAdvances => clock < clock') /\ clock \in Nat
    BY <1>1, NextTime DEF RunTypes
  <2>2. ClockAdvances => clock <= clock'
    BY <2>1
  <2>3. stamp' = [stamp EXCEPT ![w] = clock']
        /\ versions' = Store(versions, <<PathOf(w), clock'>>, <<>>)
    BY <1>1 DEF SaveCurrentVersion
  <2>4. DOMAIN versions' = DOMAIN versions \cup {<<PathOf(w), clock'>>}
    BY <2>3 DEF Store
  <2>5. QED
    BY <1>1, <2>1, <2>2, <2>3, <2>4
<1>2. CASE HandleWrite(w) /\ ~SaveCurrentVersion(w)
  <2>1. clock' = clock /\ stamp' = stamp
    BY <1>2 DEF HandleWrite, NothingToSave, CopyChunk, CopyDone, OpenTarget,
       OpenTargetFails, ReceiveChunk, ReceiveError, ReceiveNothing, ReceiveDone, vars, served
  <2>2. versions' = versions \/ \E chunk : versions' = Extend(versions, Version(w), chunk)
    BY <1>2 DEF HandleWrite, NothingToSave, CopyChunk, CopyDone, OpenTarget,
       OpenTargetFails, ReceiveChunk, ReceiveError, ReceiveNothing, ReceiveDone, vars, served
  <2>3. QED
    BY <2>1, <2>2 DEF Extend, DiskTypes
<1>3. CASE HandleGet(w)
  BY <1>3 DEF HandleGet, AnnounceSize, NoSize, OpenSource, OpenSourceFails, SendChunk,
     SendDone
<1>4. CASE HandleRemove(w) \/ Reply(w)
  <2>1. clock' = clock /\ stamp' = stamp
    BY <1>4 DEF HandleRemove, RemoveFile, RemoveFileFails, OpenHistory, NoHistory,
       RemoveVersion, RemoveDone, Reply
  <2>2. versions' = versions \/ \E v : versions' = Erase(versions, v)
    BY <1>4 DEF HandleRemove, RemoveFile, RemoveFileFails, OpenHistory, NoHistory,
       RemoveVersion, RemoveDone, Reply
  <2>3. QED
    BY <2>1, <2>2 DEF Erase, Restrict
<1>5. QED
  BY <1>1, <1>2, <1>3, <1>4 DEF HandlerStep

LEMMA StampsStep ==
  ASSUME HandlersInv, [Next]_vars
  PROVE  StampInv'
<1> USE DEF HandlersInv
<1>1. DiskTypes /\ RunTypes
  BY TypesSplit
<1>2. ASSUME NEW w \in Workers, OutsideStep(w) PROVE StampInv'
  <2>1. versions' = versions /\ clock' = clock /\ \A x \in Workers \ {w} : stamp'[x] = stamp[x]
    BY <1>1, <1>2, OutsideFrame DEF SameWorker
  <2>2. stamp'[w] = stamp[w] \/ stamp'[w] = 0
    BY <1>1, <1>2 DEF OutsideStep, AcceptAny, Accept, TakeLock, Unlock, RunTypes
  <2>3. 0 <= clock /\ (ClockAdvances => stamp[w] <= clock)
    BY <1>1 DEF StampInv, RunTypes
  <2>4. ClockAdvances => stamp'[w] <= clock
    BY <2>2, <2>3
  <2>5. QED
    BY <2>1, <2>4 DEF StampInv, ClockAdvances
<1>3. ASSUME NEW w \in Workers, HandlerStep(w) PROVE StampInv'
  <2>1. CASE /\ clock' \in Nat /\ clock' # 0 /\ (ClockAdvances => clock <= clock')
             /\ stamp' = [stamp EXCEPT ![w] = clock']
             /\ DOMAIN versions' = DOMAIN versions \cup {<<PathOf(w), clock'>>}
    <3>1. \A v \in DOMAIN versions : v[2] \in Nat
      BY <1>1 DEF DiskTypes, Names
    <3>2. \A v \in DOMAIN versions' : 0 < v[2]
      BY <2>1, <3>1 DEF StampInv
    <3>3. ASSUME ClockAdvances
          PROVE  /\ \A v \in DOMAIN versions' : v[2] <= clock'
                 /\ \A x \in Workers : stamp'[x] <= clock'
      <4>1. clock \in Nat /\ clock' \in Nat /\ clock <= clock'
        BY <1>1, <2>1, <3>3 DEF RunTypes
      <4>2. \A v \in DOMAIN versions : v[2] <= clock
        BY <3>3 DEF StampInv
      <4>3. \A x \in Workers : stamp[x] \in Nat /\ stamp[x] <= clock
        BY <1>1, <3>3 DEF StampInv, RunTypes
      <4>4. \A v \in DOMAIN versions' : v[2] <= clock'
        BY <2>1, <3>1, <4>1, <4>2
      <4>5. \A x \in Workers : stamp'[x] = stamp[x] \/ stamp'[x] = clock'
        BY <1>1, <2>1 DEF RunTypes
      <4>6. QED
        BY <4>1, <4>3, <4>4, <4>5
    <3>4. QED
      BY <3>2, <3>3 DEF StampInv, ClockAdvances
  <2>2. CASE clock' = clock /\ stamp' = stamp /\ DOMAIN versions' \subseteq DOMAIN versions
    BY <2>2 DEF StampInv, ClockAdvances
  <2>3. QED
    BY <1>1, <1>3, <2>1, <2>2, VersionNames
<1>4. CASE ServerDies
  <2>1. DOMAIN versions' = DOMAIN versions /\ clock' = clock
    BY <1>1, <1>4, DeathDisk
  <2>2. \A w \in Workers : stamp'[w] = 0
    BY <1>1, <1>4, DeathFrame
  <2>3. QED
    BY <1>1, <2>1, <2>2 DEF StampInv, ClockAdvances, RunTypes
<1>5. CASE UNCHANGED served
  BY <1>5 DEF StampInv, ClockAdvances, vars, served, disk
<1>6. QED
  BY <1>1, <1>2, <1>3, <1>4, <1>5, NextCases

LEMMA CopiesStep ==
  ASSUME HandlersInv, [Next]_vars
  PROVE  CopyInv'
<1> USE DEF HandlersInv
<1>1. DiskTypes /\ RunTypes
  BY TypesSplit
<1>2. ASSUME NEW w \in Workers, OutsideStep(w) \/ HandlerStep(w),
             NEW x \in Workers \ {w}, At(x, "copy")'
      PROVE  /\ stamp'[x] # 0
             /\ PathOf(x)' \in DOMAIN files'
             /\ pos'[x] <= Len(files'[PathOf(x)'])
  <2>1. SameWorker(x) /\ request'[x] = request[x]
    BY <1>2, OthersFrame
  <2>2. At(x, "copy") /\ Inside(x)
    BY <1>2, <2>1 DEF SameWorker, At, Inside, WriteLabels
  <2>3. SameFile(PathOf(x))
    BY <1>2, <2>2, OthersFrame
  <2>4. PathOf(x)' = PathOf(x)
    BY <2>1 DEF PathOf
  <2>5. QED
    BY <2>1, <2>2, <2>3, <2>4 DEF CopyInv, SameWorker, SameFile
<1>3. ASSUME NEW w \in Workers, OutsideStep(w) PROVE ~At(w, "copy")'
  BY <1>1, <1>3, OutsidePlaces DEF At
<1>4. ASSUME NEW w \in Workers, HandlerStep(w), At(w, "copy")'
      PROVE  /\ stamp'[w] # 0
             /\ PathOf(w)' \in DOMAIN files'
             /\ pos'[w] <= Len(files'[PathOf(w)'])
  <2>1. SaveCurrentVersion(w) \/ CopyChunk(w)
    BY <1>1, <1>4, Arrivals DEF At
  <2>2. PathOf(w)' = PathOf(w) /\ files' = files
    BY <2>1 DEF SaveCurrentVersion, CopyChunk, PathOf
  <2>3. CASE SaveCurrentVersion(w)
    <3>1. stamp'[w] # 0 /\ pos'[w] = 0 /\ PathOf(w) \in DOMAIN files
      BY <1>1, <2>3 DEF SaveCurrentVersion, RunTypes
    <3>2. Len(files[PathOf(w)]) \in Nat
      BY <1>1, <3>1 DEF DiskTypes
    <3>3. QED
      BY <2>2, <3>1, <3>2
  <2>4. CASE CopyChunk(w)
    <3>1. At(w, "copy") /\ pos[w] < Len(files[PathOf(w)])
          /\ pos'[w] = pos[w] + 1 /\ stamp' = stamp
      BY <1>1, <2>4 DEF CopyChunk, Copying, RunTypes
    <3>2. PathOf(w) \in DOMAIN files /\ stamp[w] # 0
      BY <3>1 DEF CopyInv
    <3>3. Len(files[PathOf(w)]) \in Nat /\ pos[w] \in Nat
      BY <1>1, <3>2 DEF DiskTypes, RunTypes
    <3>4. QED
      BY <2>2, <3>1, <3>2, <3>3
  <2>5. QED
    BY <2>1, <2>3, <2>4
<1>5. ASSUME ServerDies PROVE CopyInv'
  BY <1>1, <1>5, DeathFrame DEF CopyInv, At
<1>6. ASSUME UNCHANGED served PROVE CopyInv'
  BY <1>6 DEF CopyInv, vars, served, disk, At, PathOf
<1>7. QED
  <2>1. ASSUME NEW w \in Workers, OutsideStep(w) \/ HandlerStep(w) PROVE CopyInv'
    BY <1>2, <1>3, <1>4, <2>1 DEF CopyInv
  <2>2. QED
    BY <1>1, <1>5, <1>6, <2>1, NextCases

(***************************************************************************)
(* The steps of a GET.                                                     *)
(***************************************************************************)
LEMMA GetCases ==
  ASSUME RunTypes, RequestInv, NEW w \in Workers, HandlerStep(w), HasCommand(w, "GET")
  PROVE  \/ AnnounceSize(w) \/ NoSize(w) \/ OpenSource(w) \/ OpenSourceFails(w)
         \/ SendChunk(w) \/ SendDone(w) \/ Reply(w)
  BY GetIsHandleGet DEF HandleGet

LEMMA SnapshotsStep ==
  ASSUME HandlersInv, [Next]_vars
  PROVE  SnapshotInv'
<1> DEFINE Snapshot(x) ==
      /\ At(x, "source") => Announced(x) /\ pos[x] = 0 /\ out[x] = <<>>
      /\ At(x, "send") =>
           /\ Announced(x)
           /\ pos[x] <= Len(files[PathOf(x)])
           /\ out[x] = SubSeq(files[PathOf(x)], 1, pos[x])
      /\ HasCommand(x, "GET") /\ At(x, "reply") => ~ok[x]
      /\ HasCommand(x, "GET") /\ At(x, "unlock") /\ response[x].success =>
           Announced(x) /\ Sent(x)
<1> USE DEF HandlersInv
<1>1. DiskTypes /\ RunTypes
  BY TypesSplit
<1>2. RequestInv'
  BY RequestsStep
<1>3. ASSUME NEW w \in Workers, OutsideStep(w) \/ HandlerStep(w),
             NEW x \in Workers \ {w}
      PROVE  Snapshot(x)'
  <2>1. SameWorker(x) /\ request'[x] = request[x] /\ PathOf(x)' = PathOf(x)
    BY <1>3, OthersFrame DEF PathOf
  <2>2. CASE Inside(x)
    <3>1. SameFile(PathOf(x))
      BY <1>3, <2>2, OthersFrame
    <3>2. Announced(x) => Announced(x)' /\ files'[PathOf(x)] = files[PathOf(x)]
      BY <2>1, <3>1 DEF Announced, SameWorker, SameFile
    <3>3. Announced(x) /\ Sent(x) => Sent(x)'
      BY <2>1, <3>2 DEF Sent, SameWorker
    <3>4. Snapshot(x)
      BY DEF SnapshotInv
    <3>5. QED
      BY <2>1, <3>2, <3>3, <3>4 DEF SameWorker, At, HasCommand
  <2>3. CASE ~Inside(x)
    BY <2>1, <2>3 DEF SameWorker, At, Inside, GetLabels
  <2>4. QED
    BY <2>2, <2>3
<1>4. ASSUME NEW w \in Workers, OutsideStep(w) PROVE Snapshot(w)'
  BY <1>1, <1>4, OutsidePlaces DEF At
<1>5. ASSUME NEW w \in Workers, HandlerStep(w) PROVE Snapshot(w)'
  <2>1. request' = request /\ PathOf(w)' = PathOf(w) /\ HasCommand(w, "GET")' = HasCommand(w, "GET")
    BY <1>1, <1>5, HandlerFrame DEF PathOf, HasCommand
  <2>2. CASE ~HasCommand(w, "GET")
    BY <1>2, <2>1, <2>2 DEF RequestInv, At, GetLabels
  <2>3. CASE HasCommand(w, "GET")
    <3>1. files' = files
      BY <1>1, <1>5, <2>3, GetChangesNothing
    <3> USE DEF RunTypes, At, Goto
    <3>2. CASE AnnounceSize(w)
      <4>1. pc'[w] = "source" /\ PathOf(w) \in DOMAIN files
            /\ response'[w].data_len = Len(files[PathOf(w)])
            /\ pos[w] = 0 /\ out[w] = <<>> /\ pos' = pos /\ out' = out
        BY <1>1, <3>2 DEF AnnounceSize, FreshInv, disk
      <4>2. QED
        BY <2>1, <3>1, <4>1 DEF Announced
    <3>3. CASE NoSize(w)
      BY <1>1, <3>3 DEF NoSize
    <3>4. CASE OpenSource(w)
      <4>1. pc'[w] = "send" /\ UNCHANGED <<response, pos, out>> /\ pc[w] = "source"
        BY <1>1, <3>4 DEF OpenSource, answers
      <4>2. Announced(w) /\ pos[w] = 0 /\ out[w] = <<>>
        BY <4>1 DEF SnapshotInv
      <4>3. 0 <= Len(files[PathOf(w)]) /\ SubSeq(files[PathOf(w)], 1, 0) = <<>>
        BY <1>1, <4>2, PrefixFacts DEF Announced, DiskTypes
      <4>4. QED
        BY <2>1, <3>1, <4>1, <4>2, <4>3 DEF Announced
    <3>5. CASE OpenSourceFails(w)
      <4>1. /\ pc'[w] = "unlock" /\ UNCHANGED <<response, pos, out>> /\ pc[w] = "source"
            /\ DiskFaults
        BY <1>1, <3>5 DEF OpenSourceFails, answers
      <4>2. Announced(w) /\ pos[w] = 0 /\ out[w] = <<>>
        BY <4>1 DEF SnapshotInv
      <4>3. QED
        BY <2>1, <3>1, <4>1, <4>2 DEF Announced, Sent
    <3>6. CASE SendChunk(w)
      <4>1. /\ pc'[w] = "send" /\ pc[w] = "send" /\ response' = response
            /\ pos[w] < Len(files[PathOf(w)]) /\ pos'[w] = pos[w] + 1
            /\ out'[w] = Append(out[w], files[PathOf(w)][pos[w] + 1])
        BY <1>1, <3>6 DEF SendChunk
      <4>2. Announced(w) /\ out[w] = SubSeq(files[PathOf(w)], 1, pos[w])
        BY <4>1 DEF SnapshotInv
      <4>3. files[PathOf(w)] \in Seq(Chunks) /\ pos[w] \in Nat
        BY <1>1, <4>2 DEF Announced, DiskTypes
      <4>4. out'[w] = SubSeq(files[PathOf(w)], 1, pos[w] + 1)
        BY <4>1, <4>2, <4>3, PrefixFacts
      <4>5. pos[w] + 1 <= Len(files[PathOf(w)])
        BY <4>1, <4>3
      <4>6. QED
        BY <2>1, <3>1, <4>1, <4>2, <4>4, <4>5 DEF Announced
    <3>7. CASE SendDone(w)
      <4>1. /\ pc'[w] = "unlock" /\ pc[w] = "send" /\ UNCHANGED <<response, pos, out>>
            /\ pos[w] = Len(files[PathOf(w)])
        BY <1>1, <3>7 DEF SendDone, answers
      <4>2. Announced(w) /\ out[w] = SubSeq(files[PathOf(w)], 1, pos[w])
        BY <4>1 DEF SnapshotInv
      <4>3. out[w] = files[PathOf(w)]
        BY <1>1, <4>1, <4>2, PrefixFacts DEF Announced, DiskTypes
      <4>4. QED
        BY <2>1, <3>1, <4>1, <4>2, <4>3 DEF Announced, Sent
    <3>8. CASE Reply(w)
      <4>1. pc'[w] = "unlock" /\ response'[w].success = ok[w] /\ pc[w] = "reply"
        BY <1>1, <3>8 DEF Reply
      <4>2. QED
        BY <2>3, <4>1 DEF SnapshotInv
    <3>9. QED
      BY <1>1, <1>5, <2>3, <3>2, <3>3, <3>4, <3>5, <3>6, <3>7, <3>8, GetCases
  <2>4. QED
    BY <2>2, <2>3
<1>6. ASSUME ServerDies, NEW x \in Workers PROVE Snapshot(x)'
  BY <1>1, <1>6, DeathFrame DEF At
<1>7. ASSUME UNCHANGED served PROVE SnapshotInv'
  BY <1>7 DEF SnapshotInv, vars, served, disk, answers, At, PathOf, HasCommand, Announced, Sent
<1>8. QED
  <2>1. (\A x \in Workers : Snapshot(x)') => SnapshotInv'
    BY DEF SnapshotInv
  <2> HIDE DEF Snapshot
  <2>2. QED
    BY <1>1, <1>3, <1>4, <1>5, <1>6, <1>7, <2>1, NextCases

LEMMA PurgesStep ==
  ASSUME HandlersInv, [Next]_vars
  PROVE  PurgeInv'
<1> DEFINE Purge(x) ==
      /\ pc[x] \in {"list", "purge"} => PathOf(x) \notin DOMAIN files
      /\ At(x, "list") => ok[x]
      /\ At(x, "purge") =>
           /\ VersionsOf(PathOf(x)) \subseteq todo[x]
           /\ \A v \in todo[x] : <<v[1], PathOf(x)>> \in StartsWith
      /\ At(x, "purge") /\ ok[x] => VersionsOf(PathOf(x)) \cap seen[x] = {}
<1> USE DEF HandlersInv
<1>1. DiskTypes /\ RunTypes
  BY TypesSplit
<1>2. ASSUME NEW w \in Workers, OutsideStep(w) \/ HandlerStep(w),
             NEW x \in Workers \ {w}
      PROVE  Purge(x)'
  <2>1. SameWorker(x) /\ request'[x] = request[x] /\ PathOf(x)' = PathOf(x)
    BY <1>2, OthersFrame DEF PathOf
  <2>2. CASE Inside(x)
    <3>1. SameFile(PathOf(x)) /\ \A v : v[1] = PathOf(x) => FewerVersions(v)
      BY <1>2, <2>2, OthersFrame
    <3>2. VersionsOf(PathOf(x))' \subseteq VersionsOf(PathOf(x))
      BY <2>1, <3>1 DEF VersionsOf, FewerVersions
    <3>3. Purge(x)
      BY DEF PurgeInv
    <3>4. QED
      BY <2>1, <3>1, <3>2, <3>3 DEF SameWorker, SameFile, At
  <2>3. CASE ~Inside(x)
    BY <2>1, <2>3 DEF SameWorker, At, Inside, RemoveLabels
  <2>4. QED
    BY <2>2, <2>3
<1>3. ASSUME NEW w \in Workers, OutsideStep(w) PROVE Purge(w)'
  BY <1>1, <1>3, OutsidePlaces DEF At
<1>4. ASSUME NEW w \in Workers, HandlerStep(w) PROVE Purge(w)'
  <2>1. PathOf(w)' = PathOf(w) /\ KindKept(w)
    BY <1>1, <1>4, HandlerFrame DEF PathOf
  <2>2. CASE RemoveFile(w)
    <3>1. pc'[w] = "list" /\ files' = Erase(files, PathOf(w)) /\ ok' = ok /\ pc[w] = "remove"
      BY <1>1, <2>2 DEF RemoveFile, RunTypes, At, Goto
    <3>2. ok[w] /\ PathOf(w) \notin DOMAIN files'
      BY <3>1 DEF FreshInv, Erase, Restrict
    <3>3. QED
      BY <2>1, <3>1, <3>2 DEF At
  <2>3. CASE OpenHistory(w)
    <3>1. /\ pc'[w] = "purge" /\ todo'[w] = Prior(w) /\ pc[w] = "list"
          /\ UNCHANGED <<seen, files, versions>>
      BY <1>1, <2>3 DEF OpenHistory, RunTypes, At, Goto, disk
    <3>2. seen[w] = {} /\ PathOf(w) \notin DOMAIN files
      BY <3>1 DEF FreshInv, PurgeInv
    <3>3. PathOf(w) \in Paths
      BY <3>1, RequestFacts DEF HasRequest, Inside, RemoveLabels
    <3>4. VersionsOf(PathOf(w))' = VersionsOf(PathOf(w))
          /\ VersionsOf(PathOf(w)) \subseteq Prior(w)
      BY <2>1, <3>1, <3>3, HandlersAssumption DEF VersionsOf, Prior
    <3>5. \A v \in Prior(w) : <<v[1], PathOf(w)>> \in StartsWith
      BY DEF Prior
    <3>6. QED
      BY <2>1, <3>1, <3>2, <3>4, <3>5 DEF At
  <2>4. CASE RemoveVersion(w)
    <3>1. /\ pc' = pc /\ pc[w] = "purge" /\ todo' = todo /\ files' = files
      BY <1>1, <2>4 DEF RemoveVersion, At
    <3>2. Purge(w)
      BY DEF PurgeInv
    <3>3. PICK v \in (todo[w] \cup Prior(w)) \ seen[w] :
            /\ seen'[w] = seen[w] \cup {v}
            /\ \/ ok[w] /\ versions' = Erase(versions, v) /\ ok' = ok
               \/ ~ok'[w] /\ versions' = versions
      BY <1>1, <2>4 DEF RemoveVersion, RunTypes
    <3>4. VersionsOf(PathOf(w))' \subseteq VersionsOf(PathOf(w))
      BY <2>1, <3>3 DEF VersionsOf, Erase, Restrict
    <3>5. ok'[w] => VersionsOf(PathOf(w))' \subseteq VersionsOf(PathOf(w)) \ {v} /\ ok[w]
      BY <2>1, <3>3 DEF VersionsOf, Erase, Restrict
    <3>6. QED
      BY <2>1, <3>1, <3>2, <3>3, <3>4, <3>5 DEF At
  <2>5. CASE pc'[w] \notin {"list", "purge"}
    BY <2>5 DEF At
  <2>6. QED
    BY <1>1, <1>4, <2>2, <2>3, <2>4, <2>5, Arrivals
<1>5. ASSUME ServerDies, NEW x \in Workers PROVE Purge(x)'
  BY <1>1, <1>5, DeathFrame DEF At
<1>6. ASSUME UNCHANGED served PROVE PurgeInv'
  BY <1>6 DEF PurgeInv, vars, served, disk, listing, At, PathOf, VersionsOf
<1>7. QED
  <2>1. (\A x \in Workers : Purge(x)') => PurgeInv'
    BY DEF PurgeInv
  <2> HIDE DEF Purge
  <2>2. QED
    BY <1>1, <1>2, <1>3, <1>4, <1>5, <1>6, <2>1, NextCases

-----------------------------------------------------------------------------
(***************************************************************************)
(* HandlersInv holds of every reachable state, whatever the disk does and  *)
(* whatever the basenames are.                                             *)
(***************************************************************************)
LEMMA InitInv == Init => HandlersInv
<1> SUFFICES ASSUME Init PROVE HandlersInv
  OBVIOUS
<1>1. TypeOK
  BY InitTypes
<1>2. \A w \in Workers : pc[w] = "idle" /\ ~HasRequest(w)
  BY DEF Init, HasRequest, At, Inside, WriteLabels, GetLabels, RemoveLabels
<1>3. Locks!Exclusion
  BY DEF Init, Locks!Init, Locks!Exclusion
<1>4. RequestInv /\ HeldInv /\ CopyInv /\ SnapshotInv /\ PurgeInv
  BY <1>2 DEF RequestInv, HeldInv, CopyInv, SnapshotInv, PurgeInv, HasRequest, At,
     WriteLabels, GetLabels, RemoveLabels
<1>5. FreshInv
  BY DEF Init, FreshInv
<1>6. StampInv
  BY DEF Init, StampInv
<1>7. QED
  BY <1>1, <1>3, <1>4, <1>5, <1>6 DEF HandlersInv

LEMMA StepInv == HandlersInv /\ [Next]_vars => HandlersInv'
  BY TypesStep, RequestsStep, LocksStep, FreshStep, StampsStep, CopiesStep,
     SnapshotsStep, PurgesStep DEF HandlersInv

THEOREM Invariance == Spec => []HandlersInv
  BY InitInv, StepInv, PTL DEF Spec

(***************************************************************************)
(* Every variable keeps its type.                                          *)
(***************************************************************************)
THEOREM TypeCorrect == Spec => []TypeOK
<1>1. HandlersInv => TypeOK
  BY DEF HandlersInv
<1>2. QED
  BY <1>1, Invariance, PTL

(***************************************************************************)
(* A GET sends one version of the file, for any number of connections, any *)
(* clients and any disk.                                                   *)
(***************************************************************************)
THEOREM DownloadsAreSnapshots == Spec => []GetIsSnapshot
<1>1. HandlersInv => GetIsSnapshot
  <2> SUFFICES ASSUME HandlersInv, NEW w \in Workers,
                      pc[w] \in {"source", "send", "unlock"},
                      request[w].command = "GET", response[w].success
               PROVE  /\ PathOf(w) \in DOMAIN files
                      /\ response[w].data_len = Len(files[PathOf(w)])
                      /\ out[w] = SubSeq(files[PathOf(w)], 1, pos[w])
                      /\ At(w, "unlock") /\ out[w] # files[PathOf(w)]
                           => DiskFaults /\ out[w] = <<>>
    BY DEF GetIsSnapshot
  <2>1. DiskTypes /\ RunTypes /\ SnapshotInv
    BY TypesSplit DEF HandlersInv
  <2>2. Announced(w)
    BY <2>1 DEF SnapshotInv, At, HasCommand
  <2>3. files[PathOf(w)] \in Seq(Chunks)
    BY <2>1, <2>2 DEF Announced, DiskTypes
  <2>4. /\ SubSeq(files[PathOf(w)], 1, 0) = <<>>
        /\ SubSeq(files[PathOf(w)], 1, Len(files[PathOf(w)])) = files[PathOf(w)]
    BY <2>3, PrefixFacts
  <2>5. out[w] = SubSeq(files[PathOf(w)], 1, pos[w])
    BY <2>1, <2>4 DEF SnapshotInv, Sent, At, HasCommand
  <2>6. At(w, "unlock") => Sent(w)
    BY <2>1 DEF SnapshotInv, HasCommand
  <2>7. QED
    BY <2>2, <2>5, <2>6 DEF Announced, Sent, At
<1>2. QED
  BY <1>1, Invariance, PTL
=============================================================================
