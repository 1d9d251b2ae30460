----------------------------- MODULE StoreProofs ----------------------------
(***************************************************************************)
(* Proofs about RequestHandlers on a disk that works: what a reply says,   *)
(* what is recoverable, and whose versions a removal removes; and that, in *)
(* a directory of distinct basenames and with clients that do not reset    *)
(* their connections, the handlers implement VersionStore.  Without these  *)
(* hypotheses the statements are false; TLC refutes the ones that          *)
(* basenames, resets or disk faults break.                                 *)
(***************************************************************************)
EXTENDS HandlersProofs

(***************************************************************************)
(* CleanInv, on a disk that works.                                         *)
(***************************************************************************)
LEMMA CleanStep ==
  ASSUME ~DiskFaults, HandlersInv, CleanInv, [Next]_vars
  PROVE  CleanInv'
<1> DEFINE Clean(x) ==
      /\ At(x, "receive") =>
           /\ PathOf(x) \in DOMAIN files
           /\ pos[x] <= Len(Uploading(x))
           /\ files[PathOf(x)] = SubSeq(Uploading(x), 1, pos[x])
      /\ At(x, "reply") /\ HasCommand(x, "WRITE") /\ request[x].end # "resets" =>
           PathOf(x) \in DOMAIN files /\ files[PathOf(x)] = Uploading(x)
      /\ At(x, "reply") /\ HasCommand(x, "RM") /\ ok[x] => Erased(PathOf(x))
      /\ Ending(x, "RM") /\ response[x].success => Erased(PathOf(x))
<1> USE DEF HandlersInv
<1>1. DiskTypes /\ RunTypes
  BY TypesSplit
<1>2. ASSUME NEW w \in Workers, OutsideStep(w) \/ HandlerStep(w),
             NEW x \in Workers \ {w}
      PROVE  Clean(x)'
  <2>1. SameWorker(x) /\ request'[x] = request[x] /\ PathOf(x)' = PathOf(x)
        /\ Uploading(x)' = Uploading(x)
    BY <1>2, OthersFrame DEF PathOf, Uploading
  <2>2. CASE Inside(x)
    <3>1. SameFile(PathOf(x)) /\ \A v : v[1] = PathOf(x) => FewerVersions(v)
      BY <1>2, <2>2, OthersFrame
    <3>2. Erased(PathOf(x)) => Erased(PathOf(x))'
      BY <2>1, <3>1 DEF Erased, VersionsOf, SameFile, FewerVersions
    <3>3. Clean(x)
      BY DEF CleanInv
    <3>4. QED
      BY <2>1, <3>1, <3>2, <3>3 DEF SameWorker, SameFile, At, HasCommand, Ending
  <2>3. CASE ~Inside(x)
    BY <2>1, <2>3 DEF SameWorker, At, Ending, Inside, WriteLabels
  <2>4. QED
    BY <2>2, <2>3
<1>3. ASSUME NEW w \in Workers, OutsideStep(w) PROVE Clean(w)'
  BY <1>1, <1>3, OutsidePlaces DEF At, Ending
<1>4. ASSUME NEW w \in Workers, HandlerStep(w) PROVE Clean(w)'
  <2>1. /\ request' = request /\ PathOf(w)' = PathOf(w)
        /\ Uploading(w)' = Uploading(w) /\ Inside(w)
        /\ \A c : HasCommand(w, c)' = HasCommand(w, c)
    BY <1>1, <1>4, HandlerFrame DEF PathOf, Uploading, HasCommand
  <2>2. Uploading(w) \in Seq(Chunks) /\ request[w].command \in {"WRITE", "GET", "RM"}
    BY <2>1, RequestFacts DEF HasRequest
  <2>3. pos[w] \in Nat /\ Len(Uploading(w)) \in Nat
    BY <1>1, <2>2 DEF RunTypes
  <2>4. ASSUME pc'[w] = "receive"
        PROVE  /\ PathOf(w) \in DOMAIN files'
               /\ pos'[w] <= Len(Uploading(w))
               /\ files'[PathOf(w)] = SubSeq(Uploading(w), 1, pos'[w])
    <3>1. CASE OpenTarget(w)
      <4>1. files' = Store(files, PathOf(w), <<>>) /\ pos'[w] = 0
        BY <1>1, <3>1 DEF OpenTarget, RunTypes
      <4>2. PathOf(w) \in DOMAIN files' /\ files'[PathOf(w)] = <<>>
        BY <4>1 DEF Store
      <4>3. SubSeq(Uploading(w), 1, 0) = <<>>
        BY <2>2, <2>3, PrefixFacts
      <4>4. 0 <= Len(Uploading(w))
        BY <2>3
      <4>5. QED
        BY <4>1, <4>2, <4>3, <4>4
    <3>2. CASE ReceiveChunk(w)
      <4> DEFINE chunk == Uploading(w)[pos[w] + 1]
      <4>1. /\ At(w, "receive") /\ pos[w] < Len(Uploading(w)) /\ pos'[w] = pos[w] + 1
            /\ files' = Extend(files, PathOf(w), chunk)
        BY <1>1, <3>2 DEF ReceiveChunk, Remaining, RunTypes
      <4>2. /\ PathOf(w) \in DOMAIN files
            /\ files[PathOf(w)] = SubSeq(Uploading(w), 1, pos[w])
        BY <4>1 DEF CleanInv
      <4>3. SubSeq(Uploading(w), 1, pos[w] + 1) = Append(SubSeq(Uploading(w), 1, pos[w]), chunk)
        <5>1. PICK u, k : u = Uploading(w) /\ k = pos[w]
          OBVIOUS
        <5>2. u \in Seq(Chunks) /\ Len(u) \in Nat /\ k \in 0 .. Len(u) /\ k < Len(u)
          BY <2>2, <2>3, <4>1, <5>1
        <5>3. SubSeq(u, 1, k + 1) = Append(SubSeq(u, 1, k), u[k + 1])
          BY ONLY <5>2, PrefixFacts
        <5>4. QED
          BY <5>1, <5>3
      <4> HIDE DEF chunk
      <4>4. PathOf(w) \in DOMAIN files' /\ files'[PathOf(w)] = Append(files[PathOf(w)], chunk)
        BY <1>1, <4>1, <4>2 DEF Extend, DiskTypes
      <4>5. pos[w] + 1 <= Len(Uploading(w))
        BY <2>3, <4>1
      <4>6. QED
        BY <4>1, <4>2, <4>3, <4>4, <4>5
    <3>3. CASE ReceiveNothing(w)
      BY <2>1, <3>3 DEF ReceiveNothing, Starved, CleanInv, vars, served, disk
    <3>4. QED
      BY <1>1, <1>4, <2>4, <3>1, <3>2, <3>3, Arrivals
  <2>5. ASSUME pc'[w] = "reply", HasCommand(w, "WRITE"), request[w].end # "resets"
        PROVE  PathOf(w) \in DOMAIN files' /\ files'[PathOf(w)] = Uploading(w)
    <3>1. ~NoSize(w) /\ ~RemoveFileFails(w) /\ ~NoHistory(w) /\ ~RemoveDone(w)
      BY <2>5 DEF NoSize, RemoveFileFails, NoHistory, RemoveDone, At, RequestInv,
         HasCommand, GetLabels, RemoveLabels
    <3>2. ReceiveDone(w)
      BY <1>1, <1>4, <2>5, <3>1, Arrivals DEF OpenTargetFails, ReceiveError
    <3>3. At(w, "receive") /\ ~(pos[w] < Len(Uploading(w))) /\ files' = files
      BY <3>2 DEF ReceiveDone, Remaining
    <3>4. pos[w] = Len(Uploading(w))
      BY <2>3, <3>3 DEF CleanInv
    <3>5. QED
      BY <2>2, <3>3, <3>4, PrefixFacts DEF CleanInv
  <2>6. ASSUME pc'[w] = "reply", HasCommand(w, "RM"), ok'[w]
        PROVE  Erased(PathOf(w))'
    <3>1. /\ ~NoSize(w) /\ ~OpenTargetFails(w) /\ ~ReceiveError(w)
          /\ ~ReceiveDone(w)
      BY <2>6 DEF NoSize, OpenTargetFails, ReceiveError, ReceiveDone, At, RequestInv,
         HasCommand, GetLabels, WriteLabels
    <3>2. ~RemoveFileFails(w)
      BY <1>1, <2>6 DEF RemoveFileFails, RunTypes
    <3>3. CASE NoHistory(w)
      <4>1. versions = <<>> /\ At(w, "list") /\ UNCHANGED <<files, versions>>
        BY <3>3 DEF NoHistory, disk
      <4>2. QED
        BY <2>1, <4>1 DEF PurgeInv, At, Erased, VersionsOf
    <3>4. CASE RemoveDone(w)
      <4>1. At(w, "purge") /\ todo[w] \subseteq seen[w] /\ UNCHANGED <<files, versions, ok>>
        BY <3>4 DEF RemoveDone, disk
      <4>2. PathOf(w) \notin DOMAIN files /\ VersionsOf(PathOf(w)) = {}
        BY <2>6, <4>1 DEF PurgeInv, At
      <4>3. QED
        BY <2>1, <4>1, <4>2 DEF Erased, VersionsOf
    <3>5. QED
      BY <1>1, <1>4, <2>6, <3>1, <3>2, <3>3, <3>4, Arrivals
  <2>7. ASSUME pc'[w] = "unlock", HasCommand(w, "RM"), response'[w].success
        PROVE  Erased(PathOf(w))'
    <3>1. Reply(w)
      BY <1>1, <1>4, <2>7, Arrivals
         DEF OpenSourceFails, SendDone, At, RequestInv, HasCommand, GetLabels
    <3>2. /\ pc[w] = "reply" /\ response'[w].success = ok[w]
          /\ UNCHANGED <<files, versions>>
      BY <1>1, <3>1 DEF Reply, RunTypes, At, disk
    <3>3. Erased(PathOf(w))
      BY <2>7, <3>2 DEF CleanInv, At
    <3>4. QED
      BY <2>1, <3>2, <3>3 DEF Erased, VersionsOf
  <2>8. QED
    BY <2>1, <2>4, <2>5, <2>6, <2>7 DEF At, HasCommand, Ending
<1>5. ASSUME ServerDies, NEW x \in Workers PROVE Clean(x)'
  BY <1>1, <1>5, DeathFrame DEF At, Ending
<1>6. ASSUME UNCHANGED served PROVE CleanInv'
  BY <1>6 DEF CleanInv, vars, served, disk, answers, At, PathOf, Uploading, HasCommand, Ending,
     Erased, VersionsOf
<1>7. QED
  <2>1. (\A x \in Workers : Clean(x)') => CleanInv'
    BY DEF CleanInv
  <2> HIDE DEF Clean
  <2>2. QED
    BY <1>1, <1>2, <1>3, <1>4, <1>5, <1>6, <2>1, NextCases

LEMMA CleanInit == Init => CleanInv
  BY DEF Init, CleanInv, At, Ending

THEOREM CleanInvariance ==
  ASSUME ~DiskFaults
  PROVE  Spec => [](HandlersInv /\ CleanInv)
<1>1. Init => HandlersInv /\ CleanInv
  BY InitInv, CleanInit
<1>2. HandlersInv /\ CleanInv /\ [Next]_vars => (HandlersInv /\ CleanInv)'
  BY StepInv, CleanStep
<1>3. QED
  BY <1>1, <1>2, PTL DEF Spec

(***************************************************************************)
(* On a disk that works, and from a client that does not reset its         *)
(* connection, a WRITE that is going to answer success has left the        *)
(* client's contents in the file.                                          *)
(***************************************************************************)
THEOREM WritesAreTruthful ==
  ASSUME ~DiskFaults, "resets" \notin ClientEnds
  PROVE  Spec => []WriteStatusTruthful
<1>1. HandlersInv /\ CleanInv => WriteStatusTruthful
  BY DEF HandlersInv, RequestInv, Request, CleanInv, WriteStatusTruthful, HasRequest,
     Inside, At, HasCommand
<1>2. QED
  BY <1>1, CleanInvariance, PTL

(***************************************************************************)
(* On a disk that works an RM answered with success has left neither the   *)
(* file nor any version of it, whatever the basenames and the clients are. *)
(***************************************************************************)
THEOREM RemovalsAreComplete ==
  ASSUME ~DiskFaults
  PROVE  Spec => []RemoveErasesHistory
<1>1. HandlersInv /\ CleanInv => RemoveErasesHistory
  BY DEF CleanInv, RemoveErasesHistory, Erased
<1>2. QED
  BY <1>1, CleanInvariance, PTL

-----------------------------------------------------------------------------
(***************************************************************************)
(* The conjuncts of HistoryInv, one lemma each.                            *)
(***************************************************************************)
LEMMA SavedStep ==
  ASSUME ~DiskFaults, DistinctBasenames, HandlersInv, SavedInv, [Next]_vars
  PROVE  SavedInv'
<1> DEFINE Saved(x) ==
      /\ At(x, "copy") =>
           /\ Version(x) \in DOMAIN versions
           /\ versions[Version(x)] = SubSeq(files[PathOf(x)], 1, pos[x])
      /\ At(x, "open") =>
           IF stamp[x] = 0 THEN PathOf(x) \notin DOMAIN files
           ELSE /\ PathOf(x) \in DOMAIN files
                /\ Version(x) \in DOMAIN versions
                /\ versions[Version(x)] = files[PathOf(x)]
      /\ At(x, "receive") /\ stamp[x] # 0 => Version(x) \in DOMAIN versions
<1> USE DEF HandlersInv
<1>1. DiskTypes /\ RunTypes
  BY TypesSplit
<1>2. ASSUME NEW w \in Workers, OutsideStep(w) \/ HandlerStep(w),
             NEW x \in Workers \ {w}
      PROVE  Saved(x)'
  <2>1. SameWorker(x) /\ request'[x] = request[x] /\ PathOf(x)' = PathOf(x)
    BY <1>2, OthersFrame DEF PathOf
  <2>2. Version(x)' = Version(x)
    BY <2>1 DEF Version, SameWorker
  <2>3. CASE Inside(x)
    <3>1. SameFile(PathOf(x)) /\ SameVersion(Version(x))
      BY <1>2, <2>3, OthersFrame DEF Version
    <3>2. At(x, "copy") => PathOf(x) \in DOMAIN files
      BY DEF CopyInv
    <3>3. Saved(x)
      BY DEF SavedInv
    <3>4. QED
      BY <2>1, <2>2, <3>1, <3>2, <3>3 DEF SameWorker, SameFile, SameVersion, At
  <2>4. CASE ~Inside(x)
    BY <2>1, <2>4 DEF SameWorker, At, Inside, WriteLabels
  <2>5. QED
    BY <2>3, <2>4
<1>3. ASSUME NEW w \in Workers, OutsideStep(w) PROVE Saved(w)'
  BY <1>1, <1>3, OutsidePlaces DEF At
<1>4. ASSUME NEW w \in Workers, HandlerStep(w) PROVE Saved(w)'
  <2>1. PathOf(w)' = PathOf(w)
    BY <1>1, <1>4, HandlerFrame DEF PathOf
  <2>2. ASSUME pc'[w] = "copy"
        PROVE  /\ Version(w)' \in DOMAIN versions'
               /\ versions'[Version(w)'] = SubSeq(files'[PathOf(w)], 1, pos'[w])
    <3>1. CASE SaveCurrentVersion(w)
      <4>1. /\ versions' = Store(versions, <<PathOf(w), clock'>>, <<>>)
            /\ stamp'[w] = clock' /\ pos'[w] = 0 /\ files' = files
            /\ PathOf(w) \in DOMAIN files
        BY <1>1, <3>1 DEF SaveCurrentVersion, RunTypes
      <4>2. Version(w)' = <<PathOf(w), clock'>>
        BY <2>1, <4>1 DEF Version
      <4>3. Version(w)' \in DOMAIN versions' /\ versions'[Version(w)'] = <<>>
        BY <4>1, <4>2 DEF Store
      <4>4. files[PathOf(w)] \in Seq(Chunks) /\ 0 <= Len(files[PathOf(w)])
        BY <1>1, <4>1 DEF DiskTypes
      <4>5. SubSeq(files[PathOf(w)], 1, 0) = <<>>
        BY <4>4, PrefixFacts
      <4>6. QED
        BY <4>1, <4>3, <4>5
    <3>2. CASE CopyChunk(w)
      <4> DEFINE chunk == files[PathOf(w)][pos[w] + 1]
      <4>1. /\ At(w, "copy") /\ pos[w] < Len(files[PathOf(w)]) /\ pos'[w] = pos[w] + 1
            /\ versions' = Extend(versions, Version(w), chunk)
            /\ files' = files /\ stamp' = stamp
        BY <1>1, <3>2 DEF CopyChunk, Copying, RunTypes
      <4>2. /\ Version(w) \in DOMAIN versions /\ Version(w)' = Version(w)
            /\ versions[Version(w)] = SubSeq(files[PathOf(w)], 1, pos[w])
        BY <2>1, <4>1 DEF SavedInv, Version
      <4>3. files[PathOf(w)] \in Seq(Chunks) /\ pos[w] \in Nat
        BY <1>1, <4>1 DEF CopyInv, DiskTypes, RunTypes
      <4>4. SubSeq(files[PathOf(w)], 1, pos[w] + 1)
              = Append(SubSeq(files[PathOf(w)], 1, pos[w]), chunk)
        BY <4>1, <4>3, PrefixFacts
      <4> HIDE DEF chunk
      <4>5. /\ Version(w) \in DOMAIN versions'
            /\ versions'[Version(w)] = Append(versions[Version(w)], chunk)
        BY <1>1, <4>1, <4>2 DEF Extend, DiskTypes
      <4>6. QED
        BY <4>1, <4>2, <4>4, <4>5
    <3>3. QED
      BY <1>1, <1>4, <2>2, <3>1, <3>2, Arrivals
  <2>3. ASSUME pc'[w] = "open"
        PROVE  IF stamp'[w] = 0 THEN PathOf(w) \notin DOMAIN files'
               ELSE /\ PathOf(w) \in DOMAIN files'
                    /\ Version(w)' \in DOMAIN versions'
                    /\ versions'[Version(w)'] = files'[PathOf(w)]
    <3>1. CASE NothingToSave(w)
      BY <3>1 DEF NothingToSave, At, FreshInv, disk
    <3>2. CASE CopyDone(w)
      <4>1. At(w, "copy") /\ pos[w] = Len(files[PathOf(w)])
            /\ UNCHANGED <<files, versions, stamp>>
        BY <3>2 DEF CopyDone, disk
      <4>2. stamp[w] # 0 /\ PathOf(w) \in DOMAIN files /\ Version(w)' = Version(w)
        BY <2>1, <4>1 DEF CopyInv, Version
      <4>3. SubSeq(files[PathOf(w)], 1, pos[w]) = files[PathOf(w)]
        BY <1>1, <4>1, <4>2, PrefixFacts DEF DiskTypes
      <4>4. QED
        BY <4>1, <4>2, <4>3 DEF SavedInv
    <3>3. QED
      BY <1>1, <1>4, <2>3, <3>1, <3>2, Arrivals
  <2>4. ASSUME pc'[w] = "receive", stamp'[w] # 0
        PROVE  Version(w)' \in DOMAIN versions'
    <3>1. /\ pc[w] \in {"open", "receive"} /\ UNCHANGED <<versions, stamp>>
      BY <1>1, <1>4, <2>4, Arrivals
         DEF OpenTarget, ReceiveChunk, ReceiveNothing, At, vars, served, disk
    <3>2. QED
      BY <2>1, <2>4, <3>1 DEF SavedInv, At, Version
  <2>5. QED
    BY <2>1, <2>2, <2>3, <2>4 DEF At
<1>5. ASSUME ServerDies, NEW x \in Workers PROVE Saved(x)'
  BY <1>1, <1>5, DeathFrame DEF At
<1>6. ASSUME UNCHANGED served PROVE SavedInv'
  BY <1>6 DEF SavedInv, vars, served, disk, At, PathOf, Version
<1>7. QED
  <2>1. (\A x \in Workers : Saved(x)') => SavedInv'
    BY DEF SavedInv
  <2> HIDE DEF Saved
  <2>2. QED
    BY <1>1, <1>2, <1>3, <1>4, <1>5, <1>6, <2>1, NextCases

LEMMA OwnPurgesStep ==
  ASSUME ~DiskFaults, DistinctBasenames, HandlersInv, OwnPurgeInv, [Next]_vars
  PROVE  OwnPurgeInv'
<1> DEFINE Own(x) == At(x, "purge") => ok[x] /\ VersionsOf(PathOf(x)) = todo[x] \ seen[x]
<1> USE DEF HandlersInv
<1>1. DiskTypes /\ RunTypes
  BY TypesSplit
<1>2. ASSUME NEW w \in Workers, OutsideStep(w) \/ HandlerStep(w),
             NEW x \in Workers \ {w}
      PROVE  Own(x)'
  <2>1. SameWorker(x) /\ request'[x] = request[x] /\ PathOf(x)' = PathOf(x)
    BY <1>2, OthersFrame DEF PathOf
  <2>2. CASE At(x, "purge")
    <3>1. \A v : v[1] = PathOf(x) => SameVersion(v)
      BY <1>2, <2>2, OthersFrame DEF Inside, At, RemoveLabels
    <3>2. VersionsOf(PathOf(x))' = VersionsOf(PathOf(x))
      BY <2>1, <3>1 DEF VersionsOf, SameVersion
    <3>3. QED
      BY <2>1, <2>2, <3>2 DEF OwnPurgeInv, SameWorker
  <2>3. CASE ~At(x, "purge")
    BY <2>1, <2>3 DEF SameWorker, At
  <2>4. QED
    BY <2>2, <2>3
<1>3. ASSUME NEW w \in Workers, OutsideStep(w) PROVE Own(w)'
  BY <1>1, <1>3, OutsidePlaces DEF At
<1>4. ASSUME NEW w \in Workers, HandlerStep(w), pc'[w] = "purge"
      PROVE  ok'[w] /\ VersionsOf(PathOf(w))' = todo'[w] \ seen'[w]
  <2>1. PathOf(w)' = PathOf(w) /\ Inside(w)
    BY <1>1, <1>4, HandlerFrame DEF PathOf
  <2>2. Prior(w) = VersionsOf(PathOf(w))
    <3>1. PathOf(w) \in Paths
      BY <2>1, RequestFacts DEF HasRequest
    <3>2. \A v \in DOMAIN versions :
            <<v[1], PathOf(w)>> \in StartsWith <=> v[1] = PathOf(w)
      BY <1>1, <3>1, HandlersAssumption DEF DistinctBasenames, DiskTypes, Names
    <3>3. QED
      BY <3>2 DEF Prior, VersionsOf
  <2>3. CASE OpenHistory(w)
    <3>1. /\ pc[w] = "list" /\ todo'[w] = Prior(w) /\ UNCHANGED <<seen, ok, versions>>
      BY <1>1, <2>3 DEF OpenHistory, RunTypes, At, disk
    <3>2. seen[w] = {} /\ ok[w]
      BY <3>1 DEF FreshInv, PurgeInv, At
    <3>3. QED
      BY <2>1, <2>2, <3>1, <3>2 DEF VersionsOf
  <2>4. CASE RemoveVersion(w)
    <3>1. At(w, "purge") /\ todo' = todo
      BY <2>4 DEF RemoveVersion
    <3>2. ok[w] /\ VersionsOf(PathOf(w)) = todo[w] \ seen[w]
      BY <3>1 DEF OwnPurgeInv
    <3>3. PICK v \in todo[w] \ seen[w] :
            /\ seen'[w] = seen[w] \cup {v}
            /\ \/ versions' = Erase(versions, v) /\ ok' = ok
               \/ v \notin DOMAIN versions
      BY <1>1, <2>2, <2>4, <3>2 DEF RemoveVersion, RunTypes
    <3>4. versions' = Erase(versions, v) /\ ok' = ok
      BY <3>2, <3>3 DEF VersionsOf
    <3>5. VersionsOf(PathOf(w))' = VersionsOf(PathOf(w)) \ {v}
      BY <2>1, <3>4 DEF VersionsOf, Erase, Restrict
    <3>6. QED
      BY <3>1, <3>2, <3>3, <3>4, <3>5
  <2>5. QED
    BY <1>1, <1>4, <2>3, <2>4, Arrivals
<1>5. ASSUME ServerDies, NEW x \in Workers PROVE Own(x)'
  BY <1>1, <1>5, DeathFrame DEF At
<1>6. ASSUME UNCHANGED served PROVE OwnPurgeInv'
  BY <1>6 DEF OwnPurgeInv, vars, served, disk, listing, At, PathOf, VersionsOf
<1>7. QED
  <2>1. (\A x \in Workers : Own(x)') => OwnPurgeInv'
    BY DEF OwnPurgeInv
  <2>2. ASSUME NEW w \in Workers, HandlerStep(w) PROVE Own(w)'
    BY <1>4, <2>2 DEF At
  <2> HIDE DEF Own
  <2>3. QED
    BY <1>1, <1>2, <1>3, <1>5, <1>6, <2>1, <2>2, NextCases

(***************************************************************************)
(* Acknowledged contents.  A step leaves them where they are, unless it is *)
(* inside a handler of their path; that worker is alone then, and its      *)
(* steps are looked at one by one.                                         *)
(***************************************************************************)
Recoverable(p) == p \in DOMAIN acked => InFile(p) \/ InHistory(p)

LEMMA NotWriting ==
  ASSUME NEW w \in Workers, pc'[w] \notin {"copy", "receive"}
  PROVE  \A n : ~FileWriter(w, n)' /\ ~VersionWriter(w, n)'
  BY DEF FileWriter, VersionWriter, At

LEMMA RecoverableElsewhere ==
  ASSUME DistinctBasenames, HandlersInv, RecoverableInv,
         NEW w \in Workers, HandlerStep(w), NEW p \in Paths, p # PathOf(w)
  PROVE  Recoverable(p)'
<1> USE DEF HandlersInv
<1>1. DiskTypes /\ RunTypes
  BY TypesSplit
<1>2. /\ request' = request /\ Inside(w) /\ \A x \in Workers \ {w} : SameWorker(x)
  BY <1>1, HandlerFrame
<1>3. PathOf(w) \in Paths /\ PathOf(w)' = PathOf(w)
  BY <1>2, RequestFacts DEF HasRequest, PathOf
<1>4. SameFile(p) /\ (p \in DOMAIN acked' => p \in DOMAIN acked /\ acked'[p] = acked[p])
  BY <1>1, FileFrame
<1>5. \A v : v[1] = p => SameVersion(v)
  BY <1>1, <1>3, VersionFrame DEF DistinctBasenames
<1>6. \A x \in Workers : FileWriter(x, p)' => FileWriter(x, p)
  BY <1>2, <1>3 DEF FileWriter, At, PathOf, SameWorker
<1>7. \A x \in Workers : \A v : v[1] = p /\ VersionWriter(x, v)' => VersionWriter(x, v)
  <2>1. ASSUME NEW v, v[1] = p PROVE ~VersionWriter(w, v)'
    BY <1>3, <2>1 DEF VersionWriter, Version
  <2>2. ASSUME NEW x \in Workers \ {w}, NEW v, VersionWriter(x, v)' PROVE VersionWriter(x, v)
    BY <1>2, <2>2 DEF VersionWriter, Version, At, PathOf, SameWorker
  <2>3. QED
    BY <2>1, <2>2
<1>8. SUFFICES ASSUME p \in DOMAIN acked' PROVE InFile(p)' \/ InHistory(p)'
  BY DEF Recoverable
<1>9. CASE InFile(p)
  BY <1>4, <1>6, <1>8, <1>9 DEF InFile, SameFile
<1>10. CASE InHistory(p)
  <2>1. PICK v \in VersionsOf(p) :
          versions[v] = acked[p] /\ \A x \in Workers : ~VersionWriter(x, v)
    BY <1>10 DEF InHistory
  <2>2. v[1] = p /\ v \in DOMAIN versions' /\ versions'[v] = versions[v]
    BY <1>5, <2>1 DEF VersionsOf, SameVersion
  <2>3. QED
    BY <1>4, <1>7, <1>8, <2>1, <2>2 DEF InHistory, VersionsOf
<1>11. QED
  BY <1>4, <1>8, <1>9, <1>10 DEF RecoverableInv

LEMMA RecoverableHere ==
  ASSUME ~DiskFaults, ClockAdvances, HandlersInv, CleanInv, SavedInv, RecoverableInv,
         NEW w \in Workers, HandlerStep(w), NEW p \in Paths, p = PathOf(w)
  PROVE  Recoverable(p)'
<1> USE DEF HandlersInv
<1>1. DiskTypes /\ RunTypes
  BY TypesSplit
<1>2. /\ request' = request /\ Inside(w) /\ KindKept(w) /\ PathOf(w)' = PathOf(w)
      /\ \A x \in Workers \ {w} : SameWorker(x)
  BY <1>1, HandlerFrame DEF PathOf
<1>3. \A x \in Workers \ {w} :
        Inside(x) /\ PathOf(x) = p => HasCommand(x, "GET") /\ HasCommand(w, "GET")
  BY <1>2, Exclusive
<1>4. \A x \in Workers \ {w} :
        ~FileWriter(x, p) /\ ~FileWriter(x, p)'
        /\ \A v : v[1] = p => ~VersionWriter(x, v) /\ ~VersionWriter(x, v)'
  <2> SUFFICES ASSUME NEW x \in Workers \ {w}, pc[x] \in {"copy", "receive"}
               PROVE  PathOf(x) # p
    <3>1. \A x \in Workers \ {w} : pc'[x] = pc[x] /\ stamp'[x] = stamp[x]
      BY <1>2 DEF SameWorker
    <3>2. QED
      BY <1>2, <3>1 DEF FileWriter, VersionWriter, Version, At, PathOf
  <2>1. Inside(x) /\ HasCommand(x, "WRITE")
    BY DEF Inside, WriteLabels, RequestInv
  <2>2. QED
    BY <1>3, <2>1 DEF HasCommand
<1>5. SUFFICES ASSUME p \in DOMAIN acked' PROVE InFile(p)' \/ InHistory(p)'
  BY DEF Recoverable
<1>6. ASSUME UNCHANGED <<files, acked>>, p \in DOMAIN acked, InFile(p), pc'[w] # "receive"
      PROVE  InFile(p)'
  BY <1>4, <1>6 DEF InFile, FileWriter, At
<1>7. ASSUME acked' = acked, NEW v \in VersionsOf(p), versions[v] = acked[p],
             SameVersion(v), ~VersionWriter(w, v)'
      PROVE  InHistory(p)'
  <2>1. v[1] = p /\ v \in VersionsOf(p)' /\ versions'[v] = acked'[p]
    BY <1>7 DEF VersionsOf, SameVersion
  <2>2. \A x \in Workers : ~VersionWriter(x, v)'
    BY <1>4, <1>7, <2>1
  <2>3. QED
    BY <2>1, <2>2 DEF InHistory
<1>8. ASSUME UNCHANGED <<files, versions, acked>>, pc'[w] \notin {"copy", "receive"}
      PROVE  InFile(p)' \/ InHistory(p)'
  <2>1. CASE InFile(p)
    BY <1>5, <1>6, <1>8, <2>1
  <2>2. CASE InHistory(p)
    BY <1>7, <1>8, <2>2, NotWriting DEF InHistory, SameVersion
  <2>3. QED
    BY <1>5, <1>8, <2>1, <2>2 DEF RecoverableInv
<1>9. CASE SaveCurrentVersion(w)
  <2>1. /\ UNCHANGED <<files, acked>> /\ pc'[w] = "copy"
        /\ versions' = Store(versions, <<PathOf(w), clock'>>, <<>>)
        /\ clock < clock' /\ clock' \in Nat /\ stamp'[w] = clock'
    BY <1>1, <1>9, NextTime DEF SaveCurrentVersion, RunTypes, Goto, answers
  <2>2. CASE InFile(p)
    BY <1>5, <1>6, <2>1, <2>2
  <2>3. CASE InHistory(p)
    <3>1. PICK v \in VersionsOf(p) : versions[v] = acked[p]
      BY <2>3 DEF InHistory
    <3>2. v[2] \in Nat /\ v[2] <= clock
      BY <1>1, <3>1 DEF VersionsOf, StampInv, DiskTypes, Names
    <3>3. v # <<PathOf(w), clock'>>
      BY <1>1, <2>1, <3>2 DEF RunTypes
    <3>4. SameVersion(v)
      BY <2>1, <3>1, <3>3 DEF SameVersion, VersionsOf, Store
    <3>5. Version(w)' = <<PathOf(w), clock'>>
      BY <1>2, <2>1 DEF Version
    <3>6. QED
      BY <1>7, <2>1, <3>1, <3>3, <3>4, <3>5 DEF VersionWriter
  <2>4. QED
    BY <1>5, <2>1, <2>2, <2>3 DEF RecoverableInv
<1>10. CASE CopyChunk(w)
  <2>1. /\ UNCHANGED <<files, acked, stamp>> /\ pc' = pc /\ At(w, "copy")
        /\ \E chunk : versions' = Extend(versions, Version(w), chunk)
    BY <1>10 DEF CopyChunk, Copying, answers
  <2>2. CASE InFile(p)
    BY <1>5, <1>6, <2>1, <2>2 DEF At
  <2>3. CASE InHistory(p)
    <3>1. PICK v \in VersionsOf(p) : versions[v] = acked[p] /\ ~VersionWriter(w, v)
      BY <2>3 DEF InHistory
    <3>2. v # Version(w) /\ Version(w)' = Version(w)
      BY <1>2, <2>1, <3>1 DEF VersionWriter, Version
    <3>3. SameVersion(v)
      BY <1>1, <2>1, <3>2 DEF SameVersion, Extend, DiskTypes
    <3>4. QED
      BY <1>7, <2>1, <3>1, <3>2, <3>3 DEF VersionWriter
  <2>4. QED
    BY <1>5, <2>1, <2>2, <2>3 DEF RecoverableInv
<1>11. CASE OpenTarget(w)
  <2>1. /\ UNCHANGED <<versions, acked, stamp>> /\ pc'[w] = "receive" /\ At(w, "open")
    BY <1>1, <1>11 DEF OpenTarget, RunTypes, Goto, answers
  <2>2. CASE InFile(p)
    <3>1. PICK v \in VersionsOf(p) : versions[v] = acked[p]
      BY <2>1, <2>2 DEF SavedInv, InFile, VersionsOf, Version
    <3>2. ~VersionWriter(w, v)' /\ SameVersion(v)
      BY <2>1 DEF VersionWriter, At, SameVersion
    <3>3. QED
      BY <1>7, <2>1, <3>1, <3>2
  <2>3. CASE InHistory(p)
    <3>1. PICK v \in VersionsOf(p) : versions[v] = acked[p]
      BY <2>3 DEF InHistory
    <3>2. ~VersionWriter(w, v)' /\ SameVersion(v)
      BY <2>1 DEF VersionWriter, At, SameVersion
    <3>3. QED
      BY <1>7, <2>1, <3>1, <3>2
  <2>4. QED
    BY <1>5, <2>1, <2>2, <2>3 DEF RecoverableInv
<1>12. CASE ReceiveChunk(w) \/ ReceiveDone(w)
  <2>1. /\ UNCHANGED <<versions, acked>> /\ At(w, "receive") /\ pc'[w] # "copy"
    BY <1>1, <1>12 DEF ReceiveChunk, ReceiveDone, RunTypes, Goto, At, answers
  <2>2. FileWriter(w, p)
    BY <2>1 DEF FileWriter
  <2>3. InHistory(p)
    BY <1>5, <2>1, <2>2 DEF RecoverableInv, InFile
  <2>4. QED
    BY <1>7, <2>1, <2>3 DEF InHistory, VersionWriter, At, SameVersion
<1>13. CASE ReceiveNothing(w)
  BY <1>5, <1>13 DEF ReceiveNothing, vars, served, disk, answers, RecoverableInv, InFile,
     InHistory, FileWriter, VersionWriter, Version, VersionsOf, PathOf, At
<1>14. CASE RemoveFile(w)
  BY <1>5, <1>14 DEF RemoveFile, Erase, Restrict
<1>15. CASE RemoveVersion(w)
  BY <1>5, <1>15 DEF RemoveVersion, RecoverableInv, At, answers
<1>16. CASE Reply(w)
  <2>1. UNCHANGED <<files, versions>> /\ pc'[w] = "unlock" /\ At(w, "reply")
    BY <1>1, <1>16 DEF Reply, RunTypes, Goto, disk
  <2>2. CASE HasCommand(w, "WRITE") /\ ok[w] /\ request[w].end = "stays"
    <3>1. acked' = Store(acked, p, Uploading(w))
      BY <1>16, <2>2 DEF Reply, HasCommand
    <3>2. acked'[p] = Uploading(w)
      BY <3>1 DEF Store
    <3>3. p \in DOMAIN files /\ files[p] = Uploading(w)
      BY <2>1, <2>2 DEF CleanInv
    <3>4. QED
      BY <1>4, <2>1, <3>2, <3>3, NotWriting DEF InFile
  <2>3. CASE ~(HasCommand(w, "WRITE") /\ ok[w] /\ request[w].end = "stays")
    <3>1. acked' = acked
      BY <1>16, <2>3 DEF Reply, HasCommand
    <3>2. QED
      BY <1>8, <2>1, <3>1
  <2>4. QED
    BY <2>2, <2>3
<1>17. CASE HasCommand(w, "GET")
  <2>1. UNCHANGED <<files, versions, acked>>
    BY <1>1, <1>17, GetChangesNothing
  <2>2. pc'[w] \notin {"copy", "receive"}
    BY <1>2, <1>17 DEF KindKept, WriteLabels, RequestInv, HasCommand
  <2>3. QED
    BY <1>8, <2>1, <2>2
<1>18. CASE \/ NothingToSave(w) \/ CopyDone(w) \/ OpenTargetFails(w) \/ ReceiveError(w)
            \/ RemoveFileFails(w) \/ OpenHistory(w) \/ NoHistory(w) \/ RemoveDone(w)
  <2>1. UNCHANGED <<files, versions, acked>> /\ pc'[w] \notin {"copy", "receive"}
    BY <1>1, <1>18 DEF NothingToSave, CopyDone, OpenTargetFails, ReceiveError,
       RemoveFileFails, OpenHistory, NoHistory, RemoveDone, RunTypes, Goto, disk, answers
  <2>2. QED
    BY <1>8, <2>1
<1>19. CASE HandleGet(w)
  <2>1. HasCommand(w, "GET")
    BY <1>19 DEF HandleGet, AnnounceSize, NoSize, OpenSource, OpenSourceFails, SendChunk,
       SendDone, At, RequestInv, GetLabels
  <2>2. QED
    BY <1>17, <2>1
<1>20. QED
  BY <1>9, <1>10, <1>11, <1>12, <1>13, <1>14, <1>15, <1>16, <1>18, <1>19
     DEF HandlerStep, HandleWrite, HandleRemove

LEMMA RecoverableStep ==
  ASSUME ~DiskFaults, DistinctBasenames, ClockAdvances, HandlersInv, CleanInv, SavedInv,
         RecoverableInv, [Next]_vars
  PROVE  RecoverableInv'
<1> USE DEF HandlersInv
<1>1. DiskTypes /\ RunTypes
  BY TypesSplit
<1>2. ASSUME NEW w \in Workers, OutsideStep(w) PROVE RecoverableInv'
  <2>1. UNCHANGED <<files, versions, acked>>
        /\ \A x \in Workers \ {w} : SameWorker(x) /\ request'[x] = request[x]
    BY <1>1, <1>2, OutsideFrame
  <2>2. pc'[w] \notin {"copy", "receive", "list", "purge"}
    BY <1>1, <1>2, OutsidePlaces
  <2>3. \A x \in Workers : \A p : FileWriter(x, p)' => FileWriter(x, p)
    BY <2>1, <2>2 DEF FileWriter, At, PathOf, SameWorker
  <2>4. \A x \in Workers : \A v : VersionWriter(x, v)' => VersionWriter(x, v)
    BY <2>1, <2>2 DEF VersionWriter, Version, At, PathOf, SameWorker
  <2>5. ASSUME NEW p \in DOMAIN acked PROVE InFile(p)' \/ InHistory(p)'
    <3>1. InFile(p) => InFile(p)'
      BY <2>1, <2>3 DEF InFile
    <3>2. InHistory(p) => InHistory(p)'
      BY <2>1, <2>4 DEF InHistory, VersionsOf
    <3>3. QED
      BY <3>1, <3>2 DEF RecoverableInv
  <2>6. ASSUME NEW x \in Workers, pc'[x] \in {"list", "purge"}
        PROVE  PathOf(x)' \notin DOMAIN acked'
    BY <2>1, <2>2, <2>6 DEF RecoverableInv, SameWorker, PathOf
  <2>7. QED
    BY <2>1, <2>5, <2>6 DEF RecoverableInv
<1>3. ASSUME NEW w \in Workers, HandlerStep(w) PROVE RecoverableInv'
  <2>1. /\ request' = request /\ Inside(w) /\ KindKept(w)
        /\ \A x \in Workers \ {w} : SameWorker(x)
    BY <1>1, <1>3, HandlerFrame
  <2>2. DOMAIN acked' \subseteq Paths
    BY TypesStep, TypesSplit DEF DiskTypes
  <2>3. \A p \in Paths : Recoverable(p)'
    BY <1>3, RecoverableElsewhere, RecoverableHere
  <2>4. \A p \in DOMAIN acked' : InFile(p)' \/ InHistory(p)'
    BY <2>2, <2>3 DEF Recoverable
  <2>5. ASSUME NEW x \in Workers, pc'[x] \in {"list", "purge"}
        PROVE  PathOf(x) \notin DOMAIN acked'
    <3>1. CASE x = w
      <4>1. RemoveFile(w) \/ OpenHistory(w) \/ RemoveVersion(w)
        BY <1>1, <1>3, <2>5, <3>1, Arrivals
      <4>2. CASE RemoveFile(w)
        BY <3>1, <4>2 DEF RemoveFile, Erase, Restrict
      <4>3. CASE OpenHistory(w) \/ RemoveVersion(w)
        BY <3>1, <4>3 DEF OpenHistory, RemoveVersion, RecoverableInv, At, answers
      <4>4. QED
        BY <4>1, <4>2, <4>3
    <3>2. CASE x # w
      <4>1. pc[x] \in {"list", "purge"} /\ Inside(x) /\ HasCommand(x, "RM")
        BY <2>1, <2>5, <3>2 DEF SameWorker, Inside, RemoveLabels, RequestInv
      <4>2. PathOf(x) # PathOf(w)
        BY <2>1, <3>2, <4>1, Exclusive DEF HasCommand
      <4>3. PathOf(x) \notin DOMAIN acked
        BY <4>1 DEF RecoverableInv
      <4>4. QED
        BY <1>1, <1>3, <4>2, <4>3, FileFrame
    <3>3. QED
      BY <3>1, <3>2
  <2>6. QED
    BY <2>1, <2>4, <2>5 DEF RecoverableInv, PathOf
<1>4. ASSUME ServerDies PROVE RecoverableInv'
  <2>1. acked' = acked
    BY <1>1, <1>4, DeathDisk
  <2>2. \A x \in Workers : pc'[x] \notin {"copy", "receive", "list", "purge"}
    BY <1>1, <1>4, DeathFrame
  <2>3. ASSUME NEW p \in DOMAIN acked PROVE InFile(p)' \/ InHistory(p)'
    <3>1. ASSUME InFile(p) PROVE InFile(p)'
      <4>1. p \in DOMAIN files' /\ files'[p] = files[p]
        BY <1>1, <1>4, <3>1, DeathDisk DEF InFile
      <4>2. QED
        BY <2>1, <2>2, <3>1, <4>1 DEF InFile, FileWriter, At
    <3>2. ASSUME InHistory(p) PROVE InHistory(p)'
      <4>1. PICK v \in VersionsOf(p) :
              versions[v] = acked[p] /\ \A w \in Workers : ~VersionWriter(w, v)
        BY <3>2 DEF InHistory
      <4>2. v[1] = p /\ v \in DOMAIN versions' /\ versions'[v] = versions[v]
        BY <1>1, <1>4, <4>1, DeathDisk DEF VersionsOf
      <4>3. v \in VersionsOf(p)' /\ \A w \in Workers : ~VersionWriter(w, v)'
        BY <2>2, <4>2 DEF VersionsOf, VersionWriter, At
      <4>4. QED
        BY <2>1, <4>1, <4>2, <4>3 DEF InHistory
    <3>3. QED
      BY <3>1, <3>2 DEF RecoverableInv
  <2>4. QED
    BY <2>1, <2>2, <2>3 DEF RecoverableInv
<1>5. ASSUME UNCHANGED served PROVE RecoverableInv'
  BY <1>5 DEF RecoverableInv, vars, served, disk, answers, At, PathOf, InFile, InHistory, FileWriter,
     VersionWriter, Version, VersionsOf
<1>6. QED
  BY <1>1, <1>2, <1>3, <1>4, <1>5, NextCases

(***************************************************************************)
(* A path without a file: who removed it has removed its versions, or is   *)
(* about to.                                                               *)
(***************************************************************************)
Removing(p) == \E w \in Workers : pc[w] \in {"list", "purge"} /\ PathOf(w) = p

LEMMA NoHistoryStep ==
  ASSUME ~DiskFaults, DistinctBasenames, HandlersInv, OwnPurgeInv, NoFileNoHistory,
         [Next]_vars
  PROVE  NoFileNoHistory'
<1> USE DEF HandlersInv
<1>1. DiskTypes /\ RunTypes
  BY TypesSplit
<1>2. SUFFICES ASSUME \A x \in Workers : pc'[x] # "dead",
                      NEW p \in Paths, p \notin DOMAIN files'
               PROVE  VersionsOf(p)' = {} \/ Removing(p)'
  BY DEF NoFileNoHistory, Removing, At
<1>3. ASSUME \A x \in Workers : pc[x] # "dead", p \notin DOMAIN files
      PROVE  VersionsOf(p) = {} \/ Removing(p)
  BY <1>3 DEF NoFileNoHistory, Removing, At
<1>4. ASSUME NEW w \in Workers, OutsideStep(w) PROVE VersionsOf(p)' = {} \/ Removing(p)'
  <2>1. UNCHANGED <<files, versions>>
        /\ \A x \in Workers \ {w} : pc'[x] = pc[x] /\ request'[x] = request[x]
    BY <1>1, <1>4, OutsideFrame DEF SameWorker
  <2>2. pc[w] \in {"idle", "lock", "unlock"}
    BY <1>1, <1>4, OutsidePlaces
  <2>3. VersionsOf(p) = {} \/ Removing(p)
    BY <1>2, <1>3, <2>1, <2>2
  <2>4. QED
    BY <2>1, <2>2, <2>3 DEF VersionsOf, Removing, PathOf
<1>5. ASSUME NEW w \in Workers, HandlerStep(w) PROVE VersionsOf(p)' = {} \/ Removing(p)'
  <2>1. /\ request' = request /\ Inside(w) /\ Inside(w)'
        /\ \A x \in Workers \ {w} : pc'[x] = pc[x]
    BY <1>1, <1>5, HandlerFrame DEF SameWorker
  <2>2. \A x \in Workers : pc[x] # "dead"
    BY <1>2, <2>1 DEF Inside, WriteLabels, GetLabels, RemoveLabels
  <2>3. PathOf(w) \in Paths
    BY <2>1, RequestFacts DEF HasRequest
  <2>4. CASE p # PathOf(w)
    <3>1. SameFile(p) /\ \A v : v[1] = p => SameVersion(v)
      BY <1>1, <1>5, <2>3, <2>4, FileFrame, VersionFrame DEF DistinctBasenames
    <3>2. VersionsOf(p)' = VersionsOf(p) /\ p \notin DOMAIN files
      BY <1>2, <3>1 DEF VersionsOf, SameVersion, SameFile
    <3>3. Removing(p) => Removing(p)'
      BY <2>1, <2>4 DEF Removing, PathOf
    <3>4. QED
      BY <1>3, <2>2, <3>2, <3>3
  <2>5. CASE p = PathOf(w)
    <3>1. ASSUME Removing(p) PROVE pc[w] \in {"list", "purge"}
      <4>1. PICK x \in Workers : pc[x] \in {"list", "purge"} /\ PathOf(x) = p
        BY <3>1 DEF Removing
      <4>2. Inside(x) /\ HasCommand(x, "RM")
        BY <4>1 DEF Inside, RemoveLabels, RequestInv
      <4>3. x = w
        BY <2>1, <2>5, <4>1, <4>2, Exclusive DEF HasCommand
      <4>4. QED
        BY <4>1, <4>3
    <3>2. CASE pc'[w] \in {"list", "purge"}
      BY <2>1, <2>5, <3>2 DEF Removing, PathOf
    <3>3. CASE p \notin DOMAIN files /\ versions' = versions /\ pc[w] \notin {"list", "purge"}
      BY <1>3, <2>2, <3>1, <3>3 DEF VersionsOf
    <3>4. CASE HandleWrite(w)
      <4>1. pc[w] \notin {"list", "purge"}
        BY <3>4 DEF At, HandleWrite, NothingToSave, SaveCurrentVersion,
           CopyChunk, Copying, CopyDone, OpenTarget, OpenTargetFails, ReceiveChunk,
           ReceiveError, ReceiveNothing, Starved, ReceiveDone
      <4>2. CASE SaveCurrentVersion(w) \/ CopyChunk(w)
        BY <1>2, <2>5, <4>2 DEF SaveCurrentVersion, CopyChunk, Copying, CopyInv
      <4>3. CASE OpenTarget(w)
        BY <1>2, <2>5, <4>3 DEF OpenTarget, Store
      <4>4. CASE ~(SaveCurrentVersion(w) \/ CopyChunk(w) \/ OpenTarget(w))
        <5>1. versions' = versions /\ DOMAIN files' = DOMAIN files
          <6>1. CASE ReceiveChunk(w)
            BY <6>1 DEF ReceiveChunk, Extend
          <6>2. CASE ~ReceiveChunk(w)
            BY <3>4, <4>4, <6>2 DEF HandleWrite, NothingToSave, CopyDone, OpenTargetFails,
               ReceiveError, ReceiveNothing, ReceiveDone, vars, served, disk
          <6>3. QED
            BY <6>1, <6>2
        <5>2. QED
          BY <1>2, <3>3, <4>1, <5>1
      <4>5. QED
        BY <4>2, <4>3, <4>4
    <3>5. CASE HandleGet(w)
      <4>1. pc[w] \notin {"list", "purge"}
        BY <3>5 DEF At, HandleGet, AnnounceSize, NoSize, OpenSource, OpenSourceFails,
           SendChunk, SendDone
      <4>2. QED
        BY <1>1, <1>2, <3>3, <3>5, <4>1, GetFrame
    <3>6. CASE RemoveFileFails(w) \/ Reply(w)
      BY <1>2, <3>3, <3>6 DEF RemoveFileFails, Reply, At, disk
    <3>7. CASE NoHistory(w)
      BY <3>7 DEF NoHistory, VersionsOf, disk
    <3>8. CASE RemoveDone(w)
      <4>1. At(w, "purge") /\ todo[w] \subseteq seen[w] /\ versions' = versions
        BY <3>8 DEF RemoveDone, disk
      <4>2. VersionsOf(p) = {}
        BY <2>5, <4>1 DEF OwnPurgeInv
      <4>3. QED
        BY <4>1, <4>2 DEF VersionsOf
    <3>9. CASE RemoveFile(w) \/ OpenHistory(w) \/ RemoveVersion(w)
      BY <1>1, <3>2, <3>9 DEF RemoveFile, OpenHistory, RemoveVersion, RunTypes, At, Goto
    <3>10. QED
      BY <1>5, <3>4, <3>5, <3>6, <3>7, <3>8, <3>9 DEF HandlerStep, HandleRemove
  <2>6. QED
    BY <2>4, <2>5
<1>6. ASSUME ServerDies PROVE VersionsOf(p)' = {} \/ Removing(p)'
  <2>1. \A x \in Workers : pc[x] \in {"idle", "closed"}
    BY <1>2, <1>6 DEF ServerDies
  <2>2. DOMAIN files' = DOMAIN files /\ DOMAIN versions' = DOMAIN versions
    BY <1>1, <1>6, DeathDisk
  <2>3. VersionsOf(p) = {}
    BY <1>2, <1>3, <2>1, <2>2 DEF Removing
  <2>4. QED
    BY <2>2, <2>3 DEF VersionsOf
<1>7. ASSUME UNCHANGED served PROVE VersionsOf(p)' = {} \/ Removing(p)'
  BY <1>2, <1>3, <1>7 DEF vars, served, disk, VersionsOf, Removing, PathOf
<1>8. QED
  BY <1>1, <1>4, <1>5, <1>6, <1>7, NextCases

-----------------------------------------------------------------------------
(***************************************************************************)
(* On a disk that works, in a directory of distinct basenames, all the     *)
(* invariants hold together.                                               *)
(***************************************************************************)
LEMMA HistoryInit == Init => HistoryInv
<1> SUFFICES ASSUME Init PROVE HistoryInv
  OBVIOUS
<1>1. \A w \in Workers : pc[w] = "idle"
  BY DEF Init
<1>2. SavedInv /\ OwnPurgeInv
  BY <1>1 DEF SavedInv, OwnPurgeInv, At
<1>3. acked = files
  BY DEF Init
<1>4. RecoverableInv
  BY <1>1, <1>3 DEF RecoverableInv, InFile, FileWriter, At
<1>5. \A v \in DOMAIN versions : v[1] \in DOMAIN files
  <2>1. PICK present \in SUBSET Paths : \E history \in SUBSET present :
          files \in [present -> Contents] /\ versions \in [history \X {1} -> Contents]
    BY DEF Init
  <2>2. PICK history \in SUBSET present :
          files \in [present -> Contents] /\ versions \in [history \X {1} -> Contents]
    BY <2>1
  <2>3. DOMAIN files = present /\ DOMAIN versions = history \X {1}
    BY <2>2
  <2>4. \A v \in history \X {1} : v[1] \in present
    OBVIOUS
  <2>5. QED
    BY <2>3, <2>4
<1>6. NoFileNoHistory
  BY <1>5 DEF NoFileNoHistory, VersionsOf
<1>7. QED
  BY <1>2, <1>4, <1>6 DEF HistoryInv

THEOREM HistoryInvariance ==
  ASSUME ~DiskFaults, DistinctBasenames
  PROVE  Spec => [](HandlersInv /\ CleanInv /\ HistoryInv)
<1>1. Init => HandlersInv /\ CleanInv /\ HistoryInv
  BY InitInv, CleanInit, HistoryInit
<1>2. HandlersInv /\ CleanInv /\ HistoryInv /\ [Next]_vars
        => (HandlersInv /\ CleanInv /\ HistoryInv)'
  <2> SUFFICES ASSUME HandlersInv, CleanInv, HistoryInv, [Next]_vars
               PROVE  (HandlersInv /\ CleanInv /\ HistoryInv)'
    OBVIOUS
  <2>1. HandlersInv' /\ CleanInv' /\ SavedInv' /\ OwnPurgeInv' /\ NoFileNoHistory'
    BY StepInv, CleanStep, SavedStep, OwnPurgesStep, NoHistoryStep DEF HistoryInv
  <2>2. ClockAdvances => RecoverableInv'
    BY RecoverableStep DEF HistoryInv
  <2>3. QED
    BY <2>1, <2>2 DEF HistoryInv, ClockAdvances
<1>3. QED
  BY <1>1, <1>2, PTL DEF Spec

(***************************************************************************)
(* What a client was told is stored stays recoverable, through any later   *)
(* writes and any number of deaths of the server, as long as the clock     *)
(* advances between two saves (request_handler.c:20).                      *)
(***************************************************************************)
THEOREM AcknowledgedWritesSurvive ==
  ASSUME ~DiskFaults, DistinctBasenames, ClockAdvances
  PROVE  Spec => []AckedRecoverable
<1>1. HistoryInv => AckedRecoverable
  BY DEF HistoryInv, RecoverableInv, InFile, InHistory, AckedRecoverable
<1>2. QED
  BY <1>1, HistoryInvariance, PTL

(***************************************************************************)
(* As long as the server lives, a path without a file has no versions but  *)
(* those that its RM is about to remove.                                   *)
(***************************************************************************)
THEOREM NoOrphanedVersions ==
  ASSUME ~DiskFaults, DistinctBasenames
  PROVE  Spec => []NoFileNoHistory
<1>1. HistoryInv => NoFileNoHistory
  BY DEF HistoryInv
<1>2. QED
  BY <1>1, HistoryInvariance, PTL

-----------------------------------------------------------------------------
(***************************************************************************)
(* What a step may never do to a version.                                  *)
(***************************************************************************)
LEMMA RemovesOwnVersion ==
  ASSUME DistinctBasenames, HandlersInv, [Next]_vars,
         NEW v \in DOMAIN versions \ DOMAIN versions'
  PROVE  \E w \in Workers : At(w, "purge") /\ PathOf(w) = v[1]
<1> USE DEF HandlersInv
<1>1. DiskTypes /\ RunTypes
  BY TypesSplit
<1>2. ASSUME NEW w \in Workers, OutsideStep(w) PROVE FALSE
  BY <1>1, <1>2, OutsideFrame
<1>3. ASSUME NEW w \in Workers, HandlerStep(w)
      PROVE  At(w, "purge") /\ PathOf(w) = v[1]
  <2>1. CASE HandleWrite(w)
    <3>1. \/ versions' = versions
          \/ versions' = Store(versions, <<PathOf(w), clock'>>, <<>>)
          \/ \E chunk : versions' = Extend(versions, Version(w), chunk)
      BY <2>1 DEF HandleWrite, NothingToSave, SaveCurrentVersion, CopyChunk, CopyDone,
         OpenTarget, OpenTargetFails, ReceiveChunk, ReceiveError, ReceiveNothing,
         ReceiveDone, vars, served, disk
    <3>2. DOMAIN versions \subseteq DOMAIN versions'
      BY <1>1, <3>1 DEF Store, Extend, DiskTypes
    <3>3. QED
      BY <3>2
  <2>2. CASE HandleGet(w)
    BY <1>1, <2>2, GetFrame
  <2>3. CASE HandleRemove(w) \/ Reply(w)
    <3>1. RemoveVersion(w)
      BY <2>3 DEF HandleRemove, RemoveFile, RemoveFileFails, OpenHistory, NoHistory,
         RemoveDone, Reply, disk
    <3>2. At(w, "purge") /\ PathOf(w) \in Paths
      BY <3>1, RequestFacts DEF RemoveVersion, HasRequest, Inside, RemoveLabels, At
    <3>3. \/ versions' = versions
          \/ \E u \in todo[w] \cup Prior(w) : versions' = Erase(versions, u)
      BY <3>1 DEF RemoveVersion
    <3>4. v \in todo[w] \cup Prior(w)
      BY <3>3 DEF Erase, Restrict
    <3>5. <<v[1], PathOf(w)>> \in StartsWith
      BY <3>2, <3>4 DEF Prior, PurgeInv
    <3>6. v[1] \in Paths
      BY <1>1 DEF DiskTypes, Names
    <3>7. QED
      BY <3>2, <3>5, <3>6 DEF DistinctBasenames
  <2>4. QED
    BY <1>3, <2>1, <2>2, <2>3 DEF HandlerStep
<1>4. ASSUME ServerDies PROVE FALSE
  BY <1>1, <1>4, DeathDisk
<1>5. ASSUME UNCHANGED served PROVE FALSE
  BY <1>5 DEF vars, served, disk
<1>6. QED
  BY <1>1, <1>2, <1>3, <1>4, <1>5, NextCases

(***************************************************************************)
(* Where no basename is the beginning of another one, a version disappears *)
(* only by an RM of its own path: that a removal takes along the versions  *)
(* of other files is the fault of the comparison of beginnings alone.      *)
(***************************************************************************)
THEOREM RemovalsRemoveOwnVersions ==
  ASSUME DistinctBasenames
  PROVE  Spec => RemovesOwnVersions
<1>1. HandlersInv /\ [Next]_vars =>
        [\A v \in DOMAIN versions \ DOMAIN versions' :
           \E w \in Workers : At(w, "purge") /\ PathOf(w) = v[1]]_vars
  BY RemovesOwnVersion
<1>2. QED
  BY <1>1, Invariance, PTL DEF Spec, RemovesOwnVersions

-----------------------------------------------------------------------------
(* The refinement of VersionStore *)

StoreInv == HandlersInv /\ CleanInv /\ HistoryInv

LEMMA StoreTypes ==
  /\ StoreInv => DiskTypes /\ RunTypes /\ HandlersInv
  /\ StoreInv' => DiskTypes' /\ RunTypes' /\ HandlersInv'
  BY TypesSplit DEF StoreInv, HandlersInv

(***************************************************************************)
(* Who receives a file is the only one to do so: the choice of the         *)
(* refinement mapping is unique.                                           *)
(***************************************************************************)
LEMMA OneReceiver ==
  ASSUME StoreInv, NEW w \in Workers, NEW p, FileWriter(w, p)
  PROVE  Receiving(p) /\ Receiver(p) = w
<1>1. \A x \in Workers : FileWriter(x, p) => Inside(x) /\ PathOf(x) = p /\ HasCommand(x, "WRITE")
  BY DEF StoreInv, HandlersInv, FileWriter, At, Inside, WriteLabels, RequestInv
<1>2. \A x \in Workers : FileWriter(x, p) => x = w
  BY <1>1, Exclusive DEF StoreInv, HandlersInv, HasCommand
<1>3. QED
  BY <1>2 DEF Receiving, Receiver

LEMMA OneReceiverNext ==
  ASSUME StoreInv', NEW w \in Workers, NEW p, FileWriter(w, p)'
  PROVE  Receiving(p)' /\ Receiver(p)' = w
<1>1. \A x \in Workers :
        FileWriter(x, p)' => Inside(x)' /\ PathOf(x)' = p /\ HasCommand(x, "WRITE")'
  BY DEF StoreInv, HandlersInv, FileWriter, At, Inside, WriteLabels, RequestInv
<1>2. PathOf(w)' \in Paths
  BY <1>1 DEF StoreInv, HandlersInv, RequestInv, HasRequest, Request, PathOf
<1>3. \A x \in Workers : FileWriter(x, p)' => x = w
  BY <1>1, <1>2 DEF StoreInv, HandlersInv, HeldInv, HasCommand, Locks!Exclusion
<1>4. QED
  BY <1>3 DEF Receiving, Receiver

(***************************************************************************)
(* The file of a path as the store shows it: while it is received, what    *)
(* was saved of it.                                                        *)
(***************************************************************************)
Shown(v) == v \in DOMAIN versions /\ v \notin Pending

LEMMA CurrentFacts ==
  ASSUME StoreInv, NEW p \in Paths
  PROVE  /\ \A w \in Workers : FileWriter(w, p) =>
              /\ p \in DOMAIN Current <=> stamp[w] # 0
              /\ stamp[w] # 0 => Current[p] = versions[Version(w)]
         /\ (\A w \in Workers : ~FileWriter(w, p)) =>
              /\ p \in DOMAIN Current <=> p \in DOMAIN files
              /\ p \in DOMAIN files => Current[p] = files[p]
         /\ History[p] = {<<v, versions[v]>> : v \in {u \in DOMAIN versions : u[1] = p /\ Shown(u)}}
<1>1. ASSUME NEW w \in Workers, FileWriter(w, p)
      PROVE  /\ p \in DOMAIN Current <=> stamp[w] # 0
             /\ stamp[w] # 0 => Current[p] = versions[Version(w)]
  BY <1>1, OneReceiver DEF Current, Present
<1>2. ASSUME \A w \in Workers : ~FileWriter(w, p)
      PROVE  /\ p \in DOMAIN Current <=> p \in DOMAIN files
             /\ p \in DOMAIN files => Current[p] = files[p]
  BY <1>2 DEF Current, Present, Receiving
<1>3. VersionsOf(p) \ Pending = {u \in DOMAIN versions : u[1] = p /\ Shown(u)}
  BY DEF VersionsOf, Shown
<1>4. QED
  BY <1>1, <1>2, <1>3 DEF History

LEMMA CurrentFactsNext ==
  ASSUME StoreInv', NEW p \in Paths
  PROVE  /\ \A w \in Workers : FileWriter(w, p)' =>
              /\ p \in DOMAIN Current' <=> stamp'[w] # 0
              /\ stamp'[w] # 0 => Current'[p] = versions'[Version(w)']
         /\ (\A w \in Workers : ~FileWriter(w, p)') =>
              /\ p \in DOMAIN Current' <=> p \in DOMAIN files'
              /\ p \in DOMAIN files' => Current'[p] = files'[p]
         /\ History'[p] =
              {<<v, versions'[v]>> : v \in {u \in DOMAIN versions' : u[1] = p /\ Shown(u)'}}
<1>1. ASSUME NEW w \in Workers, FileWriter(w, p)'
      PROVE  /\ p \in DOMAIN Current' <=> stamp'[w] # 0
             /\ stamp'[w] # 0 => Current'[p] = versions'[Version(w)']
  BY <1>1, OneReceiverNext DEF Current, Present
<1>2. ASSUME \A w \in Workers : ~FileWriter(w, p)'
      PROVE  /\ p \in DOMAIN Current' <=> p \in DOMAIN files'
             /\ p \in DOMAIN files' => Current'[p] = files'[p]
  BY <1>2 DEF Current, Present, Receiving
<1>3. (VersionsOf(p) \ Pending)' = {u \in DOMAIN versions' : u[1] = p /\ Shown(u)'}
  BY DEF VersionsOf, Shown
<1>4. QED
  BY <1>1, <1>2, <1>3 DEF History

(***************************************************************************)
(* What leaves a path as the store shows it.                               *)
(***************************************************************************)
Hides(x, v) == pc[x] \in {"copy", "open", "receive"} /\ Version(x) = v

LEMMA PendingFacts ==
  /\ \A v : v \in Pending <=> \E x \in Workers : Hides(x, v)
  /\ \A v : v \in Pending' <=> \E x \in Workers : Hides(x, v)'
  BY DEF Pending, Hides

LEMMA HistoryKept ==
  ASSUME StoreInv, StoreInv', NEW p \in Paths,
         \A v : v[1] = p => /\ Shown(v)' <=> Shown(v)
                            /\ Shown(v) => versions'[v] = versions[v]
  PROVE  VersionedFiles!Keeps(p)
<1> DEFINE S == {u \in DOMAIN versions : u[1] = p /\ Shown(u)}
<1>1. {u \in DOMAIN versions' : u[1] = p /\ Shown(u)'} = S
  BY DEF Shown
<1>2. \A v \in S : versions'[v] = versions[v]
  OBVIOUS
<1>3. /\ History[p] = {<<v, versions[v]>> : v \in S}
      /\ History'[p] = {<<v, versions'[v]>> : v \in S}
  BY <1>1, CurrentFacts, CurrentFactsNext
<1> HIDE DEF S
<1>4. {<<v, versions'[v]>> : v \in S} = {<<v, versions[v]>> : v \in S}
  BY <1>2
<1>5. QED
  BY <1>3, <1>4 DEF VersionedFiles!Keeps

LEMMA FileKept ==
  ASSUME StoreInv, StoreInv', NEW p \in Paths, SameFile(p),
         \A x \in Workers : ~FileWriter(x, p) /\ ~FileWriter(x, p)'
  PROVE  VersionedFiles!SameFile(p)
  BY CurrentFacts, CurrentFactsNext DEF SameFile, VersionedFiles!SameFile,
     VersionedFiles!Exists

LEMMA ReceivedFileKept ==
  ASSUME StoreInv, StoreInv', NEW p \in Paths, NEW w \in Workers,
         FileWriter(w, p), FileWriter(w, p)', stamp'[w] = stamp[w],
         SameVersion(Version(w))
  PROVE  VersionedFiles!SameFile(p)
<1>1. Version(w)' = Version(w)
  BY DEF FileWriter, Version
<1>2. stamp[w] # 0 => versions'[Version(w)] = versions[Version(w)]
  BY DEF StoreInv, HistoryInv, SavedInv, FileWriter, SameVersion
<1>3. QED
  BY <1>1, <1>2, CurrentFacts, CurrentFactsNext DEF VersionedFiles!SameFile,
     VersionedFiles!Exists

(***************************************************************************)
(* A step of one worker, and the paths of the others.                      *)
(***************************************************************************)
LEMMA OthersWrite ==
  ASSUME NEW x \in Workers, SameWorker(x), request'[x] = request[x]
  PROVE  \A n : /\ FileWriter(x, n)' <=> FileWriter(x, n)
                /\ Hides(x, n)' <=> Hides(x, n)
  BY DEF FileWriter, Hides, Version, PathOf, At, SameWorker

LEMMA Elsewhere ==
  ASSUME StoreInv, StoreInv', NEW w \in Workers, NEW p \in Paths,
         \A x \in Workers \ {w} : SameWorker(x) /\ request'[x] = request[x],
         SameFile(p), \A v : v[1] = p => SameVersion(v),
         ~FileWriter(w, p), ~FileWriter(w, p)',
         \A v : v[1] = p => (Hides(w, v)' <=> Hides(w, v)) \/ v \notin DOMAIN versions
  PROVE  VersionedFiles!Untouched(p)
<1>1. \A x \in Workers : FileWriter(x, p)' <=> FileWriter(x, p)
  BY OthersWrite
<1>2. ASSUME NEW v, v[1] = p
      PROVE  (Shown(v)' <=> Shown(v)) /\ (Shown(v) => versions'[v] = versions[v])
  <2>1. SameVersion(v)
    BY <1>2
  <2>2. CASE v \notin DOMAIN versions
    BY <2>1, <2>2 DEF Shown, SameVersion
  <2>3. CASE v \in DOMAIN versions
    <3>1. \A x \in Workers : Hides(x, v)' <=> Hides(x, v)
      BY <1>2, <2>3, OthersWrite
    <3>2. QED
      BY <2>1, <3>1, PendingFacts DEF Shown, SameVersion
  <2>4. QED
    BY <2>2, <2>3
<1>3. VersionedFiles!Keeps(p)
  BY <1>2, HistoryKept
<1>4. CASE \A x \in Workers : ~FileWriter(x, p)
  BY <1>1, <1>3, <1>4, FileKept DEF VersionedFiles!Untouched
<1>5. CASE \E x \in Workers : FileWriter(x, p)
  <2>1. PICK x \in Workers : FileWriter(x, p)
    BY <1>5
  <2>2. FileWriter(x, p)' /\ x # w
    BY <1>1, <2>1
  <2>3. stamp'[x] = stamp[x] /\ SameVersion(Version(x))
    BY <2>1, <2>2 DEF SameWorker, Version, FileWriter
  <2>4. QED
    BY <1>3, <2>1, <2>2, <2>3, ReceivedFileKept DEF VersionedFiles!Untouched
<1>6. QED
  BY <1>4, <1>5

LEMMA OutsideUntouched ==
  ASSUME StoreInv, StoreInv', NEW w \in Workers, OutsideStep(w), NEW p \in Paths
  PROVE  VersionedFiles!Untouched(p)
<1>1. UNCHANGED <<files, versions>>
      /\ \A x \in Workers \ {w} : SameWorker(x) /\ request'[x] = request[x]
  BY StoreTypes, OutsideFrame
<1>2. pc[w] \notin {"copy", "open", "receive"} /\ pc'[w] \notin {"copy", "open", "receive"}
  BY StoreTypes, OutsidePlaces DEF HandlersInv
<1>3. ~FileWriter(w, p) /\ ~FileWriter(w, p)'
  BY <1>2 DEF FileWriter, At
<1>4. \A v : ~Hides(w, v) /\ ~Hides(w, v)'
  BY <1>2 DEF Hides
<1>5. SameFile(p) /\ \A v : SameVersion(v)
  BY <1>1 DEF SameFile, SameVersion
<1>6. QED
  BY <1>1, <1>3, <1>4, <1>5, Elsewhere

LEMMA OtherPathsUntouched ==
  ASSUME StoreInv, StoreInv', NEW w \in Workers, HandlerStep(w),
         NEW p \in Paths, p # PathOf(w), DistinctBasenames
  PROVE  VersionedFiles!Untouched(p)
<1>1. /\ request' = request /\ Inside(w) /\ \A x \in Workers \ {w} : SameWorker(x)
  BY StoreTypes, HandlerFrame
<1>2. PathOf(w) \in Paths /\ PathOf(w)' = PathOf(w)
  BY <1>1, RequestFacts DEF HasRequest, PathOf, StoreInv, HandlersInv
<1>3. SameFile(p) /\ \A v : v[1] = p => SameVersion(v)
  BY <1>2, StoreTypes, FileFrame, VersionFrame DEF DistinctBasenames, HandlersInv
<1>4. ~FileWriter(w, p) /\ ~FileWriter(w, p)'
  BY <1>2 DEF FileWriter
<1>5. \A v : v[1] = p => ~Hides(w, v) /\ ~Hides(w, v)'
  BY <1>2 DEF Hides, Version
<1>6. QED
  BY <1>1, <1>3, <1>4, <1>5, Elsewhere

-----------------------------------------------------------------------------
(***************************************************************************)
(* A step of a handler, and the path of its request: nobody else writes it *)
(* or its versions.                                                        *)
(***************************************************************************)
LEMMA AloneHere ==
  ASSUME StoreInv, NEW w \in Workers, HandlerStep(w), NEW p, p = PathOf(w)
  PROVE  /\ p \in Paths /\ PathOf(w)' = p /\ request' = request
         /\ \A x \in Workers \ {w} :
              /\ SameWorker(x)
              /\ ~FileWriter(x, p) /\ ~FileWriter(x, p)'
              /\ \A v : v[1] = p => ~Hides(x, v) /\ ~Hides(x, v)'
<1>1. /\ request' = request /\ Inside(w) /\ PathOf(w)' = p
      /\ \A x \in Workers \ {w} : SameWorker(x)
  BY StoreTypes, HandlerFrame DEF PathOf
<1>2. p \in Paths
  BY <1>1, RequestFacts DEF HasRequest, StoreInv, HandlersInv
<1>3. ASSUME NEW x \in Workers \ {w}, pc[x] \in WriteLabels PROVE PathOf(x) # p
  <2>1. Inside(x) /\ HasCommand(x, "WRITE")
    BY <1>3 DEF Inside, StoreInv, HandlersInv, RequestInv
  <2>2. QED
    BY <1>1, <2>1, Exclusive DEF StoreInv, HandlersInv, HasCommand
<1>4. ASSUME NEW x \in Workers \ {w}
      PROVE  ~FileWriter(x, p) /\ \A v : v[1] = p => ~Hides(x, v)
  BY <1>3 DEF FileWriter, Hides, Version, At, WriteLabels
<1>5. QED
  BY <1>1, <1>2, <1>4, OthersWrite

LEMMA QuietSteps ==
  ASSUME ~DiskFaults, StoreInv, StoreInv', NEW w \in Workers, HandlerStep(w), NEW p, p = PathOf(w),
         UNCHANGED <<files, versions>>, ~At(w, "receive"), pc'[w] # "receive",
         pc'[w] # "copy"
  PROVE  VersionedFiles!Untouched(p)
<1>1. p \in Paths /\ PathOf(w)' = p /\ request' = request
      /\ \A x \in Workers \ {w} : SameWorker(x)
  BY AloneHere
<1>2. SameFile(p) /\ \A v : SameVersion(v)
  BY DEF SameFile, SameVersion
<1>3. ~FileWriter(w, p) /\ ~FileWriter(w, p)'
  BY DEF FileWriter, At
<1>4. ASSUME NEW v \in DOMAIN versions PROVE Hides(w, v)' <=> Hides(w, v)
  <2>1. CASE pc'[w] # "open"
    <3>1. ~Hides(w, v)'
      BY <2>1 DEF Hides
    <3>2. pc[w] \notin {"copy", "open"}
      <4> USE DEF RunTypes, At, Goto
      <4>1. CASE HandleWrite(w)
        BY <2>1, <4>1, StoreTypes DEF HandleWrite, NothingToSave, SaveCurrentVersion,
           CopyChunk, CopyDone, OpenTarget, OpenTargetFails, ReceiveChunk, ReceiveError,
           ReceiveNothing, Starved, ReceiveDone
      <4>2. CASE HandleGet(w)
        BY <4>2 DEF HandleGet, AnnounceSize, NoSize, OpenSource, OpenSourceFails,
           SendChunk, SendDone
      <4>3. CASE HandleRemove(w) \/ Reply(w)
        BY <4>3 DEF HandleRemove, RemoveFile, RemoveFileFails, OpenHistory, NoHistory,
           RemoveVersion, RemoveDone, Reply
      <4>4. QED
        BY <4>1, <4>2, <4>3 DEF HandlerStep
    <3>3. QED
      BY <3>1, <3>2 DEF Hides, At
  <2>2. CASE pc'[w] = "open"
    <3>1. NothingToSave(w) \/ CopyDone(w)
      BY <2>2, StoreTypes, Arrivals
    <3>2. CASE NothingToSave(w)
      <4>1. pc[w] = "save" /\ stamp' = stamp /\ stamp[w] = 0
        BY <3>2 DEF NothingToSave, At, StoreInv, HandlersInv, FreshInv
      <4>2. v[2] # 0
        BY StoreTypes DEF HandlersInv, StampInv, DiskTypes, Names
      <4>3. QED
        BY <4>1, <4>2 DEF Hides, Version
    <3>3. CASE CopyDone(w)
      <4>1. pc[w] = "copy" /\ stamp' = stamp
        BY <3>3 DEF CopyDone, At
      <4>2. QED
        BY <1>1, <2>2, <4>1 DEF Hides, Version
    <3>4. QED
      BY <3>1, <3>2, <3>3
  <2>3. QED
    BY <2>1, <2>2
<1>5. QED
  BY <1>1, <1>2, <1>3, <1>4, Elsewhere

LEMMA SaveSteps ==
  ASSUME ClockAdvances, StoreInv, StoreInv', NEW w \in Workers, NEW p, p = PathOf(w),
         SaveCurrentVersion(w) \/ CopyChunk(w)
  PROVE  VersionedFiles!Untouched(p)
<1>1. HandlerStep(w)
  BY DEF HandlerStep, HandleWrite
<1>2. p \in Paths /\ PathOf(w)' = p
      /\ \A x \in Workers \ {w} :
           /\ ~FileWriter(x, p) /\ ~FileWriter(x, p)'
           /\ \A v : v[1] = p => ~Hides(x, v) /\ ~Hides(x, v)'
  BY <1>1, AloneHere
<1>3. /\ pc[w] \in {"save", "copy"} /\ pc'[w] = "copy" /\ files' = files
      /\ CopyChunk(w) => pc[w] = "copy" /\ stamp' = stamp
  BY StoreTypes DEF SaveCurrentVersion, CopyChunk, Copying, At, Goto, RunTypes
<1>4. ~FileWriter(w, p) /\ ~FileWriter(w, p)' /\ SameFile(p)
  BY <1>3 DEF FileWriter, At, SameFile
<1>5. \A v : v[1] = p => (v \in Pending => Hides(w, v)) /\ (v \in Pending' => Hides(w, v)')
  BY <1>2, PendingFacts
<1>6. Version(w)' \in Pending'
  BY <1>3, PendingFacts DEF Hides
<1>7. ASSUME NEW v, v[1] = p
      PROVE  (Shown(v)' <=> Shown(v)) /\ (Shown(v) => versions'[v] = versions[v])
  <2>1. CASE SaveCurrentVersion(w)
    <3>1. /\ versions' = Store(versions, Version(w)', <<>>) /\ stamp'[w] = clock'
          /\ pc[w] = "save"
      BY <1>2, <2>1, StoreTypes DEF SaveCurrentVersion, Version, RunTypes, At
    <3>2. Version(w)' \notin DOMAIN versions
      <4>1. \A u \in DOMAIN versions : u[2] \in Nat /\ u[2] <= clock
        BY StoreTypes DEF StoreInv, HandlersInv, StampInv, DiskTypes, Names
      <4>2. clock \in Nat /\ clock < clock' /\ clock' \in Nat
        BY <2>1, StoreTypes, NextTime DEF RunTypes
      <4>3. Version(w)'[2] = clock'
        BY <3>1 DEF Version
      <4>4. \A u \in DOMAIN versions : u # Version(w)'
        BY <4>1, <4>2, <4>3
      <4>5. QED
        BY <4>4
    <3>3. v \notin Pending
      BY <1>5, <1>7, <3>1 DEF Hides
    <3>4. CASE v = Version(w)'
      BY <1>6, <3>2, <3>4 DEF Shown
    <3>5. CASE v # Version(w)'
      <4>1. v \notin Pending' /\ SameVersion(v)
        BY <1>5, <1>7, <3>1, <3>5 DEF Hides, SameVersion, Store
      <4>2. QED
        BY <3>3, <4>1 DEF Shown, SameVersion
    <3>6. QED
      BY <3>4, <3>5
  <2>2. CASE CopyChunk(w)
    <3>1. \/ versions' = versions
          \/ \E chunk : versions' = Extend(versions, Version(w), chunk)
      BY <2>2 DEF CopyChunk
    <3>2. Version(w)' = Version(w) /\ Version(w) \in Pending
      BY <1>2, <1>3, <2>2, PendingFacts DEF Version, Hides
    <3>3. CASE v = Version(w)
      BY <1>6, <3>2, <3>3 DEF Shown
    <3>4. CASE v # Version(w)
      <4>1. v \notin Pending /\ v \notin Pending'
        BY <1>5, <1>7, <3>2, <3>4 DEF Hides
      <4>2. SameVersion(v)
        BY <3>1, <3>4, StoreTypes DEF SameVersion, Extend, DiskTypes
      <4>3. QED
        BY <4>1, <4>2 DEF Shown, SameVersion
    <3>5. QED
      BY <3>3, <3>4
  <2>3. QED
    BY <2>1, <2>2
<1>8. VersionedFiles!Keeps(p)
  BY <1>2, <1>7, HistoryKept
<1>9. QED
  BY <1>2, <1>4, <1>8, FileKept DEF VersionedFiles!Untouched

LEMMA ReceiveSteps ==
  ASSUME StoreInv, StoreInv', NEW w \in Workers, NEW p, p = PathOf(w),
         OpenTarget(w) \/ ReceiveChunk(w)
  PROVE  VersionedFiles!Untouched(p)
<1>1. HandlerStep(w)
  BY DEF HandlerStep, HandleWrite
<1>2. p \in Paths /\ PathOf(w)' = p
      /\ \A x \in Workers \ {w} :
           /\ ~FileWriter(x, p) /\ ~FileWriter(x, p)'
           /\ \A v : v[1] = p => ~Hides(x, v) /\ ~Hides(x, v)'
  BY <1>1, AloneHere
<1>3. /\ pc[w] \in {"open", "receive"} /\ pc'[w] = "receive"
      /\ UNCHANGED <<versions, stamp>>
      /\ OpenTarget(w) => pc[w] = "open"
      /\ ReceiveChunk(w) => pc[w] = "receive"
  BY StoreTypes DEF OpenTarget, ReceiveChunk, At, Goto, RunTypes
<1>4. Version(w)' = Version(w) /\ FileWriter(w, p)'
  BY <1>2, <1>3 DEF Version, FileWriter, At
<1>5. \A v : Hides(w, v)' <=> Hides(w, v)
  BY <1>3, <1>4 DEF Hides
<1>6. \A v : v[1] = p => (Shown(v)' <=> Shown(v)) /\ versions'[v] = versions[v]
  BY <1>2, <1>3, <1>5, PendingFacts DEF Shown
<1>7. VersionedFiles!Keeps(p)
  BY <1>2, <1>6, HistoryKept
<1>8. CASE ReceiveChunk(w)
  <2>1. FileWriter(w, p) /\ SameVersion(Version(w)) /\ stamp'[w] = stamp[w]
    BY <1>3, <1>8 DEF FileWriter, At, SameVersion
  <2>2. QED
    BY <1>2, <1>4, <1>7, <2>1, ReceivedFileKept DEF VersionedFiles!Untouched
<1>9. CASE OpenTarget(w)
  <2>1. At(w, "open") /\ \A x \in Workers : ~FileWriter(x, p)
    BY <1>2, <1>3, <1>9 DEF FileWriter, At
  <2>2. /\ p \in DOMAIN files <=> stamp[w] # 0
        /\ stamp[w] # 0 => versions[Version(w)] = files[p]
    BY <2>1 DEF StoreInv, HistoryInv, SavedInv
  <2>3. /\ p \in DOMAIN Current <=> stamp[w] # 0
        /\ stamp[w] # 0 => Current[p] = versions[Version(w)]
    BY <1>2, <2>1, <2>2, CurrentFacts
  <2>4. /\ p \in DOMAIN Current' <=> stamp[w] # 0
        /\ stamp[w] # 0 => Current'[p] = versions[Version(w)]
    BY <1>2, <1>3, <1>4, CurrentFactsNext
  <2>5. VersionedFiles!SameFile(p)
    BY <2>3, <2>4 DEF VersionedFiles!SameFile, VersionedFiles!Exists
  <2>6. QED
    BY <1>7, <2>5 DEF VersionedFiles!Untouched
<1>10. QED
  BY <1>8, <1>9

(***************************************************************************)
(* A version that is no longer hidden joins the history.                   *)
(***************************************************************************)
LEMMA HistoryGains ==
  ASSUME StoreInv, StoreInv', NEW p \in Paths, NEW u, u[1] = p, NEW C,
         ~Shown(u), Shown(u)', versions'[u] \in C,
         \A v : v[1] = p /\ v # u => /\ Shown(v)' <=> Shown(v)
                                     /\ Shown(v) => versions'[v] = versions[v]
  PROVE  VersionedFiles!Gains(p, C)
<1> DEFINE S == {v \in DOMAIN versions : v[1] = p /\ Shown(v)}
<1>1. {v \in DOMAIN versions' : v[1] = p /\ Shown(v)'} = S \cup {u}
  BY DEF Shown
<1>2. u \notin S /\ \A v \in S : versions'[v] = versions[v]
  OBVIOUS
<1>3. /\ History[p] = {<<v, versions[v]>> : v \in S}
      /\ History'[p] = {<<v, versions'[v]>> : v \in S \cup {u}}
  BY <1>1, CurrentFacts, CurrentFactsNext
<1> HIDE DEF S
<1>4. History'[p] = History[p] \cup {<<u, versions'[u]>>}
  BY <1>2, <1>3
<1>5. <<u, versions'[u]>> \notin History[p]
  BY <1>2, <1>3
<1>6. QED
  BY <1>4, <1>5 DEF VersionedFiles!Gains

(***************************************************************************)
(* The end of an upload is the write: the file is the client's contents,   *)
(* and what it was before is in the history.                               *)
(***************************************************************************)
LEMMA UploadWrites ==
  ASSUME ~DiskFaults, StoreInv, StoreInv', NEW w \in Workers, NEW p, p = PathOf(w),
         ReceiveDone(w)
  PROVE  VersionedFiles!Write(p)
<1>1. HandlerStep(w)
  BY DEF HandlerStep, HandleWrite
<1>2. p \in Paths /\ PathOf(w)' = p
      /\ \A x \in Workers \ {w} :
           /\ ~FileWriter(x, p) /\ ~FileWriter(x, p)'
           /\ \A v : v[1] = p => ~Hides(x, v) /\ ~Hides(x, v)'
  BY <1>1, AloneHere
<1>3. /\ pc[w] = "receive" /\ pc'[w] = "reply" /\ ~Remaining(w)
      /\ UNCHANGED <<files, versions, stamp>>
  BY StoreTypes DEF ReceiveDone, At, Goto, RunTypes
<1>4. FileWriter(w, p) /\ \A x \in Workers : ~FileWriter(x, p)'
  BY <1>2, <1>3 DEF FileWriter, At
<1>5. p \in DOMAIN files /\ files[p] = Uploading(w) /\ Uploading(w) \in Contents
  <2>1. HasRequest(w) /\ HasCommand(w, "WRITE")
    BY <1>3 DEF HasRequest, Inside, WriteLabels, StoreInv, HandlersInv, RequestInv
  <2>2. Uploading(w) \in Contents /\ Uploading(w) \in Seq(Chunks) /\ pos[w] \in Nat
    BY <2>1, RequestFacts, StoreTypes DEF StoreInv, HandlersInv, RequestInv, RunTypes
  <2>3. /\ p \in DOMAIN files /\ pos[w] <= Len(Uploading(w))
        /\ files[p] = SubSeq(Uploading(w), 1, pos[w])
    BY <1>3 DEF StoreInv, CleanInv, At
  <2>4. pos[w] = Len(Uploading(w))
    BY <1>3, <2>2, <2>3 DEF Remaining
  <2>5. QED
    BY <2>2, <2>3, <2>4, PrefixFacts
<1>6. p \in DOMAIN Current' /\ Current'[p] = Uploading(w)
  BY <1>2, <1>3, <1>4, <1>5, CurrentFactsNext
<1>7. \A v : ~Hides(w, v)' /\ (Hides(w, v) <=> v = Version(w))
  BY <1>3 DEF Hides
<1>8. \A v : v[1] = p => /\ v \notin Pending'
                         /\ v \in Pending <=> v = Version(w)
  BY <1>2, <1>7, PendingFacts
<1>9. IF VersionedFiles!Exists(p) THEN VersionedFiles!Gains(p, {Current[p]})
      ELSE VersionedFiles!Keeps(p)
  <2>1. CASE stamp[w] = 0
    <3>1. \A v \in DOMAIN versions : v # Version(w)
      BY <2>1, StoreTypes DEF HandlersInv, StampInv, DiskTypes, Names, Version
    <3>2. VersionedFiles!Keeps(p)
      BY <1>2, <1>3, <1>8, <3>1, HistoryKept DEF Shown
    <3>3. QED
      BY <1>2, <1>4, <2>1, <3>2, CurrentFacts DEF VersionedFiles!Exists
  <2>2. CASE stamp[w] # 0
    <3>1. Version(w) \in DOMAIN versions
      BY <1>3, <2>2 DEF StoreInv, HistoryInv, SavedInv, At
    <3>2. VersionedFiles!Exists(p) /\ Current[p] = versions[Version(w)]
      BY <1>2, <1>4, <2>2, CurrentFacts DEF VersionedFiles!Exists
    <3>3. PICK u : u = Version(w)
      OBVIOUS
    <3>4. u[1] = p /\ ~Shown(u) /\ Shown(u)' /\ versions'[u] \in {Current[p]}
      BY <1>3, <1>8, <3>1, <3>2, <3>3 DEF Version, Shown
    <3>5. \A v : v[1] = p /\ v # u => (Shown(v)' <=> Shown(v)) /\ versions'[v] = versions[v]
      BY <1>3, <1>8, <3>3 DEF Shown
    <3>6. VersionedFiles!Gains(p, {Current[p]})
      BY <1>2, <3>4, <3>5, HistoryGains
    <3>7. QED
      BY <3>2, <3>6
  <2>3. QED
    BY <2>1, <2>2
<1>10. p \notin Deleting
  <2>1. ASSUME NEW x \in Workers, pc[x] \in {"remove", "list", "purge"}, PathOf(x) = p
        PROVE  FALSE
    <3>1. Inside(x) /\ HasCommand(x, "RM") /\ Inside(w) /\ x # w
      BY <1>3, <2>1 DEF Inside, RemoveLabels, WriteLabels, StoreInv, HandlersInv, RequestInv
    <3>2. QED
      BY <2>1, <3>1, Exclusive DEF StoreInv, HandlersInv, HasCommand
  <2>2. QED
    BY <2>1 DEF Deleting
<1>11. VersionedFiles!Replaces(p, {Uploading(w)})
  BY <1>6, <1>9 DEF VersionedFiles!Replaces
<1>12. QED
  BY <1>5, <1>10, <1>11 DEF VersionedFiles!Write

(***************************************************************************)
(* RM: the file goes, then its history shrinks.                            *)
(***************************************************************************)
LEMMA RemoveSteps ==
  ASSUME ~DiskFaults, StoreInv, StoreInv', NEW w \in Workers, NEW p, p = PathOf(w)
  PROVE  /\ RemoveFile(w) => VersionedFiles!Delete(p)
         /\ RemoveVersion(w) => VersionedFiles!Forget(p)
<1> SUFFICES ASSUME RemoveFile(w) \/ RemoveVersion(w)
             PROVE  /\ RemoveFile(w) => VersionedFiles!Delete(p)
                    /\ RemoveVersion(w) => VersionedFiles!Forget(p)
  OBVIOUS
<1>1. HandlerStep(w)
  BY DEF HandlerStep, HandleRemove
<1>2. p \in Paths /\ PathOf(w)' = p
      /\ \A x \in Workers \ {w} :
           /\ ~FileWriter(x, p) /\ ~FileWriter(x, p)'
           /\ \A v : v[1] = p => ~Hides(x, v) /\ ~Hides(x, v)'
  BY <1>1, AloneHere
<1>3. /\ pc[w] \in {"remove", "purge"} /\ pc'[w] \in {"list", "purge"}
  BY StoreTypes DEF RemoveFile, RemoveVersion, At, Goto, RunTypes
<1>4. \A x \in Workers : ~FileWriter(x, p) /\ ~FileWriter(x, p)'
  BY <1>2, <1>3 DEF FileWriter, At
<1>5. \A v : v[1] = p => v \notin Pending /\ v \notin Pending'
  BY <1>2, <1>3, PendingFacts DEF Hides
<1>6. p \in Deleting
  BY <1>3 DEF Deleting
<1>7. ASSUME RemoveFile(w) PROVE VersionedFiles!Delete(p)
  <2>1. p \in DOMAIN files /\ p \notin DOMAIN files' /\ versions' = versions
    BY <1>7 DEF RemoveFile, Erase, Restrict
  <2>2. VersionedFiles!Exists(p) /\ p \notin DOMAIN Current'
    BY <1>2, <1>4, <2>1, CurrentFacts, CurrentFactsNext DEF VersionedFiles!Exists
  <2>3. VersionedFiles!Keeps(p)
    BY <1>2, <1>5, <2>1, HistoryKept DEF Shown
  <2>4. QED
    BY <1>6, <2>2, <2>3 DEF VersionedFiles!Delete
<1>8. ASSUME RemoveVersion(w) PROVE VersionedFiles!Forget(p)
  <2>1. /\ pc[w] = "purge" /\ files' = files
        /\ versions' = versions \/ \E u : versions' = Erase(versions, u)
    BY <1>8 DEF RemoveVersion, At
  <2>2. p \notin DOMAIN files
    BY <2>1 DEF StoreInv, HandlersInv, PurgeInv
  <2>3. ~VersionedFiles!Exists(p) /\ VersionedFiles!SameFile(p)
    BY <1>2, <1>4, <2>1, <2>2, CurrentFacts, CurrentFactsNext
       DEF VersionedFiles!Exists, VersionedFiles!SameFile
  <2>4. \A v \in DOMAIN versions' : v \in DOMAIN versions /\ versions'[v] = versions[v]
    BY <2>1 DEF Erase, Restrict
  <2>5. History'[p] \subseteq History[p]
    <3> DEFINE S == {u \in DOMAIN versions : u[1] = p /\ Shown(u)}
               T == {u \in DOMAIN versions' : u[1] = p /\ Shown(u)'}
    <3>1. T \subseteq S /\ \A v \in T : versions'[v] = versions[v]
      BY <1>5, <2>4 DEF Shown
    <3>2. /\ History[p] = {<<v, versions[v]>> : v \in S}
          /\ History'[p] = {<<v, versions'[v]>> : v \in T}
      BY <1>2, CurrentFacts, CurrentFactsNext
    <3> HIDE DEF S, T
    <3>3. QED
      BY <3>1, <3>2
  <2>6. QED
    BY <1>6, <2>3, <2>5 DEF VersionedFiles!Forget
<1>9. QED
  BY <1>7, <1>8

-----------------------------------------------------------------------------
(***************************************************************************)
(* The paths a client is deleting.                                         *)
(***************************************************************************)
LEMMA DeletingFacts ==
  /\ Deleting = {PathOf(x) : x \in {y \in Workers : pc[y] \in RemoveLabels}}
  /\ Deleting' = {PathOf(x)' : x \in {y \in Workers : pc'[y] \in RemoveLabels}}
  BY DEF Deleting, RemoveLabels

LEMMA DeletingOutside ==
  ASSUME StoreInv, NEW w \in Workers, OutsideStep(w)
  PROVE  \/ Deleting' = Deleting
         \/ \E p \in Paths : Deleting' = Deleting \cup {p}
<1>1. \A x \in Workers \ {w} : pc'[x] = pc[x] /\ PathOf(x)' = PathOf(x)
  BY StoreTypes, OutsideFrame DEF SameWorker, PathOf
<1>2. pc[w] \notin RemoveLabels
  BY StoreTypes, OutsidePlaces DEF HandlersInv, RemoveLabels
<1>3. CASE pc'[w] \notin RemoveLabels
  BY <1>1, <1>2, <1>3, DeletingFacts
<1>4. CASE pc'[w] \in RemoveLabels
  <2>1. TakeLock(w)
    BY <1>4, StoreTypes DEF OutsideStep, AcceptAny, Accept, Unlock, RunTypes, Goto,
       RemoveLabels
  <2>2. PathOf(w)' = PathOf(w) /\ PathOf(w) \in Paths
    BY <2>1, RequestFacts DEF TakeLock, HasRequest, PathOf, StoreInv, HandlersInv
  <2>3. Deleting' = Deleting \cup {PathOf(w)}
    BY <1>1, <1>2, <1>4, <2>2, DeletingFacts
  <2>4. QED
    BY <2>2, <2>3
<1>5. QED
  BY <1>3, <1>4

LEMMA DeletingInside ==
  ASSUME StoreInv, NEW w \in Workers, HandlerStep(w)
  PROVE  /\ pc'[w] \in RemoveLabels \/ pc[w] \notin RemoveLabels => Deleting' = Deleting
         /\ Deleting' \in {Deleting, Deleting \ {PathOf(w)}}
<1>1. /\ request' = request /\ KindKept(w) /\ Inside(w)
      /\ \A x \in Workers \ {w} : pc'[x] = pc[x]
      /\ \A x \in Workers : PathOf(x)' = PathOf(x)
  BY StoreTypes, HandlerFrame DEF SameWorker, PathOf
<1>2. CASE pc'[w] \in RemoveLabels \/ pc[w] \notin RemoveLabels
  <2>1. pc'[w] \in RemoveLabels <=> pc[w] \in RemoveLabels
    BY <1>1, <1>2 DEF KindKept
  <2>2. Deleting' = Deleting
    BY <1>1, <2>1, DeletingFacts
  <2>3. QED
    BY <2>2
<1>3. CASE pc'[w] \notin RemoveLabels /\ pc[w] \in RemoveLabels
  <2>1. ASSUME NEW x \in Workers \ {w}, pc[x] \in RemoveLabels PROVE PathOf(x) # PathOf(w)
    <3>1. Inside(x) /\ HasCommand(x, "RM")
      BY <2>1 DEF Inside, StoreInv, HandlersInv, RequestInv
    <3>2. QED
      BY <1>1, <3>1, Exclusive DEF StoreInv, HandlersInv, HasCommand
  <2>2. Deleting' = Deleting \ {PathOf(w)}
    BY <1>1, <1>3, <2>1, DeletingFacts
  <2>3. QED
    BY <1>3, <2>2
<1>4. QED
  BY <1>2, <1>3

(***************************************************************************)
(* If no path is touched, the store's files and histories are the same.    *)
(***************************************************************************)
LEMMA AllUntouched ==
  ASSUME StoreInv, StoreInv', \A p \in Paths : VersionedFiles!Untouched(p)
  PROVE  Current' = Current /\ History' = History
<1>1. \A p \in Paths : /\ p \in Present' <=> p \in Present
                       /\ p \in Present => Current'[p] = Current[p]
                       /\ History'[p] = History[p]
  BY DEF VersionedFiles!Untouched, VersionedFiles!SameFile, VersionedFiles!Keeps,
     VersionedFiles!Exists, Current
<1>2. Present' = Present
  <2>1. Present \subseteq Paths /\ Present' \subseteq Paths
    BY DEF Present
  <2>2. QED
    BY <1>1, <2>1
<1>3. Current' = Current
  <2>1. Current = [p \in Present |-> Current[p]]
    BY DEF Current
  <2>2. Current' = [p \in Present' |-> Current'[p]]
    BY DEF Current
  <2>3. Present \subseteq Paths
    BY DEF Present
  <2> HIDE DEF Current
  <2>4. QED
    BY <1>1, <1>2, <2>1, <2>2, <2>3
<1>4. History' = History
  <2>1. History = [p \in Paths |-> History[p]] /\ History' = [p \in Paths |-> History'[p]]
    BY DEF History
  <2>2. QED
    BY <1>1, <2>1
<1>5. QED
  BY <1>3, <1>4

(***************************************************************************)
(* The connections that are being served: a connection comes or goes in a  *)
(* step that touches no path.                                              *)
(***************************************************************************)
LEMMA ServingInside ==
  ASSUME StoreInv, NEW w \in Workers, HandlerStep(w)
  PROVE  Serving' = Serving /\ Serving # {}
<1>1. Inside(w) /\ Inside(w)' /\ \A x \in Workers \ {w} : pc'[x] = pc[x]
  BY StoreTypes, HandlerFrame DEF SameWorker
<1>2. w \in Serving /\ w \in Serving'
  BY <1>1 DEF Inside, WriteLabels, GetLabels, RemoveLabels, Serving
<1>3. QED
  BY <1>1, <1>2 DEF Serving

LEMMA ServingOutside ==
  ASSUME StoreInv, NEW w \in Workers, OutsideStep(w)
  PROVE  \/ Serving' = Serving /\ TakeLock(w)
         \/ Serving' \in {Serving \cup {w}, Serving \ {w}} /\ Deleting' = Deleting
<1>1. \A x \in Workers \ {w} : pc'[x] = pc[x] /\ PathOf(x)' = PathOf(x)
  BY StoreTypes, OutsideFrame DEF SameWorker, PathOf
<1>2. CASE TakeLock(w)
  <2>1. pc[w] = "lock" /\ pc'[w] \in {"save", "stat", "remove"}
    BY <1>2, StoreTypes, OutsidePlaces, RequestFacts, FirstStepFacts
       DEF TakeLock, At, Goto, HasRequest, RunTypes, HandlersInv
  <2>2. QED
    BY <1>1, <1>2, <2>1 DEF Serving
<1>3. CASE AcceptAny(w) \/ Unlock(w)
  <2>1. pc[w] \notin RemoveLabels /\ pc'[w] \notin RemoveLabels
    BY <1>3, StoreTypes DEF AcceptAny, Accept, Unlock, At, Goto, RunTypes, RemoveLabels
  <2>2. Deleting' = Deleting
    BY <1>1, <2>1, DeletingFacts
  <2>3. Serving' \in {Serving \cup {w}, Serving \ {w}}
    BY <1>1 DEF Serving
  <2>4. QED
    BY <2>2, <2>3
<1>4. QED
  BY <1>2, <1>3 DEF OutsideStep

LEMMA WorkerSteps ==
  ASSUME ~DiskFaults, DistinctBasenames, ClockAdvances, "resets" \notin ClientEnds,
         StoreInv, StoreInv',
         NEW w \in Workers, OutsideStep(w) \/ HandlerStep(w)
  PROVE  [VersionedFiles!Next]_<<Current, History, Deleting, Serving>>
<1>1. CASE OutsideStep(w)
  <2>1. Current' = Current /\ History' = History
    BY <1>1, OutsideUntouched, AllUntouched
  <2>2. QED
    BY <1>1, <2>1, DeletingOutside, ServingOutside DEF VersionedFiles!Next
<1>2. CASE HandlerStep(w)
  <2>1. PICK p : p = PathOf(w)
    OBVIOUS
  <2>2. p \in Paths
    BY <1>2, <2>1, AloneHere
  <2>3. VersionedFiles!OthersUntouched(p)
    BY <1>2, <2>1, OtherPathsUntouched DEF VersionedFiles!OthersUntouched
  <2>4. CASE VersionedFiles!Untouched(p)
    <3>1. Current' = Current /\ History' = History
      BY <2>3, <2>4, AllUntouched DEF VersionedFiles!OthersUntouched
    <3>2. Deleting' \in {Deleting, Deleting \ {p}} /\ Serving' = Serving
      BY <1>2, <2>1, DeletingInside, ServingInside
    <3>3. QED
      BY <2>2, <3>1, <3>2 DEF VersionedFiles!Next
  <2>5. CASE ReceiveDone(w) \/ RemoveFile(w) \/ RemoveVersion(w)
    <3>1. VersionedFiles!Write(p) \/ VersionedFiles!Delete(p) \/ VersionedFiles!Forget(p)
      BY <2>1, <2>5, UploadWrites, RemoveSteps
    <3>2. pc[w] \notin RemoveLabels \/ pc'[w] \in RemoveLabels
      BY <2>5, StoreTypes DEF ReceiveDone, RemoveFile, RemoveVersion, At, Goto, RunTypes,
         RemoveLabels
    <3>3. Deleting' = Deleting /\ Serving' = Serving /\ Serving # {}
      BY <1>2, <3>2, DeletingInside, ServingInside
    <3>4. QED
      BY <2>2, <2>3, <3>1, <3>3 DEF VersionedFiles!Next
  <2>6. CASE SaveCurrentVersion(w) \/ CopyChunk(w) \/ OpenTarget(w) \/ ReceiveChunk(w)
    BY <2>1, <2>4, <2>6, SaveSteps, ReceiveSteps
  <2>7. CASE ReceiveNothing(w)
    BY <2>7 DEF ReceiveNothing, vars, served, disk, Current, History, Deleting, Serving, Present,
       Receiving, Receiver, FileWriter, Pending, Version, VersionsOf, PathOf, At
  <2>8. ~ReceiveError(w)
    BY DEF ReceiveError, At, StoreInv, HandlersInv, RequestInv, HasRequest, Inside,
       WriteLabels, Request
  <2>9. CASE ~(\/ SaveCurrentVersion(w) \/ CopyChunk(w) \/ OpenTarget(w)
               \/ ReceiveChunk(w) \/ ReceiveNothing(w) \/ ReceiveDone(w)
               \/ RemoveFile(w) \/ RemoveVersion(w))
    <3>1. UNCHANGED <<files, versions>>
      BY <1>2, <2>8, <2>9 DEF HandlerStep, HandleWrite, NothingToSave, CopyDone,
         OpenTargetFails, HandleGet, AnnounceSize, NoSize, OpenSource, OpenSourceFails,
         SendChunk, SendDone, HandleRemove, RemoveFileFails, OpenHistory, NoHistory,
         RemoveDone, Reply, disk
    <3>2. ~At(w, "receive")
      BY <1>2, <2>8, <2>9 DEF HandlerStep, HandleWrite, NothingToSave, CopyDone,
         OpenTargetFails, HandleGet, AnnounceSize, NoSize, OpenSource, OpenSourceFails,
         SendChunk, SendDone, HandleRemove, RemoveFileFails, OpenHistory, NoHistory,
         RemoveDone, Reply, At
    <3>3. pc'[w] # "receive" /\ pc'[w] # "copy"
      BY <1>2, <2>9, StoreTypes, Arrivals
    <3>4. QED
      BY <1>2, <2>1, <2>4, <3>1, <3>2, <3>3, QuietSteps
  <2>10. QED
    BY <2>5, <2>6, <2>7, <2>9
<1>3. QED
  BY <1>1, <1>2

-----------------------------------------------------------------------------
(***************************************************************************)
(* The death of the server: an upload in progress leaves a beginning of    *)
(* its contents, with what was saved in the history; a copy in progress    *)
(* leaves the file and a beginning of it.                                  *)
(***************************************************************************)
LEMMA BeginningFacts ==
  ASSUME NEW s \in Seq(Chunks), NEW t
  PROVE  /\ Beginning(t, s) => t \in VersionedFiles!Beginnings(s)
         /\ s \in VersionedFiles!Beginnings(s)
         /\ \A n \in Nat : n <= Len(s) /\ Beginning(t, SubSeq(s, 1, n))
              => t \in VersionedFiles!Beginnings(s)
<1>1. Beginning(t, s) => t \in VersionedFiles!Beginnings(s)
  BY DEF Beginning, VersionedFiles!Beginnings
<1>2. s \in VersionedFiles!Beginnings(s)
  BY PrefixFacts DEF VersionedFiles!Beginnings
<1>3. ASSUME NEW n \in Nat, n <= Len(s), Beginning(t, SubSeq(s, 1, n))
      PROVE  t \in VersionedFiles!Beginnings(s)
  <2>1. SubSeq(s, 1, n) \in Seq(Chunks) /\ Len(SubSeq(s, 1, n)) = n
    BY <1>3, SubSeqProperties
  <2>2. PICK m \in 0 .. n : t = SubSeq(SubSeq(s, 1, n), 1, m)
    BY <1>3, <2>1 DEF Beginning
  <2>3. t = SubSeq(s, 1, m) /\ m \in 0 .. Len(s)
    <3>1. m \in Nat /\ m <= n /\ m <= Len(s)
      BY <1>3, <2>2
    <3>2. Len(t) = m /\ Len(SubSeq(s, 1, m)) = m
      BY <1>3, <2>1, <2>2, <3>1, SubSeqProperties
    <3>3. \A i \in 1 .. m : t[i] = s[i] /\ SubSeq(s, 1, m)[i] = s[i]
      BY <1>3, <2>1, <2>2, <3>1, SubSeqProperties
    <3>4. t \in Seq(Chunks) /\ SubSeq(s, 1, m) \in Seq(Chunks)
      BY <1>3, <2>1, <2>2, <3>1, PrefixFacts
    <3>5. t = SubSeq(s, 1, m)
      BY <3>2, <3>3, <3>4, SeqEqual
    <3>6. QED
      BY <1>3, <3>1, <3>5
  <2>4. QED
    BY <2>3 DEF VersionedFiles!Beginnings
<1>4. QED
  BY <1>1, <1>2, <1>3

LEMMA DeathTears ==
  ASSUME StoreInv, StoreInv', ServerDies, NEW p \in Paths
  PROVE  VersionedFiles!Torn(p)
<1>1. \A x \in Workers : ~FileWriter(x, p)' /\ \A v : ~Hides(x, v)'
  BY StoreTypes, DeathFrame DEF FileWriter, Hides, At
<1>2. /\ DOMAIN files' = DOMAIN files /\ DOMAIN versions' = DOMAIN versions
      /\ \A v : Shown(v)' <=> v \in DOMAIN versions
  <2>1. DOMAIN files' = DOMAIN files /\ DOMAIN versions' = DOMAIN versions
    BY StoreTypes, DeathDisk
  <2>2. QED
    BY <1>1, <2>1, PendingFacts DEF Shown
<1>3. ASSUME \A x \in Workers : ~FileWriter(x, p) PROVE VersionedFiles!SameFile(p)
  <2>1. SameFile(p)
    BY <1>2, <1>3, StoreTypes, DeathDisk DEF SameFile
  <2>2. QED
    BY <1>1, <1>3, <2>1, FileKept
<1>4. ASSUME NEW v \in DOMAIN versions, \A x \in Workers : ~Hides(x, v)
      PROVE  Shown(v) /\ versions'[v] = versions[v]
  <2>1. \A x \in Workers : ~VersionWriter(x, v)
    BY <1>4 DEF VersionWriter, Hides, At
  <2>2. versions'[v] = versions[v]
    BY <2>1, StoreTypes, DeathDisk
  <2>3. QED
    BY <1>4, <2>2, PendingFacts DEF Shown
<1>5. CASE \A x \in Workers : pc[x] \in {"copy", "open", "receive"} => PathOf(x) # p
  <2>1. \A x \in Workers : ~FileWriter(x, p) /\ \A v : v[1] = p => ~Hides(x, v)
    BY <1>5 DEF FileWriter, Hides, Version, At
  <2>2. \A v : v[1] = p =>
          (Shown(v)' <=> Shown(v)) /\ (Shown(v) => versions'[v] = versions[v])
    BY <1>2, <1>4, <2>1 DEF Shown
  <2>3. VersionedFiles!Keeps(p)
    BY <2>2, HistoryKept
  <2>4. QED
    BY <1>3, <2>1, <2>3 DEF VersionedFiles!Torn, VersionedFiles!Untouched
<1>6. CASE \E x \in Workers : pc[x] \in {"copy", "open", "receive"} /\ PathOf(x) = p
  <2>1. PICK w \in Workers : pc[w] \in {"copy", "open", "receive"} /\ PathOf(w) = p
    BY <1>6
  <2>2. PICK u : u = Version(w)
    OBVIOUS
  <2>3. /\ Inside(w) /\ HasCommand(w, "WRITE") /\ HasRequest(w)
        /\ u[1] = p /\ u[2] = stamp[w]
    BY <2>1, <2>2 DEF Inside, HasRequest, WriteLabels, StoreInv, HandlersInv, RequestInv,
       Version
  <2>4. ASSUME NEW x \in Workers, pc[x] \in {"copy", "open", "receive"}, PathOf(x) = p
        PROVE  x = w
    <3>1. Inside(x) /\ HasCommand(x, "WRITE")
      BY <2>4 DEF Inside, WriteLabels, StoreInv, HandlersInv, RequestInv
    <3>2. QED
      BY <2>1, <2>3, <2>4, <3>1, Exclusive DEF StoreInv, HandlersInv, HasCommand
  <2>5. \A x \in Workers : /\ FileWriter(x, p) => x = w
                           /\ \A v : v[1] = p /\ Hides(x, v) => v = u
    BY <2>2, <2>4 DEF FileWriter, Hides, Version, At
  <2>6. ~Shown(u)
    BY <2>1, <2>2, PendingFacts DEF Shown, Hides
  <2>7. \A v : v[1] = p /\ v # u =>
          (Shown(v)' <=> Shown(v)) /\ (Shown(v) => versions'[v] = versions[v])
    BY <1>2, <1>4, <2>5 DEF Shown
  <2>8. ASSUME u \notin DOMAIN versions PROVE VersionedFiles!Keeps(p)
    BY <1>2, <2>6, <2>7, <2>8, HistoryKept
  <2>9. ASSUME stamp[w] = 0 PROVE u \notin DOMAIN versions
    BY <2>3, <2>9, StoreTypes DEF HandlersInv, StampInv, DiskTypes, Names
  <2>10. ASSUME NEW C, u \in DOMAIN versions, versions'[u] \in C
         PROVE  VersionedFiles!Gains(p, C)
    BY <1>2, <2>3, <2>6, <2>7, <2>10, HistoryGains
  <2>11. ASSUME pc[w] # "copy", u \in DOMAIN versions PROVE versions'[u] = versions[u]
    <3>1. \A x \in Workers : ~VersionWriter(x, u)
      BY <2>3, <2>4, <2>11 DEF VersionWriter, Version, At
    <3>2. QED
      BY <2>11, <3>1, StoreTypes, DeathDisk
  <2>12. pc[w] \in {"copy", "open"} /\ p \in DOMAIN files =>
           /\ VersionedFiles!SameFile(p) /\ VersionedFiles!Exists(p)
           /\ Current[p] = files[p] /\ files[p] \in Seq(Chunks)
    <3> SUFFICES ASSUME pc[w] \in {"copy", "open"}, p \in DOMAIN files
                 PROVE  /\ VersionedFiles!SameFile(p) /\ VersionedFiles!Exists(p)
                        /\ Current[p] = files[p] /\ files[p] \in Seq(Chunks)
      OBVIOUS
    <3>1. \A x \in Workers : ~FileWriter(x, p)
      BY <2>5 DEF FileWriter, At
    <3>2. QED
      BY <1>3, <3>1, CurrentFacts, StoreTypes DEF VersionedFiles!Exists, DiskTypes
  <2>13. CASE pc[w] = "copy"
    <3>1. /\ p \in DOMAIN files /\ u \in DOMAIN versions
          /\ pos[w] \in Nat /\ pos[w] <= Len(files[p])
          /\ versions[u] = SubSeq(files[p], 1, pos[w])
      BY <2>1, <2>2, <2>13, StoreTypes
         DEF StoreInv, HistoryInv, SavedInv, HandlersInv, CopyInv, RunTypes, At
    <3>2. Beginning(versions'[u], versions[u])
      BY <3>1, StoreTypes, DeathDisk
    <3>3. versions'[u] \in VersionedFiles!Beginnings(Current[p])
      BY <2>12, <2>13, <3>1, <3>2, BeginningFacts
    <3>4. QED
      BY <2>10, <2>12, <2>13, <3>1, <3>3 DEF VersionedFiles!Torn
  <2>14. CASE pc[w] = "open"
    <3>1. CASE stamp[w] = 0
      <4>1. p \notin DOMAIN files /\ \A x \in Workers : ~FileWriter(x, p)
        BY <2>1, <2>5, <2>14, <3>1 DEF StoreInv, HistoryInv, SavedInv, At, FileWriter
      <4>2. QED
        BY <1>3, <2>8, <2>9, <3>1, <4>1 DEF VersionedFiles!Torn, VersionedFiles!Untouched
    <3>2. CASE stamp[w] # 0
      <4>1. p \in DOMAIN files /\ u \in DOMAIN versions /\ versions[u] = files[p]
        BY <2>1, <2>2, <2>14, <3>2 DEF StoreInv, HistoryInv, SavedInv, At
      <4>2. versions'[u] \in VersionedFiles!Beginnings(Current[p])
        BY <2>11, <2>12, <2>14, <4>1, BeginningFacts
      <4>3. QED
        BY <2>10, <2>12, <2>14, <4>1, <4>2 DEF VersionedFiles!Torn
    <3>3. QED
      BY <3>1, <3>2
  <2>15. CASE pc[w] = "receive"
    <3>1. /\ Uploading(w) \in Contents /\ Uploading(w) \in Seq(Chunks)
          /\ p \in DOMAIN files /\ pos[w] \in Nat /\ pos[w] <= Len(Uploading(w))
          /\ files[p] = SubSeq(Uploading(w), 1, pos[w])
      BY <2>1, <2>3, <2>15, RequestFacts, StoreTypes
         DEF StoreInv, HandlersInv, RequestInv, CleanInv, At, RunTypes
    <3>2. Beginning(files'[p], files[p])
      BY <3>1, StoreTypes, DeathDisk
    <3>3. files'[p] \in VersionedFiles!Beginnings(Uploading(w))
      BY <3>1, <3>2, BeginningFacts
    <3>4. p \in DOMAIN Current' /\ Current'[p] = files'[p]
      BY <1>1, <1>2, <3>1, CurrentFactsNext
    <3>5. FileWriter(w, p)
      BY <2>1, <2>15 DEF FileWriter, At
    <3>6. IF VersionedFiles!Exists(p) THEN VersionedFiles!Gains(p, {Current[p]})
          ELSE VersionedFiles!Keeps(p)
      <4>1. CASE stamp[w] = 0
        <5>1. ~VersionedFiles!Exists(p)
          BY <3>5, <4>1, CurrentFacts DEF VersionedFiles!Exists
        <5>2. QED
          BY <2>8, <2>9, <4>1, <5>1
      <4>2. CASE stamp[w] # 0
        <5>1. VersionedFiles!Exists(p) /\ Current[p] = versions[u] /\ u \in DOMAIN versions
          BY <2>2, <2>15, <3>5, <4>2, CurrentFacts
             DEF VersionedFiles!Exists, StoreInv, HistoryInv, SavedInv, At
        <5>2. QED
          BY <2>10, <2>11, <2>15, <5>1
      <4>3. QED
        BY <4>1, <4>2
    <3>7. VersionedFiles!Replaces(p, VersionedFiles!Beginnings(Uploading(w)))
      BY <3>3, <3>4, <3>6 DEF VersionedFiles!Replaces
    <3>8. QED
      BY <3>1, <3>7 DEF VersionedFiles!Torn
  <2>16. QED
    BY <2>1, <2>13, <2>14, <2>15
<1>7. QED
  BY <1>5, <1>6

-----------------------------------------------------------------------------
LEMMA StoreStep ==
  ASSUME ~DiskFaults, DistinctBasenames, ClockAdvances, "resets" \notin ClientEnds,
         StoreInv, StoreInv',
         [Next]_vars
  PROVE  [VersionedFiles!Next]_<<Current, History, Deleting, Serving>>
<1>1. ASSUME ServerDies, Busy PROVE VersionedFiles!Next
  <2>1. Deleting' = {}
    BY <1>1, StoreTypes, DeathFrame, DeletingFacts DEF RemoveLabels
  <2>2. Serving # {}
    BY <1>1 DEF Busy, Serving
  <2>3. Serving' = {}
    BY <1>1, StoreTypes, DeathFrame DEF Serving
  <2>4. QED
    BY <1>1, <2>1, <2>2, <2>3, DeathTears DEF VersionedFiles!Next, VersionedFiles!Dies
<1>2. ASSUME UNCHANGED served
      PROVE  Current' = Current /\ History' = History /\ Deleting' = Deleting
             /\ Serving' = Serving
  BY <1>2 DEF vars, served, disk, Current, History, Deleting, Serving, Present, Receiving, Receiver,
     FileWriter, Pending, Version, VersionsOf, PathOf, At
<1>3. QED
  BY <1>1, <1>2, StoreTypes, NextCases, WorkerSteps

LEMMA StoreInit == Init => VersionedFiles!Init
<1> SUFFICES ASSUME Init PROVE VersionedFiles!Init
  OBVIOUS
<1>1. \A w \in Workers : pc[w] = "idle"
  BY DEF Init
<1>2. PICK present \in SUBSET Paths : \E older \in SUBSET present :
        files \in [present -> Contents] /\ versions \in [older \X {1} -> Contents]
  BY DEF Init
<1>3. \A v \in DOMAIN versions : v[1] \in present
  <2>1. PICK older \in SUBSET present : versions \in [older \X {1} -> Contents]
    BY <1>2
  <2>2. DOMAIN versions = older \X {1} /\ \A v \in older \X {1} : v[1] \in present
    BY <2>1
  <2>3. QED
    BY <2>2
<1>4. Present = present /\ \A p \in Paths : ~Receiving(p)
  BY <1>1, <1>2 DEF Present, Receiving, FileWriter, At
<1>5. Current \in [present -> Contents]
  BY <1>2, <1>4 DEF Current
<1>6. \A p \in Paths : History[p] # {} => p \in DOMAIN Current
  BY <1>3, <1>4 DEF History, VersionsOf, Current
<1>7. Deleting = {}
  BY <1>1, DeletingFacts DEF RemoveLabels
<1>8. Serving = {}
  BY <1>1 DEF Serving
<1>9. QED
  BY <1>5, <1>6, <1>7, <1>8 DEF VersionedFiles!Init, VersionedFiles!Exists

(***************************************************************************)
(* The server's files and histories change only as VersionStore says, for  *)
(* any number of connections and any uploads, and although the server may  *)
(* die at any time, as long as the clock advances between two saves.       *)
(***************************************************************************)
THEOREM HandlersImplementStore ==
  ASSUME ~DiskFaults, DistinctBasenames, ClockAdvances, "resets" \notin ClientEnds
  PROVE  Spec => ImplementsStore
<1>1. Spec => []StoreInv
  BY HistoryInvariance DEF StoreInv
<1>2. StoreInv /\ StoreInv' /\ [Next]_vars
        => [VersionedFiles!Next]_<<Current, History, Deleting, Serving>>
  BY StoreStep
<1>3. QED
  BY <1>1, <1>2, StoreInit, PTL
     DEF Spec, ImplementsStore, VersionedFiles!Spec, VersionedFiles!storeVars
=============================================================================
