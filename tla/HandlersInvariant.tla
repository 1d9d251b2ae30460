-------------------------- MODULE HandlersInvariant --------------------------
(***************************************************************************)
(* The inductive invariants behind the safety properties of                *)
(* RequestHandlers.  HandlersInv holds for every value of the constants;   *)
(* CleanInv needs a disk that works, HistoryInv also a directory in which  *)
(* no basename begins with another one.                                    *)
(***************************************************************************)
EXTENDS RequestHandlers

WriteLabels == {"save", "copy", "open", "receive"}
GetLabels == {"stat", "source", "send"}
RemoveLabels == {"remove", "list", "purge"}

\* The worker has a request; it holds its lock.
Inside(w) == pc[w] \in WriteLabels \cup GetLabels \cup RemoveLabels \cup {"reply", "unlock"}
HasRequest(w) == At(w, "lock") \/ Inside(w)
HasCommand(w, command) == request[w].command = command

\* A directory in which no basename is the beginning of another one.
DistinctBasenames == \A p, q \in Paths : <<q, p>> \in StartsWith => q = p

-----------------------------------------------------------------------------
(***************************************************************************)
(* A worker that is served has a request, whose command chose its handler; *)
(* a WRITE uploads one of the contents.                                    *)
(***************************************************************************)
RequestInv ==
  \A w \in Workers :
    /\ HasRequest(w) => request[w] \in Request
    /\ HasRequest(w) /\ HasCommand(w, "WRITE") => Uploading(w) \in Contents
    /\ pc[w] \in WriteLabels => HasCommand(w, "WRITE")
    /\ pc[w] \in GetLabels => HasCommand(w, "GET")
    /\ pc[w] \in RemoveLabels => HasCommand(w, "RM")

(***************************************************************************)
(* Inside a handler the lock of the path is held: shared by a GET, and     *)
(* otherwise exclusively.                                                  *)
(***************************************************************************)
HeldInv ==
  \A w \in Workers : Inside(w) =>
    /\ HasCommand(w, "GET") => w \in readers[PathOf(w)]
    /\ ~HasCommand(w, "GET") => w \in writers[PathOf(w)]

(***************************************************************************)
(* Before the first step of its handler a worker has done nothing yet.     *)
(***************************************************************************)
FreshInv ==
  \A w \in Workers :
    /\ pc[w] \in {"idle", "lock", "save", "stat", "remove"} =>
         /\ stamp[w] = 0 /\ pos[w] = 0 /\ ok[w]
         /\ out[w] = <<>> /\ response[w] = NoResponse
    /\ pc[w] \in {"idle", "lock", "remove", "list"} => seen[w] = {}

(***************************************************************************)
(* When the clock advances between any two saves, no version is from the   *)
(* future, so that the next one is new.                                    *)
(***************************************************************************)
ClockAdvances == \A d \in ClockSteps : d > 0

StampInv ==
  /\ \A v \in DOMAIN versions : 0 < v[2]
  /\ ClockAdvances =>
       /\ \A v \in DOMAIN versions : v[2] <= clock
       /\ \A w \in Workers : stamp[w] <= clock

(***************************************************************************)
(* A version is copied from a file that stays there.                       *)
(***************************************************************************)
CopyInv ==
  \A w \in Workers : At(w, "copy") =>
    /\ stamp[w] # 0
    /\ PathOf(w) \in DOMAIN files
    /\ pos[w] <= Len(files[PathOf(w)])

(***************************************************************************)
(* What a GET has sent so far is the beginning of the file as it is now.   *)
(***************************************************************************)
Announced(w) ==
  /\ PathOf(w) \in DOMAIN files
  /\ response[w].data_len = Len(files[PathOf(w)])

Sent(w) ==
  \/ pos[w] = Len(files[PathOf(w)]) /\ out[w] = files[PathOf(w)]
  \/ pos[w] = 0 /\ out[w] = <<>> /\ (DiskFaults \/ files[PathOf(w)] = <<>>)

SnapshotInv ==
  \A w \in Workers :
    /\ At(w, "source") => Announced(w) /\ pos[w] = 0 /\ out[w] = <<>>
    /\ At(w, "send") =>
         /\ Announced(w)
         /\ pos[w] <= Len(files[PathOf(w)])
         /\ out[w] = SubSeq(files[PathOf(w)], 1, pos[w])
    /\ HasCommand(w, "GET") /\ At(w, "reply") => ~ok[w]
    /\ HasCommand(w, "GET") /\ At(w, "unlock") /\ response[w].success =>
         Announced(w) /\ Sent(w)

(***************************************************************************)
(* While the folder is read the file is gone, and none of its versions has *)
(* been missed: one that is left is still to be returned by readdir.       *)
(***************************************************************************)
PurgeInv ==
  \A w \in Workers :
    /\ pc[w] \in {"list", "purge"} => PathOf(w) \notin DOMAIN files
    /\ At(w, "list") => ok[w]
    /\ At(w, "purge") =>
         /\ VersionsOf(PathOf(w)) \subseteq todo[w]
         /\ \A v \in todo[w] : <<v[1], PathOf(w)>> \in StartsWith
    /\ At(w, "purge") /\ ok[w] => VersionsOf(PathOf(w)) \cap seen[w] = {}

HandlersInv ==
  /\ TypeOK /\ Locks!Exclusion
  /\ RequestInv /\ HeldInv /\ FreshInv
  /\ StampInv /\ CopyInv /\ SnapshotInv /\ PurgeInv

-----------------------------------------------------------------------------
(***************************************************************************)
(* On a disk that works: an upload in progress is in the file as far as it *)
(* was received, a finished one completely, unless recv failed; a          *)
(* finished removal has removed everything.                                *)
(***************************************************************************)
Erased(p) == p \notin DOMAIN files /\ VersionsOf(p) = {}

CleanInv ==
  \A w \in Workers :
    /\ At(w, "receive") =>
         /\ PathOf(w) \in DOMAIN files
         /\ pos[w] <= Len(Uploading(w))
         /\ files[PathOf(w)] = SubSeq(Uploading(w), 1, pos[w])
    /\ At(w, "reply") /\ HasCommand(w, "WRITE") /\ request[w].end # "resets" =>
         PathOf(w) \in DOMAIN files /\ files[PathOf(w)] = Uploading(w)
    /\ At(w, "reply") /\ HasCommand(w, "RM") /\ ok[w] => Erased(PathOf(w))
    /\ Ending(w, "RM") /\ response[w].success => Erased(PathOf(w))

(***************************************************************************)
(* A version is saved completely before its file is truncated, and nobody  *)
(* removes it meanwhile.                                                   *)
(***************************************************************************)
SavedInv ==
  \A w \in Workers :
    /\ At(w, "copy") =>
         /\ Version(w) \in DOMAIN versions
         /\ versions[Version(w)] = SubSeq(files[PathOf(w)], 1, pos[w])
    /\ At(w, "open") =>
         IF stamp[w] = 0 THEN PathOf(w) \notin DOMAIN files
         ELSE /\ PathOf(w) \in DOMAIN files
              /\ Version(w) \in DOMAIN versions
              /\ versions[Version(w)] = files[PathOf(w)]
    /\ At(w, "receive") /\ stamp[w] # 0 => Version(w) \in DOMAIN versions

(***************************************************************************)
(* What was acknowledged is in the file while nobody writes it, or in a    *)
(* version whose copy is complete, provided that no later save takes the   *)
(* time of that version once more.                                         *)
(***************************************************************************)
InFile(p) ==
  /\ p \in DOMAIN files /\ files[p] = acked[p]
  /\ \A w \in Workers : ~FileWriter(w, p)

InHistory(p) ==
  \E v \in VersionsOf(p) :
    versions[v] = acked[p] /\ \A w \in Workers : ~VersionWriter(w, v)

RecoverableInv ==
  /\ \A p \in DOMAIN acked : InFile(p) \/ InHistory(p)
  /\ \A w \in Workers : pc[w] \in {"list", "purge"} => PathOf(w) \notin DOMAIN acked

(***************************************************************************)
(* A removal loses none of the entries it saw to another one.              *)
(***************************************************************************)
OwnPurgeInv ==
  \A w \in Workers :
    At(w, "purge") => ok[w] /\ VersionsOf(PathOf(w)) = todo[w] \ seen[w]

HistoryInv ==
  SavedInv /\ (ClockAdvances => RecoverableInv) /\ OwnPurgeInv /\ NoFileNoHistory
=============================================================================
