--------------------------- MODULE RequestHandlers ---------------------------
(***************************************************************************)
(* server/request_handler.c and the file and socket loops of utils.c: what *)
(* the worker threads do to the disk and to their sockets while they hold  *)
(* the lock of their path.  All the paths are in one directory, so their   *)
(* versions share one .versions folder.                                    *)
(*                                                                         *)
(* A file's contents are the sequence of the buffers (chunks) written to   *)
(* it.  Locks come from RWLockTable, which LockManager implements.  The    *)
(* server process can die; the workers that were not connected yet then    *)
(* stand for the connections of the server that is started next.           *)
(***************************************************************************)
EXTENDS Integers, Sequences, FiniteSets, Functions

CONSTANTS
  Workers,      \* the worker threads: one per accepted connection
  Paths,        \* the remote paths, files of one directory
  Chunks,       \* what one recv or one fread delivers
  Contents,     \* the uploads: sequences of chunks
  StartsWith,   \* <<q, p>>: the names of q's versions begin with the basename of p
  ClientEnds,   \* how clients go on: they stay, close early, reset, or stall
  DiskFaults,   \* can fopen, fread, fwrite, remove and opendir fail on a file that exists?
  ClockSteps,   \* by how much the next time gettimeofday returns can differ
  MaxCrashes    \* bound on the times the server process is killed

ASSUME HandlersAssumption ==
  /\ Contents \subseteq Seq(Chunks)
  /\ StartsWith \subseteq Paths \X Paths
  /\ \A p \in Paths : <<p, p>> \in StartsWith
  /\ ClientEnds \subseteq {"stays", "closes", "resets", "stalls"}
  /\ DiskFaults \in BOOLEAN
  /\ ClockSteps \subseteq Int
  /\ MaxCrashes \in Nat

VARIABLES
  pc,         \* where each worker is in its handler
  request,    \* its request, and how its client goes on
  readers,    \* the lock table
  writers,
  files,      \* the files that exist, and their contents
  versions,   \* those of .versions/: a version is named <<path, stamp>>
  clock,      \* the time gettimeofday returned last
  stamp,      \* WRITE: the time stamp of the version it saves; 0: none
  pos,        \* chunks copied, received or sent by the current loop
  ok,         \* the handler's status (WRITE) or success (RM)
  todo,       \* RM: the version folder when opendir read it
  seen,       \* RM: the entries readdir has returned
  out,        \* GET: the chunks sent
  response,   \* the response a worker sent
  acked,      \* per path, the contents of the last WRITE answered with success
  stuck,      \* workers in a read that fails, or a send that waits, for ever
  crashes     \* times the server was killed

locks == <<readers, writers>>
disk == <<files, versions>>
listing == <<todo, seen>>
answers == <<out, response, acked>>
served == <<pc, request, locks, disk, clock, stamp, pos, ok, listing, answers, crashes>>
vars == <<served, stuck>>

Locks == INSTANCE RWLockTable

(***************************************************************************)
(* A request and the contents its client uploads.  The client stays to the *)
(* end, or after sending some chunks it closes or resets the connection,   *)
(* or stalls: it keeps the connection and neither sends nor reads more.    *)
(***************************************************************************)
Request == [command : {"WRITE", "GET", "RM"}, path : Paths,
            content : Seq(Chunks), sent : Nat, end : ClientEnds]
NoRequest == [command |-> "none"]
NoResponse == [success |-> FALSE, data_len |-> 0]

Uploads == {u \in (Contents \cup {<<>>}) \X UNION {0 .. Len(c) : c \in Contents} :
              u[2] <= Len(u[1])}

PathOf(w) == request[w].path
Version(w) == <<PathOf(w), stamp[w]>>
At(w, label) == pc[w] = label
Goto(w, label) == pc' = [pc EXCEPT ![w] = label]

Store(f, key, value) ==
  [k \in DOMAIN f \cup {key} |-> IF k = key THEN value ELSE f[k]]
Erase(f, key) == Restrict(f, DOMAIN f \ {key})
Extend(f, key, chunk) ==
  IF key \in DOMAIN f THEN [f EXCEPT ![key] = Append(@, chunk)] ELSE f

-----------------------------------------------------------------------------
(***************************************************************************)
(* A disk with some of the files, one older version of some of those.      *)
(***************************************************************************)
Init ==
  /\ pc = [w \in Workers |-> "idle"]
  /\ request = [w \in Workers |-> NoRequest]
  /\ Locks!Init
  /\ \E present \in SUBSET Paths : \E history \in SUBSET present :
       /\ files \in [present -> Contents]
       /\ versions \in [history \X {1} -> Contents]
  /\ clock = 1
  /\ stamp = [w \in Workers |-> 0]
  /\ pos = [w \in Workers |-> 0]
  /\ ok = [w \in Workers |-> TRUE]
  /\ todo = [w \in Workers |-> {}]
  /\ seen = [w \in Workers |-> {}]
  /\ out = [w \in Workers |-> <<>>]
  /\ response = [w \in Workers |-> NoResponse]
  /\ acked = files
  /\ stuck = {}
  /\ crashes = 0

(***************************************************************************)
(* threadClientHandler: a connection delivers its request, takes the lock  *)
(* of its path for the command, and enters the handler.                    *)
(***************************************************************************)
Accept(w, r) ==
  /\ At(w, "idle")
  /\ request' = [request EXCEPT ![w] = r]
  /\ Goto(w, "lock")
  /\ UNCHANGED <<locks, disk, clock, stamp, pos, ok, listing, answers, stuck, crashes>>

AcceptAny(w) ==
  \E command \in {"WRITE", "GET", "RM"}, p \in Paths, u \in Uploads, e \in ClientEnds :
    /\ IF command = "WRITE" THEN u[1] \in Contents ELSE u[1] = <<>>
    /\ e = "stays" => u[2] = Len(u[1])
    /\ Accept(w, [command |-> command, path |-> p, content |-> u[1],
                  sent |-> u[2], end |-> e])

FirstStep == [WRITE |-> "save", GET |-> "stat", RM |-> "remove"]

\* Faulty variant: every command takes the lock shared.
TakeLockShared(w) ==
  /\ At(w, "lock")
  /\ Locks!AcquireRead(w, PathOf(w))
  /\ Goto(w, FirstStep[request[w].command])
  /\ UNCHANGED <<request, disk, clock, stamp, pos, ok, listing, answers, stuck, crashes>>

TakeLock(w) ==
  /\ At(w, "lock")
  /\ IF request[w].command = "GET"
       THEN Locks!AcquireRead(w, PathOf(w))
       ELSE Locks!AcquireWrite(w, PathOf(w))
  /\ Goto(w, FirstStep[request[w].command])
  /\ UNCHANGED <<request, disk, clock, stamp, pos, ok, listing, answers, stuck, crashes>>

-----------------------------------------------------------------------------
(* handleWriteRequest: saveCurrentVersion, receiveFileContents *)

Uploading(w) == request[w].content
\* Faulty variant: the loop ends one chunk early.
RemainingButOne(w) == pos[w] + 1 < Len(Uploading(w))

Remaining(w) == pos[w] < Len(Uploading(w))

(***************************************************************************)
(* saveCurrentVersion opens the file and creates the version's file, or    *)
(* truncates the version that has the same time in its name: gettimeofday  *)
(* may return a time again or go back.  A file that cannot be opened       *)
(* counts as one that does not exist.                                      *)
(***************************************************************************)
\* Faulty variant: the file is never saved.
NothingToSaveEver(w) ==
  /\ At(w, "save")
  /\ Goto(w, "open")
  /\ UNCHANGED <<request, locks, disk, clock, stamp, pos, ok, listing, answers, stuck, crashes>>

NothingToSave(w) ==
  /\ At(w, "save")
  /\ PathOf(w) \notin DOMAIN files \/ DiskFaults
  /\ Goto(w, "open")
  /\ UNCHANGED <<request, locks, disk, clock, stamp, pos, ok, listing, answers, stuck, crashes>>

SaveCurrentVersion(w) ==
  /\ At(w, "save")
  /\ PathOf(w) \in DOMAIN files
  /\ \E d \in ClockSteps : clock' = clock + d
  /\ clock' > 0
  /\ stamp' = [stamp EXCEPT ![w] = clock']
  /\ versions' = Store(versions, <<PathOf(w), clock'>>, <<>>)
  /\ pos' = [pos EXCEPT ![w] = 0]
  /\ Goto(w, "copy")
  /\ UNCHANGED <<request, locks, files, ok, listing, answers, stuck, crashes>>

(***************************************************************************)
(* copyFile, a chunk at a time; whether fwrite wrote it is not looked at.  *)
(* A version that another worker has unlinked swallows what is written.    *)
(* The loop is left at feof only, which a read that fails never sets: that *)
(* is GetStuck.                                                            *)
(***************************************************************************)
Copying(w) == At(w, "copy") /\ w \notin stuck /\ pos[w] < Len(files[PathOf(w)])

CopyChunk(w) ==
  /\ Copying(w)
  /\ \/ versions' = Extend(versions, Version(w), files[PathOf(w)][pos[w] + 1])
     \/ DiskFaults /\ UNCHANGED versions
  /\ pos' = [pos EXCEPT ![w] = @ + 1]
  /\ UNCHANGED <<pc, request, locks, files, clock, stamp, ok, listing, answers, stuck, crashes>>

\* Faulty variant: one read is thought to be enough.
CopyDoneEarly(w) ==
  /\ At(w, "copy")
  /\ pos[w] > 0
  /\ Goto(w, "open")
  /\ UNCHANGED <<request, locks, disk, clock, stamp, pos, ok, listing, answers, stuck, crashes>>

CopyDone(w) ==
  /\ At(w, "copy")
  /\ w \notin stuck
  /\ pos[w] = Len(files[PathOf(w)])
  /\ Goto(w, "open")
  /\ UNCHANGED <<request, locks, disk, clock, stamp, pos, ok, listing, answers, stuck, crashes>>

(***************************************************************************)
(* receiveFileContents truncates or creates the file, or cannot open it.   *)
(***************************************************************************)
OpenTarget(w) ==
  /\ At(w, "open")
  /\ files' = Store(files, PathOf(w), <<>>)
  /\ pos' = [pos EXCEPT ![w] = 0]
  /\ Goto(w, "receive")
  /\ UNCHANGED <<request, locks, versions, clock, stamp, ok, listing, answers, stuck, crashes>>

OpenTargetFails(w) ==
  /\ At(w, "open")
  /\ DiskFaults
  /\ ok' = [ok EXCEPT ![w] = FALSE]
  /\ Goto(w, "reply")
  /\ UNCHANGED <<request, locks, disk, clock, stamp, pos, listing, answers, stuck, crashes>>

(***************************************************************************)
(* The receive loop.  A short fwrite is remembered, and the loop goes on.  *)
(***************************************************************************)
ReceiveChunk(w) ==
  /\ At(w, "receive")
  /\ Remaining(w)
  /\ pos[w] < request[w].sent
  /\ \/ /\ files' = Extend(files, PathOf(w), Uploading(w)[pos[w] + 1])
        /\ UNCHANGED ok
     \/ /\ DiskFaults
        /\ ok' = [ok EXCEPT ![w] = FALSE]
        /\ UNCHANGED files
  /\ pos' = [pos EXCEPT ![w] = @ + 1]
  /\ UNCHANGED <<pc, request, locks, versions, clock, stamp, listing, answers, stuck, crashes>>

(***************************************************************************)
(* recv returns -1: the loop is left, and success is still what it was.    *)
(***************************************************************************)
ReceiveError(w) ==
  /\ At(w, "receive")
  /\ Remaining(w)
  /\ request[w].end = "resets"
  /\ Goto(w, "reply")
  /\ UNCHANGED <<request, locks, disk, clock, stamp, pos, ok, listing, answers, stuck, crashes>>

(***************************************************************************)
(* recv returns 0, the client has closed, and nothing remains but to ask   *)
(* again; or it waits for a client that stalls.  Both for ever, with the   *)
(* lock held.                                                              *)
(***************************************************************************)
Starved(w) ==
  /\ At(w, "receive")
  /\ Remaining(w)
  /\ request[w].end \in {"closes", "stalls"}
  /\ pos[w] = request[w].sent

ReceiveNothing(w) == Starved(w) /\ UNCHANGED vars

(***************************************************************************)
(* fclose flushes the stream; nobody looks whether it could.               *)
(***************************************************************************)
ReceiveDone(w) ==
  /\ At(w, "receive")
  /\ ~Remaining(w)
  /\ \/ UNCHANGED files
     \/ /\ DiskFaults
        /\ files[PathOf(w)] # <<>>
        /\ files' = [files EXCEPT ![PathOf(w)] = SubSeq(@, 1, Len(@) - 1)]
  /\ Goto(w, "reply")
  /\ UNCHANGED <<request, locks, versions, clock, stamp, pos, ok, listing, answers, stuck, crashes>>

-----------------------------------------------------------------------------
(* handleGetRequest: getFileSize, the response, sendFileContents *)

AnnounceSize(w) ==
  /\ At(w, "stat")
  /\ PathOf(w) \in DOMAIN files
  /\ response' = [response EXCEPT ![w] =
                    [success |-> TRUE, data_len |-> Len(files[PathOf(w)])]]
  /\ Goto(w, "source")
  /\ UNCHANGED <<request, locks, disk, clock, stamp, pos, ok, listing, out, acked, stuck,
                 crashes>>

\* Faulty variant: the -1 of getFileSize is announced as a size.
NoSizeUnchecked(w) ==
  /\ At(w, "stat")
  /\ PathOf(w) \notin DOMAIN files
  /\ response' = [response EXCEPT ![w] = [success |-> TRUE, data_len |-> 0 - 1]]
  /\ Goto(w, "reply")
  /\ UNCHANGED <<request, locks, disk, clock, stamp, pos, ok, listing, out, acked, stuck,
                 crashes>>

NoSize(w) ==
  /\ At(w, "stat")
  /\ PathOf(w) \notin DOMAIN files \/ DiskFaults
  /\ ok' = [ok EXCEPT ![w] = FALSE]
  /\ Goto(w, "reply")
  /\ UNCHANGED <<request, locks, disk, clock, stamp, pos, listing, answers, stuck, crashes>>

OpenSource(w) ==
  /\ At(w, "source")
  /\ Goto(w, "send")
  /\ UNCHANGED <<request, locks, disk, clock, stamp, pos, ok, listing, answers, stuck, crashes>>

(***************************************************************************)
(* The second fopen fails: the size was announced, no contents follow.     *)
(***************************************************************************)
OpenSourceFails(w) ==
  /\ At(w, "source")
  /\ DiskFaults
  /\ Goto(w, "unlock")
  /\ UNCHANGED <<request, locks, disk, clock, stamp, pos, ok, listing, answers, stuck, crashes>>

(***************************************************************************)
(* The send loop.  sendALL answers with a bool, so status < 0 never holds: *)
(* a send that failed does not end the loop, and neither does a read that  *)
(* failed.                                                                 *)
(***************************************************************************)
SendChunk(w) ==
  /\ At(w, "send")
  /\ w \notin stuck
  /\ pos[w] < Len(files[PathOf(w)])
  /\ out' = [out EXCEPT ![w] = Append(@, files[PathOf(w)][pos[w] + 1])]
  /\ pos' = [pos EXCEPT ![w] = @ + 1]
  /\ UNCHANGED <<pc, request, locks, disk, clock, stamp, ok, listing, response, acked,
                 stuck, crashes>>

SendDone(w) ==
  /\ At(w, "send")
  /\ w \notin stuck
  /\ pos[w] = Len(files[PathOf(w)])
  /\ Goto(w, "unlock")
  /\ UNCHANGED <<request, locks, disk, clock, stamp, pos, ok, listing, answers, stuck, crashes>>

-----------------------------------------------------------------------------
(* handleRemoveRequest *)

RemoveFile(w) ==
  /\ At(w, "remove")
  /\ PathOf(w) \in DOMAIN files
  /\ files' = Erase(files, PathOf(w))
  /\ acked' = Erase(acked, PathOf(w))
  /\ Goto(w, "list")
  /\ UNCHANGED <<request, locks, versions, clock, stamp, pos, ok, listing, out, response,
                 stuck, crashes>>

RemoveFileFails(w) ==
  /\ At(w, "remove")
  /\ PathOf(w) \notin DOMAIN files \/ DiskFaults
  /\ ok' = [ok EXCEPT ![w] = FALSE]
  /\ Goto(w, "reply")
  /\ UNCHANGED <<request, locks, disk, clock, stamp, pos, listing, answers, stuck, crashes>>

(***************************************************************************)
(* The entries the loop acts on: strncmp compares a version's whole name,  *)
(* basename and time, with as many characters as the basename has.  All    *)
(* entries are versions, regular files.                                    *)
(***************************************************************************)
Prior(w) == {v \in DOMAIN versions : <<v[1], PathOf(w)>> \in StartsWith}

OpenHistory(w) ==
  /\ At(w, "list")
  /\ todo' = [todo EXCEPT ![w] = Prior(w)]
  /\ Goto(w, "purge")
  /\ UNCHANGED <<request, locks, disk, clock, stamp, pos, ok, seen, answers, stuck, crashes>>

(***************************************************************************)
(* opendir fails: taken for a file without history, whatever the reason.   *)
(***************************************************************************)
NoHistory(w) ==
  /\ At(w, "list")
  /\ versions = <<>> \/ DiskFaults
  /\ Goto(w, "reply")
  /\ UNCHANGED <<request, locks, disk, clock, stamp, pos, ok, listing, answers, stuck, crashes>>

(***************************************************************************)
(* The next entry readdir returns: one that opendir saw, or one created    *)
(* since.  It may be gone by now, and then success is lost; after that     *)
(* nothing is removed any more.                                            *)
(***************************************************************************)
RemoveVersion(w) ==
  /\ At(w, "purge")
  /\ \E v \in (todo[w] \cup Prior(w)) \ seen[w] :
       /\ seen' = [seen EXCEPT ![w] = @ \cup {v}]
       /\ IF ok[w]
            THEN \/ /\ v \in DOMAIN versions
                    /\ versions' = Erase(versions, v)
                    /\ UNCHANGED ok
                 \/ /\ v \notin DOMAIN versions \/ DiskFaults
                    /\ ok' = [ok EXCEPT ![w] = FALSE]
                    /\ UNCHANGED versions
            ELSE UNCHANGED <<ok, versions>>
  /\ UNCHANGED <<pc, request, locks, files, clock, stamp, pos, todo, answers, stuck, crashes>>

\* Faulty variant: the loop stops at the first match.
RemoveDoneAfterOne(w) ==
  /\ At(w, "purge")
  /\ todo[w] = {} \/ seen[w] # {}
  /\ Goto(w, "reply")
  /\ UNCHANGED <<request, locks, disk, clock, stamp, pos, ok, listing, answers, stuck, crashes>>

RemoveDone(w) ==
  /\ At(w, "purge")
  /\ todo[w] \subseteq seen[w]
  /\ Goto(w, "reply")
  /\ UNCHANGED <<request, locks, disk, clock, stamp, pos, ok, listing, answers, stuck, crashes>>

-----------------------------------------------------------------------------
(***************************************************************************)
(* copyFile and sendFileContents leave their loops at feof only.  A read   *)
(* that fails, or a path that is a directory (which fopen opens and fread  *)
(* refuses), returns 0 and sets ferror: the loop goes on for ever with the *)
(* lock held.  A send waits for ever when the client stalls.  A read that  *)
(* fails for a while only is no step at all: it writes and sends nothing.  *)
(***************************************************************************)
ReadFails(w) == DiskFaults /\ pc[w] \in {"copy", "send"}
SendWaits(w) == At(w, "send") /\ request[w].end = "stalls"

GetStuck(w) ==
  /\ w \notin stuck
  /\ ReadFails(w) \/ SendWaits(w)
  /\ stuck' = stuck \cup {w}
  /\ UNCHANGED served

StayStuck(w) == w \in stuck /\ UNCHANGED vars

-----------------------------------------------------------------------------
(* The end of a request *)

(***************************************************************************)
(* buildAndSendResponse with the handler's status.  The client of a WRITE  *)
(* that is still there has been told that its contents are stored.         *)
(***************************************************************************)
Reply(w) ==
  /\ At(w, "reply")
  /\ response' = [response EXCEPT ![w] = [success |-> ok[w], data_len |-> 0]]
  /\ acked' = IF request[w].command = "WRITE" /\ ok[w] /\ request[w].end = "stays"
                THEN Store(acked, PathOf(w), Uploading(w)) ELSE acked
  /\ Goto(w, "unlock")
  /\ UNCHANGED <<request, locks, disk, clock, stamp, pos, ok, listing, out, stuck, crashes>>

\* Faulty variant: the connection is closed and the lock is kept.
UnlockForgotten(w) ==
  /\ At(w, "unlock")
  /\ Goto(w, "closed")
  /\ UNCHANGED <<request, locks, disk, clock, stamp, pos, ok, listing, answers, stuck, crashes>>

(***************************************************************************)
(* pthread_rwlock_unlock and close; the thread's locals are gone.          *)
(***************************************************************************)
Unlock(w) ==
  /\ At(w, "unlock")
  /\ Locks!Release(w, PathOf(w))
  /\ stamp' = [stamp EXCEPT ![w] = 0]
  /\ pos' = [pos EXCEPT ![w] = 0]
  /\ ok' = [ok EXCEPT ![w] = TRUE]
  /\ todo' = [todo EXCEPT ![w] = {}]
  /\ seen' = [seen EXCEPT ![w] = {}]
  /\ out' = [out EXCEPT ![w] = <<>>]
  /\ response' = [response EXCEPT ![w] = NoResponse]
  /\ request' = [request EXCEPT ![w] = NoRequest]
  /\ Goto(w, "closed")
  /\ UNCHANGED <<disk, clock, acked, stuck, crashes>>

(***************************************************************************)
(* The server process dies, with all its threads and locks.  What a stdio  *)
(* stream had not flushed yet is lost: of a file a worker was writing, any *)
(* prefix may be on the disk.                                              *)
(***************************************************************************)
Truncated(contents, n) == IF n < Len(contents) THEN SubSeq(contents, 1, n) ELSE contents

FileWriter(w, p) == At(w, "receive") /\ PathOf(w) = p
VersionWriter(w, v) == At(w, "copy") /\ Version(w) = v
OpenStreams == {w \in Workers : pc[w] \in {"copy", "receive"}}
Lengths == UNION {0 .. Len(c) : c \in Contents}

ServerDies ==
  /\ \E flushed \in [OpenStreams -> Lengths] :
       LET Left(contents, owner) ==
             IF owner = {} THEN contents
             ELSE Truncated(contents, flushed[CHOOSE w \in owner : TRUE])
       IN /\ files' = [p \in DOMAIN files |->
                         Left(files[p], {w \in OpenStreams : FileWriter(w, p)})]
          /\ versions' = [v \in DOMAIN versions |->
                         Left(versions[v], {w \in OpenStreams : VersionWriter(w, v)})]
  /\ pc' = [w \in Workers |-> IF pc[w] \in {"idle", "closed"} THEN pc[w] ELSE "dead"]
  /\ request' = [w \in Workers |-> NoRequest]
  /\ readers' = [p \in Paths |-> {}]
  /\ writers' = [p \in Paths |-> {}]
  /\ stamp' = [w \in Workers |-> 0]
  /\ pos' = [w \in Workers |-> 0]
  /\ ok' = [w \in Workers |-> TRUE]
  /\ todo' = [w \in Workers |-> {}]
  /\ seen' = [w \in Workers |-> {}]
  /\ out' = [w \in Workers |-> <<>>]
  /\ response' = [w \in Workers |-> NoResponse]
  /\ stuck' = {}
  /\ UNCHANGED <<clock, acked>>

Busy == \E w \in Workers : pc[w] \notin {"idle", "closed", "dead"}

Crash ==
  /\ Busy
  /\ crashes < MaxCrashes
  /\ crashes' = crashes + 1
  /\ ServerDies

(***************************************************************************)
(* A send to a client that is gone raises SIGPIPE, which nobody handles:   *)
(* after a reset any send may, after a close the second one.  A loop whose *)
(* reads fail sends nothing.                                               *)
(***************************************************************************)
BrokenPipe(w) ==
  /\ w \notin stuck
  /\ \/ request[w] # NoRequest /\ request[w].end = "resets"
        /\ pc[w] \in {"stat", "send", "reply"}
     \/ request[w] # NoRequest /\ request[w].end = "closes" /\ At(w, "send")
  /\ ServerDies
  /\ UNCHANGED crashes

(***************************************************************************)
(* The version's file cannot be created: copyFile refuses the null pointer *)
(* and fclose(NULL) kills the process.                                     *)
(***************************************************************************)
VersionUnwritable(w) ==
  /\ At(w, "save")
  /\ PathOf(w) \in DOMAIN files
  /\ DiskFaults
  /\ ServerDies
  /\ UNCHANGED crashes

-----------------------------------------------------------------------------
HandleWrite(w) ==
  \/ NothingToSave(w) \/ SaveCurrentVersion(w) \/ CopyChunk(w) \/ CopyDone(w)
  \/ OpenTarget(w) \/ OpenTargetFails(w)
  \/ ReceiveChunk(w) \/ ReceiveError(w) \/ ReceiveNothing(w) \/ ReceiveDone(w)

HandleGet(w) ==
  \/ AnnounceSize(w) \/ NoSize(w) \/ OpenSource(w) \/ OpenSourceFails(w)
  \/ SendChunk(w) \/ SendDone(w)

HandleRemove(w) ==
  \/ RemoveFile(w) \/ RemoveFileFails(w) \/ OpenHistory(w) \/ NoHistory(w)
  \/ RemoveVersion(w) \/ RemoveDone(w)

WorkerStep(w) ==
  TakeLock(w) \/ HandleWrite(w) \/ HandleGet(w) \/ HandleRemove(w)
    \/ Reply(w) \/ Unlock(w)

Idle == ~Busy /\ UNCHANGED vars

Next ==
  \/ \E w \in Workers :
       \/ AcceptAny(w) \/ WorkerStep(w) \/ GetStuck(w) \/ StayStuck(w)
       \/ BrokenPipe(w) \/ VersionUnwritable(w)
  \/ Crash
  \/ Idle

Spec == Init /\ [][Next]_vars

(***************************************************************************)
(* A worker is an OS thread: it is never suspended for ever.  What its     *)
(* client sends and whether it reads is the client's affair (request.sent, *)
(* request.end), and nothing promises that clients connect.                *)
(***************************************************************************)
Fairness == \A w \in Workers : WF_vars(WorkerStep(w))
FairSpec == Spec /\ Fairness

-----------------------------------------------------------------------------
Labels == {"idle", "lock", "save", "copy", "open", "receive", "stat", "source",
           "send", "remove", "list", "purge", "reply", "unlock", "closed", "dead"}
Names == Paths \X Nat
FilesOver(S) == UNION {[D -> Seq(Chunks)] : D \in SUBSET S}

TypeOK ==
  /\ pc \in [Workers -> Labels]
  /\ request \in [Workers -> Request \cup {NoRequest}]
  /\ Locks!TypeOK
  /\ DOMAIN files \subseteq Paths /\ files \in [DOMAIN files -> Seq(Chunks)]
  /\ DOMAIN versions \subseteq Names /\ versions \in [DOMAIN versions -> Seq(Chunks)]
  /\ DOMAIN acked \subseteq Paths /\ acked \in [DOMAIN acked -> Seq(Chunks)]
  /\ clock \in Nat
  /\ stamp \in [Workers -> Nat]
  /\ pos \in [Workers -> Nat]
  /\ ok \in [Workers -> BOOLEAN]
  /\ todo \in [Workers -> SUBSET Names]
  /\ seen \in [Workers -> SUBSET Names]
  /\ out \in [Workers -> Seq(Chunks)]
  /\ response \in [Workers -> [success : BOOLEAN, data_len : Nat]]
  /\ stuck \in SUBSET Workers
  /\ crashes \in 0 .. MaxCrashes

Ending(w, command) == At(w, "unlock") /\ request[w].command = command
VersionsOf(p) == {v \in DOMAIN versions : v[1] = p}

(***************************************************************************)
(* What a client was told is stored stays recoverable, whatever write or   *)
(* crash comes after it: it is the file, or one of the file's versions,    *)
(* until an RM of the path (request_handler.c:81, "save this version of    *)
(* it", comes before the truncation at utils.c:197).                       *)
(***************************************************************************)
AckedRecoverable ==
  \A p \in DOMAIN acked :
    \/ p \in DOMAIN files /\ files[p] = acked[p]
    \/ \E v \in VersionsOf(p) : versions[v] = acked[p]

(***************************************************************************)
(* A WRITE about to answer success has left exactly the client's contents  *)
(* in the file: receiveFileContents returned "true - on success, false -   *)
(* on failure" (utils.h:110-111) and request_handler.c:84 answers that.    *)
(***************************************************************************)
WriteStatusTruthful ==
  \A w \in Workers :
    At(w, "reply") /\ request[w].command = "WRITE" /\ ok[w] =>
      PathOf(w) \in DOMAIN files /\ files[PathOf(w)] = Uploading(w)

(***************************************************************************)
(* A GET sends one version of the file: the size it announced, found by    *)
(* one fopen, is the length of what the second fopen finds, and all that   *)
(* was sent is from the file as it is (request_handler.c:92-103).  Only a  *)
(* second fopen that fails sends nothing at all.                           *)
(***************************************************************************)
GetIsSnapshot ==
  \A w \in Workers :
    pc[w] \in {"source", "send", "unlock"} /\ request[w].command = "GET"
      /\ response[w].success =>
        /\ PathOf(w) \in DOMAIN files
        /\ response[w].data_len = Len(files[PathOf(w)])
        /\ out[w] = SubSeq(files[PathOf(w)], 1, pos[w])
        /\ At(w, "unlock") /\ out[w] # files[PathOf(w)] => DiskFaults /\ out[w] = <<>>

(***************************************************************************)
(* An RM answered with success leaves neither the file nor any version of  *)
(* it, those that earlier crashes left behind included                     *)
(* (request_handler.c:141-163).                                            *)
(***************************************************************************)
RemoveErasesHistory ==
  \A w \in Workers :
    Ending(w, "RM") /\ response[w].success =>
      PathOf(w) \notin DOMAIN files /\ VersionsOf(PathOf(w)) = {}

(***************************************************************************)
(* A path without a file has no versions, unless its RM is under way or    *)
(* the server has died: version_test.sh:46, "deleting a file also deletes  *)
(* all version history".                                                   *)
(***************************************************************************)
NoFileNoHistory ==
  (\A w \in Workers : ~At(w, "dead")) =>
    \A p \in Paths \ DOMAIN files :
      \/ VersionsOf(p) = {}
      \/ \E w \in Workers : pc[w] \in {"list", "purge"} /\ PathOf(w) = p

(***************************************************************************)
(* A version disappears only while an RM of its path goes through the      *)
(* folder: request_handler.c:150, "does it have the same basename just     *)
(* with the timestamp appended?"                                           *)
(***************************************************************************)
RemovesOwnVersions ==
  [][\A v \in DOMAIN versions \ DOMAIN versions' :
       \E w \in Workers : At(w, "purge") /\ PathOf(w) = v[1]]_vars

(***************************************************************************)
(* The receive loop ends: utils.c:209, "loop until we're done receiving    *)
(* data".                                                                  *)
(***************************************************************************)
ReceiveLoopEnds == \A w \in Workers : At(w, "receive") ~> ~At(w, "receive")

(***************************************************************************)
(* A request that waits for its lock ends with its connection closed, or   *)
(* with the server, unless the loop of a request on the same path hangs,   *)
(* its own or another's: in a read that fails, with a client that is gone, *)
(* or with one that stalls (utils.c:40, 69, 213).  No other path is held   *)
(* up, and no handler leaves its lock held (thread_manager.c:68-104).      *)
(***************************************************************************)
Hangs(v) == v \in stuck \/ Starved(v)
HeldUp(w) == \E v \in Workers :
  Hangs(v) /\ request[w] # NoRequest /\ PathOf(v) = PathOf(w)

EveryRequestEnds ==
  \A w \in Workers : At(w, "lock") ~> pc[w] \in {"closed", "dead"} \/ HeldUp(w)

(***************************************************************************)
(* The handlers implement VersionStore.  While a WRITE has the file open,  *)
(* the current contents are still those it saved; the version it saves is  *)
(* no history before it is done.                                           *)
(***************************************************************************)
Receiving(p) == \E w \in Workers : FileWriter(w, p)
Receiver(p) == CHOOSE w \in Workers : FileWriter(w, p)
Pending == {Version(w) : w \in {x \in Workers : pc[x] \in {"copy", "open", "receive"}}}
Present == {p \in Paths : IF Receiving(p) THEN stamp[Receiver(p)] # 0 ELSE p \in DOMAIN files}

Current ==
  [p \in Present |-> IF Receiving(p) THEN versions[Version(Receiver(p))] ELSE files[p]]
History == [p \in Paths |-> {<<v, versions[v]>> : v \in VersionsOf(p) \ Pending}]
Deleting == {PathOf(w) : w \in {x \in Workers : pc[x] \in {"remove", "list", "purge"}}}
Serving == {w \in Workers : pc[w] \notin {"idle", "closed", "dead"}}

VersionedFiles == INSTANCE VersionStore WITH
  Clients <- Workers, current <- Current, history <- History, deleting <- Deleting,
  serving <- Serving

ImplementsStore == VersionedFiles!Spec
=============================================================================
