# Verification of Remote-File-System

A TLA+ model of the server of this repository and of its client: the accept
loop, the per-path read/write locks, the worker threads and the parser they
share, the three request handlers over a disk, sockets that break and a server
process that dies, the connection between a client and its worker, and the
values a command line becomes on its way to the server and back. TLC checks small
instances; TLAPS proves every safety property that a passing run checks, and both
refinements, for every value of the constants. Liveness is left to TLC.

## 1. The system

A client (`client/client.c`) connects, sends one request (`WRITE`, `GET`, `RM`
or the unimplemented `LS`), uploads the file of a `WRITE`, and waits for one
response, which for `GET` the file's bytes follow. The server
(`server/server.c`) starts one detached thread per connection.

| component | state | operations | what makes it correct |
|---|---|---|---|
| lock manager, `server/thread_manager.c` | linked list of nodes (path, rwlock, next), its length, head, tail, mutex | `getLockFor` (search, else insert), `threadClientHandler`'s lock and unlock | the list is well formed for every searcher; one node per path; many readers or one writer in the handlers of a path; nobody waits for ever unless a handler of its own path hangs |
| request handlers, `server/request_handler.c`, `utils.c` | the files, the `.versions` folder, per-thread loops | `handleWriteRequest` (save version, truncate, receive, answer), `handleGetRequest` (size, answer, send), `handleRemoveRequest` (remove file, scan folder, remove versions, answer) | acknowledged contents are never lost before an `RM`; a `GET` is one version; an `RM` erases its own history and no other; a request that hangs holds up its own path only |
| server main, `server/server.c` | listening socket, lock list | accept loop, `createAndDetachThread` | the server keeps serving; the thread's arguments live as long as they are used |
| wire session, `thread_manager.c`, `protocol.c`, `client.c` | the byte stream of a connection | send and `recv` of headers and file bytes | both sides agree where a header ends and how many bytes follow |
| protocol, `protocol.c`, `command.c` | strings; `strtok`'s hidden position | build, serialise, parse, free | parsing inverts serialising; the parser is used by one thread at a time |
| paths and arguments, `utils.c`, `client/arg_parser.c` | none | `extractDirectory`, `extractBasename`, `createNestedDirectories`, `argParser` | directory and basename make up the path; every directory on the way is made, or something is in its way |

The threads interact through the lock list (mutex), the node's rwlock, the
disk, the process they share (a crash takes all), and `strtok`. What is hard to
test: interleavings of search and insertion; a pointer used after the mutex;
two opens of one file; a kill between two steps; a connection that breaks in a
loop; a loop that never ends; one step of several failing; and work on files and
directories whose lock is not held.
`PROJECT.json` lists each of these hazards at its line with the property that
covers it.

## 2. Modules

| module | content |
|---|---|
| `RWLockTable` | abstract: per path, the readers and the writer. Actions `AcquireRead`, `AcquireWrite`, `Release`. |
| `LockManager` | `thread_manager.c`: list, nodes, mutex, search loop step by step, rwlocks, `threadClientHandler`. `ImplementsTable` states the refinement of `RWLockTable`. |
| `VersionStore` | abstract: files with their history; a write replaces a file and saves what it replaced in one step; a history shrinks only while its file is deleted; only the death of a server that serves somebody tears, at most what was being written. |
| `RequestHandlers` | the three handlers, a chunk at a time, with the locks of `RWLockTable`, failing opens, reads and writes, clients that break or stall, SIGPIPE and kills. `ImplementsStore` states the refinement of `VersionStore`. |
| `Session` | one connection: `client.c` and the worker's receive and answer, over two byte streams that join and split what is sent; closes, resets, SIGPIPE, kills of either process. |
| `Acceptor` | `server.c`'s `main` and `createAndDetachThread`: accepting, creating and detaching threads, refusing; descriptors and heap blocks that are used again. Of a handler only the files it has open are seen, and that it may return. |
| `Paths` | the path helpers of `utils.c` and `command.c` as operators on sequences of symbols. |
| `Protocol` | `protocol.c` and the commands of `command.c` as operators: requests and responses, the texts they become, the space counted for them, `strtok`. |
| `RequestParser` | `deSerializeRequest` and `createNestedDirectories` in several threads, one `strtok` call or use of a token at a time, with the one position `strtok` keeps; the files and directories, which `WRITE` and `RM` change under the lock of their path. |
| `Invocation` | one run of the client without interference: `arg_parser.c`, the request, what the server reads, the answer, what the client reads. |
| `...Invariant` | the inductive invariants of `RequestHandlers`, `Session`, `Acceptor`, `RequestParser` and `Invocation` (that of `LockManager` is in its module). `RequestParser` has two modules: `ParserInvariant`, and `DirectoryInvariant` about the directory loops. |
| `...Proofs` | the theorems, section 4: `LockManagerProofs`, `AcceptorProofs`, `SessionProofs`; `HandlersProofs` and `StoreProofs` about `RequestHandlers`; `ProtocolProofs` about the operators of `Protocol` and `Paths`, on which `ParserProofs` and `InvocationProofs` rest. |
| `MC...` | small instances. |

**LockManager and the code.** `heap` holds the nodes in the order they were
allocated (none is freed: `freeFileLockList` follows an endless loop), so node
addresses are 1, 2, ... and NULL is 0. `list` is the `file_lock_list`; `mutex`
the threads inside it; `curr`, `steps` the cursor and counter of `getLockFor`;
`lockNode` what it returned. A worker goes `receive`, `getLock`, `search`,
`acquire`, `handle`, `closed`. `LS` stands for every command without a handler.
`malloc` may fail for the list and for a node; a request may fail to arrive, or
never arrive, and a handler need not return.

**RequestHandlers and the code.** A file's contents are a sequence of chunks,
one per `recv` or `fread`. A version is named by its path and a time stamp:
`ClockSteps` says by how much two results of `gettimeofday` may differ, so that
a clock may advance, repeat a time or go back; a version of a time that is
there already is overwritten. `StartsWith` says which files' version names begin
with which basename. The `strncmp` of the `RM` loop compares with
`basename.stamp`, so for a basename like `f.17` the answer depends on the stamp;
the model takes it by file. All entries of the folder are versions, regular
files, so the test for `DT_REG` is always passed. `readdir` may or may not
return entries created after `opendir`. A request carries what its client will
do: stay, or after so many chunks close, reset, or stall. `copyFile` and
`sendFileContents` leave their loops at `feof` only: a worker in `stuck` is in
one whose reads fail (`EIO`, or a directory), or in a send to a client that
stalls, for ever; `Starved` is one whose upload stopped. `acked` is not in the code: it is what the last `WRITE` of each path was
told is stored. When the process dies, by a kill, by SIGPIPE or by
`fclose(NULL)`, all threads and locks are gone and a stream open for writing
leaves any prefix of its file, because stdio buffers are lost; workers still
idle are the connections of the server started next.

**Session and the code.** A stream holds the units on their way to one end. A
serialised header is one unit for its first two fields and the pieces of its
third (the path, or the message); a file is a sequence of chunks, and
`Separators` are the chunks at which `strtok`, or the string, would end.
`network` says how the one `recv` of a header may find it: `whole`, `joined`
(with bytes that follow it) or `split` (any part of it); file bytes arrive in
any portions. A `send` blocks on a full window, is thrown away by an end that
has closed, and fails or raises SIGPIPE after a reset; an end that closes with
bytes unread resets the connection, and what it sent last may be lost.
`outcome` is what the client program did: displayed success or an error, gave
up, or left its receive loop. Locks and versions are left to `RequestHandlers`;
disks do not fail here except that a file to be written may not open.

**Acceptor and the code.** Connections are numbered in the order clients make
them; each has at most one thread. `fds` is the descriptor table, of which
`accept` takes the lowest free entry; `heap` the blocks that hold a
`thread_args_t` or a `request_t`, of which `malloc` takes the lowest. `id` is
the word main writes with `args->thread_id`: when the thread has freed its
arguments by then, the block may be free, another thread's arguments before
main fills them, or a request, whose `remote_path` has the same offset; a worker
that uses such a path may crash. A handler opens and closes files, at most two
at a time, out of the same descriptors; without one for a version it ends the
process by `fclose(NULL)`. No request is freed, nor are the arguments of a
worker that returns early, as in the code, so memory runs out. A thread reads
`args->thread_id` only for its log, which is left out.

**RequestParser and the code.** A text is a `buffer_cpy` or a `directory_only`;
a place is an index into the text of a worker, or lies in a text that is dead. A
call of `strtok` reads the position when it begins and writes it when it ends,
and the token is used later still; calls of other threads may come between any
two of these. Reading a dead text gives a token or none, and as a string any
path a client sent, or rubbish. `disturbed` and `ub` are not in the code: they
record whose loop a call of another thread came into, and whether a dead text
was touched. After a `WRITE` the worker takes the lock of its path (`TakeLock`),
makes the directories of the file and, when something of that name exists, those
of its version, and stores the file; after an `RM` it removes a file or an empty
directory. `dirs` and `regular` are what exists, `removed` what an `RM` has
removed so far; versions, but not their folders, are left out. `mkdir` answers
`EEXIST` for a file as for a directory, and both count as success, as in the
code. A path without a directory has its version at `/.versions`, where it
cannot be created (`SaveAtRoot`); the version of a directory is copied for ever
(`"stuck"`).

**Invocation and the code.** A text is a sequence of symbols: words, digits and
the separators `strtok` and `strrchr` look for. `Null` is C's NULL, which no
argument is. The program exits on the conditions of `argParser`, and when the file of a `WRITE` cannot be
opened. The answers are those of the handlers.

**VersionStore and RequestHandlers.** While a `WRITE` is in its receive loop the
current contents of the abstract file are those in the version it just saved;
the abstract write happens when the loop ends or the server dies in it. A
version being saved is no history until then. Only paths whose `RM` is between
`remove` and its answer are `deleting`; `serving` are the connections a worker
serves. A torn file is thus possible only when the process dies while it serves,
and all connections go with it: an upload that merely breaks off may not leave a
part of its file behind, which is why the refinement needs clients that do not
reset. That `RequestHandlers` takes its locks
from `RWLockTable` is justified by the theorem that `LockManager` implements it.

## 3. Runs

| run | instance | shows |
|---|---|---|
| `locks` | 3 threads, up to 3 paths, every command, fair but for `recv` and the handlers | list, uniqueness, exclusion, pointers and the inductive invariant; refinement of `RWLockTable`; the requests on a path get through when the handlers of that path return, whatever hangs elsewhere. Three paths reach all three cases of `addLockToList`. Paths are numbered in the order of the threads, which the code cannot tell apart. |
| `handlers` | 3 connections, 1 path, 2 contents, clients stay or close, 1 kill, an advancing clock | acknowledged contents recoverable, truthful status, `GET` a snapshot, `RM` complete, no history without a file, refinement of `VersionStore` |
| `handlers_faulty` | 2 connections, 2 paths, one name beginning with the other, disk faults, failing reads, clients stay, reset or stall, a clock that stands still, fair | what holds even then: `GET` a snapshot; a request ends unless the loop of a request on its own path hangs, so no handler leaves its lock and no hanging loop holds up another path |
| `session` | 1 connection, 2 paths, files of up to 2 chunks, every network, either end killed at any instant, fair | what the client reports is true unless its header was split; a request touches only its path; with whole headers and no kill both ends finish. Deadlock is not checked: with joined or split headers both ends may wait for ever. |
| `parser` | 2 threads; uploads of `f` and of `f/g` into a new folder, an `RM` and a `GET` of `f`, fair loops | a parse no call of another thread came into is right, whatever the position went through before; a directory loop no such call came into makes every directory on the way, or says false only over a file or an `RM`; the command of a request is always the client's own; only a disturbed thread touches freed memory; every loop ends |
| `acceptor` | 3 connections, 3 descriptors, 4 heap blocks, a backlog of 2, fair but for `recv` and the handlers | a thread's socket and arguments are its own while it uses them; every open descriptor has one thread, or main, to close it; `accept` ends the server only when all descriptors are in use or a client gave up; a client whose own `recv` and handler return is answered while the server lives, however long other threads hang |
| `invocation` | all sequences of up to 3 arguments after 5 command words, all complete ones in every order; 7 file sizes | arguments mean what the usage text says in any order; the server reads the client's request, its path cut at a comma; the client reads the server's response; directory and basename make up the path |

Three connections suffice for the write-write-remove and write-crash-write
sequences and for a third party that waits; the paths of unrelated names only
meet in the process they share. Contents have one and two chunks, so that they
differ in length and a loop has a middle. A window of four units holds a header
and the beginning of a file, and blocks a sender of more; the second path shows
that a request stays on its own. The initial disk is any with each
file absent or present, with or without one older version. Two threads in `parser`
suffice for one to take the other's token, lose its text, find the folder
made or a file in its way, or lose what it made to an `RM`; more only take turns.
In `acceptor` two files and a connection take every descriptor, the third
connection gets blocks that were used before, and memory runs out when all were
leaked. The
sizes of `invocation` are zero, powers of ten and their neighbours; numbers have
at most nine digits (`MaxDigits`).

Runs that find a disagreement between the code and what the repository says of
it (`findings` in `PROJECT.json`):

| run | what happens |
|---|---|
| `prefix_remove` | `RM ab` removes versions of `abc` |
| `session_joined` | file bytes that arrive with the header are taken for its path, and both ends wait for ever |
| `upload_closed` | a client that closes in mid-upload leaves a thread spinning with the write lock |
| `parser_mixed` | two requests parsed at the same time: a worker gets a request its client did not send |
| `header_space` | a file of one byte: `ceil(log10(1))` counts no digit, and the header is one byte longer than what was allocated for it (`protocol.c:89-97`); the same for 10, 100, ... and for responses |

More disagreements are known and have no run of their own, because they are
what a parameter or an action of a module stands for:

- `recv` failing in the middle of an upload leaves `success` true
  (`utils.c:217`), so with `"resets"` in `ClientEnds` `WriteStatusTruthful` does
  not hold;
- `copyFile` looks neither at `fread` nor at `fwrite` (`utils.c:42-45`), so with
  `DiskFaults` a version that was not saved counts as saved and
  `AckedRecoverable` does not hold;
- a send to a client that has left raises SIGPIPE, which ends the server: action
  `BrokenPipe`;
- a version that cannot be opened ends it too, by `fclose(NULL)`: action
  `VersionUnwritable`;
- two saves in the same microsecond, or after the clock was set back, overwrite
  an older version (`request_handler.c:16-20`): with 0 in `ClockSteps`
  `AckedRecoverable`, after a kill, and `ImplementsStore` do not hold;
- a read that fails, or a path that is a directory, makes `copyFile` and
  `sendFileContents` spin with the lock held (`utils.c:47`, `utils.c:85`): action
  `GetStuck`, and why `EveryRequestEnds` speaks of hanging loops;
- `createNestedDirectories` takes `EEXIST` from a regular file for success
  (`utils.c:182`), and `true` is returned without a directory: `Obstacles` in
  `UndisturbedDirectories`.

**Fairness.** A thread is an OS thread: it is not suspended for ever in a step
that waits for nobody. Nothing else is fair. `recv` waits as long as a client
sends nothing, a handler waits for its client and its disk and may spin for ever,
connections need not come and the server need not die.

- In `LockManager` and `Acceptor` the fair steps are `Progress`, which leaves out
  the arrival of a request and the handlers. `EveryConnectionCloses` and
  `EveryClientAnswered` say what is promised all the same: the first for the
  paths whose handlers return, the second for the connections whose own `recv`
  and handler return. In each the others may hang for ever. Weak fairness is
  enough for the locks because each thread serves one connection, so a waiting
  thread is overtaken at most once by each other; with endless arrivals glibc's
  rwlock, which prefers readers, would promise less.
- In `RequestHandlers` a worker's steps are fair, and what its client sends, whether
  it reads and whether reads of the disk go on failing are part of the instance:
  a loop that hangs is in the model, as `Starved` and `stuck`. `EveryRequestEnds`
  excuses only requests on the path of such a loop.
- In `RequestParser` only the loops around `strtok` are fair, whose steps wait for
  nothing; `EveryLoopEnds` is about these and says nothing of the lock wait
  between them.
- In `Session` each end is a running program, TCP delivers what was sent, disks
  answer, and nobody need be killed.

**Assumptions.** In the runs `handlers`, `prefix_remove` and `upload_closed`, and
in the theorems marked K, the time `makeVersionName` reads advances between two
saves; nowhere else. A dead process loses its buffers
and not what the kernel has; power failure is not modelled. In
`RequestHandlers` all paths are in one directory and name different files: the code does not normalise them, so two
spellings of one file would have two locks. A header and what arrives with it
is shorter than the buffer of the `recv`, and a path than `MAX_PATH_LEN`.
Main's late write to freed arguments does not damage the allocator itself. A file does not change under the
client while it uploads it. `accept` fails for want of descriptors or because
its client gave up; `EINTR` is none of its errors, because the server installs no
signal handler. In the runs without `DiskFaults`, no open, read or write of a
file that exists fails.

## 4. Proofs

Each theorem holds for every value of the constants that satisfies the named
`ASSUME` of its component's module and what is written below; those
assumptions only say what kind of thing a constant is. Every inductive invariant
was model-checked on the instance of the component's run before it was proved.
Four things are never assumed: a bound on threads, connections, files or steps,
a schedule, a moment at which the server may not be killed, and fairness. Where
a length is printed and read back, it has at most `MaxDigits` digits.

| module | theorem | says |
|---|---|---|
| `LockManagerProofs` | `Invariance`, `TypeCorrect` | `IInv`, the type invariant |
| | `ListCorrect`, `LocksAreUnique`, `PointersStayValid` | the list is well formed; one node per path; a pointer found stays the right one |
| | `PathsExcluded` | two threads in the handlers of one path are both readers |
| | `ImplementsLockTable` | refinement of `RWLockTable` |
| `HandlersProofs` | `Invariance`, `TypeCorrect` | `HandlersInv`, the type invariant |
| | `DownloadsAreSnapshots` | `GetIsSnapshot`, with disk faults and resets too |
| `StoreProofs` | `RemovalsRemoveOwnVersions` (N) | an `RM` removes no other file's version |
| | `CleanInvariance`, `RemovalsAreComplete` (D) | an `RM` that reports success left nothing |
| | `WritesAreTruthful` (D, R) | a `WRITE` that reports success stored what was sent |
| | `HistoryInvariance` (D, N), `AcknowledgedWritesSurvive` (D, N, K) | `AckedRecoverable`, across any number of kills |
| | `NoOrphanedVersions` (D, N) | `NoFileNoHistory` |
| | `HandlersImplementStore` (D, N, R, K) | refinement of `VersionStore` |
| `AcceptorProofs` | `Invariance`, `TypeCorrect` | `AcceptorInv`, the type invariant |
| | `SocketsAreOwn`, `DescriptorsAreOwned`, `ArgumentsAreIntact` | whose a descriptor and a block are |
| | `NoDescriptorIsLost` | `StopsOnlyWhenBusy`, with the descriptors of files |
| `SessionProofs` | `Invariance`, `TypeCorrect` | `SessionInv`, the type invariant, for every network |
| | `TruthInvariance`, `OutcomesAreTruthful` (C) | what the client reports is what happened |
| | `FilesAreLeftAlone` (C) | `OnlyItsPath` |
| `ParserProofs` | `Invariance`, `TypeCorrect` | `ParserInv`, the type invariant |
| | `CommandsAreOwn` | `OwnCommand` |
| | `OnlyDisturbedLoopsStray` | `OnlyDisturbedTouchTheDead` |
| | `DirectoriesAreMade` (T) | `UndisturbedDirectories`, for directories of any depth, whatever files, uploads and `RM`s are in the way |
| | `UndisturbedParsesAgree` (P) | `UndisturbedParse` |
| `ProtocolProofs` | `NumeralReadBack` | `strtol` reads back what `%ld` printed |
| | `SplitAndRejoined` | directory and basename make up any path with a slash |
| `InvocationProofs` | `ValuesAreTraced`, `TypesHold` | `InvocationInv`, the type invariant |
| | `ArgumentsAreParsedByUsage` | `ParsedByUsage`, for any number of arguments |
| | `RequestsArrive`, `ResponsesArrive` | `RequestArrives`, `ResponseArrives` |
| | `PathsAreRejoined` | `SplitRejoins` |

The letters are what a theorem assumes beyond that. None can be dropped: with
the opposite, TLC finds the property violated. Each but T is a weakness of the
code listed under findings or hazards.

- D, `~DiskFaults`: no open, read or write of a file that exists fails.
  `copyFile` looks at no result (`utils.c:42-45`), so that a version may be
  saved in part; `remove` of a version may fail. Without D `AckedRecoverable`,
  `WriteStatusTruthful`, `RemoveErasesHistory` and `NoFileNoHistory` are violated.
- N, `DistinctBasenames`: no basename begins with another one
  (`request_handler.c:151`). Otherwise an `RM` takes another file's versions:
  `RemovesOwnVersions`, `AckedRecoverable`, `NoFileNoHistory` and
  `ImplementsStore` are violated.
- K, `ClockAdvances`: `gettimeofday` never returns a time again and never goes
  back (`request_handler.c:16-20`). Otherwise a version may overwrite an older
  one: `AckedRecoverable` and `ImplementsStore` are violated.
- R, no client resets: `"resets"` is not in `ClientEnds`. A `recv` that fails leaves
  `success` true (`utils.c:217`); `WriteStatusTruthful` and `ImplementsStore`
  are violated.
- C, `PlainNames`: no name holds a comma. `strtok` would end the path there
  (`protocol.c:121`): `OutcomeTruthful` and `OnlyItsPath` are violated.
- P, `PlainPaths`: no path holds a comma, for the reason of C, or a NUL, which no
  C string does. A request for `h,g` violates `UndisturbedParse` without any
  other thread. The module of the `parser` run states that its paths are plain.
- T, `TidyPaths`: every slash or comma of a path is between two words. For
  `data//f` the directory is spelled `data/`, the loop makes `data`
  (`utils.c:162`), and the property compares spellings. The module of the
  `parser` run states that its paths are tidy.

**The lock manager.** Exclusion is not inductive: a second
node for a path would break it later. `IInv` adds why there is none: the mutex
is held by exactly the thread inside the search (`MutexInv`); behind that
thread's cursor no node names its path and the cursor is where the counter says
(`SearchInv`), so an insertion adds a new name at the end of a well-formed list;
a pointer once found keeps leading to its path (`PointerStillValid`); and a
node's lock holds exactly the threads inside a handler that chose this node
(`LockInv`). The lemmas `SetLockFacts` and `AddedHeap` say once what the two
kinds of change do to the heap. For the refinement, two threads of one path have
the same node (`SamePathSameNode`), so a free node lock is a free path.

**The handlers.** All rests on the lock: `HandlersInv` holds that a worker
inside a handler holds its path's lock in the mode of its command (`HeldInv`),
and one lemma, `Exclusive`, draws from it that a worker who writes is alone with its path.
The actions then fall into few kinds, each with a frame lemma that says what it
leaves alone, and what one worker needs of its path survives the steps of the
others for that reason. `SnapshotInv` is what a `GET` knows between its two
opens of the file; `StampInv` is why a version's name is new when the clock
advances; `PurgeInv` is why
a version that exists when the folder was opened is not missed, though `readdir`
may skip what came later. `CleanInv` adds how far an upload is in the file, and
`HistoryInv` that a version is complete before its file is truncated, that what
was acknowledged is in an undisturbed file or a complete version
(`RecoverableInv`), and that nobody else removes from the versions an `RM` saw
(`OwnPurgeInv`, the place where N is needed). The death of the process is a case
of its own in each proof: only streams open for writing lose anything, and these
are never the ones the invariants point to. For the refinement each action is
shown to be a write, a snapshot, a deletion, a removal of versions, the beginning
or end of a deletion or of a connection, the death, or a stutter; a `WRITE` is one
atomic write at the end of its loop because the version it saved stands for the
file meanwhile.

**The accept loop.** `OwnSocket`, `EveryDescriptorOwned` and `ArgsIntact` depend
on each other: a thread's descriptor is its own because its arguments are
intact, and they are because no other thread or late write by `main` owns that
block. `AcceptorInv` adds that a connection waits, is held by `main`, or has a
thread, and never two of these (`ClientInv`, `QueueInv`), that it has one
descriptor (`DescriptorInv`), and where its blocks are (`ArgsInv`,
`RequestsInv`). For `NoDescriptorIsLost` only a handler has files open.

**The session.** `SessionInv` says which end may send what while the other is
where: until the server has read, the stream to it is a beginning of header and
file; until it has answered, the other is empty. That suffices for the types on
every network. For the truth of what the client shows, `TruthInv` counts:
`LostUp` and `LostDown` are the bytes of the file that were sent and are neither
stored nor on their way, because they came with a header and were taken for
its end. What is stored follows the lost bytes, so a loop that ends with
all bytes counted has lost none; a server that got a wrong path has lost some,
waits for them, and so never reports success.

**The parser.** One `strtok` call is specified by what it returns for any text
(`StrtokFacts`, from `StartFacts` and `EndFacts`: the first symbol past
delimiters and the first delimiter after it exist); the requests' texts are typed
for every path and number (`RequestText`). `ParserInv` holds that a place leads
into a text that lives and within its length, or is dead (`PlaceInv`); that a loop
no other call came into goes on in its own text (`QuietInv`), so only disturbed
loops meet a dead one; and that the text of a request begins with its command
and a delimiter as long as it lives (`CommandInv`). No call of another thread is
led into a text before its worker's first call has ended, and the first field is
read from that first token, which explains why a command is never mixed up while
a path may be. `CommandsAreOwn` needs no clause about dead texts.

**The directories.** `DirectoryInv` follows the loop of `createNestedDirectories`.
In texts whose separators stand alone every call begins at a word or at the end
(`TidyInv`), because a call stops right behind the delimiter it cuts
(`TidyCall`, `CalledReady`); calls of other threads, with another delimiter, keep
this. What an `RM` or a file may take away again cannot be said by what exists:
`Known` is what exists or was removed, and a name once known stays known. A
directory or a file is made in a directory that exists, so all its ancestors are
known (`TreeInv`, `AncestorsBelow`).
`LoopInv` says of a loop at index n that it has cut exactly the slashes before n
and that `curr_directory` is the directory up to there; `NextStop` is the one
step of this induction: a token more is a component more. A call of another
thread would break it, and that is when the loop is disturbed. While it has a
token, what it makes next is the directory up to the position, in the one it
made last (`OnTheWay`). If `mkdir` finds that one missing, it is known and does
not exist, so a file has its name or an `RM` removed it: that is the only way to
return false on a disk that works. What the loop has made when it returns true
is then the whole directory (`MadeInv`).

**The parse.** `FieldsInv` says of a parse no other call came into that it has
read the fields before the place where its next call starts, and that the text
is the client's with the commas before that place cut (`ReadTo`). A request has
three fields and so four such places (`CallsAt`): what the call at each returns
is said by `CallAtField` and `CallAtEnd`, and what has been read in the end is
the list `FieldsOf`. That this list gives the request back needs the numbers:
`NumeralReadBack`. The value of the digits is a recursive function, and that its
value after k digits of `Numeral(n)` is what division leaves of n is shown by the
least k for which it would not be (`LowestExists`), so no induction over data is
needed; `QuotientStep` is the arithmetic.

**The invocation.** Each value is made from an earlier one: `InvocationInv`
keeps, as long as it matters, what each was made from (`CommandInv`,
`RequestInv`, `ResponseInv`). The rest is about operators. `LineFields`: what
`strtok` returns of a serialised text are its word, its numeral, and the third
part up to its first comma. `CommaFacts`: what the server reads of a path ends
at its first comma and still begins with the folder, so it is never empty.
`FlagFacts`: with
flags at even places and none twice, the first place of a flag is its only one,
and the loop of `getPathArg` finds it in any order. `InvocationAssumption`
says what kind of thing an argument is, a C string that is not NULL and has no
NUL in it, and that sizes stay below the bound of `MaxDigits` digits.

**Only model-checked.** Liveness: `EveryConnectionCloses`, `EveryRequestEnds`,
`EveryLoopEnds`, `EveryClientAnswered`, `WholeSessionEnds`. Fairness and ENABLED
are out of TLAPS's reach.

## 5. Not modelled, and the plan

`NoFileNoHistory` is checked for one path and proved for names none of which
begins another: of two `RM`s of files whose names
begin alike, one may lose the race for a version, stop, and leave history
behind. A `GET` of an empty file displays success and leaves the local file as
it was; `OutcomeTruthful` says only that the remote file was empty. A path with
a comma in it is another file's path at the server: `RequestArrives` says which.

Not modelled: two spellings of one file name, which have two locks; `strdup`
failing inside a node; headers and paths longer than their buffers; what `main`
logs; `printHelp`. The sizes and the port of `config.h` are bounds or labels.
Test scripts are no subject of a model.

What would come next is an abstract counterpart of `Session`: one request and
one response.
