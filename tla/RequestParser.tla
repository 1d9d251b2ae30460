---------------------------- MODULE RequestParser ----------------------------
(***************************************************************************)
(* What worker threads do with strtok: deSerializeRequest (protocol.c) and *)
(* createNestedDirectories (utils.c), once for the file of a WRITE and     *)
(* once for its version.  strtok keeps the position of its next call in    *)
(* one variable for the whole process, read when a call begins and written *)
(* when it ends; a loop of one thread thus goes on where a call of another *)
(* stopped, in a text of that thread, which may be dead by then.           *)
(***************************************************************************)
EXTENDS Protocol, Paths

CONSTANTS
  Workers,     \* the worker threads: one per accepted connection
  Nobody,      \* the owner of a text that is dead
  Requests,    \* the requests clients send
  DiskFaults   \* may the disk fail?

ASSUME ParserAssumption ==
  /\ Nobody \notin Workers
  /\ DiskFaults \in BOOLEAN
  /\ Requests \subseteq [command : ToSet(COMMAND_STRINGS), remote_path : Seq(STRING) \ {<<>>},
                         data_len : Nat]
  /\ \A r \in Requests : r.data_len < 10^MaxDigits

VARIABLES
  pc,          \* where each worker is
  sent,        \* the request its client sent, until it is parsed
  job,         \* 1: its request; 2: its file's directories; 3: its version's
  text,        \* the text its strtok loop cuts: buffer_cpy or directory_only
  position,    \* strtok's position: <<owner of a text, index>>
  from,        \* where a worker's call began
  token,       \* the token it returned: a place, like the position
  fields,      \* deSerializeRequest: the fields so far
  path,        \* remote_path of a WRITE or RM it returned
  current,     \* createNestedDirectories: curr_directory
  made,        \* what it returned
  dirs,        \* the directories that exist
  regular,     \* the files that exist, versions left out
  removed,     \* the files and directories an RM removed
  disturbed,   \* workers whose loop another worker's call came into
  ub           \* has a dead text been touched?

texts == <<position, text, from, token>>
results == <<sent, path, made>>
tree == <<dirs, regular, removed>>
vars == <<pc, job, texts, fields, current, results, tree, disturbed, ub>>

NoPlace == <<Nobody, 0>>
Gone == <<Nobody, 1>>         \* somewhere in a text that is dead
Alive(place) == place[1] # Nobody

At(w, label) == pc[w] = label
Goto(w, label) == pc' = [pc EXCEPT ![w] = label]
Looping(w) == pc[w] \in {"next", "scan", "use"}

Init ==
  /\ pc = [w \in Workers |-> "idle"]
  /\ sent = [w \in Workers |-> NoRequest]
  /\ job = [w \in Workers |-> 1]
  /\ text = [w \in Workers |-> <<>>]
  /\ position = NoPlace
  /\ from = [w \in Workers |-> NoPlace]
  /\ token = [w \in Workers |-> NoPlace]
  /\ fields = [w \in Workers |-> <<>>]
  /\ path = [w \in Workers |-> <<>>]
  /\ current = [w \in Workers |-> <<>>]
  /\ made = [w \in Workers |-> FALSE]
  /\ dirs = {}
  /\ regular = {}
  /\ removed = {}
  /\ disturbed = {}
  /\ ub = FALSE

(***************************************************************************)
(* recv has delivered a request; strdup(buffer).                           *)
(***************************************************************************)
ReceiveRequest(w) ==
  /\ At(w, "idle")
  /\ \E r \in Requests :
       /\ sent' = [sent EXCEPT ![w] = r]
       /\ text' = [text EXCEPT ![w] = SerializeRequest(r)]
  /\ Goto(w, "begin")
  /\ UNCHANGED <<position, tree, disturbed, ub, job, from, token, fields, current, path, made>>

-----------------------------------------------------------------------------
(* strtok *)

\* Faulty variant: the first call, too, goes on at the position.
BeginAtPosition(w) ==
  /\ At(w, "begin")
  /\ from' = [from EXCEPT ![w] = IF position = NoPlace THEN <<w, 1>> ELSE position]
  /\ disturbed' = disturbed \ {w}
  /\ Goto(w, "scan")
  /\ UNCHANGED <<position, tree, ub, job, text, token, fields, current, results>>

\* Faulty variant: the text is only noted as the position, and read later.
BeginThroughPosition(w) ==
  /\ At(w, "begin")
  /\ position' = <<w, 1>>
  /\ disturbed' = disturbed \ {w}
  /\ Goto(w, "next")
  /\ UNCHANGED <<from, tree, ub, job, text, token, fields, current, results>>

\* strtok(text, delim)
Begin(w) ==
  /\ At(w, "begin")
  /\ from' = [from EXCEPT ![w] = <<w, 1>>]
  /\ disturbed' = disturbed \ {w}
  /\ Goto(w, "scan")
  /\ UNCHANGED <<position, tree, ub, job, text, token, fields, current, results>>

\* strtok(NULL, delim)
GoOn(w) ==
  /\ At(w, "next")
  /\ from' = [from EXCEPT ![w] = position]
  /\ Goto(w, "scan")
  /\ UNCHANGED <<position, tree, disturbed, ub, job, text, token, fields, current, results>>

(***************************************************************************)
(* The call finds a token, ends it with a NUL and stores the position.  A  *)
(* dead text may yield a token more, or none.                              *)
(***************************************************************************)
Delimiter(w) == IF job[w] = 1 THEN Comma ELSE Slash

ScanAlive(w, owner, found) ==
  /\ text' = [text EXCEPT ![owner] = found.text]
  /\ position' = <<owner, found.next>>
  /\ token' = [token EXCEPT ![w] = IF found.token = 0 THEN NoPlace ELSE <<owner, found.token>>]
  /\ UNCHANGED ub

ScanDead(w) ==
  /\ token' \in {[token EXCEPT ![w] = place] : place \in {NoPlace, from[w]}}
  /\ position' = NoPlace
  /\ ub' = TRUE
  /\ UNCHANGED text

Scan(w) ==
  /\ At(w, "scan")
  /\ IF Alive(from[w])
       THEN ScanAlive(w, from[w][1], Strtok(text[from[w][1]], from[w][2], Delimiter(w)))
       ELSE ScanDead(w)
  /\ disturbed' = disturbed \cup {v \in Workers \ {w} : Looping(v)}
  /\ from' = [from EXCEPT ![w] = NoPlace]
  /\ Goto(w, "use")
  /\ UNCHANGED <<tree, job, fields, current, results>>

(***************************************************************************)
(* What a token reads when it is used.  A dead one may still be the field  *)
(* it was, or nothing like it.                                             *)
(***************************************************************************)
Remains == {<<"junk">>} \cup {r.remote_path : r \in Requests}
Strings(w) ==
  IF Alive(token[w]) THEN {StringAt(text[token[w][1]], token[w][2])} ELSE Remains

HasToken(w) == At(w, "use") /\ token[w] # NoPlace
Touch(w) == ub' = (ub \/ ~Alive(token[w]))
Used(w) == token' = [token EXCEPT ![w] = NoPlace] /\ UNCHANGED <<position, text, from>>

(***************************************************************************)
(* The text of a loop that ends is freed or goes out of scope.             *)
(***************************************************************************)
Drop(w) ==
  LET Lost(place) == IF place[1] = w THEN Gone ELSE place
  IN /\ text' = [text EXCEPT ![w] = <<>>]
     /\ position' = Lost(position)
     /\ from' = [v \in Workers |-> Lost(from[v])]
     /\ token' = [v \in Workers |-> IF v = w THEN NoPlace ELSE Lost(token[v])]

-----------------------------------------------------------------------------
(* deSerializeRequest *)

UseField(w) ==
  /\ HasToken(w)
  /\ job[w] = 1
  /\ Len(fields[w]) < 3
  /\ \E str \in Strings(w) : fields' = [fields EXCEPT ![w] = Append(@, str)]
  /\ Touch(w)
  /\ Used(w)
  /\ Goto(w, "next")
  /\ UNCHANGED <<job, current, results, tree, disturbed>>

(***************************************************************************)
(* No token, or a fourth: free(buffer_cpy), createRequestFromParts.  Only  *)
(* a WRITE and an RM change files and directories; they wait for the lock  *)
(* of their path.                                                          *)
(***************************************************************************)
FieldsRead(w) == At(w, "use") /\ job[w] = 1 /\ (token[w] = NoPlace \/ Len(fields[w]) = 3)
Result(w) == RequestOf(fields[w])

EndOfFields(w) ==
  /\ FieldsRead(w)
  /\ Drop(w)
  /\ sent' = [sent EXCEPT ![w] = NoRequest]
  /\ fields' = [fields EXCEPT ![w] = <<>>]
  /\ IF Result(w).command \in {"WRITE", "RM"}
       THEN path' = [path EXCEPT ![w] = Result(w).remote_path] /\ Goto(w, "lock")
       ELSE Goto(w, "done") /\ UNCHANGED path
  /\ job' = [job EXCEPT ![w] = IF Result(w).command = "WRITE" THEN 2 ELSE 1]
  /\ disturbed' = disturbed \ {w}
  /\ UNCHANGED <<current, made, tree, ub>>

\* The lock list and GETs, which leave the tree alone, are left out.
InHandler(w) == path[w] # <<>> /\ ~At(w, "lock")

TakeLock(w) ==
  /\ At(w, "lock")
  /\ \A v \in Workers \ {w} : InHandler(v) => path[v] # path[w]
  /\ Goto(w, IF job[w] = 2 THEN "look" ELSE "remove")
  /\ UNCHANGED <<job, texts, fields, current, results, tree, disturbed, ub>>

-----------------------------------------------------------------------------
(* createNestedDirectories *)

Directory(w) ==
  IF job[w] = 2 THEN ExtractDirectory(path[w])
  ELSE VersionFolder(path[w])

Return(w, b) ==
  /\ Drop(w)
  /\ made' = [made EXCEPT ![w] = b]
  /\ current' = [current EXCEPT ![w] = <<>>]
  /\ Goto(w, IF job[w] = 2 THEN "save" ELSE "version")
  /\ UNCHANGED <<job, fields, sent, path, disturbed>>

\* opendir finds the directory: nothing to do.
AlreadyThere(w) ==
  /\ At(w, "look")
  /\ Directory(w) \in dirs
  /\ Return(w, TRUE)
  /\ UNCHANGED <<tree, ub>>

NotThere(w) ==
  /\ At(w, "look")
  /\ Directory(w) \notin dirs
  /\ text' = [text EXCEPT ![w] = Directory(w)]
  /\ Goto(w, "begin")
  /\ UNCHANGED <<position, job, from, token, fields, current, results, tree, disturbed, ub>>

Longer(w, str) == IF current[w] = <<>> THEN str ELSE current[w] \o <<Slash>> \o str

\* What mkdir answers EEXIST for.
Exists(name) == name \in dirs \cup regular
InDirectory(name) == ExtractDirectory(name) \in dirs \cup {<<>>}

\* Faulty variant: a directory that exists already is tried again.
MakeDirectoryAgain(w) ==
  /\ HasToken(w)
  /\ job[w] # 1
  /\ \E str \in Strings(w) :
       IF Exists(Longer(w, str)) THEN UNCHANGED vars
       ELSE /\ dirs' = dirs \cup {Longer(w, str)}
            /\ current' = [current EXCEPT ![w] = Longer(w, str)]
            /\ Touch(w)
            /\ Used(w)
            /\ Goto(w, "next")
            /\ UNCHANGED <<regular, removed, job, fields, results, disturbed>>

(***************************************************************************)
(* mkdir of one directory more; that something of that name exists, a      *)
(* directory or not, is fine.                                              *)
(***************************************************************************)
MakeDirectory(w) ==
  /\ HasToken(w)
  /\ job[w] # 1
  /\ \E str \in Strings(w) :
       /\ Exists(Longer(w, str)) \/ InDirectory(Longer(w, str))
       /\ dirs' = dirs \cup ({Longer(w, str)} \ regular)
       /\ current' = [current EXCEPT ![w] = Longer(w, str)]
  /\ Touch(w)
  /\ Used(w)
  /\ Goto(w, "next")
  /\ UNCHANGED <<regular, removed, job, fields, results, disturbed>>

\* Faulty variant: EEXIST is an error like any other.
MakeDirectoryFailsOnExisting(w) ==
  /\ HasToken(w)
  /\ job[w] # 1
  /\ \E str \in Strings(w) : Exists(Longer(w, str)) \/ ~InDirectory(Longer(w, str))
  /\ Touch(w)
  /\ Return(w, FALSE)
  /\ UNCHANGED tree

\* In no directory, or for a reason of the disk's own, mkdir fails.
MakeDirectoryFails(w) ==
  /\ HasToken(w)
  /\ job[w] # 1
  /\ \E str \in Strings(w) :
       ~Exists(Longer(w, str)) /\ (InDirectory(Longer(w, str)) => DiskFaults)
  /\ Touch(w)
  /\ Return(w, FALSE)
  /\ UNCHANGED tree

EndOfComponents(w) ==
  /\ At(w, "use")
  /\ token[w] = NoPlace
  /\ job[w] # 1
  /\ Return(w, TRUE)
  /\ UNCHANGED <<tree, ub>>

-----------------------------------------------------------------------------
Leave(w) ==
  /\ Goto(w, "done")
  /\ path' = [path EXCEPT ![w] = <<>>]
  /\ job' = [job EXCEPT ![w] = 1]
  /\ disturbed' = disturbed \ {w}

(***************************************************************************)
(* saveCurrentVersion: what createNestedDirectories returned is not looked *)
(* at.  A file that can be read, or a directory, gets a version, for which *)
(* it is called again.                                                     *)
(***************************************************************************)
Save(w) ==
  /\ At(w, "save")
  /\ \/ /\ ~Exists(path[w]) \/ DiskFaults
        /\ Goto(w, "store")
        /\ UNCHANGED job
     \/ /\ Exists(path[w]) /\ ExtractDirectory(path[w]) # <<>>
        /\ job' = [job EXCEPT ![w] = 3]
        /\ Goto(w, "look")
  /\ made' = [made EXCEPT ![w] = FALSE]
  /\ UNCHANGED <<texts, fields, current, sent, path, tree, disturbed, ub>>

CloseNothing == pc' = [v \in Workers |-> "dead"]

\* The version of a path without a directory is to be in "/.versions".
SaveAtRoot(w) ==
  /\ At(w, "save")
  /\ Exists(path[w]) /\ ExtractDirectory(path[w]) = <<>>
  /\ CloseNothing
  /\ made' = [made EXCEPT ![w] = FALSE]
  /\ UNCHANGED <<job, texts, fields, current, sent, path, tree, disturbed, ub>>

(***************************************************************************)
(* The version's file is created; in a folder that does not exist it       *)
(* cannot be, and fclose(NULL) ends the process.  Copying a directory      *)
(* never ends.                                                             *)
(***************************************************************************)
OpenVersion(w) ==
  /\ At(w, "version")
  /\ \/ Directory(w) \in dirs /\ Goto(w, IF path[w] \in dirs THEN "stuck" ELSE "store")
     \/ (Directory(w) \notin dirs \/ DiskFaults) /\ CloseNothing
  /\ made' = [made EXCEPT ![w] = FALSE]
  /\ UNCHANGED <<job, texts, fields, current, sent, path, tree, disturbed, ub>>

\* receiveFileContents creates the file, or returns at once.
Store(w) ==
  /\ At(w, "store")
  /\ LET Possible == InDirectory(path[w]) /\ path[w] \notin dirs
     IN \/ Possible /\ regular' = regular \cup {path[w]}
        \/ (Possible => DiskFaults) /\ UNCHANGED regular
  /\ Leave(w)
  /\ UNCHANGED <<texts, fields, current, sent, made, dirs, removed, ub>>

(***************************************************************************)
(* RM: remove(3) takes a file, or a directory that is empty.  A folder     *)
(* with versions, which are not in the tree, counts as empty.              *)
(***************************************************************************)
Removable(name) ==
  Exists(name) /\ \A other \in dirs \cup regular : ExtractDirectory(other) # name

RemovePath(w) ==
  /\ At(w, "remove")
  /\ \/ /\ Removable(path[w])
        /\ dirs' = dirs \ {path[w]}
        /\ regular' = regular \ {path[w]}
        /\ removed' = removed \cup {path[w]}
     \/ (Removable(path[w]) => DiskFaults) /\ UNCHANGED tree
  /\ Leave(w)
  /\ UNCHANGED <<texts, fields, current, sent, made, ub>>

Returned(w) ==
  \/ pc[w] \in {"done", "dead", "stuck"}
  \/ At(w, "lock") /\ \E v \in Workers \ {w} : At(v, "stuck") /\ path[v] = path[w]
Finished == (\A w \in Workers : Returned(w)) /\ UNCHANGED vars

\* The steps of a loop around strtok: none of them waits.
Loop(w) ==
  \/ Begin(w) \/ GoOn(w) \/ Scan(w)
  \/ UseField(w) \/ EndOfFields(w)
  \/ MakeDirectory(w) \/ MakeDirectoryFails(w) \/ EndOfComponents(w)

Step(w) ==
  \/ Loop(w)
  \/ TakeLock(w) \/ AlreadyThere(w) \/ NotThere(w)
  \/ Save(w) \/ SaveAtRoot(w) \/ OpenVersion(w) \/ Store(w) \/ RemovePath(w)

Next == (\E w \in Workers : ReceiveRequest(w) \/ Step(w)) \/ Finished

Spec == Init /\ [][Next]_vars

(***************************************************************************)
(* A worker is an OS thread: it is never suspended for ever in a loop that *)
(* waits for nothing.  What a client sends, and when a lock is free, is    *)
(* not assumed.                                                            *)
(***************************************************************************)
FairSpec == Spec /\ \A w \in Workers : WF_vars(Loop(w))

-----------------------------------------------------------------------------
Labels == {"idle", "begin", "scan", "use", "next", "lock", "look", "save", "version", "store",
           "remove", "stuck", "done", "dead"}
Places == (Workers \cup {Nobody}) \X Nat
Symbols ==
  ToSet(COMMAND_STRINGS) \cup ToSet(Digits) \cup {Comma, Slash, NUL, ".versions", "junk"}
    \cup UNION {ToSet(r.remote_path) : r \in Requests}

(***************************************************************************)
(* The variables hold what the code's variables can hold; directories are  *)
(* made for paths that are not empty (protocol.c:60, utils.c:97).          *)
(***************************************************************************)
TypeOK ==
  /\ pc \in [Workers -> Labels]
  /\ sent \in [Workers -> Requests \cup {NoRequest}]
  /\ path \in [Workers -> Seq(Symbols)]
  /\ job \in [Workers -> 1 .. 3]
  /\ \A w \in Workers : job[w] # 1 => path[w] # <<>>
  /\ text \in [Workers -> Seq(Symbols)]
  /\ position \in Places
  /\ from \in [Workers -> Places]
  /\ token \in [Workers -> Places]
  /\ fields \in [Workers -> Seq(Seq(Symbols))]
  /\ current \in [Workers -> Seq(Symbols)]
  /\ made \in [Workers -> BOOLEAN]
  /\ dirs \subseteq Seq(Symbols)
  /\ regular \subseteq Seq(Symbols)
  /\ removed \subseteq Seq(Symbols)
  /\ disturbed \subseteq Workers
  /\ ub \in BOOLEAN

(***************************************************************************)
(* A parse that no call of another thread came into gives the request that *)
(* was sent, whatever texts the position went through before               *)
(* (protocol.c:120-142).                                                   *)
(***************************************************************************)
UndisturbedParse ==
  \A w \in Workers :
    FieldsRead(w) /\ w \notin disturbed /\ ~ub => Result(w) = sent[w]

(***************************************************************************)
(* However parses mix, the command of a request is the client's own: no    *)
(* GET becomes an RM, though its path may be another client's              *)
(* (protocol.c:121-126).                                                   *)
(***************************************************************************)
OwnCommand ==
  \A w \in Workers :
    FieldsRead(w) /\ ~ub /\ Result(w) # NoRequest => Result(w).command = sent[w].command

(***************************************************************************)
(* createNestedDirectories, when no call of another thread came into its   *)
(* loop: it returns true when every directory on the way was made,         *)
(* utils.h:94-96, "mkdir(data)", "mkdir(data/nestedA)",                    *)
(* "mkdir(data/nestedA/nestedB)", unless a file has the name or an RM has  *)
(* removed it since; and it returns false only over a file in the way, an  *)
(* RM or a failing disk, not over the directories that other threads make  *)
(* at the same time.                                                       *)
(***************************************************************************)
Obstacles == regular \cup removed

UndisturbedDirectories ==
  \A w \in Workers :
    pc[w] \in {"save", "version"} /\ w \notin disturbed /\ ~ub =>
      IF made[w] THEN Ancestors(Directory(w)) \subseteq dirs \cup Obstacles
      ELSE DiskFaults \/ Ancestors(Directory(w)) \cap Obstacles # {}

(***************************************************************************)
(* Only a thread whose loop another thread's call came into follows the    *)
(* position into a text that is freed or out of scope (protocol.c:139).    *)
(***************************************************************************)
OnlyDisturbedTouchTheDead ==
  [][~ub /\ ub' => \E w \in disturbed : pc'[w] # pc[w]]_vars

(***************************************************************************)
(* Every parse and every directory loop ends, even when threads take each  *)
(* other's tokens (protocol.c:124, utils.c:167).                           *)
(***************************************************************************)
EveryLoopEnds == \A w \in Workers : At(w, "begin") ~> ~At(w, "begin") /\ ~Looping(w)

(***************************************************************************)
(* What deSerializeRequest returns is the request its string represents:   *)
(* protocol.h:61, "try to turn a string into a request_t object".          *)
(***************************************************************************)
OwnRequest == \A w \in Workers : FieldsRead(w) => Result(w) \in {NoRequest, sent[w]}
=============================================================================
