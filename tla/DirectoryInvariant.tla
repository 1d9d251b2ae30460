-------------------------- MODULE DirectoryInvariant --------------------------
(***************************************************************************)
(* The inductive invariant behind UndisturbedDirectories of RequestParser: *)
(* how far a loop of createNestedDirectories is that no call of another    *)
(* thread came into.                                                       *)
(***************************************************************************)
EXTENDS ParserInvariant

Separators == {Comma, Slash, NUL}

(***************************************************************************)
(* A separator is between two other symbols.                               *)
(***************************************************************************)
Tidy(string) ==
  \A i \in 1 .. Len(string) :
    string[i] \in Separators => i > 1 /\ i < Len(string) /\ string[i - 1] \notin Separators

Clean(string) ==
  string # <<>> /\ Tidy(string) /\ \A i \in 1 .. Len(string) : string[i] # NUL

\* Clients name files without empty components.
TidyPaths == \A r \in Requests : Clean(r.remote_path)

-----------------------------------------------------------------------------
(***************************************************************************)
(* The position, and with it a call, is never at a separator that is still *)
(* there, and a token never at one.                                        *)
(***************************************************************************)
Ready(place, strings) ==
  Alive(place) => CharAt(strings[place[1]], place[2]) \notin {Comma, Slash}
AtWord(place, strings) ==
  Alive(place) => CharAt(strings[place[1]], place[2]) \notin Separators

TidyInv ==
  /\ Ready(position, text)
  /\ \A w \in Workers :
       /\ Tidy(text[w])
       /\ Ready(from[w], text)
       /\ AtWord(token[w], text)
       /\ \A i \in 1 .. Len(fields[w]) : Clean(fields[w][i])
       /\ path[w] = <<>> \/ Clean(path[w])

(***************************************************************************)
(* What exists or was removed: a name once known stays known.              *)
(***************************************************************************)
Known == dirs \cup Obstacles

(***************************************************************************)
(* A directory or a file was made in a directory.  current is the last one *)
(* that was made or had been there.                                        *)
(***************************************************************************)
TreeInv ==
  /\ <<>> \notin Known
  /\ \A d \in Known : Ancestors(d) \subseteq Known
  /\ \A w \in Workers :
       /\ current[w] \in Known \cup {<<>>}
       /\ job[w] = 1 \/ ~HasText(w) \/ At(w, "begin") => current[w] = <<>>
       /\ job[w] = 3 => ExtractDirectory(path[w]) # <<>>

-----------------------------------------------------------------------------
(***************************************************************************)
(* A loop that is at index n has made the directories before it, and cut   *)
(* the slashes before it.                                                  *)
(***************************************************************************)
Before(directory, n) ==
  IF n = Len(directory) + 1 THEN directory ELSE SubSeq(directory, 1, n - 2)

CutAt(string, directory, n) ==
  /\ Len(string) = Len(directory)
  /\ \A i \in 1 .. Len(directory) :
       string[i] = IF directory[i] = Slash /\ i < n THEN NUL ELSE directory[i]

Stop(directory, n) ==
  /\ n \in 1 .. Len(directory) + 1
  /\ n = 1 \/ n = Len(directory) + 1 \/ directory[n - 1] = Slash

UpTo(w, n) ==
  /\ Stop(Directory(w), n)
  /\ CutAt(text[w], Directory(w), n)

MadeTo(w, n) == UpTo(w, n) /\ current[w] = Before(Directory(w), n)

\* The directory that is made next, in the one made last.
NextOne(w) == Longer(w, StringAt(text[w], token[w][2]))
OnTheWay(w) ==
  /\ UpTo(w, position[2])
  /\ NextOne(w) = Before(Directory(w), position[2])
  /\ ExtractDirectory(NextOne(w)) = current[w]
  /\ current[w] \in Ancestors(Directory(w)) \cup {<<>>}

Making(w) == job[w] # 1 /\ HasText(w)

InLoop(w) ==
  Making(w) =>
    /\ At(w, "begin") => text[w] = Directory(w) /\ Unshared(w)
    /\ Quiet(w) /\ ~ub =>
         /\ At(w, "scan") => MadeTo(w, from[w][2])
         /\ At(w, "next") => MadeTo(w, position[2])
         /\ At(w, "use") =>
              IF token[w] = NoPlace
                THEN MadeTo(w, position[2]) /\ position[2] = Len(Directory(w)) + 1
                ELSE OnTheWay(w)

LoopInv == \A w \in Workers : InLoop(w)

(***************************************************************************)
(* What a loop that ends has made, or what has kept it from it.            *)
(***************************************************************************)
MadeInv ==
  \A w \in Workers :
    pc[w] \in {"save", "version"} /\ Quiet(w) /\ ~ub =>
      IF made[w] THEN Directory(w) \in Known \cup {<<>>}
      ELSE DiskFaults \/ Ancestors(Directory(w)) \cap Obstacles # {}

DirectoryInv == AllDead \/ (TidyInv /\ TreeInv /\ LoopInv /\ MadeInv)
=============================================================================
