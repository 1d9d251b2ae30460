--------------------------- MODULE ParserInvariant ---------------------------
(***************************************************************************)
(* The inductive invariant behind OwnCommand and OnlyDisturbedTouchTheDead *)
(* of RequestParser: whose text the position, the calls and the tokens of  *)
(* strtok lead to while threads come into each other's loops.              *)
(***************************************************************************)
EXTENDS RequestParser

Quiet(w) == w \notin disturbed
HasText(w) == pc[w] \in {"begin", "scan", "use", "next"}
Parsing(w) == job[w] = 1 /\ HasText(w)

(***************************************************************************)
(* The process dies as a whole.                                            *)
(***************************************************************************)
AllDead == \A w \in Workers : At(w, "dead")
NoneDead == \A w \in Workers : ~At(w, "dead")

(***************************************************************************)
(* A place in a text that is not dead is in its symbols or at their end;   *)
(* a worker without a text owns no place.                                  *)
(***************************************************************************)
Within(place) == Alive(place) => place[2] \in 1 .. Len(text[place[1]]) + 1
Outside(place) == Alive(place) => HasText(place[1])

PlaceInv ==
  /\ Within(position) /\ Outside(position)
  /\ \A w \in Workers : Within(from[w]) /\ Outside(from[w])
  /\ \A w \in Workers : Within(token[w]) /\ Outside(token[w])

(***************************************************************************)
(* Only a parse has a request and fields, and only a WRITE that was parsed *)
(* gets to the directories, the version and the file.                      *)
(***************************************************************************)
JobInv ==
  \A w \in Workers :
    /\ Parsing(w) => sent[w] \in Requests
    /\ ~Parsing(w) => fields[w] = <<>>
    /\ At(w, "idle") => job[w] = 1
    /\ pc[w] \in {"look", "save", "version", "store"} => job[w] # 1

(***************************************************************************)
(* A loop no call came into goes on in its own text.                       *)
(***************************************************************************)
QuietInv ==
  ~ub => \A w \in Workers : Quiet(w) =>
    /\ pc[w] \in {"use", "next"} => position[1] = w
    /\ At(w, "scan") => from[w][1] = w
    /\ At(w, "use") => token[w] = NoPlace \/ token[w][1] = w

(***************************************************************************)
(* However parses mix, the text of a request begins with its command and a *)
(* delimiter, and the first field its worker reads is that command: before *)
(* the first call has ended, no other call is led into the text.           *)
(***************************************************************************)
Opening(w) ==
  /\ Len(text[w]) >= 2
  /\ text[w][1] = sent[w].command
  /\ text[w][2] \in {Comma, NUL}

Unshared(w) ==
  /\ position[1] # w
  /\ \A v \in Workers : v # w => from[v][1] # w /\ token[v][1] # w

FirstField(w) ==
  CASE At(w, "begin") -> text[w][2] = Comma /\ Unshared(w)
    [] At(w, "scan") -> text[w][2] = Comma /\ Unshared(w) /\ from[w] = <<w, 1>>
    [] At(w, "use") -> text[w][2] = NUL /\ token[w] = <<w, 1>>
    [] OTHER -> FALSE

CommandInv ==
  \A w \in Workers : Parsing(w) =>
    /\ Opening(w)
    /\ IF fields[w] = <<>> THEN FirstField(w) ELSE fields[w][1] = <<sent[w].command>>

-----------------------------------------------------------------------------
(***************************************************************************)
(* A parse that no call came into has read the fields before the place its *)
(* next call starts at, and cut the commas before it.                      *)
(***************************************************************************)
FieldsOf(r) == <<<<r.command>>, Numeral(r.data_len), r.remote_path>>
CallsAt(r) == <<1, 3, Len(Numeral(r.data_len)) + 4, Len(SerializeRequest(r)) + 1>>

CutTo(string, r, n) ==
  /\ Len(string) = Len(SerializeRequest(r))
  /\ \A i \in 1 .. Len(string) :
       string[i] = IF SerializeRequest(r)[i] = Comma /\ i < n THEN NUL ELSE SerializeRequest(r)[i]

ReadTo(r, string, strings, n) ==
  /\ CutTo(string, r, n)
  /\ Len(strings) \in 0 .. 3
  /\ n = CallsAt(r)[Len(strings) + 1]
  /\ \A i \in 1 .. Len(strings) : strings[i] = FieldsOf(r)[i]

InParse(w) ==
  Parsing(w) =>
    /\ At(w, "begin") => text[w] = SerializeRequest(sent[w]) /\ fields[w] = <<>>
    /\ Quiet(w) /\ ~ub =>
         /\ At(w, "scan") => ReadTo(sent[w], text[w], fields[w], from[w][2])
         /\ At(w, "next") => ReadTo(sent[w], text[w], fields[w], position[2])
         /\ At(w, "use") =>
              IF token[w] = NoPlace THEN fields[w] = FieldsOf(sent[w])
              ELSE ReadTo(sent[w], text[w],
                          Append(fields[w], StringAt(text[w], token[w][2])), position[2])

FieldsInv == AllDead \/ \A w \in Workers : InParse(w)

\* Clients name files without commas; no C string contains a NUL.
PlainPaths ==
  \A r \in Requests : \A i \in 1 .. Len(r.remote_path) : r.remote_path[i] \notin {Comma, NUL}

-----------------------------------------------------------------------------
ParserInv ==
  /\ TypeOK
  /\ AllDead \/ (NoneDead /\ PlaceInv /\ JobInv /\ QuietInv /\ CommandInv)
=============================================================================
