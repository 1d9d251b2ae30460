----------------------------- MODULE ParserProofs -----------------------------
(***************************************************************************)
(* Proofs about RequestParser, for any number of workers and any requests: *)
(* however the calls of strtok mix, a worker reads the command its client  *)
(* sent, only one whose loop was disturbed touches freed memory, and one   *)
(* whose loop was not reads its request whole and makes all the            *)
(* directories it says it made.                                            *)
(***************************************************************************)
EXTENDS DirectoryInvariant, ProtocolProofs

(* Numbers and texts *)

(***************************************************************************)
(* What texts are made of.                                                 *)
(***************************************************************************)
LEMMA SymbolFacts ==
  /\ Comma \in Symbols /\ Slash \in Symbols /\ NUL \in Symbols
  /\ ".versions" \in Symbols /\ "junk" \in Symbols
  /\ \A k \in 1 .. 10 : Digits[k] \in Symbols
  /\ \A r \in Requests : r.command \in Symbols /\ r.remote_path \in Seq(Symbols) \ {<<>>}
<1>1. \A k \in 1 .. 10 : Digits[k] \in ToSet(Digits)
  BY DEF Digits, ToSet
<1>2. ASSUME NEW r \in Requests PROVE r.remote_path \in Seq(Symbols) \ {<<>>}
  <2>1. PICK s : s = r.remote_path
    OBVIOUS
  <2>2. s \in Seq(STRING) /\ s # <<>>
    BY <2>1, ParserAssumption
  <2>3. s = [i \in 1 .. Len(s) |-> s[i]] /\ Len(s) \in Nat
    BY <2>2
  <2>4. \A i \in 1 .. Len(s) : s[i] \in Symbols
    BY <2>1, <2>3 DEF ToSet, Symbols
  <2>5. s \in Seq(Symbols)
    BY <2>3, <2>4, IsASeq
  <2>6. QED
    BY <2>1, <2>2, <2>5
<1>3. \A r \in Requests : r.command \in ToSet(COMMAND_STRINGS)
  BY ParserAssumption
<1>4. QED
  BY <1>1, <1>2, <1>3 DEF Symbols

(***************************************************************************)
(* A numeral is a text of digits.                                          *)
(***************************************************************************)
LEMMA NumeralFacts ==
  ASSUME NEW n \in Nat, n < 10^MaxDigits
  PROVE  /\ Numeral(n) \in Seq(Symbols)
         /\ Len(Numeral(n)) >= 1
         /\ \A i \in 1 .. Len(Numeral(n)) : \E k \in 1 .. 10 : Numeral(n)[i] = Digits[k]
<1>1. PICK c : c = DigitCount(n)
  OBVIOUS
<1>2. c \in 1 .. 9
  BY <1>1, DigitCountFacts DEF MaxDigits
<1>3. ASSUME NEW i \in 1 .. c
      PROVE  \E k \in 1 .. 10 : Digits[((n \div 10^(c - i)) % 10) + 1] = Digits[k]
  <2>1. PICK m : m = 10^(c - i)
    OBVIOUS
  <2>2. c - i \in 0 .. 9
    BY <1>2, <1>3
  <2>3. m \in Nat /\ m > 0
    BY <2>1, <2>2, PowerFacts
  <2>4. n \div m \in Int
    BY <2>3
  <2>5. PICK q \in Int : q = n \div m
    BY <2>4
  <2>6. (q % 10) + 1 \in 1 .. 10
    BY <2>5
  <2>7. QED
    BY <2>1, <2>5, <2>6
<1>4. Numeral(n) = [i \in 1 .. c |-> Digits[((n \div 10^(c - i)) % 10) + 1]]
  BY <1>1 DEF Numeral
<1>5. c \in Nat /\ c >= 1
  BY <1>2
<1>6. PICK s : s = Numeral(n)
  OBVIOUS
<1>7. \A i \in 1 .. c : \E k \in 1 .. 10 : s[i] = Digits[k]
  BY <1>3, <1>4, <1>6
<1>8. \A i \in 1 .. c : s[i] \in Symbols
  BY <1>7, SymbolFacts
<1>9. s = [i \in 1 .. c |-> s[i]]
  BY <1>4, <1>6
<1>10. s \in Seq(Symbols) /\ Len(s) = c
  BY <1>5, <1>8, <1>9, IsASeq
<1>11. QED
  BY <1>5, <1>6, <1>7, <1>10

LEMMA RequestText ==
  ASSUME NEW r \in Requests
  PROVE  /\ SerializeRequest(r) \in Seq(Symbols)
         /\ Len(SerializeRequest(r)) >= 2
         /\ SerializeRequest(r)[1] = r.command
         /\ SerializeRequest(r)[2] = Comma
<1>1. /\ r.command \in Symbols /\ Comma \in Symbols /\ r.remote_path \in Seq(Symbols)
      /\ r.data_len \in Nat /\ r.data_len < 10^MaxDigits
  BY ParserAssumption, SymbolFacts
<1>2. Numeral(r.data_len) \in Seq(Symbols)
  BY <1>1, NumeralFacts
<1> HIDE DEF Comma
<1>3. <<r.command, Comma>> \in Seq(Symbols) /\ <<Comma>> \in Seq(Symbols)
  BY <1>1
<1>4. PICK c, d : c = <<r.command, Comma>> \o Numeral(r.data_len) /\ d = <<Comma>>
  OBVIOUS
<1>5. c \in Seq(Symbols) /\ Len(c) >= 2 /\ c[1] = r.command /\ c[2] = Comma
  BY <1>1, <1>2, <1>3, <1>4, LenProperties, ConcatProperties
<1>6. PICK e : e = c \o d
  OBVIOUS
<1>7. e \in Seq(Symbols) /\ Len(e) >= 2 /\ e[1] = r.command /\ e[2] = Comma
  BY <1>3, <1>4, <1>5, <1>6, LenProperties, ConcatProperties
<1>8. PICK t : t = e \o r.remote_path
  OBVIOUS
<1>9. t \in Seq(Symbols) /\ Len(t) >= 2 /\ t[1] = r.command /\ t[2] = Comma
  BY <1>1, <1>7, <1>8, LenProperties, ConcatProperties
<1>10. QED
  BY <1>4, <1>6, <1>8, <1>9 DEF SerializeRequest

-----------------------------------------------------------------------------
(* strtok *)

Delimiters == {Comma, Slash}

LEMMA DelimiterFacts ==
  /\ NUL \notin Delimiters
  /\ \A w \in Workers : Delimiter(w) \in Delimiters
  BY DEF Delimiters, Comma, Slash, NUL, Delimiter

(***************************************************************************)
(* The three searches of the model end within the text or at its end.      *)
(***************************************************************************)
LEMMA StartFacts ==
  ASSUME NEW string \in Seq(Symbols), NEW a \in 1 .. Len(string) + 1, NEW delim \in Delimiters,
         NEW i, i = FirstFrom(string, a, LAMBDA c : c # delim)
  PROVE  /\ i \in a .. Len(string) + 1
         /\ CharAt(string, i) # delim
<1> DEFINE S == {j \in a .. Len(string) + 1 : CharAt(string, j) # delim}
<1>1. Len(string) + 1 \in S
  BY DelimiterFacts DEF CharAt
<1>2. PICK k \in S : \A j \in a .. k - 1 : j \notin S
  <2>1. /\ a \in Nat /\ Len(string) + 1 \in Nat
        /\ S \in SUBSET (a .. Len(string) + 1) /\ S # {}
    BY <1>1
  <2> HIDE DEF S
  <2>2. QED
    BY <2>1, FirstExists
<1>3. /\ k \in a .. Len(string) + 1 /\ CharAt(string, k) # delim
      /\ \A j \in a .. k - 1 : ~(CharAt(string, j) # delim)
  BY <1>2
<1>4. QED
  BY <1>3 DEF FirstFrom

LEMMA EndFacts ==
  ASSUME NEW string \in Seq(Symbols), NEW a \in 1 .. Len(string) + 1, NEW delim \in Delimiters,
         NEW i, i = FirstFrom(string, a, LAMBDA c : c \in {delim, NUL})
  PROVE  /\ i \in a .. Len(string) + 1
         /\ CharAt(string, i) \in {delim, NUL}
         /\ \A j \in a .. i - 1 : CharAt(string, j) \notin {delim, NUL}
<1> DEFINE S == {j \in a .. Len(string) + 1 : CharAt(string, j) \in {delim, NUL}}
<1>1. Len(string) + 1 \in S
  BY DEF CharAt
<1>2. PICK k \in S : \A j \in a .. k - 1 : j \notin S
  <2>1. /\ a \in Nat /\ Len(string) + 1 \in Nat
        /\ S \in SUBSET (a .. Len(string) + 1) /\ S # {}
    BY <1>1
  <2> HIDE DEF S
  <2>2. QED
    BY <2>1, FirstExists
<1>3. /\ k \in a .. Len(string) + 1 /\ CharAt(string, k) \in {delim, NUL}
      /\ \A j \in a .. k - 1 : ~(CharAt(string, j) \in {delim, NUL})
  BY <1>2
<1>4. QED
  BY <1>3 DEF FirstFrom

LEMMA StringFacts ==
  ASSUME NEW string \in Seq(Symbols), NEW a \in 1 .. Len(string) + 1
  PROVE  StringAt(string, a) \in Seq(Symbols)
<1> DEFINE S == {j \in a .. Len(string) + 1 : CharAt(string, j) = NUL}
<1>1. Len(string) + 1 \in S
  BY DEF CharAt
<1>2. PICK k \in S : \A j \in a .. k - 1 : j \notin S
  <2>1. /\ a \in Nat /\ Len(string) + 1 \in Nat
        /\ S \in SUBSET (a .. Len(string) + 1) /\ S # {}
    BY <1>1
  <2> HIDE DEF S
  <2>2. QED
    BY <2>1, FirstExists
<1>3. /\ k \in a .. Len(string) + 1 /\ CharAt(string, k) = NUL
      /\ \A j \in a .. k - 1 : ~(CharAt(string, j) = NUL)
  BY <1>2
<1>4. FirstFrom(string, a, LAMBDA c : c = NUL) \in a .. Len(string) + 1
  BY <1>3 DEF FirstFrom
<1>5. PICK e : e = FirstFrom(string, a, LAMBDA c : c = NUL)
  OBVIOUS
<1>6. PICK n \in Nat : n = Len(string)
  OBVIOUS
<1>7. /\ e \in a .. n + 1 /\ a \in 1 .. n + 1
  BY <1>4, <1>5, <1>6
<1>8. /\ a \in Int /\ e - 1 \in Int /\ \A i \in a .. e - 1 : i \in 1 .. n
  BY <1>7
<1>9. \A i \in a .. e - 1 : string[i] \in Symbols
  BY <1>6, <1>8
<1>10. SubSeq(string, a, e - 1) \in Seq(Symbols)
  BY <1>8, <1>9, SubSeqProperties
<1>11. QED
  BY <1>5, <1>10 DEF StringAt

(***************************************************************************)
(* One call: it finds its token in the text, leaves the position in it,    *)
(* and turns at most one delimiter into a NUL.                             *)
(***************************************************************************)
LEMMA StrtokFacts ==
  ASSUME NEW string \in Seq(Symbols), NEW a \in 1 .. Len(string) + 1, NEW delim \in Delimiters,
         NEW found, found = Strtok(string, a, delim)
  PROVE  /\ found.next \in 1 .. Len(string) + 1
         /\ found.token = 0 \/ found.token \in 1 .. Len(string) + 1
         /\ found.text \in Seq(Symbols)
         /\ Len(found.text) = Len(string)
         /\ \A i \in 1 .. Len(string) :
              found.text[i] # string[i] => string[i] = delim /\ found.text[i] = NUL
<1>1. PICK start : start = FirstFrom(string, a, LAMBDA c : c # delim)
  OBVIOUS
<1>2. PICK end : end = FirstFrom(string, start, LAMBDA c : c \in {delim, NUL})
  OBVIOUS
<1>3. start \in 1 .. Len(string) + 1 /\ CharAt(string, start) # delim
  <2>1. start \in a .. Len(string) + 1 /\ CharAt(string, start) # delim
    BY <1>1, StartFacts
  <2>2. PICK n \in Nat : n = Len(string)
    OBVIOUS
  <2>3. QED
    BY <2>1, <2>2
<1>4. end \in start .. Len(string) + 1 /\ CharAt(string, end) \in {delim, NUL}
  BY <1>2, <1>3, EndFacts
<1>5. found =
        IF CharAt(string, start) = NUL THEN [token |-> 0, next |-> start, text |-> string]
        ELSE IF CharAt(string, end) = NUL
               THEN [token |-> start, next |-> end, text |-> string]
        ELSE [token |-> start, next |-> end + 1, text |-> [string EXCEPT ![end] = NUL]]
  BY <1>1, <1>2 DEF Strtok
<1>6. CASE CharAt(string, start) = NUL \/ CharAt(string, end) = NUL
  BY <1>3, <1>4, <1>5, <1>6
<1>7. CASE CharAt(string, start) # NUL /\ CharAt(string, end) # NUL
  <2>1. /\ found.token = start /\ found.next = end + 1
        /\ found.text = [string EXCEPT ![end] = NUL]
    BY <1>5, <1>7
  <2>2. end \in 1 .. Len(string) /\ string[end] = delim
    BY <1>3, <1>4, <1>7 DEF CharAt
  <2>3. PICK t : t = [string EXCEPT ![end] = NUL]
    OBVIOUS
  <2>4. t \in Seq(Symbols) /\ Len(t) = Len(string)
    BY <2>2, <2>3, SymbolFacts
  <2>5. \A i \in 1 .. Len(string) : t[i] = IF i = end THEN NUL ELSE string[i]
    BY <2>2, <2>3
  <2>6. QED
    BY <1>3, <2>1, <2>2, <2>3, <2>4, <2>5
<1>8. QED
  BY <1>6, <1>7

(***************************************************************************)
(* The first call on a text that begins with a word and a comma.           *)
(***************************************************************************)
LEMMA FirstCall ==
  ASSUME NEW string \in Seq(Symbols), Len(string) >= 2, string[1] \notin {Comma, NUL},
         string[2] = Comma
  PROVE  Strtok(string, 1, Comma) =
           [token |-> 1, next |-> 3, text |-> [string EXCEPT ![2] = NUL]]
<1>1. CharAt(string, 1) \notin {Comma, NUL} /\ CharAt(string, 2) = Comma
  BY DEF CharAt
<1>2. Comma # NUL
  BY DEF Comma, NUL
<1> HIDE DEF Comma, NUL
<1>3. PICK start : start = FirstFrom(string, 1, LAMBDA c : c # Comma)
  OBVIOUS
<1>4. PICK end : end = FirstFrom(string, start, LAMBDA c : c \in {Comma, NUL})
  OBVIOUS
<1>5. start = 1
  BY <1>1, <1>3 DEF FirstFrom
<1>6. end = 2
  BY <1>1, <1>4, <1>5 DEF FirstFrom
<1>7. Strtok(string, 1, Comma) =
        IF CharAt(string, start) = NUL THEN [token |-> 0, next |-> start, text |-> string]
        ELSE IF CharAt(string, end) = NUL
               THEN [token |-> start, next |-> end, text |-> string]
        ELSE [token |-> start, next |-> end + 1, text |-> [string EXCEPT ![end] = NUL]]
  BY <1>3, <1>4 DEF Strtok
<1>8. QED
  BY <1>1, <1>2, <1>5, <1>6, <1>7

LEMMA FirstString ==
  ASSUME NEW string \in Seq(Symbols), Len(string) >= 2, string[1] # NUL, string[2] = NUL
  PROVE  StringAt(string, 1) = <<string[1]>>
<1>1. CharAt(string, 1) # NUL /\ CharAt(string, 2) = NUL
  BY DEF CharAt
<1>2. PICK e : e = FirstFrom(string, 1, LAMBDA c : c = NUL)
  OBVIOUS
<1>3. e = 2
  BY <1>1, <1>2 DEF FirstFrom
<1>4. PICK t : t = SubSeq(string, 1, 1)
  OBVIOUS
<1>5. t \in Seq(Symbols) /\ Len(t) = 1 /\ t[1] = string[1]
  BY <1>4, SubSeqProperties
<1>6. t = <<string[1]>>
  BY <1>5
<1>7. PICK k : k = e - 1
  OBVIOUS
<1>8. k = 1
  BY <1>3, <1>7
<1>9. StringAt(string, 1) = SubSeq(string, 1, k)
  BY <1>2, <1>7 DEF StringAt
<1>10. QED
  BY <1>4, <1>6, <1>8, <1>9

-----------------------------------------------------------------------------
(* Paths and types *)

LEMMA DirectoryFacts ==
  ASSUME NEW p \in Seq(Symbols)
  PROVE  /\ ExtractDirectory(p) \in Seq(Symbols)
         /\ VersionFolder(p) \in Seq(Symbols)
<1>1. ExtractDirectory(p) \in Seq(Symbols)
  <2>1. PICK k : k = LastSlash(p)
    OBVIOUS
  <2>2. k \in 0 .. Len(p)
    BY <2>1, LastSlashFacts
  <2>3. k - 1 \in Int /\ \A i \in 1 .. k - 1 : p[i] \in Symbols
    BY <2>2
  <2>4. SubSeq(p, 1, k - 1) \in Seq(Symbols)
    BY <2>3, SubSeqProperties
  <2>5. QED
    BY <2>1, <2>4 DEF ExtractDirectory
<1>2. <<Slash, ".versions">> \in Seq(Symbols)
  BY SymbolFacts
<1>3. QED
  BY <1>1, <1>2, ConcatProperties DEF VersionFolder, Below

LEMMA PlaceFacts ==
  /\ NoPlace \in Places /\ Gone \in Places /\ ~Alive(NoPlace) /\ ~Alive(Gone)
  /\ \A w \in Workers : w # Nobody
  /\ \A place \in Places : Alive(place) => place[1] \in Workers
  /\ \A w \in Workers : \A n \in Nat : <<w, n>> \in Places /\ Alive(<<w, n>>)
  BY ParserAssumption DEF NoPlace, Gone, Places, Alive

(***************************************************************************)
(* What freeing a text does to the places in it.                           *)
(***************************************************************************)
LEMMA DropFacts ==
  ASSUME TypeOK, NEW w \in Workers, Drop(w)
  PROVE  /\ text' = [text EXCEPT ![w] = <<>>]
         /\ position' = IF position[1] = w THEN Gone ELSE position
         /\ \A v \in Workers : from'[v] = IF from[v][1] = w THEN Gone ELSE from[v]
         /\ \A v \in Workers : v # w =>
              token'[v] = IF token[v][1] = w THEN Gone ELSE token[v]
         /\ token'[w] = NoPlace
         /\ text' \in [Workers -> Seq(Symbols)] /\ position' \in Places
         /\ from' \in [Workers -> Places] /\ token' \in [Workers -> Places]
  BY PlaceFacts DEF Drop, TypeOK

LEMMA ScannedFacts ==
  ASSUME TypeOK, PlaceInv, NEW w \in Workers, Scan(w), Alive(from[w])
  PROVE  \E owner, found :
           /\ owner = from[w][1] /\ owner \in Workers
           /\ found = Strtok(text[owner], from[w][2], Delimiter(w))
           /\ found.next \in 1 .. Len(text[owner]) + 1
           /\ found.token = 0 \/ found.token \in 1 .. Len(text[owner]) + 1
           /\ found.text \in Seq(Symbols) /\ Len(found.text) = Len(text[owner])
           /\ \A i \in 1 .. Len(text[owner]) :
                found.text[i] # text[owner][i] =>
                  text[owner][i] \in Delimiters /\ found.text[i] = NUL
           /\ text' = [text EXCEPT ![owner] = found.text]
           /\ position' = <<owner, found.next>>
           /\ token' = [token EXCEPT ![w] = IF found.token = 0 THEN NoPlace
                                            ELSE <<owner, found.token>>]
           /\ ub' = ub
<1>1. PICK owner, a : owner = from[w][1] /\ a = from[w][2]
  OBVIOUS
<1>2. owner \in Workers /\ text[owner] \in Seq(Symbols)
  BY <1>1, PlaceFacts DEF TypeOK
<1>3. a \in 1 .. Len(text[owner]) + 1
  BY <1>1 DEF PlaceInv, Within
<1>4. PICK found : found = Strtok(text[owner], a, Delimiter(w))
  OBVIOUS
<1>5. Delimiter(w) \in Delimiters
  BY DelimiterFacts
<1>6. /\ found.next \in 1 .. Len(text[owner]) + 1
      /\ found.token = 0 \/ found.token \in 1 .. Len(text[owner]) + 1
      /\ found.text \in Seq(Symbols) /\ Len(found.text) = Len(text[owner])
      /\ \A i \in 1 .. Len(text[owner]) :
           found.text[i] # text[owner][i] =>
             text[owner][i] = Delimiter(w) /\ found.text[i] = NUL
  BY <1>2, <1>3, <1>4, <1>5, StrtokFacts
<1>7. ScanAlive(w, owner, found)
  BY <1>1, <1>4 DEF Scan
<1>8. QED
  BY <1>1, <1>2, <1>4, <1>5, <1>6, <1>7 DEF ScanAlive

LEMMA TokenStrings ==
  ASSUME TypeOK, PlaceInv, NEW w \in Workers, NEW str \in Strings(w)
  PROVE  str \in Seq(Symbols)
<1>1. CASE Alive(token[w])
  <2>1. token[w][1] \in Workers
    BY <1>1, PlaceFacts DEF TypeOK
  <2>2. text[token[w][1]] \in Seq(Symbols)
    BY <2>1 DEF TypeOK
  <2>3. token[w][2] \in 1 .. Len(text[token[w][1]]) + 1
    BY <1>1 DEF PlaceInv, Within
  <2>4. str = StringAt(text[token[w][1]], token[w][2])
    BY <1>1 DEF Strings
  <2>5. PICK t, k : t = text[token[w][1]] /\ k = token[w][2]
    OBVIOUS
  <2>6. StringAt(t, k) \in Seq(Symbols)
    BY <2>2, <2>3, <2>5, StringFacts
  <2>7. QED
    BY <2>4, <2>5, <2>6
<1>2. CASE ~Alive(token[w])
  <2>1. str = <<"junk">> \/ \E r \in Requests : str = r.remote_path
    BY <1>2 DEF Strings, Remains
  <2>2. <<"junk">> \in Seq(Symbols)
    BY SymbolFacts
  <2>3. \A r \in Requests : r.remote_path \in Seq(Symbols)
    BY SymbolFacts
  <2>4. QED
    BY <2>1, <2>2, <2>3
<1>3. QED
  BY <1>1, <1>2

LEMMA ResultFacts ==
  ASSUME TypeOK, NEW w \in Workers, Result(w).command \in {"WRITE", "RM"}
  PROVE  Result(w).remote_path \in Seq(Symbols) \ {<<>>}
<1>1. PICK f : f = fields[w]
  OBVIOUS
<1>2. f \in Seq(Seq(Symbols))
  BY <1>1 DEF TypeOK
<1>3. /\ ~(Len(f) < 3)
      /\ Result(w) = CreateRequestFromParts(StrToCommandType(f[1]), f[3], StrToL(f[2]))
  BY <1>1 DEF Result, RequestOf, NoRequest, UNKNOWN
<1>4. f[3] # <<>> /\ Result(w).remote_path = f[3]
  BY <1>3 DEF CreateRequestFromParts, NoRequest, UNKNOWN
<1>5. QED
  BY <1>2, <1>3, <1>4

-----------------------------------------------------------------------------
(* The invariant holds initially *)

LEMMA InitEstablishes == Init => ParserInv
<1> SUFFICES ASSUME Init PROVE ParserInv
  OBVIOUS
<1>1. TypeOK
  <2>1. /\ position \in Places
        /\ from \in [Workers -> Places] /\ token \in [Workers -> Places]
    BY PlaceFacts DEF Init
  <2>2. /\ text \in [Workers -> Seq(Symbols)] /\ path \in [Workers -> Seq(Symbols)]
        /\ current \in [Workers -> Seq(Symbols)] /\ fields \in [Workers -> Seq(Seq(Symbols))]
        /\ dirs \subseteq Seq(Symbols) /\ regular \subseteq Seq(Symbols)
        /\ removed \subseteq Seq(Symbols)
    BY DEF Init
  <2>3. job \in [Workers -> 1 .. 3] /\ \A w \in Workers : job[w] = 1
    BY DEF Init
  <2>4. sent \in [Workers -> Requests \cup {NoRequest}]
    BY DEF Init
  <2>5. made \in [Workers -> BOOLEAN] /\ disturbed \subseteq Workers /\ ub \in BOOLEAN
    BY DEF Init
  <2>6. QED
    BY <2>1, <2>2, <2>3, <2>4, <2>5 DEF Init, TypeOK, Labels
<1>2. NoneDead
  BY DEF Init, NoneDead, At
<1>3. PlaceInv
  BY PlaceFacts DEF Init, PlaceInv, Within, Outside
<1>4. JobInv
  BY DEF Init, JobInv, Parsing, HasText, At
<1>5. QuietInv /\ CommandInv
  BY DEF Init, QuietInv, CommandInv, Parsing, HasText, At
<1>6. QED
  BY <1>1, <1>2, <1>3, <1>4, <1>5 DEF ParserInv

-----------------------------------------------------------------------------
(* Every step keeps the types *)

LEMMA BeginTypes ==
  ASSUME TypeOK, PlaceInv, NEW w \in Workers,
         ReceiveRequest(w) \/ Begin(w) \/ GoOn(w) \/ Scan(w)
  PROVE  TypeOK'
<1>1. CASE ReceiveRequest(w)
  <2>1. /\ UNCHANGED <<job, position, from, token, fields, path, current, made, dirs, regular,
                       removed, disturbed, ub>>
        /\ pc' = [pc EXCEPT ![w] = "begin"]
    BY <1>1 DEF ReceiveRequest, Goto, tree
  <2>2. PICK r \in Requests : /\ sent' = [sent EXCEPT ![w] = r]
                              /\ text' = [text EXCEPT ![w] = SerializeRequest(r)]
    BY <1>1 DEF ReceiveRequest
  <2>3. PICK string : string = SerializeRequest(r) /\ string \in Seq(Symbols)
    BY RequestText
  <2>4. sent' \in [Workers -> Requests \cup {NoRequest}]
    BY <2>2 DEF TypeOK
  <2>5. text' \in [Workers -> Seq(Symbols)]
    BY <2>2, <2>3 DEF TypeOK
  <2>6. pc' \in [Workers -> Labels]
    BY <2>1 DEF TypeOK, Labels
  <2>7. QED
    BY <2>1, <2>4, <2>5, <2>6 DEF TypeOK
<1>2. CASE Begin(w)
  BY <1>2, PlaceFacts DEF Begin, Goto, TypeOK, Labels, results, tree
<1>3. CASE GoOn(w)
  BY <1>3 DEF GoOn, Goto, TypeOK, Labels, results, tree
<1>4. CASE Scan(w)
  <2>1. /\ pc' = [pc EXCEPT ![w] = "use"] /\ from' = [from EXCEPT ![w] = NoPlace]
        /\ UNCHANGED <<dirs, regular, removed, job, fields, current, sent, path, made>>
        /\ disturbed' \subseteq Workers
    BY <1>4 DEF Scan, Goto, results, tree, TypeOK
  <2>2. /\ text' \in [Workers -> Seq(Symbols)] /\ position' \in Places
        /\ token' \in [Workers -> Places] /\ ub' \in BOOLEAN
    <3>1. CASE Alive(from[w])
      <4>1. PICK owner, found :
              /\ owner \in Workers /\ found.next \in 1 .. Len(text[owner]) + 1
              /\ found.token = 0 \/ found.token \in 1 .. Len(text[owner]) + 1
              /\ found.text \in Seq(Symbols)
              /\ text' = [text EXCEPT ![owner] = found.text]
              /\ position' = <<owner, found.next>>
              /\ token' = [token EXCEPT ![w] = IF found.token = 0 THEN NoPlace
                                               ELSE <<owner, found.token>>]
              /\ ub' = ub
        BY <1>4, <3>1, ScannedFacts
      <4>2. PICK n \in Nat : n = Len(text[owner])
        BY <4>1 DEF TypeOK
      <4>3. found.next \in Nat /\ found.token \in Nat
        BY <4>1, <4>2
      <4>4. QED
        BY <4>1, <4>3, PlaceFacts DEF TypeOK
    <3>2. CASE ~Alive(from[w])
      <4>1. /\ text' = text /\ position' = NoPlace /\ ub' = TRUE
            /\ \E place \in {NoPlace, from[w]} : token' = [token EXCEPT ![w] = place]
        BY <1>4, <3>2 DEF Scan, ScanDead
      <4>2. QED
        BY <4>1, PlaceFacts DEF TypeOK
    <3>3. QED
      BY <3>1, <3>2
  <2>3. QED
    BY <2>1, <2>2, PlaceFacts DEF TypeOK, Labels
<1>5. QED
  BY <1>1, <1>2, <1>3, <1>4

LEMMA FieldTypes ==
  ASSUME TypeOK, PlaceInv, NEW w \in Workers, UseField(w) \/ EndOfFields(w)
  PROVE  TypeOK'
<1>1. CASE UseField(w)
  <2>1. PICK str \in Strings(w) : fields' = [fields EXCEPT ![w] = Append(@, str)]
    BY <1>1 DEF UseField
  <2>2. fields' \in [Workers -> Seq(Seq(Symbols))]
    BY <2>1, TokenStrings DEF TypeOK
  <2>3. ub' \in BOOLEAN
    BY <1>1 DEF UseField, Touch
  <2>4. QED
    BY <1>1, <2>2, <2>3, PlaceFacts DEF UseField, Used, Goto, TypeOK, Labels, results, tree
<1>2. CASE EndOfFields(w)
  <2>1. /\ text' \in [Workers -> Seq(Symbols)] /\ position' \in Places
        /\ from' \in [Workers -> Places] /\ token' \in [Workers -> Places]
    BY <1>2, DropFacts DEF EndOfFields
  <2>2. fields' \in [Workers -> Seq(Seq(Symbols))]
        /\ sent' \in [Workers -> Requests \cup {NoRequest}]
    BY <1>2 DEF EndOfFields, TypeOK
  <2>3. /\ job' = [job EXCEPT ![w] = IF Result(w).command = "WRITE" THEN 2 ELSE 1]
        /\ disturbed' = disturbed \ {w} /\ UNCHANGED <<current, made, dirs, regular, removed, ub>>
    BY <1>2 DEF EndOfFields, tree
  <2>4. CASE Result(w).command \in {"WRITE", "RM"}
    <3>1. PICK p \in Seq(Symbols) \ {<<>>} : p = Result(w).remote_path
      BY <2>4, ResultFacts
    <3>2. path' = [path EXCEPT ![w] = p] /\ pc' = [pc EXCEPT ![w] = "lock"]
      BY <1>2, <2>4, <3>1 DEF EndOfFields, Goto
    <3>3. /\ path' \in [Workers -> Seq(Symbols)] /\ job' \in [Workers -> 1 .. 3]
          /\ \A v \in Workers : job'[v] # 1 => path'[v] # <<>>
      BY <2>3, <3>1, <3>2 DEF TypeOK
    <3>4. QED
      BY <2>1, <2>2, <2>3, <3>2, <3>3 DEF TypeOK, Labels
  <2>5. CASE Result(w).command \notin {"WRITE", "RM"}
    <3>1. pc' = [pc EXCEPT ![w] = "done"] /\ path' = path /\ job' = [job EXCEPT ![w] = 1]
      BY <1>2, <2>3, <2>5 DEF EndOfFields, Goto
    <3>2. QED
      BY <2>1, <2>2, <2>3, <3>1 DEF TypeOK, Labels
  <2>6. QED
    BY <2>4, <2>5
<1>3. QED
  BY <1>1, <1>2

LEMMA LongerFacts ==
  ASSUME TypeOK, NEW w \in Workers, NEW str \in Seq(Symbols)
  PROVE  Longer(w, str) \in Seq(Symbols)
<1>1. <<Slash>> \in Seq(Symbols) /\ current[w] \in Seq(Symbols)
  BY SymbolFacts DEF TypeOK
<1> HIDE DEF Slash
<1>2. QED
  BY <1>1 DEF Longer

LEMMA ReturnTypes ==
  ASSUME TypeOK, NEW w \in Workers, NEW b \in BOOLEAN, Return(w, b), tree' = tree,
         ub' \in BOOLEAN
  PROVE  TypeOK'
<1>1. /\ text' \in [Workers -> Seq(Symbols)] /\ position' \in Places
      /\ from' \in [Workers -> Places] /\ token' \in [Workers -> Places]
  BY DropFacts DEF Return
<1>2. current' \in [Workers -> Seq(Symbols)] /\ made' \in [Workers -> BOOLEAN]
  BY DEF Return, TypeOK
<1>3. QED
  BY <1>1, <1>2 DEF Return, Goto, TypeOK, Labels, tree

LEMMA DirectoryTypes ==
  ASSUME TypeOK, PlaceInv, NEW w \in Workers,
         \/ AlreadyThere(w) \/ NotThere(w) \/ MakeDirectory(w) \/ MakeDirectoryFails(w)
         \/ EndOfComponents(w)
  PROVE  TypeOK'
<1>1. CASE AlreadyThere(w) \/ MakeDirectoryFails(w) \/ EndOfComponents(w)
  <2>1. ub' \in BOOLEAN /\ tree' = tree /\ \E b \in BOOLEAN : Return(w, b)
    BY <1>1 DEF AlreadyThere, MakeDirectoryFails, EndOfComponents, Touch, TypeOK
  <2>2. QED
    BY <2>1, ReturnTypes
<1>2. CASE NotThere(w)
  <2>1. Directory(w) \in Seq(Symbols)
    BY DirectoryFacts DEF Directory, TypeOK
  <2>2. QED
    BY <1>2, <2>1 DEF NotThere, Goto, TypeOK, Labels, results, tree
<1>3. CASE MakeDirectory(w)
  <2>1. PICK str \in Strings(w) : /\ dirs' = dirs \cup ({Longer(w, str)} \ regular)
                                  /\ current' = [current EXCEPT ![w] = Longer(w, str)]
    BY <1>3 DEF MakeDirectory
  <2>2. Longer(w, str) \in Seq(Symbols)
    BY TokenStrings, LongerFacts
  <2>3. dirs' \subseteq Seq(Symbols) /\ current' \in [Workers -> Seq(Symbols)]
    BY <2>1, <2>2 DEF TypeOK
  <2>4. ub' \in BOOLEAN
    BY <1>3 DEF MakeDirectory, Touch
  <2>5. QED
    BY <1>3, <2>3, <2>4, PlaceFacts DEF MakeDirectory, Used, Goto, TypeOK, Labels, results, tree
<1>4. QED
  BY <1>1, <1>2, <1>3

LEMMA SaveTypes ==
  ASSUME TypeOK, JobInv, NEW w \in Workers,
         \/ TakeLock(w) \/ Save(w) \/ SaveAtRoot(w) \/ OpenVersion(w) \/ Store(w)
         \/ RemovePath(w)
  PROVE  TypeOK'
<1>1. UNCHANGED <<position, text, from, token, fields, current, sent, ub>>
  BY DEF TakeLock, Save, SaveAtRoot, OpenVersion, Store, RemovePath, texts, results
<1>2. CASE TakeLock(w)
  BY <1>1, <1>2 DEF TakeLock, Goto, TypeOK, Labels, results, tree
<1>3. CASE Save(w)
  <2>1. path[w] # <<>>
    BY <1>3 DEF Save, JobInv, At, TypeOK
  <2>2. /\ job' = job \/ job' = [job EXCEPT ![w] = 3]
        /\ UNCHANGED <<path, dirs, regular, removed, disturbed>>
        /\ \E label \in {"store", "look"} : pc' = [pc EXCEPT ![w] = label]
        /\ made' = [made EXCEPT ![w] = FALSE]
    BY <1>3 DEF Save, Goto, tree
  <2>3. /\ job' \in [Workers -> 1 .. 3]
        /\ \A v \in Workers : job'[v] = job[v] \/ v = w
    <3>1. job \in [Workers -> 1 .. 3] /\ 3 \in 1 .. 3
      BY DEF TypeOK
    <3>2. QED
      BY <2>2, <3>1
  <2>4. \A v \in Workers : job'[v] # 1 => path'[v] # <<>>
    BY <2>1, <2>2, <2>3 DEF TypeOK
  <2>5. QED
    BY <1>1, <2>2, <2>3, <2>4 DEF TypeOK, Labels
<1>4. CASE SaveAtRoot(w) \/ OpenVersion(w)
  <2>1. /\ UNCHANGED <<job, path, dirs, regular, removed, disturbed>>
        /\ made' = [made EXCEPT ![w] = FALSE]
        /\ \/ pc' = [v \in Workers |-> "dead"]
           \/ \E label \in {"store", "stuck"} : pc' = [pc EXCEPT ![w] = label]
    BY <1>4 DEF SaveAtRoot, OpenVersion, CloseNothing, Goto, tree
  <2>2. QED
    BY <1>1, <2>1 DEF TypeOK, Labels
<1>5. CASE Store(w) \/ RemovePath(w)
  <2>1. /\ pc' = [pc EXCEPT ![w] = "done"] /\ path' = [path EXCEPT ![w] = <<>>]
        /\ job' = [job EXCEPT ![w] = 1] /\ disturbed' = disturbed \ {w}
        /\ made' = made
    BY <1>5 DEF Store, RemovePath, Leave, Goto
  <2>2. /\ dirs' \subseteq dirs /\ regular' \subseteq regular \cup {path[w]}
        /\ removed' \subseteq removed \cup {path[w]}
    BY <1>5 DEF Store, RemovePath, tree
  <2>3. QED
    BY <1>1, <2>1, <2>2 DEF TypeOK, Labels
<1>6. QED
  BY <1>2, <1>3, <1>4, <1>5

LEMMA TypesStep ==
  ASSUME TypeOK, PlaceInv, JobInv, NEW w \in Workers, ReceiveRequest(w) \/ Step(w)
  PROVE  TypeOK'
  BY BeginTypes, FieldTypes, DirectoryTypes, SaveTypes DEF Step, Loop

-----------------------------------------------------------------------------
(***************************************************************************)
(* Where a worker goes, and what its step leaves to the others.            *)
(***************************************************************************)
OpeningStep(w) == ReceiveRequest(w) \/ NotThere(w)
CallStep(w) == Begin(w) \/ GoOn(w)
TokenStep(w) == UseField(w) \/ MakeDirectory(w)
DropStep(w) ==
  EndOfFields(w) \/ AlreadyThere(w) \/ MakeDirectoryFails(w) \/ EndOfComponents(w)
SaveStep(w) ==
  \/ TakeLock(w) \/ Save(w) \/ SaveAtRoot(w) \/ OpenVersion(w) \/ Store(w) \/ RemovePath(w)

LEMMA StepKinds ==
  ASSUME NEW w \in Workers, ReceiveRequest(w) \/ Step(w)
  PROVE  OpeningStep(w) \/ CallStep(w) \/ Scan(w) \/ TokenStep(w) \/ DropStep(w) \/ SaveStep(w)
  BY DEF Step, Loop, OpeningStep, CallStep, TokenStep, DropStep, SaveStep

LEMMA OpeningFrame ==
  ASSUME TypeOK, NEW w \in Workers, OpeningStep(w)
  PROVE  /\ pc[w] \in {"idle", "look"} /\ pc' = [pc EXCEPT ![w] = "begin"]
         /\ \E t : text' = [text EXCEPT ![w] = t]
         /\ UNCHANGED <<position, from, token, job, fields, disturbed, ub>>
         /\ \A v \in Workers : v # w => sent'[v] = sent[v]
         /\ pc[w] = "look" => sent' = sent
  BY DEF OpeningStep, ReceiveRequest, NotThere, At, Goto, TypeOK, results, tree

LEMMA CallFrame ==
  ASSUME TypeOK, NEW w \in Workers, CallStep(w)
  PROVE  /\ pc' = [pc EXCEPT ![w] = "scan"]
         /\ \/ pc[w] = "begin" /\ from' = [from EXCEPT ![w] = <<w, 1>>]
                 /\ disturbed' = disturbed \ {w}
            \/ pc[w] = "next" /\ from' = [from EXCEPT ![w] = position]
                 /\ disturbed' = disturbed
         /\ UNCHANGED <<position, text, token, job, fields, sent, ub>>
  BY DEF CallStep, Begin, GoOn, At, Goto, results, tree

LEMMA ScanFrame ==
  ASSUME NEW w \in Workers, Scan(w)
  PROVE  /\ pc[w] = "scan" /\ pc' = [pc EXCEPT ![w] = "use"]
         /\ from' = [from EXCEPT ![w] = NoPlace]
         /\ disturbed' = disturbed \cup {v \in Workers \ {w} : Looping(v)}
         /\ UNCHANGED <<job, fields, sent>>
  BY DEF Scan, At, Goto, results, tree

LEMMA DeadScanFrame ==
  ASSUME NEW w \in Workers, Scan(w), ~Alive(from[w])
  PROVE  /\ text' = text /\ position' = NoPlace /\ ub'
         /\ \E place \in {NoPlace, from[w]} : token' = [token EXCEPT ![w] = place]
  BY DEF Scan, ScanDead

LEMMA TokenFrame ==
  ASSUME NEW w \in Workers, TokenStep(w)
  PROVE  /\ pc[w] = "use" /\ token[w] # NoPlace /\ pc' = [pc EXCEPT ![w] = "next"]
         /\ token' = [token EXCEPT ![w] = NoPlace]
         /\ ub' = (ub \/ ~Alive(token[w]))
         /\ \/ job[w] = 1 /\ \E str \in Strings(w) :
                 fields' = [fields EXCEPT ![w] = Append(@, str)]
            \/ job[w] # 1 /\ fields' = fields
         /\ UNCHANGED <<position, text, from, job, sent, disturbed>>
  BY DEF TokenStep, UseField, MakeDirectory, HasToken, Touch, Used, At, Goto, results, tree

LEMMA DropFrame ==
  ASSUME TypeOK, NEW w \in Workers, DropStep(w)
  PROVE  /\ Drop(w)
         /\ \A v \in Workers : v # w =>
              /\ pc'[v] = pc[v] /\ job'[v] = job[v] /\ fields'[v] = fields[v]
              /\ sent'[v] = sent[v]
         /\ pc[w] \in {"use", "look"}
         /\ \/ fields'[w] = <<>> /\ pc'[w] \in {"lock", "done"}
            \/ /\ pc'[w] \in {"save", "version"} /\ job' = job /\ fields' = fields
               /\ pc[w] = "use" => job[w] # 1
         /\ disturbed' \in {disturbed, disturbed \ {w}}
         /\ \/ ub' = ub
            \/ /\ pc[w] = "use" /\ token[w] # NoPlace
               /\ ub' = (ub \/ ~Alive(token[w]))
<1>1. CASE EndOfFields(w)
  <2>1. /\ Drop(w) /\ pc[w] = "use" /\ ub' = ub /\ disturbed' = disturbed \ {w}
        /\ sent' = [sent EXCEPT ![w] = NoRequest] /\ fields' = [fields EXCEPT ![w] = <<>>]
    BY <1>1 DEF EndOfFields, FieldsRead, At
  <2>2. /\ pc' = [pc EXCEPT ![w] = "lock"] \/ pc' = [pc EXCEPT ![w] = "done"]
        /\ job' = [job EXCEPT ![w] = IF Result(w).command = "WRITE" THEN 2 ELSE 1]
    BY <1>1 DEF EndOfFields, Goto
  <2>3. QED
    BY <2>1, <2>2 DEF TypeOK
<1>2. CASE AlreadyThere(w) \/ MakeDirectoryFails(w) \/ EndOfComponents(w)
  <2>1. /\ Drop(w) /\ UNCHANGED <<job, fields, sent, disturbed>>
        /\ \/ pc' = [pc EXCEPT ![w] = "save"]
           \/ pc' = [pc EXCEPT ![w] = "version"]
    BY <1>2 DEF AlreadyThere, MakeDirectoryFails, EndOfComponents, Return, Goto
  <2>2. /\ pc[w] = "look" \/ (pc[w] = "use" /\ job[w] # 1)
        /\ \/ ub' = ub
           \/ /\ pc[w] = "use" /\ token[w] # NoPlace
              /\ ub' = (ub \/ ~Alive(token[w]))
    BY <1>2 DEF AlreadyThere, MakeDirectoryFails, EndOfComponents, HasToken, Touch, At
  <2>3. QED
    BY <2>1, <2>2 DEF TypeOK
<1>3. QED
  BY <1>1, <1>2 DEF DropStep

LEMMA SaveFrame ==
  ASSUME TypeOK, NEW w \in Workers, SaveStep(w)
  PROVE  /\ pc[w] \in {"lock", "save", "version", "store", "remove"}
         /\ UNCHANGED <<position, text, from, token, fields, sent, ub>>
         /\ \/ pc' = [v \in Workers |-> "dead"]
            \/ /\ pc'[w] \in {"look", "store", "remove", "stuck", "done"}
               /\ pc[w] = "lock" => pc'[w] \in {"look", "remove"}
               /\ pc'[w] = "look" => job'[w] # 1
               /\ pc'[w] = "store" => pc[w] \in {"save", "version"} /\ job'[w] \in {job[w], 3}
               /\ \A v \in Workers : v # w => pc'[v] = pc[v] /\ job'[v] = job[v]
               /\ disturbed' \in {disturbed, disturbed \ {w}}
<1>1. UNCHANGED <<position, text, from, token, fields, sent, ub>>
  BY DEF SaveStep, TakeLock, Save, SaveAtRoot, OpenVersion, Store, RemovePath, texts, results
<1>2. CASE TakeLock(w)
  BY <1>1, <1>2 DEF TakeLock, At, Goto, TypeOK
<1>3. CASE Save(w) \/ SaveAtRoot(w) \/ OpenVersion(w)
  BY <1>1, <1>3 DEF Save, SaveAtRoot, OpenVersion, CloseNothing, At, Goto, TypeOK
<1>4. CASE Store(w) \/ RemovePath(w)
  BY <1>1, <1>4 DEF Store, RemovePath, Leave, At, Goto, TypeOK
<1>5. QED
  BY <1>2, <1>3, <1>4 DEF SaveStep

-----------------------------------------------------------------------------
(***************************************************************************)
(* Places stay in texts that are not dead.                                 *)
(***************************************************************************)
Live == {v \in Workers : HasText(v)}
Fits(place, strings, live) ==
  Alive(place) => place[1] \in live /\ place[2] \in 1 .. Len(strings[place[1]]) + 1

LEMMA PlaceInvFits ==
  ASSUME TypeOK, TypeOK'
  PROVE  /\ PlaceInv <=> /\ Fits(position, text, Live)
                         /\ \A v \in Workers : Fits(from[v], text, Live) /\ Fits(token[v], text, Live)
         /\ PlaceInv' <=> /\ Fits(position', text', Live')
                          /\ \A v \in Workers : Fits(from'[v], text', Live') /\ Fits(token'[v], text', Live')
<1>1. /\ position \in Places /\ position' \in Places
      /\ \A v \in Workers : /\ from[v] \in Places /\ from'[v] \in Places
                            /\ token[v] \in Places /\ token'[v] \in Places
  BY DEF TypeOK
<1>2. \A place \in Places : Alive(place) => place[1] \in Workers
  BY PlaceFacts
<1>3. PlaceInv <=> /\ Fits(position, text, Live)
                   /\ \A v \in Workers : Fits(from[v], text, Live) /\ Fits(token[v], text, Live)
  BY <1>1, <1>2 DEF PlaceInv, Within, Outside, Fits, Live
<1>4. PlaceInv' <=> /\ Fits(position', text', Live')
                    /\ \A v \in Workers : Fits(from'[v], text', Live') /\ Fits(token'[v], text', Live')
  BY <1>1, <1>2 DEF PlaceInv, Within, Outside, Fits, Live, Alive
<1>5. QED
  BY <1>3, <1>4

LEMMA DeadFits ==
  ASSUME NEW strings, NEW live
  PROVE  Fits(NoPlace, strings, live) /\ Fits(Gone, strings, live)
  BY PlaceFacts DEF Fits

LEMMA PlacesStep ==
  ASSUME TypeOK, TypeOK', PlaceInv, NEW w \in Workers,
         \/ OpeningStep(w) \/ CallStep(w) \/ Scan(w) \/ TokenStep(w) \/ DropStep(w)
         \/ SaveStep(w) /\ ~AllDead'
  PROVE  PlaceInv'
<1>1. /\ Fits(position, text, Live)
      /\ \A v \in Workers : Fits(from[v], text, Live) /\ Fits(token[v], text, Live)
  BY PlaceInvFits
<1>2. SUFFICES /\ Fits(position', text', Live')
               /\ \A v \in Workers : Fits(from'[v], text', Live') /\ Fits(token'[v], text', Live')
  BY PlaceInvFits
<1>3. CASE OpeningStep(w)
  <2>1. /\ UNCHANGED <<position, from, token>>
        /\ w \notin Live /\ Live \subseteq Live' /\ Live \subseteq Workers
        /\ \A o \in Live : text'[o] = text[o]
    <3>1. /\ UNCHANGED <<position, from, token>> /\ pc[w] \in {"idle", "look"}
          /\ pc' = [pc EXCEPT ![w] = "begin"]
          /\ \E t : text' = [text EXCEPT ![w] = t]
      BY <1>3, OpeningFrame
    <3>2. \A v \in Workers : v # w => pc'[v] = pc[v] /\ text'[v] = text[v]
      BY <3>1 DEF TypeOK
    <3>3. QED
      BY <3>1, <3>2 DEF Live, HasText
  <2>2. QED
    BY <1>1, <2>1 DEF Fits
<1>4. CASE CallStep(w)
  <2>1. Live' = Live /\ w \in Live /\ UNCHANGED <<position, text, token>>
    BY <1>4, CallFrame DEF Live, HasText, TypeOK
  <2>2. \/ from' = [from EXCEPT ![w] = <<w, 1>>]
        \/ from' = [from EXCEPT ![w] = position]
    BY <1>4, CallFrame
  <2>3. Fits(<<w, 1>>, text, Live)
    <3>1. PICK n \in Nat : n = Len(text[w])
      BY DEF TypeOK
    <3>2. QED
      BY <2>1, <3>1 DEF Fits
  <2>4. QED
    BY <1>1, <2>1, <2>2, <2>3 DEF TypeOK
<1>5. CASE Scan(w)
  <2>1. /\ Live' = Live /\ from' = [from EXCEPT ![w] = NoPlace]
    BY <1>5, ScanFrame DEF Live, HasText, TypeOK
  <2>2. CASE ~Alive(from[w])
    <3>1. /\ text' = text /\ position' = NoPlace
          /\ \E place \in {NoPlace, from[w]} : token' = [token EXCEPT ![w] = place]
      BY <1>5, <2>2, DeadScanFrame
    <3>2. QED
      BY <1>1, <2>1, <3>1, DeadFits DEF TypeOK
  <2>3. CASE Alive(from[w])
    <3>1. PICK owner, found :
            /\ owner = from[w][1] /\ owner \in Workers
            /\ found.next \in 1 .. Len(text[owner]) + 1
            /\ found.token = 0 \/ found.token \in 1 .. Len(text[owner]) + 1
            /\ Len(found.text) = Len(text[owner])
            /\ text' = [text EXCEPT ![owner] = found.text]
            /\ position' = <<owner, found.next>>
            /\ token' = [token EXCEPT ![w] = IF found.token = 0 THEN NoPlace
                                             ELSE <<owner, found.token>>]
      BY <1>5, <2>3, ScannedFacts
    <3>2. owner \in Live /\ \A o \in Workers : Len(text'[o]) = Len(text[o])
      BY <1>1, <2>3, <3>1 DEF Fits, TypeOK
    <3>3. Live \subseteq Workers
      BY DEF Live
    <3>4. \A place : Fits(place, text, Live) => Fits(place, text', Live)
      BY <3>2, <3>3 DEF Fits
    <3>5. Fits(position', text, Live)
      BY <3>1, <3>2 DEF Fits
    <3>6. \A v \in Workers : Fits(token'[v], text, Live)
      BY <1>1, <3>1, <3>2, DeadFits DEF Fits, TypeOK
    <3>7. \A v \in Workers : Fits(from'[v], text, Live)
      BY <1>1, <2>1, DeadFits DEF TypeOK
    <3>8. QED
      BY <2>1, <3>4, <3>5, <3>6, <3>7
  <2>4. QED
    BY <2>2, <2>3
<1>6. CASE TokenStep(w)
  <2>1. /\ Live' = Live /\ UNCHANGED <<position, text, from>>
        /\ token' = [token EXCEPT ![w] = NoPlace]
    BY <1>6, TokenFrame DEF Live, HasText, TypeOK
  <2>2. QED
    BY <1>1, <2>1, DeadFits DEF TypeOK
<1>7. CASE DropStep(w)
  <2>1. Drop(w) /\ Live \ {w} \subseteq Live'
    BY <1>7, DropFrame DEF Live, HasText
  <2>2. \A o \in Live \ {w} : text'[o] = text[o]
    <3>1. text' = [text EXCEPT ![w] = <<>>]
      BY <2>1, DropFacts
    <3>2. \A o \in Workers \ {w} : text'[o] = text[o]
      BY <3>1 DEF TypeOK
    <3>3. QED
      BY <3>2 DEF Live
  <2>3. \A place : place[1] # w /\ Fits(place, text, Live) => Fits(place, text', Live')
    BY <2>1, <2>2 DEF Fits
  <2>4. /\ position' = IF position[1] = w THEN Gone ELSE position
        /\ \A v \in Workers : from'[v] = IF from[v][1] = w THEN Gone ELSE from[v]
        /\ \A v \in Workers : v # w =>
             token'[v] = IF token[v][1] = w THEN Gone ELSE token[v]
        /\ token'[w] = NoPlace
    BY <2>1, DropFacts
  <2>5. QED
    BY <1>1, <2>3, <2>4, DeadFits
<1>8. CASE SaveStep(w) /\ ~AllDead'
  <2>1. UNCHANGED <<position, text, from, token>> /\ Live \subseteq Live'
    BY <1>8, SaveFrame DEF Live, HasText, AllDead, At
  <2>2. QED
    BY <1>1, <2>1 DEF Fits
<1>9. QED
  BY <1>3, <1>4, <1>5, <1>6, <1>7, <1>8

-----------------------------------------------------------------------------
(* Jobs and the death of the process *)

LEMMA AliveStep ==
  ASSUME TypeOK, NoneDead, NEW w \in Workers,
         \/ OpeningStep(w) \/ CallStep(w) \/ Scan(w) \/ TokenStep(w) \/ DropStep(w)
         \/ SaveStep(w)
  PROVE  AllDead' \/ NoneDead'
<1> USE DEF NoneDead, At, TypeOK
<1>1. CASE OpeningStep(w) \/ CallStep(w) \/ Scan(w) \/ TokenStep(w)
  <2>1. \E label \in {"begin", "scan", "use", "next"} : pc' = [pc EXCEPT ![w] = label]
    BY <1>1, OpeningFrame, CallFrame, ScanFrame, TokenFrame
  <2>2. QED
    BY <2>1
<1>2. CASE DropStep(w)
  <2>1. /\ pc'[w] \in {"lock", "save", "version", "done"}
        /\ \A v \in Workers : v # w => pc'[v] = pc[v]
    BY <1>2, DropFrame
  <2>2. QED
    BY <2>1
<1>3. CASE SaveStep(w)
  <2>1. CASE pc' = [v \in Workers |-> "dead"]
    BY <2>1 DEF AllDead
  <2>2. CASE pc' # [v \in Workers |-> "dead"]
    <3>1. /\ pc'[w] \in {"look", "store", "remove", "stuck", "done"}
          /\ \A v \in Workers : v # w => pc'[v] = pc[v]
      BY <1>3, <2>2, SaveFrame
    <3>2. QED
      BY <3>1
  <2>3. QED
    BY <2>1, <2>2
<1>4. QED
  BY <1>1, <1>2, <1>3

LEMMA JobStep ==
  ASSUME TypeOK, JobInv, NEW w \in Workers,
         ReceiveRequest(w) \/ Step(w), ~AllDead'
  PROVE  JobInv'
<1> USE DEF JobInv, Parsing, HasText, At
<1>1. CASE ReceiveRequest(w)
  BY <1>1 DEF ReceiveRequest, Goto, TypeOK
<1>2. CASE NotThere(w)
  BY <1>2 DEF NotThere, Goto, TypeOK, results, tree
<1>3. CASE CallStep(w)
  <2>1. /\ pc' = [pc EXCEPT ![w] = "scan"] /\ pc[w] \in {"begin", "next"}
        /\ UNCHANGED <<job, fields, sent>>
    BY <1>3, CallFrame
  <2>2. QED
    BY <2>1 DEF TypeOK
<1>4. CASE Scan(w)
  BY <1>4, ScanFrame DEF TypeOK
<1>5. CASE TokenStep(w)
  <2>1. /\ pc' = [pc EXCEPT ![w] = "next"] /\ pc[w] = "use"
        /\ UNCHANGED <<job, sent>>
        /\ \A v \in Workers : v # w \/ job[v] # 1 => fields'[v] = fields[v]
    BY <1>5, TokenFrame DEF TypeOK
  <2>2. QED
    BY <2>1 DEF TypeOK
<1>6. CASE DropStep(w)
  <2>1. /\ \A v \in Workers : v # w =>
              /\ pc'[v] = pc[v] /\ job'[v] = job[v] /\ fields'[v] = fields[v]
              /\ sent'[v] = sent[v]
        /\ pc[w] \in {"use", "look"}
        /\ \/ fields'[w] = <<>> /\ pc'[w] \in {"lock", "done"}
           \/ /\ pc'[w] \in {"save", "version"} /\ job' = job /\ fields' = fields
              /\ pc[w] = "use" => job[w] # 1
    BY <1>6, DropFrame
  <2>2. QED
    BY <2>1
<1>7. CASE SaveStep(w)
  <2>1. /\ pc[w] \in {"lock", "save", "version", "store", "remove"}
        /\ UNCHANGED <<fields, sent>>
        /\ pc'[w] \in {"look", "store", "remove", "stuck", "done"}
        /\ pc'[w] = "look" => job'[w] # 1
        /\ pc'[w] = "store" => pc[w] \in {"save", "version"} /\ job'[w] \in {job[w], 3}
        /\ \A v \in Workers : v # w => pc'[v] = pc[v] /\ job'[v] = job[v]
    BY <1>7, SaveFrame DEF AllDead
  <2>2. QED
    BY <2>1
<1>8. QED
  BY <1>1, <1>2, <1>3, <1>4, <1>5, <1>6, <1>7, StepKinds DEF OpeningStep

-----------------------------------------------------------------------------
(***************************************************************************)
(* A loop no call came into goes on in its own text.                       *)
(***************************************************************************)
LEMMA QuietStep ==
  ASSUME TypeOK, TypeOK', PlaceInv, QuietInv, NEW w \in Workers,
         \/ OpeningStep(w) \/ CallStep(w) \/ Scan(w) \/ TokenStep(w) \/ DropStep(w)
         \/ SaveStep(w) /\ ~AllDead'
  PROVE  QuietInv'
<1> DEFINE Own(v) == /\ pc[v] \in {"use", "next"} => position[1] = v
                     /\ pc[v] = "scan" => from[v][1] = v
                     /\ pc[v] = "use" => token[v] = NoPlace \/ token[v][1] = v
<1>1. SUFFICES ASSUME ~ub', NEW v \in Workers, v \notin disturbed' PROVE Own(v)'
  BY DEF QuietInv, Quiet, At
<1>2. ~ub /\ v \notin disturbed => Own(v)
  BY DEF QuietInv, Quiet, At
<1>3. CASE OpeningStep(w)
  <2>1. /\ pc' = [pc EXCEPT ![w] = "begin"]
        /\ UNCHANGED <<position, from, token, disturbed, ub>>
    BY <1>3, OpeningFrame
  <2>2. pc'[v] = pc[v] \/ pc'[v] = "begin"
    BY <2>1 DEF TypeOK
  <2>3. QED
    BY <1>1, <1>2, <2>1, <2>2
<1>4. CASE CallStep(w)
  <2>1. /\ pc' = [pc EXCEPT ![w] = "scan"] /\ UNCHANGED <<position, token, ub>>
        /\ \/ pc[w] = "begin" /\ from' = [from EXCEPT ![w] = <<w, 1>>]
                /\ disturbed' = disturbed \ {w}
           \/ pc[w] = "next" /\ from' = [from EXCEPT ![w] = position]
                /\ disturbed' = disturbed
    BY <1>4, CallFrame
  <2>2. CASE v = w
    BY <1>1, <1>2, <2>1, <2>2 DEF TypeOK
  <2>3. CASE v # w
    BY <1>1, <1>2, <2>1, <2>3 DEF TypeOK
  <2>4. QED
    BY <2>2, <2>3
<1>5. CASE Scan(w)
  <2>1. /\ pc[w] = "scan" /\ pc' = [pc EXCEPT ![w] = "use"]
        /\ from' = [from EXCEPT ![w] = NoPlace]
        /\ v \notin disturbed /\ (v # w => ~Looping(v))
    BY <1>1, <1>5, ScanFrame
  <2>2. CASE v # w
    BY <2>1, <2>2 DEF Looping, TypeOK
  <2>3. CASE v = w
    <3>1. Alive(from[w])
      BY <1>1, <1>5, DeadScanFrame
    <3>2. PICK owner, found :
            /\ owner = from[w][1] /\ owner \in Workers /\ ub' = ub
            /\ position' = <<owner, found.next>>
            /\ token' = [token EXCEPT ![w] = IF found.token = 0 THEN NoPlace
                                             ELSE <<owner, found.token>>]
      BY <1>5, <3>1, ScannedFacts
    <3>3. owner = w
      BY <1>1, <1>2, <2>1, <2>3, <3>2
    <3>4. QED
      BY <2>1, <2>3, <3>2, <3>3 DEF TypeOK
  <2>4. QED
    BY <2>2, <2>3
<1>6. CASE TokenStep(w)
  <2>1. /\ pc[w] = "use" /\ pc' = [pc EXCEPT ![w] = "next"]
        /\ token' = [token EXCEPT ![w] = NoPlace] /\ ~ub
        /\ UNCHANGED <<position, from, disturbed>>
    BY <1>1, <1>6, TokenFrame
  <2>2. QED
    BY <1>1, <1>2, <2>1 DEF TypeOK
<1>7. CASE DropStep(w)
  <2>1. /\ Drop(w) /\ pc'[w] \in {"lock", "save", "version", "done"}
        /\ \A x \in Workers : x # w => pc'[x] = pc[x]
        /\ disturbed' \in {disturbed, disturbed \ {w}} /\ ~ub
    BY <1>1, <1>7, DropFrame
  <2>2. CASE v = w
    BY <2>1, <2>2
  <2>3. CASE v # w
    <3>1. Own(v) /\ pc'[v] = pc[v]
      BY <1>1, <1>2, <2>1, <2>3
    <3>2. /\ position' = IF position[1] = w THEN Gone ELSE position
          /\ from'[v] = IF from[v][1] = w THEN Gone ELSE from[v]
          /\ token'[v] = IF token[v][1] = w THEN Gone ELSE token[v]
      BY <2>1, <2>3, DropFacts
    <3>3. NoPlace[1] # w
      BY PlaceFacts DEF NoPlace
    <3>4. QED
      BY <2>3, <3>1, <3>2, <3>3
  <2>4. QED
    BY <2>2, <2>3
<1>8. CASE SaveStep(w) /\ ~AllDead'
  <2>1. /\ pc'[w] \in {"look", "store", "remove", "stuck", "done"}
        /\ \A x \in Workers : x # w => pc'[x] = pc[x]
        /\ disturbed' \in {disturbed, disturbed \ {w}}
        /\ UNCHANGED <<position, from, token, ub>>
    BY <1>8, SaveFrame DEF AllDead, At
  <2>2. QED
    BY <1>1, <1>2, <2>1
<1>9. QED
  BY <1>3, <1>4, <1>5, <1>6, <1>7, <1>8

-----------------------------------------------------------------------------
(***************************************************************************)
(* The command of a request is read as it was sent.                        *)
(***************************************************************************)
LEMMA CommandFacts ==
  ASSUME NEW c \in ToSet(COMMAND_STRINGS)
  PROVE  /\ c \notin Delimiters /\ c # Comma /\ c # NUL
         /\ StrToCommandType(<<c>>) = c
<1>1. c = "WRITE" \/ c = "GET" \/ c = "RM" \/ c = "LS"
  BY DEF ToSet, COMMAND_STRINGS
<1>2. c \notin Delimiters
  BY <1>1 DEF Delimiters, Comma, Slash
<1>3. QED
  BY <1>2, CommandNames

\* The text of a request and the first field, as far as they were read.
CommandKept(w) ==
  Parsing(w) =>
    /\ Opening(w)
    /\ IF fields[w] = <<>> THEN FirstField(w) ELSE fields[w][1] = <<sent[w].command>>

LEMMA SentCommand ==
  ASSUME JobInv, NEW w \in Workers, Parsing(w)
  PROVE  sent[w].command \in ToSet(COMMAND_STRINGS)
  BY ParserAssumption DEF JobInv

(***************************************************************************)
(* Cutting a text keeps its opening.                                       *)
(***************************************************************************)
LEMMA OpeningKept ==
  ASSUME TypeOK, JobInv, NEW w \in Workers, Parsing(w), Opening(w), sent'[w] = sent[w],
         Len(text'[w]) = Len(text[w]),
         \A i \in 1 .. Len(text[w]) :
           text'[w][i] # text[w][i] => text[w][i] \in Delimiters /\ text'[w][i] = NUL
  PROVE  /\ Opening(w)'
         /\ text[w][2] = NUL => text'[w][2] = NUL
<1>1. PICK n \in Nat : n = Len(text[w])
  BY DEF TypeOK
<1>2. n >= 2
  BY <1>1 DEF Opening
<1>3. 1 \in 1 .. Len(text[w]) /\ 2 \in 1 .. Len(text[w])
  BY <1>1, <1>2
<1>4. text[w][1] = sent[w].command /\ text[w][1] \notin Delimiters
  BY SentCommand, CommandFacts DEF Opening
<1>5. text'[w][1] = text[w][1]
  BY <1>3, <1>4
<1>6. text'[w][2] = text[w][2] \/ text'[w][2] = NUL
  BY <1>3
<1>7. QED
  BY <1>1, <1>2, <1>4, <1>5, <1>6 DEF Opening

LEMMA CommandFrame ==
  ASSUME TypeOK, JobInv, NEW v \in Workers, CommandKept(v),
         pc'[v] = pc[v], job'[v] = job[v], fields'[v] = fields[v], sent'[v] = sent[v],
         Parsing(v) =>
           /\ Len(text'[v]) = Len(text[v])
           /\ \A i \in 1 .. Len(text[v]) :
                text'[v][i] # text[v][i] => text[v][i] \in Delimiters /\ text'[v][i] = NUL
           /\ Unshared(v) => Unshared(v)' /\ text'[v] = text[v]
           /\ from[v][1] = v => from'[v] = from[v]
           /\ token[v][1] = v => token'[v] = token[v]
  PROVE  CommandKept(v)'
<1>1. SUFFICES ASSUME Parsing(v)
               PROVE  /\ Opening(v)'
                      /\ IF fields[v] = <<>> THEN FirstField(v)'
                         ELSE fields[v][1] = <<sent[v].command>>
  BY DEF CommandKept, Parsing, HasText
<1>2. Opening(v) /\ IF fields[v] = <<>> THEN FirstField(v)
                    ELSE fields[v][1] = <<sent[v].command>>
  BY <1>1 DEF CommandKept
<1>3. Opening(v)' /\ (text[v][2] = NUL => text'[v][2] = NUL)
  BY <1>1, <1>2, OpeningKept
<1>4. ASSUME FirstField(v) PROVE FirstField(v)'
  <2>1. CASE pc[v] \in {"begin", "scan"}
    BY <1>1, <1>4, <2>1 DEF FirstField, At
  <2>2. CASE pc[v] = "use"
    BY <1>1, <1>3, <1>4, <2>2 DEF FirstField, At
  <2>3. QED
    BY <1>4, <2>1, <2>2 DEF FirstField, At
<1>5. QED
  BY <1>2, <1>3, <1>4

LEMMA OthersFrame ==
  ASSUME TypeOK, TypeOK', PlaceInv, NEW w \in Workers,
         \/ OpeningStep(w) \/ CallStep(w) \/ Scan(w) \/ TokenStep(w) \/ DropStep(w)
         \/ SaveStep(w) /\ ~AllDead',
         NEW v \in Workers, v # w
  PROVE  /\ pc'[v] = pc[v] /\ job'[v] = job[v] /\ fields'[v] = fields[v] /\ sent'[v] = sent[v]
         /\ Len(text'[v]) = Len(text[v])
         /\ \A i \in 1 .. Len(text[v]) :
              text'[v][i] # text[v][i] => text[v][i] \in Delimiters /\ text'[v][i] = NUL
         /\ Unshared(v) => Unshared(v)' /\ text'[v] = text[v]
         /\ from[v][1] = v => from'[v] = from[v]
         /\ token[v][1] # w => token'[v] = token[v]
         /\ Scan(w) \/ (text'[v] = text[v] /\ (position[1] = v => position' = position))
<1>1. NoPlace[1] = Nobody /\ Gone[1] = Nobody /\ v # Nobody
  BY PlaceFacts DEF NoPlace, Gone
<1>2. CASE OpeningStep(w)
  <2>1. /\ pc' = [pc EXCEPT ![w] = "begin"] /\ \E t : text' = [text EXCEPT ![w] = t]
        /\ UNCHANGED <<position, from, token, job, fields>> /\ sent'[v] = sent[v]
    BY <1>2, OpeningFrame
  <2>2. pc'[v] = pc[v] /\ text'[v] = text[v]
    BY <2>1 DEF TypeOK
  <2>3. Unshared(v)' <=> Unshared(v)
    BY <2>1 DEF Unshared
  <2>4. QED
    BY <2>1, <2>2, <2>3
<1>3. CASE CallStep(w)
  <2>1. /\ pc' = [pc EXCEPT ![w] = "scan"]
        /\ from' = [from EXCEPT ![w] = <<w, 1>>] \/ from' = [from EXCEPT ![w] = position]
        /\ UNCHANGED <<position, text, token, job, fields, sent>>
    BY <1>3, CallFrame
  <2>2. /\ pc'[v] = pc[v] /\ from'[v] = from[v]
        /\ \A x \in Workers : from'[x] \in {from[x], <<w, 1>>, position}
    BY <2>1 DEF TypeOK
  <2>3. <<w, 1>>[1] = w
    OBVIOUS
  <2>4. ASSUME Unshared(v) PROVE Unshared(v)'
    <3>1. SUFFICES ASSUME NEW x \in Workers, x # v PROVE from'[x][1] # v /\ token'[x][1] # v
      BY <2>1, <2>4 DEF Unshared
    <3>2. /\ position[1] # v /\ from[x][1] # v /\ token[x][1] # v
          /\ from'[x] \in {from[x], <<w, 1>>, position}
      BY <2>2, <2>4, <3>1 DEF Unshared
    <3>3. QED
      BY <2>1, <2>3, <3>2
  <2>5. QED
    BY <2>1, <2>2, <2>4
<1>4. CASE Scan(w)
  <2>1. /\ pc'[v] = pc[v] /\ job'[v] = job[v] /\ fields'[v] = fields[v] /\ sent'[v] = sent[v]
        /\ from' = [from EXCEPT ![w] = NoPlace] /\ from'[v] = from[v]
    BY <1>4, ScanFrame DEF TypeOK
  <2>2. CASE ~Alive(from[w])
    <3>1. /\ text' = text /\ position' = NoPlace
          /\ \E place \in {NoPlace, from[w]} : token' = [token EXCEPT ![w] = place]
      BY <1>4, <2>2, DeadScanFrame
    <3>2. from[w][1] = Nobody
      BY <2>2 DEF Alive
    <3>3. token'[v] = token[v] /\ (Unshared(v) => Unshared(v)')
      BY <1>1, <2>1, <3>1, <3>2 DEF Unshared, TypeOK
    <3>4. QED
      BY <1>4, <2>1, <3>1, <3>3
  <2>3. CASE Alive(from[w])
    <3>1. PICK owner, found :
            /\ owner = from[w][1] /\ owner \in Workers
            /\ found.text \in Seq(Symbols) /\ Len(found.text) = Len(text[owner])
            /\ \A i \in 1 .. Len(text[owner]) :
                 found.text[i] # text[owner][i] =>
                   text[owner][i] \in Delimiters /\ found.text[i] = NUL
            /\ text' = [text EXCEPT ![owner] = found.text]
            /\ position' = <<owner, found.next>>
            /\ token' = [token EXCEPT ![w] = IF found.token = 0 THEN NoPlace
                                             ELSE <<owner, found.token>>]
      BY <1>4, <2>3, ScannedFacts
    <3>2. token'[v] = token[v]
      BY <3>1 DEF TypeOK
    <3>3. /\ Len(text'[v]) = Len(text[v])
          /\ \A i \in 1 .. Len(text[v]) :
               text'[v][i] # text[v][i] => text[v][i] \in Delimiters /\ text'[v][i] = NUL
      BY <3>1 DEF TypeOK
    <3>4. Unshared(v) => Unshared(v)' /\ text'[v] = text[v]
      BY <1>1, <2>1, <3>1 DEF Unshared, TypeOK
    <3>5. QED
      BY <1>4, <2>1, <3>2, <3>3, <3>4
  <2>4. QED
    BY <2>2, <2>3
<1>5. CASE TokenStep(w)
  <2>1. /\ pc' = [pc EXCEPT ![w] = "next"] /\ token' = [token EXCEPT ![w] = NoPlace]
        /\ \/ \E str : fields' = [fields EXCEPT ![w] = Append(@, str)]
           \/ fields' = fields
        /\ UNCHANGED <<position, text, from, job, sent>>
    BY <1>5, TokenFrame
  <2>2. pc'[v] = pc[v] /\ fields'[v] = fields[v] /\ token'[v] = token[v]
    BY <2>1 DEF TypeOK
  <2>3. Unshared(v) => Unshared(v)'
    BY <1>1, <2>1 DEF Unshared, TypeOK
  <2>4. QED
    BY <2>1, <2>2, <2>3
<1>6. CASE DropStep(w)
  <2>1. /\ Drop(w) /\ pc'[v] = pc[v] /\ job'[v] = job[v] /\ fields'[v] = fields[v]
        /\ sent'[v] = sent[v]
    BY <1>6, DropFrame
  <2>2. /\ position' = IF position[1] = w THEN Gone ELSE position
        /\ \A x \in Workers : from'[x] = IF from[x][1] = w THEN Gone ELSE from[x]
        /\ \A x \in Workers : x # w =>
             token'[x] = IF token[x][1] = w THEN Gone ELSE token[x]
        /\ token'[w] = NoPlace
        /\ text' = [text EXCEPT ![w] = <<>>]
    BY <2>1, DropFacts
  <2>3. text'[v] = text[v]
    BY <2>2 DEF TypeOK
  <2>4. Unshared(v) => Unshared(v)'
    BY <1>1, <2>2 DEF Unshared
  <2>5. /\ from[v][1] = v => from'[v] = from[v]
        /\ token[v][1] # w => token'[v] = token[v]
    BY <2>2
  <2>6. QED
    BY <2>1, <2>2, <2>3, <2>4, <2>5
<1>7. CASE SaveStep(w) /\ ~AllDead'
  <2>1. /\ pc'[v] = pc[v] /\ job'[v] = job[v]
        /\ UNCHANGED <<position, text, from, token, fields, sent>>
    BY <1>7, SaveFrame DEF AllDead, At
  <2>2. Unshared(v)' <=> Unshared(v)
    BY <2>1 DEF Unshared
  <2>3. QED
    BY <2>1, <2>2
<1>8. QED
  BY <1>2, <1>3, <1>4, <1>5, <1>6, <1>7

LEMMA OthersCommand ==
  ASSUME TypeOK, TypeOK', PlaceInv, JobInv, CommandInv, NEW w \in Workers,
         \/ OpeningStep(w) \/ CallStep(w) \/ Scan(w) \/ TokenStep(w) \/ DropStep(w)
         \/ SaveStep(w) /\ ~AllDead',
         NEW v \in Workers, v # w
  PROVE  CommandKept(v)'
<1>1. CommandKept(v)
  BY DEF CommandInv, CommandKept
<1>2. /\ pc'[v] = pc[v] /\ job'[v] = job[v] /\ fields'[v] = fields[v] /\ sent'[v] = sent[v]
      /\ Len(text'[v]) = Len(text[v])
      /\ \A i \in 1 .. Len(text[v]) :
           text'[v][i] # text[v][i] => text[v][i] \in Delimiters /\ text'[v][i] = NUL
      /\ Unshared(v) => Unshared(v)' /\ text'[v] = text[v]
      /\ from[v][1] = v => from'[v] = from[v]
      /\ token[v][1] # w => token'[v] = token[v]
  BY OthersFrame
<1>3. QED
  BY <1>1, <1>2, CommandFrame

LEMMA NoTextNoPlaces ==
  ASSUME TypeOK, PlaceInv, NEW w \in Workers, ~HasText(w)
  PROVE  Unshared(w)
<1>1. w # Nobody
  BY PlaceFacts
<1>2. position[1] # w
  BY <1>1 DEF PlaceInv, Outside, Alive
<1>3. \A v \in Workers : from[v][1] # w /\ token[v][1] # w
  BY <1>1 DEF PlaceInv, Outside, Alive
<1>4. QED
  BY <1>2, <1>3 DEF Unshared

LEMMA OwnOpeningCommand ==
  ASSUME TypeOK, TypeOK', PlaceInv, JobInv, NEW w \in Workers, OpeningStep(w)
  PROVE  CommandKept(w)'
<1>1. CASE ReceiveRequest(w)
  <2>1. PICK r \in Requests :
          /\ sent' = [sent EXCEPT ![w] = r]
          /\ text' = [text EXCEPT ![w] = SerializeRequest(r)]
    BY <1>1 DEF ReceiveRequest
  <2>2. PICK t : t = SerializeRequest(r)
    OBVIOUS
  <2>3. Len(t) >= 2 /\ t[1] = r.command /\ t[2] = Comma
    BY <2>2, RequestText
  <2>4. /\ pc[w] = "idle" /\ pc' = [pc EXCEPT ![w] = "begin"]
        /\ UNCHANGED <<position, from, token, fields>>
    BY <1>1 DEF ReceiveRequest, At, Goto
  <2>5. pc'[w] = "begin" /\ sent'[w] = r /\ text'[w] = t
    BY <2>1, <2>2, <2>4 DEF TypeOK
  <2>6. Unshared(w) /\ fields[w] = <<>>
    BY <2>4, NoTextNoPlaces DEF JobInv, Parsing, HasText
  <2>7. Opening(w)'
    BY <2>3, <2>5 DEF Opening
  <2>8. FirstField(w)'
    BY <2>3, <2>4, <2>5, <2>6 DEF FirstField, At, Unshared
  <2>9. QED
    BY <2>4, <2>6, <2>7, <2>8 DEF CommandKept
<1>2. CASE NotThere(w)
  BY <1>2 DEF NotThere, JobInv, CommandKept, Parsing, At
<1>3. QED
  BY <1>1, <1>2 DEF OpeningStep

LEMMA OwnCallCommand ==
  ASSUME TypeOK, TypeOK', PlaceInv, JobInv, CommandInv, NEW w \in Workers, CallStep(w)
  PROVE  CommandKept(w)'
<1>1. SUFFICES ASSUME Parsing(w)'
               PROVE  /\ Opening(w)'
                      /\ IF fields'[w] = <<>> THEN FirstField(w)'
                         ELSE fields'[w][1] = <<sent'[w].command>>
  BY DEF CommandKept
<1>2. /\ pc' = [pc EXCEPT ![w] = "scan"]
      /\ \/ pc[w] = "begin" /\ from' = [from EXCEPT ![w] = <<w, 1>>]
         \/ pc[w] = "next" /\ from' = [from EXCEPT ![w] = position]
      /\ UNCHANGED <<position, text, token, job, fields, sent>>
  BY CallFrame
<1>3. Parsing(w)
  BY <1>1, <1>2 DEF Parsing, HasText
<1>4. Opening(w) /\ IF fields[w] = <<>> THEN FirstField(w)
                    ELSE fields[w][1] = <<sent[w].command>>
  BY <1>3 DEF CommandInv
<1>5. Opening(w)'
  BY <1>2, <1>4 DEF Opening
<1>6. ASSUME FirstField(w) PROVE FirstField(w)'
  <2>1. pc[w] = "begin" /\ from' = [from EXCEPT ![w] = <<w, 1>>]
    BY <1>2, <1>6 DEF FirstField, At
  <2>2. text[w][2] = Comma /\ Unshared(w)
    BY <1>6, <2>1 DEF FirstField, At
  <2>3. /\ pc'[w] = "scan" /\ from'[w] = <<w, 1>>
        /\ \A v \in Workers : v # w => from'[v] = from[v]
    BY <1>2, <2>1 DEF TypeOK
  <2>4. Unshared(w)'
    BY <1>2, <2>2, <2>3 DEF Unshared
  <2>5. QED
    BY <1>2, <2>2, <2>3, <2>4 DEF FirstField, At
<1>7. QED
  BY <1>2, <1>4, <1>5, <1>6

(***************************************************************************)
(* The first call of a parse ends the command with a NUL and returns it.   *)
(***************************************************************************)
LEMMA OwnScanCommand ==
  ASSUME TypeOK, TypeOK', PlaceInv, JobInv, CommandInv, NEW w \in Workers, Scan(w)
  PROVE  CommandKept(w)'
<1>1. SUFFICES ASSUME Parsing(w)'
               PROVE  /\ Opening(w)'
                      /\ IF fields'[w] = <<>> THEN FirstField(w)'
                         ELSE fields'[w][1] = <<sent'[w].command>>
  BY DEF CommandKept
<1>2. /\ pc[w] = "scan" /\ pc' = [pc EXCEPT ![w] = "use"]
      /\ UNCHANGED <<job, fields, sent>>
  BY ScanFrame
<1>3. Parsing(w) /\ pc'[w] = "use"
  BY <1>1, <1>2 DEF Parsing, HasText, TypeOK
<1>4. Opening(w) /\ IF fields[w] = <<>> THEN FirstField(w)
                    ELSE fields[w][1] = <<sent[w].command>>
  BY <1>3 DEF CommandInv
<1>5. Opening(w)'
  <2>1. CASE ~Alive(from[w])
    BY <1>2, <1>4, <2>1, DeadScanFrame DEF Opening
  <2>2. CASE Alive(from[w])
    <3>1. PICK owner, found :
            /\ owner \in Workers /\ found.text \in Seq(Symbols) /\ Len(found.text) = Len(text[owner])
            /\ \A i \in 1 .. Len(text[owner]) :
                 found.text[i] # text[owner][i] =>
                   text[owner][i] \in Delimiters /\ found.text[i] = NUL
            /\ text' = [text EXCEPT ![owner] = found.text]
      BY <2>2, ScannedFacts
    <3>2. /\ Len(text'[w]) = Len(text[w])
          /\ \A i \in 1 .. Len(text[w]) :
               text'[w][i] # text[w][i] => text[w][i] \in Delimiters /\ text'[w][i] = NUL
      BY <3>1 DEF TypeOK
    <3>3. QED
      BY <1>2, <1>3, <1>4, <3>2, OpeningKept
  <2>3. QED
    BY <2>1, <2>2
<1>6. ASSUME FirstField(w) PROVE FirstField(w)'
  <2>1. text[w][2] = Comma /\ from[w] = <<w, 1>>
    BY <1>2, <1>6 DEF FirstField, At
  <2>2. Alive(from[w]) /\ from[w][1] = w /\ from[w][2] = 1
    BY <2>1, PlaceFacts
  <2>3. Delimiter(w) = Comma
    BY <1>3 DEF Delimiter, Parsing
  <2>4. PICK string : string = text[w]
    OBVIOUS
  <2>5. /\ string \in Seq(Symbols) /\ Len(string) >= 2
        /\ string[1] \notin {Comma, NUL} /\ string[2] = Comma
    BY <1>3, <1>4, <2>1, <2>4, SentCommand, CommandFacts DEF Opening, TypeOK
  <2>6. PICK found : found = Strtok(string, 1, Comma)
    OBVIOUS
  <2>7. found = [token |-> 1, next |-> 3, text |-> [string EXCEPT ![2] = NUL]]
    BY <2>5, <2>6, FirstCall
  <2>8. /\ text' = [text EXCEPT ![w] = found.text]
        /\ token' = [token EXCEPT ![w] = IF found.token = 0 THEN NoPlace ELSE <<w, found.token>>]
    BY <2>2, <2>3, <2>4, <2>6 DEF Scan, ScanAlive
  <2>9. found.token = 1 /\ found.text[2] = NUL
    BY <2>5, <2>7
  <2>10. token'[w] = <<w, 1>> /\ text'[w] = found.text
    BY <2>8, <2>9 DEF TypeOK
  <2>11. QED
    BY <1>3, <2>9, <2>10 DEF FirstField, At
<1>7. QED
  BY <1>2, <1>4, <1>5, <1>6

LEMMA OwnTokenCommand ==
  ASSUME TypeOK, TypeOK', PlaceInv, JobInv, CommandInv, NEW w \in Workers, TokenStep(w)
  PROVE  CommandKept(w)'
<1>1. SUFFICES ASSUME Parsing(w)'
               PROVE  /\ Opening(w)'
                      /\ IF fields'[w] = <<>> THEN FirstField(w)'
                         ELSE fields'[w][1] = <<sent'[w].command>>
  BY DEF CommandKept
<1>2. /\ pc[w] = "use" /\ UNCHANGED <<text, job, sent>>
      /\ \/ job[w] = 1 /\ \E str \in Strings(w) : fields' = [fields EXCEPT ![w] = Append(@, str)]
         \/ job[w] # 1 /\ fields' = fields
  BY TokenFrame
<1>3. Parsing(w)
  BY <1>1, <1>2 DEF Parsing, HasText
<1>4. Opening(w) /\ IF fields[w] = <<>> THEN FirstField(w)
                    ELSE fields[w][1] = <<sent[w].command>>
  BY <1>3 DEF CommandInv
<1>5. Opening(w)'
  BY <1>2, <1>4 DEF Opening
<1>6. PICK str \in Strings(w) : fields' = [fields EXCEPT ![w] = Append(@, str)]
  BY <1>2, <1>3 DEF Parsing
<1>7. fields'[w] = Append(fields[w], str) /\ fields[w] \in Seq(Seq(Symbols))
  BY <1>6 DEF TypeOK
<1>8. str \in Seq(Symbols)
  BY TokenStrings
<1>9. CASE fields[w] = <<>>
  <2>1. text[w][2] = NUL /\ token[w] = <<w, 1>>
    BY <1>2, <1>4, <1>9 DEF FirstField, At
  <2>2. Alive(token[w]) /\ token[w][1] = w /\ token[w][2] = 1
    BY <2>1, PlaceFacts
  <2>3. PICK string : string = text[w]
    OBVIOUS
  <2>4. string \in Seq(Symbols) /\ Len(string) >= 2 /\ string[1] # NUL /\ string[2] = NUL
    BY <1>3, <1>4, <2>1, <2>3, SentCommand, CommandFacts DEF Opening, TypeOK
  <2>5. str = StringAt(string, 1)
    BY <2>2, <2>3 DEF Strings
  <2>6. str = <<string[1]>>
    BY <2>4, <2>5, FirstString
  <2>7. str = <<sent[w].command>>
    BY <1>4, <2>3, <2>6 DEF Opening
  <2>8. fields'[w] # <<>> /\ fields'[w][1] = str
    BY <1>7, <1>8, <1>9
  <2>9. QED
    BY <1>2, <1>5, <2>7, <2>8
<1>10. CASE fields[w] # <<>>
  <2>1. fields'[w] # <<>> /\ fields'[w][1] = fields[w][1]
    <3>1. PICK f : f = fields[w]
      OBVIOUS
    <3>2. f \in Seq(Seq(Symbols)) /\ f # <<>>
      BY <1>7, <1>10, <3>1
    <3>3. PICK n : n = Len(f)
      OBVIOUS
    <3>4. n \in Nat /\ n >= 1
      BY <3>2, <3>3
    <3>5. Len(Append(f, str)) = n + 1 /\ Append(f, str)[1] = f[1]
      BY <1>8, <3>2, <3>3, <3>4
    <3>6. Append(f, str) # <<>>
      BY <3>4, <3>5
    <3>7. QED
      BY <1>7, <3>1, <3>5, <3>6
  <2>2. QED
    BY <1>2, <1>4, <1>5, <1>10, <2>1
<1>11. QED
  BY <1>9, <1>10

LEMMA CommandStep ==
  ASSUME TypeOK, TypeOK', PlaceInv, JobInv, CommandInv, NEW w \in Workers,
         \/ OpeningStep(w) \/ CallStep(w) \/ Scan(w) \/ TokenStep(w) \/ DropStep(w)
         \/ SaveStep(w) /\ ~AllDead'
  PROVE  CommandInv'
<1>1. SUFFICES ASSUME NEW v \in Workers PROVE CommandKept(v)'
  BY DEF CommandInv, CommandKept
<1>2. CASE v # w
  BY <1>2, OthersCommand
<1>3. CASE v = w
  <2>1. CASE OpeningStep(w) \/ CallStep(w) \/ Scan(w) \/ TokenStep(w)
    BY <1>3, <2>1, OwnOpeningCommand, OwnCallCommand, OwnScanCommand, OwnTokenCommand
  <2>2. CASE DropStep(w)
    BY <1>3, <2>2, DropFrame DEF CommandKept, Parsing, HasText
  <2>3. CASE SaveStep(w) /\ ~AllDead'
    BY <1>3, <2>3, SaveFrame DEF AllDead, At, CommandKept, Parsing, HasText
  <2>4. QED
    BY <2>1, <2>2, <2>3
<1>4. QED
  BY <1>2, <1>3

-----------------------------------------------------------------------------
(***************************************************************************)
(* The process dies as a whole and for good.                               *)
(***************************************************************************)
LEMMA TheDeadStayDead ==
  ASSUME AllDead, NEW w \in Workers
  PROVE  ~(ReceiveRequest(w) \/ Step(w))
<1>1. pc[w] = "dead"
  BY DEF AllDead, At
<1>2. ~(ReceiveRequest(w) \/ Begin(w) \/ GoOn(w) \/ Scan(w))
  BY <1>1 DEF ReceiveRequest, Begin, GoOn, Scan, At
<1>3. ~(UseField(w) \/ EndOfFields(w))
  BY <1>1 DEF UseField, EndOfFields, HasToken, FieldsRead, At
<1>4. ~(AlreadyThere(w) \/ NotThere(w) \/ MakeDirectory(w) \/ MakeDirectoryFails(w)
         \/ EndOfComponents(w))
  BY <1>1 DEF AlreadyThere, NotThere, MakeDirectory, MakeDirectoryFails, EndOfComponents,
              HasToken, At
<1>5. ~SaveStep(w)
  BY <1>1 DEF SaveStep, TakeLock, Save, SaveAtRoot, OpenVersion, Store, RemovePath, At
<1>6. QED
  BY <1>2, <1>3, <1>4, <1>5 DEF Step, Loop, SaveStep

LEMMA StepKeeps ==
  ASSUME ParserInv, NEW w \in Workers, ReceiveRequest(w) \/ Step(w)
  PROVE  ParserInv'
<1>1. TypeOK /\ NoneDead /\ PlaceInv /\ JobInv /\ QuietInv /\ CommandInv
  BY TheDeadStayDead DEF ParserInv
<1>2. OpeningStep(w) \/ CallStep(w) \/ Scan(w) \/ TokenStep(w) \/ DropStep(w) \/ SaveStep(w)
  BY StepKinds
<1>3. TypeOK'
  BY <1>1, TypesStep
<1>4. CASE AllDead'
  BY <1>3, <1>4 DEF ParserInv
<1>5. CASE ~AllDead'
  <2>1. \/ OpeningStep(w) \/ CallStep(w) \/ Scan(w) \/ TokenStep(w) \/ DropStep(w)
        \/ SaveStep(w) /\ ~AllDead'
    BY <1>2, <1>5
  <2>2. NoneDead'
    BY <1>1, <1>2, <1>5, AliveStep
  <2>3. PlaceInv'
    BY <1>1, <1>3, <2>1, PlacesStep
  <2>4. JobInv'
    BY <1>1, <1>5, JobStep
  <2>5. QuietInv'
    BY <1>1, <1>3, <2>1, QuietStep
  <2>6. CommandInv'
    BY <1>1, <1>3, <2>1, CommandStep
  <2>7. QED
    BY <1>3, <2>2, <2>3, <2>4, <2>5, <2>6 DEF ParserInv
<1>6. QED
  BY <1>4, <1>5

LEMMA StutterKeeps ==
  ASSUME ParserInv, UNCHANGED vars
  PROVE  ParserInv'
<1>1. UNCHANGED <<pc, job, position, text, from, token, fields, path, current, sent, made, dirs,
                  regular, removed, disturbed, ub>>
  BY DEF vars, texts, results, tree
<1>2. TypeOK'
  BY <1>1 DEF ParserInv, TypeOK, Labels
<1>3. AllDead' <=> AllDead
  BY <1>1 DEF AllDead, At
<1>4. NoneDead' <=> NoneDead
  BY <1>1 DEF NoneDead, At
<1>5. PlaceInv' <=> PlaceInv
  BY <1>1 DEF PlaceInv, Within, Outside, Alive, HasText
<1>6. JobInv' <=> JobInv
  BY <1>1 DEF JobInv, Parsing, HasText, At
<1>7. QuietInv' <=> QuietInv
  BY <1>1 DEF QuietInv, Quiet, At
<1>8. CommandInv' <=> CommandInv
  <2>1. \A w \in Workers : (FirstField(w))' <=> FirstField(w)
    BY <1>1 DEF FirstField, Unshared, At
  <2>2. QED
    BY <1>1, <2>1 DEF CommandInv, Parsing, HasText, Opening
<1>9. QED
  BY <1>2, <1>3, <1>4, <1>5, <1>6, <1>7, <1>8 DEF ParserInv

(***************************************************************************)
(* Whatever the interleaving of the loops, the position, the calls and the *)
(* tokens lead where ParserInv says (protocol.c:105-153, utils.c:157-187). *)
(***************************************************************************)
THEOREM Invariance == Spec => []ParserInv
<1>1. Init => ParserInv
  BY InitEstablishes
<1>2. ParserInv /\ [Next]_vars => ParserInv'
  BY StepKeeps, StutterKeeps DEF Next, Finished
<1>3. QED
  BY <1>1, <1>2, PTL DEF Spec

(***************************************************************************)
(* The variables hold what the code's variables can hold; createNested-    *)
(* Directories is only called with a path that is not empty                *)
(* (protocol.c:60, utils.c:97).                                            *)
(***************************************************************************)
THEOREM TypeCorrect == Spec => []TypeOK
<1>1. ParserInv => TypeOK
  BY DEF ParserInv
<1>2. QED
  BY <1>1, Invariance, PTL

(***************************************************************************)
(* However many threads' loops mix, the command of a request is the        *)
(* client's own (protocol.c:121-126).                                      *)
(***************************************************************************)
THEOREM CommandsAreOwn == Spec => []OwnCommand
<1>1. ParserInv => OwnCommand
  <2>1. SUFFICES ASSUME ParserInv, NEW w \in Workers, FieldsRead(w), Result(w) # NoRequest
                 PROVE  Result(w).command = sent[w].command
    BY DEF OwnCommand
  <2>2. pc[w] = "use" /\ job[w] = 1
    BY <2>1 DEF FieldsRead, At
  <2>3. JobInv /\ CommandInv /\ Parsing(w)
    BY <2>1, <2>2 DEF ParserInv, AllDead, At, Parsing, HasText
  <2>4. PICK f : f = fields[w]
    OBVIOUS
  <2>5. PICK c : c = sent[w].command
    OBVIOUS
  <2>6. ~(Len(f) < 3) /\ Result(w) = RequestOf(f)
    BY <2>1, <2>4 DEF Result, RequestOf
  <2>7. f # <<>>
    BY <2>6
  <2>8. f[1] = <<c>>
    BY <2>3, <2>4, <2>5, <2>7 DEF CommandInv
  <2>9. StrToCommandType(f[1]) = c
    BY <2>3, <2>5, <2>8, SentCommand, CommandFacts
  <2>10. Result(w) = CreateRequestFromParts(c, f[3], StrToL(f[2]))
    BY <2>6, <2>9 DEF RequestOf
  <2>11. Result(w) = [command |-> c, remote_path |-> f[3], data_len |-> StrToL(f[2])]
    BY <2>1, <2>10 DEF CreateRequestFromParts
  <2>12. QED
    BY <2>5, <2>11
<1>2. QED
  BY <1>1, Invariance, PTL

(***************************************************************************)
(* The step that first touches a dead text is one of a disturbed loop.     *)
(***************************************************************************)
LEMMA TouchedByDisturbed ==
  ASSUME ParserInv, NEW w \in Workers, ReceiveRequest(w) \/ Step(w), ~ub, ub'
  PROVE  w \in disturbed /\ pc'[w] # pc[w]
<1>1. TypeOK /\ NoneDead /\ QuietInv
  BY TheDeadStayDead DEF ParserInv
<1>2. OpeningStep(w) \/ CallStep(w) \/ Scan(w) \/ TokenStep(w) \/ DropStep(w) \/ SaveStep(w)
  BY StepKinds
<1>3. w \in disturbed \/ /\ pc[w] = "scan" => from[w][1] = w
                         /\ pc[w] = "use" => token[w] = NoPlace \/ token[w][1] = w
  BY <1>1 DEF QuietInv, Quiet, At
<1>4. w # Nobody
  BY PlaceFacts
<1>5. CASE OpeningStep(w)
  BY <1>1, <1>5, OpeningFrame
<1>6. CASE CallStep(w)
  BY <1>1, <1>6, CallFrame
<1>7. CASE Scan(w)
  <2>1. ~Alive(from[w])
    BY <1>7 DEF Scan, ScanAlive
  <2>2. QED
    BY <1>1, <1>3, <1>4, <1>7, <2>1, ScanFrame DEF Alive, TypeOK
<1>8. CASE TokenStep(w)
  BY <1>1, <1>3, <1>4, <1>8, TokenFrame DEF Alive, TypeOK
<1>9. CASE DropStep(w)
  BY <1>1, <1>3, <1>4, <1>9, DropFrame DEF Alive
<1>10. CASE SaveStep(w)
  BY <1>1, <1>10, SaveFrame
<1>11. QED
  BY <1>2, <1>5, <1>6, <1>7, <1>8, <1>9, <1>10

(***************************************************************************)
(* Only a thread whose loop another thread's call came into follows the    *)
(* position into a text that is freed or out of scope (protocol.c:139).    *)
(***************************************************************************)
THEOREM OnlyDisturbedLoopsStray == Spec => OnlyDisturbedTouchTheDead
<1>1. ParserInv /\ [Next]_vars => [~ub /\ ub' => \E w \in disturbed : pc'[w] # pc[w]]_vars
  BY TouchedByDisturbed DEF Next, Finished
<1>2. QED
  BY <1>1, Invariance, PTL DEF Spec, OnlyDisturbedTouchTheDead

-----------------------------------------------------------------------------
(***************************************************************************)
(* UndisturbedDirectories: directories of any depth.                       *)
(***************************************************************************)

LEMMA SeparatorFacts ==
  /\ \A c : c \in Separators <=> c \in Delimiters \/ c = NUL
  /\ \A c : c \in {Comma, Slash} <=> c \in Delimiters
  /\ Comma \in Separators /\ Slash \in Separators /\ NUL \in Separators
  /\ NUL \notin Delimiters
  BY DelimiterFacts DEF Separators, Delimiters

-----------------------------------------------------------------------------
(* Calls of strtok in tidy texts *)

(***************************************************************************)
(* Cutting a tidy text keeps it tidy.                                      *)
(***************************************************************************)
LEMMA CutTidy ==
  ASSUME NEW s, NEW t, Len(t) = Len(s), Tidy(s), Len(s) \in Nat,
         \A i \in 1 .. Len(s) : t[i] # s[i] => s[i] \in Delimiters /\ t[i] = NUL
  PROVE  Tidy(t)
<1>1. SUFFICES ASSUME NEW i \in 1 .. Len(s), t[i] \in Separators
               PROVE  i > 1 /\ i < Len(s) /\ t[i - 1] \notin Separators
  BY DEF Tidy
<1>2. s[i] \in Separators
  BY <1>1, SeparatorFacts
<1>3. i > 1 /\ i < Len(s) /\ s[i - 1] \notin Separators
  BY <1>1, <1>2 DEF Tidy
<1>4. i - 1 \in 1 .. Len(s)
  BY <1>1, <1>3
<1>5. QED
  BY <1>3, <1>4, SeparatorFacts

(***************************************************************************)
(* A call that begins at no separator that is still there returns the      *)
(* token that begins there, and stops at the end or behind a delimiter.    *)
(***************************************************************************)
LEMMA TidyCall ==
  ASSUME NEW string \in Seq(Symbols), NEW a \in 1 .. Len(string) + 1, NEW delim \in Delimiters,
         NEW found, found = Strtok(string, a, delim), CharAt(string, a) \notin Delimiters
  PROVE  \/ /\ found.token = 0 /\ found.next = a /\ found.text = string
            /\ CharAt(string, a) = NUL
         \/ /\ found.token = a /\ a \in 1 .. Len(string) /\ string[a] \notin Separators
            /\ \E e \in a + 1 .. Len(string) + 1 :
                 /\ \A i \in a .. e - 1 : string[i] \notin {delim, NUL}
                 /\ \/ /\ CharAt(string, e) = NUL
                       /\ found.next = e /\ found.text = string
                    \/ /\ e \in 1 .. Len(string) /\ string[e] = delim
                       /\ found.next = e + 1 /\ found.text = [string EXCEPT ![e] = NUL]
<1>1. PICK n \in Nat : n = Len(string)
  OBVIOUS
<1>2. PICK start : start = FirstFrom(string, a, LAMBDA c : c # delim)
  OBVIOUS
<1>3. PICK end : end = FirstFrom(string, start, LAMBDA c : c \in {delim, NUL})
  OBVIOUS
<1>4. start = a
  <2>1. CharAt(string, a) # delim
    OBVIOUS
  <2>2. /\ a \in a .. Len(string) + 1
        /\ \A i \in a .. Len(string) + 1 : i # a => a \in a .. i - 1
        /\ a .. a - 1 = {}
    BY <1>1
  <2>3. QED
    BY <1>2, <2>1, <2>2 DEF FirstFrom
<1>5. /\ end \in a .. Len(string) + 1 /\ CharAt(string, end) \in {delim, NUL}
      /\ \A j \in a .. end - 1 : CharAt(string, j) \notin {delim, NUL}
  BY <1>3, <1>4, EndFacts
<1>6. found =
        IF CharAt(string, a) = NUL THEN [token |-> 0, next |-> a, text |-> string]
        ELSE IF CharAt(string, end) = NUL
               THEN [token |-> a, next |-> end, text |-> string]
        ELSE [token |-> a, next |-> end + 1, text |-> [string EXCEPT ![end] = NUL]]
  BY <1>2, <1>3, <1>4 DEF Strtok
<1>7. CASE CharAt(string, a) = NUL
  BY <1>6, <1>7
<1>8. CASE CharAt(string, a) # NUL
  <2>1. a \in 1 .. n /\ string[a] = CharAt(string, a)
    BY <1>1, <1>8 DEF CharAt
  <2>2. string[a] \notin Separators
    BY <1>8, <2>1, SeparatorFacts
  <2>3. end # a
    BY <1>5, <1>8
  <2>4. end \in a + 1 .. n + 1 /\ end \in Nat
    BY <1>1, <1>5, <2>1, <2>3
  <2>5. \A i \in a .. end - 1 : i \in 1 .. n /\ CharAt(string, i) = string[i]
    BY <1>1, <2>1, <2>4 DEF CharAt
  <2>6. \A i \in a .. end - 1 : string[i] \notin {delim, NUL}
    BY <1>5, <2>5
  <2>7. CASE CharAt(string, end) = NUL
    BY <1>1, <1>6, <1>8, <2>1, <2>2, <2>4, <2>6, <2>7
  <2>8. CASE CharAt(string, end) # NUL
    <3>1. end \in 1 .. n /\ string[end] = delim
      BY <1>1, <1>5, <2>4, <2>8 DEF CharAt
    <3>2. /\ found.token = a /\ found.next = end + 1
          /\ found.text = [string EXCEPT ![end] = NUL]
      BY <1>6, <1>8, <2>8
    <3>3. QED
      BY <1>1, <2>1, <2>2, <2>4, <2>6, <3>1, <3>2
  <2>9. QED
    BY <2>7, <2>8
<1>9. QED
  BY <1>7, <1>8

(***************************************************************************)
(* The string at a place ends where the first NUL is.                      *)
(***************************************************************************)
LEMMA StringIs ==
  ASSUME NEW string \in Seq(Symbols), NEW a \in 1 .. Len(string), NEW e \in a .. Len(string) + 1,
         CharAt(string, e) = NUL, \A i \in a .. e - 1 : string[i] # NUL
  PROVE  StringAt(string, a) = SubSeq(string, a, e - 1)
<1>1. PICK n \in Nat : n = Len(string)
  OBVIOUS
<1>2. PICK k : k = FirstFrom(string, a, LAMBDA c : c = NUL)
  OBVIOUS
<1>3. \A i \in a .. e - 1 : i \in 1 .. n /\ CharAt(string, i) # NUL
  BY <1>1 DEF CharAt
<1>4. k = e
  <2>1. \A i \in a .. n + 1 : i # e => i \in a .. e - 1 \/ e \in a .. i - 1
    BY <1>1
  <2>2. \A i \in a .. n + 1 :
          (CharAt(string, i) = NUL /\ \A j \in a .. i - 1 : ~(CharAt(string, j) = NUL)) <=> i = e
    BY <1>1, <1>3, <2>1
  <2>3. QED
    BY <1>1, <1>2, <2>2 DEF FirstFrom
<1>5. QED
  BY <1>2, <1>4 DEF StringAt

(***************************************************************************)
(* What is read at a token of a tidy text is a word or several.            *)
(***************************************************************************)
LEMMA StringClean ==
  ASSUME NEW string \in Seq(Symbols), NEW a \in 1 .. Len(string) + 1, Tidy(string),
         CharAt(string, a) \notin Separators
  PROVE  Clean(StringAt(string, a))
<1>1. PICK n \in Nat : n = Len(string)
  OBVIOUS
<1>2. a \in 1 .. n /\ string[a] \notin Separators
  BY <1>1, SeparatorFacts DEF CharAt
<1> DEFINE S == {j \in a .. n + 1 : CharAt(string, j) = NUL}
<1>3. n + 1 \in S
  BY <1>1, <1>2 DEF CharAt
<1>4. PICK e \in S : \A j \in a .. e - 1 : j \notin S
  <2>1. a \in Nat /\ n + 1 \in Nat /\ S \in SUBSET (a .. n + 1) /\ S # {}
    BY <1>1, <1>3
  <2> HIDE DEF S
  <2>2. QED
    BY <2>1, FirstExists
<1>5. e \in a .. n + 1 /\ CharAt(string, e) = NUL
  BY <1>4
<1>6. e # a
  BY <1>1, <1>2, <1>5, SeparatorFacts DEF CharAt
<1>7. \A i \in a .. e - 1 : i \in 1 .. n /\ string[i] # NUL
  BY <1>1, <1>2, <1>4, <1>5 DEF CharAt
<1>8. PICK str : str = StringAt(string, a)
  OBVIOUS
<1>9. str = SubSeq(string, a, e - 1)
  BY <1>1, <1>2, <1>5, <1>7, <1>8, StringIs
<1>10. /\ a \in Int /\ e - 1 \in Int /\ \A i \in a .. e - 1 : string[i] \in Symbols
       /\ a <= e - 1 + 1
  BY <1>1, <1>2, <1>5, <1>7
<1>11. /\ str \in Seq(Symbols) /\ Len(str) = e - a
       /\ \A i \in 1 .. e - a : str[i] = string[a + i - 1]
  BY <1>2, <1>5, <1>9, <1>10, SubSeqProperties
<1>12. str # <<>>
  BY <1>2, <1>5, <1>6, <1>11
<1>13. \A i \in 1 .. e - a : a + i - 1 \in a .. e - 1
  BY <1>2, <1>5
<1>14. \A i \in 1 .. Len(str) : str[i] # NUL
  BY <1>7, <1>11, <1>13
<1>15. ASSUME NEW i \in 1 .. Len(str), str[i] \in Separators
       PROVE  i > 1 /\ i < Len(str) /\ str[i - 1] \notin Separators
  <2>1. PICK k : k = a + i - 1
    OBVIOUS
  <2>2. k \in 1 .. n /\ k \in a .. e - 1 /\ string[k] \in Separators
    BY <1>7, <1>11, <1>13, <1>15, <2>1
  <2>3. i > 1
    BY <1>2, <1>11, <1>15, <2>1, <2>2
  <2>4. k > 1 /\ string[k - 1] \notin Separators
    BY <1>1, <2>2 DEF Tidy
  <2>5. i - 1 \in 1 .. e - a /\ a + (i - 1) - 1 = k - 1
    BY <1>2, <1>5, <1>11, <1>15, <2>1, <2>3
  <2>6. str[i - 1] = string[k - 1]
    BY <1>11, <2>5
  <2>7. i < Len(str)
    <3>1. k < n
      BY <1>1, <2>2 DEF Tidy
    <3>2. k # e - 1
      <4>1. SUFFICES ASSUME k = e - 1 PROVE FALSE
        OBVIOUS
      <4>2. e \in 1 .. n /\ string[e] \in Separators
        BY <1>1, <1>2, <1>5, <3>1, <4>1, SeparatorFacts DEF CharAt
      <4>3. string[e - 1] \notin Separators
        BY <1>1, <4>2 DEF Tidy
      <4>4. QED
        BY <2>2, <4>1, <4>3
    <3>3. QED
      <4>1. a \in Int /\ e \in Int /\ k \in Int /\ i \in 1 .. e - a /\ k = a + i - 1
        BY <1>1, <1>2, <1>5, <1>11, <1>15, <2>1, <2>2
      <4>2. i < e - a
        BY ONLY <3>2, <4>1
      <4>3. QED
        BY <1>11, <4>2
  <2>8. QED
    BY <2>3, <2>4, <2>6, <2>7
<1>16. QED
  BY <1>8, <1>12, <1>14, <1>15 DEF Clean, Tidy

-----------------------------------------------------------------------------
(* Paths whose components are not empty *)

LEMMA SubSeqFacts ==
  ASSUME NEW s \in Seq(Symbols), NEW k \in 0 .. Len(s), NEW t, t = SubSeq(s, 1, k)
  PROVE  t \in Seq(Symbols) /\ Len(t) = k /\ \A i \in 1 .. k : t[i] = s[i]
<1>1. PICK n \in Nat : n = Len(s)
  OBVIOUS
<1>2. k \in Int /\ 1 \in Int /\ 1 <= k + 1 /\ \A i \in 1 .. k : s[i] \in Symbols
  BY <1>1
<1>3. t \in Seq(Symbols) /\ Len(t) = k - 1 + 1 /\ \A i \in 1 .. k - 1 + 1 : t[i] = s[1 + i - 1]
  BY <1>2, SubSeqProperties
<1>4. \A i \in 1 .. k : 1 + i - 1 = i
  BY <1>1
<1>5. k - 1 + 1 = k
  BY <1>1
<1>6. QED
  BY <1>3, <1>4, <1>5

LEMMA JoinFacts ==
  ASSUME NEW a \in Seq(Symbols), NEW b \in Seq(Symbols), NEW t, t = a \o b
  PROVE  /\ t \in Seq(Symbols) /\ Len(t) = Len(a) + Len(b)
         /\ \A i \in 1 .. Len(a) : t[i] = a[i]
         /\ \A i \in 1 .. Len(b) : t[Len(a) + i] = b[i]
<1>1. PICK m \in Nat, n \in Nat : m = Len(a) /\ n = Len(b)
  OBVIOUS
<1>2. /\ t \in Seq(Symbols) /\ Len(t) = m + n
      /\ \A i \in 1 .. m + n : t[i] = IF i <= m THEN a[i] ELSE b[i - m]
  BY <1>1, ConcatProperties
<1>3. \A i \in 1 .. m : i \in 1 .. m + n /\ i <= m
  OBVIOUS
<1>4. \A i \in 1 .. n : m + i \in 1 .. m + n /\ ~(m + i <= m) /\ m + i - m = i
  OBVIOUS
<1>5. QED
  BY <1>1, <1>2, <1>3, <1>4

(***************************************************************************)
(* Two texts that are joined by a separator.                               *)
(***************************************************************************)
Joined(t, a, sep, b) ==
  /\ Len(t) = Len(a) + 1 + Len(b)
  /\ \A i \in 1 .. Len(a) : t[i] = a[i]
  /\ t[Len(a) + 1] = sep
  /\ \A i \in 1 .. Len(b) : t[Len(a) + 1 + i] = b[i]

LEMMA JoinedTidy ==
  ASSUME NEW a \in Seq(Symbols), NEW b \in Seq(Symbols), NEW t, NEW sep, Joined(t, a, sep, b),
         a # <<>>, b # <<>>, Tidy(a), Tidy(b)
  PROVE  Tidy(t)
<1>1. PICK m \in Nat, n \in Nat : m = Len(a) /\ n = Len(b)
  OBVIOUS
<1>2. m >= 1 /\ n >= 1
  BY <1>1
<1>3. /\ Len(t) = m + 1 + n
      /\ \A i \in 1 .. m : t[i] = a[i]
      /\ \A i \in 1 .. n : t[m + 1 + i] = b[i]
  BY <1>1 DEF Joined
<1>4. a[m] \notin Separators
  <2>1. m \in 1 .. Len(a) /\ ~(m < Len(a))
    BY <1>1, <1>2
  <2>2. QED
    BY <2>1 DEF Tidy
<1>5. SUFFICES ASSUME NEW i \in 1 .. m + 1 + n, t[i] \in Separators
               PROVE  i > 1 /\ i < m + 1 + n /\ t[i - 1] \notin Separators
  BY <1>3 DEF Tidy
<1>6. CASE i <= m
  <2>1. i \in 1 .. m
    BY <1>6
  <2>2. i > 1 /\ a[i - 1] \notin Separators
    BY <1>1, <1>3, <1>5, <2>1 DEF Tidy
  <2>3. i - 1 \in 1 .. m /\ i < m + 1 + n
    BY <2>1, <2>2
  <2>4. QED
    BY <1>3, <2>2, <2>3
<1>7. CASE i = m + 1
  <2>1. i - 1 = m /\ m \in 1 .. m /\ i > 1 /\ i < m + 1 + n
    BY <1>2, <1>7
  <2>2. QED
    BY <1>3, <1>4, <2>1
<1>8. CASE i > m + 1
  <2>1. PICK j \in 1 .. n : i = m + 1 + j
    <3>1. i - m - 1 \in 1 .. n /\ i = m + 1 + (i - m - 1)
      BY <1>8
    <3>2. QED
      BY <3>1
  <2>2. j > 1 /\ j < n /\ b[j - 1] \notin Separators
    BY <1>1, <1>3, <1>5, <2>1 DEF Tidy
  <2>3. j - 1 \in 1 .. n /\ i - 1 = m + 1 + (j - 1) /\ i > 1 /\ i < m + 1 + n
    BY <2>1, <2>2
  <2>4. QED
    BY <1>3, <2>2, <2>3
<1>9. QED
  BY <1>6, <1>7, <1>8

LEMMA PlainTidy ==
  ASSUME NEW s, \A i \in 1 .. Len(s) : s[i] \notin Separators
  PROVE  Tidy(s)
  BY DEF Tidy

(***************************************************************************)
(* The text of a request is tidy when its path is.                         *)
(***************************************************************************)
LEMMA RequestTidy ==
  ASSUME TidyPaths, NEW r \in Requests
  PROVE  Tidy(SerializeRequest(r))
<1>1. PICK c, p : c = r.command /\ p = r.remote_path
  OBVIOUS
<1>2. PICK d : d = Numeral(r.data_len)
  OBVIOUS
<1>3. /\ c \in Symbols /\ Comma \in Symbols /\ p \in Seq(Symbols) /\ p # <<>>
      /\ r.data_len \in Nat /\ r.data_len < 10^MaxDigits
  BY <1>1, ParserAssumption, SymbolFacts
<1>4. c \notin Separators
  <2>1. c \in ToSet(COMMAND_STRINGS)
    BY <1>1, ParserAssumption
  <2>2. QED
    BY <2>1, CommandFacts, SeparatorFacts
<1>5. \A k \in 1 .. 10 : Digits[k] \notin Separators
  <2>1. SUFFICES ASSUME NEW k \in 1 .. 10 PROVE Digits[k] \notin Separators
    OBVIOUS
  <2>2. Digits[k] \in {"0", "1", "2", "3", "4", "5", "6", "7", "8", "9"}
    BY DEF Digits
  <2>3. QED
    BY <2>2 DEF Separators, Comma, Slash, NUL
<1>6. /\ d \in Seq(Symbols) /\ Len(d) >= 1
      /\ \A i \in 1 .. Len(d) : d[i] \notin Separators
  BY <1>2, <1>3, <1>5, NumeralFacts
<1> HIDE DEF Comma
<1>7. PICK one, sep, open : one = <<c>> /\ sep = <<Comma>> /\ open = <<c, Comma>>
  OBVIOUS
<1>8. /\ one \in Seq(Symbols) /\ Len(one) = 1 /\ one[1] = c
      /\ sep \in Seq(Symbols) /\ Len(sep) = 1 /\ sep[1] = Comma
      /\ open \in Seq(Symbols) /\ Len(open) = 2 /\ open[1] = c /\ open[2] = Comma
  BY <1>3, <1>7
<1>9. PICK x : x = open \o d
  OBVIOUS
<1>10. x \in Seq(Symbols) /\ Joined(x, one, Comma, d) /\ x # <<>>
  <2>1. /\ x \in Seq(Symbols) /\ Len(x) = 2 + Len(d)
        /\ \A i \in 1 .. 2 : x[i] = open[i]
        /\ \A i \in 1 .. Len(d) : x[2 + i] = d[i]
    <3>1. open \in Seq(Symbols) /\ d \in Seq(Symbols) /\ x = open \o d
      BY <1>6, <1>8, <1>9
    <3>2. /\ x \in Seq(Symbols) /\ Len(x) = Len(open) + Len(d)
          /\ \A i \in 1 .. Len(open) : x[i] = open[i]
          /\ \A i \in 1 .. Len(d) : x[Len(open) + i] = d[i]
      BY ONLY <3>1, JoinFacts
    <3>3. Len(open) = 2
      BY <1>8
    <3>4. QED
      BY <3>2, <3>3
  <2>2. x[1] = c /\ x[2] = Comma
    BY <1>8, <2>1
  <2>3. QED
    BY <1>6, <1>8, <2>1, <2>2 DEF Joined
<1>11. Tidy(x)
  <2>1. Tidy(one) /\ Tidy(d)
    BY <1>4, <1>6, <1>8, PlainTidy
  <2>2. one # <<>> /\ d # <<>>
    <3>1. one # <<>>
      BY <1>8
    <3>2. d # <<>>
      BY <1>6
    <3>3. QED
      BY <3>1, <3>2
  <2>3. QED
    BY <1>6, <1>8, <1>10, <2>1, <2>2, JoinedTidy
<1>12. PICK y, t : y = x \o sep /\ t = y \o p
  OBVIOUS
<1>13. Joined(t, x, Comma, p)
  <2>1. PICK m \in Nat : m = Len(x)
    BY <1>10
  <2>2. /\ y \in Seq(Symbols) /\ Len(y) = m + 1
        /\ \A i \in 1 .. m : y[i] = x[i]
        /\ y[m + 1] = Comma
    <3>1. x \in Seq(Symbols) /\ sep \in Seq(Symbols) /\ y = x \o sep
      BY <1>8, <1>10, <1>12
    <3>2. /\ y \in Seq(Symbols) /\ Len(y) = Len(x) + Len(sep)
          /\ \A i \in 1 .. Len(x) : y[i] = x[i]
          /\ \A i \in 1 .. Len(sep) : y[Len(x) + i] = sep[i]
      BY ONLY <3>1, JoinFacts
    <3>3. Len(sep) = 1 /\ sep[1] = Comma /\ Len(x) = m /\ 1 \in 1 .. 1
      BY <1>8, <2>1
    <3>4. QED
      BY <3>2, <3>3
  <2>3. /\ Len(t) = m + 1 + Len(p)
        /\ \A i \in 1 .. m + 1 : t[i] = y[i]
        /\ \A i \in 1 .. Len(p) : t[m + 1 + i] = p[i]
    <3>1. y \in Seq(Symbols) /\ p \in Seq(Symbols) /\ t = y \o p
      BY <1>3, <1>12, <2>2
    <3>2. /\ t \in Seq(Symbols) /\ Len(t) = Len(y) + Len(p)
          /\ \A i \in 1 .. Len(y) : t[i] = y[i]
          /\ \A i \in 1 .. Len(p) : t[Len(y) + i] = p[i]
      BY ONLY <3>1, JoinFacts
    <3>3. Len(y) = m + 1
      BY <2>2
    <3>4. QED
      BY <3>2, <3>3
  <2>4. \A i \in 1 .. m : i \in 1 .. m + 1
    OBVIOUS
  <2>5. QED
    BY <2>1, <2>2, <2>3, <2>4 DEF Joined
<1>14. Tidy(p)
  BY <1>1 DEF TidyPaths, Clean
<1>15. Tidy(t)
  BY <1>3, <1>10, <1>11, <1>13, <1>14, JoinedTidy
<1>16. QED
  BY <1>1, <1>2, <1>7, <1>9, <1>12, <1>15 DEF SerializeRequest

(***************************************************************************)
(* A path's directory is a path.                                           *)
(***************************************************************************)
LEMMA ExtractClean ==
  ASSUME NEW q \in Seq(Symbols), Clean(q)
  PROVE  ExtractDirectory(q) = <<>> \/ Clean(ExtractDirectory(q))
<1>1. PICK k : k = LastSlash(q)
  OBVIOUS
<1>2. PICK n \in Nat : n = Len(q)
  OBVIOUS
<1>3. k \in 0 .. n /\ (k # 0 => q[k] = Slash)
  BY <1>1, <1>2, LastSlashFacts
<1>4. SUFFICES ASSUME k # 0 PROVE Clean(SubSeq(q, 1, k - 1))
  BY <1>1 DEF ExtractDirectory
<1>5. k \in 1 .. n /\ q[k] \in Separators
  BY <1>3, <1>4, SeparatorFacts
<1>6. k > 1 /\ q[k - 1] \notin Separators
  BY <1>2, <1>5 DEF Clean, Tidy
<1>7. PICK d : d = SubSeq(q, 1, k - 1)
  OBVIOUS
<1>8. PICK m : m = k - 1
  OBVIOUS
<1>9. m \in 0 .. Len(q) /\ m >= 1 /\ q[m] \notin Separators
  BY <1>2, <1>5, <1>6, <1>8
<1>10. d \in Seq(Symbols) /\ Len(d) = m /\ \A i \in 1 .. m : d[i] = q[i]
  BY ONLY <1>7, <1>8, <1>9, SubSeqFacts
<1>11. d # <<>>
  BY <1>9, <1>10
<1>12. \A i \in 1 .. Len(d) : i \in 1 .. Len(q)
  BY <1>2, <1>9, <1>10
<1>13. \A i \in 1 .. Len(d) : d[i] # NUL
  BY <1>10, <1>12 DEF Clean
<1>14. ASSUME NEW i \in 1 .. Len(d), d[i] \in Separators
       PROVE  i > 1 /\ i < Len(d) /\ d[i - 1] \notin Separators
  <2>1. i \in 1 .. m /\ q[i] \in Separators
    BY <1>10, <1>14
  <2>2. i # m
    BY <1>9, <2>1
  <2>3. i > 1 /\ q[i - 1] \notin Separators
    BY <1>12, <1>14, <2>1 DEF Clean, Tidy
  <2>4. i - 1 \in 1 .. m /\ i < m
    BY <1>8, <1>5, <2>1, <2>2, <2>3
  <2>5. QED
    BY <1>10, <2>3, <2>4
<1>15. QED
  BY <1>7, <1>11, <1>13, <1>14 DEF Clean, Tidy

LEMMA VersionClean ==
  ASSUME NEW q \in Seq(Symbols), Clean(q), ExtractDirectory(q) # <<>>
  PROVE  Clean(VersionFolder(q))
<1>1. PICK d : d = ExtractDirectory(q)
  OBVIOUS
<1>2. d \in Seq(Symbols) /\ d # <<>> /\ Clean(d)
  BY <1>1, DirectoryFacts, ExtractClean
<1>3. PICK v : v = ".versions"
  OBVIOUS
<1>4. v \notin Separators /\ v \in Symbols /\ Slash \in Symbols
  BY <1>3, SymbolFacts DEF Separators, Comma, Slash, NUL
<1> HIDE DEF Slash
<1>5. PICK name, two : name = <<v>> /\ two = <<Slash, v>>
  OBVIOUS
<1>6. name \in Seq(Symbols) /\ Len(name) = 1 /\ name[1] = v
  BY <1>4, <1>5
<1>7. two \in Seq(Symbols) /\ Len(two) = 2 /\ two[1] = Slash /\ two[2] = v
  BY <1>4, <1>5
<1>8. PICK t : t = d \o two
  OBVIOUS
<1>9. d \in Seq(Symbols) /\ two \in Seq(Symbols) /\ t = d \o two
  BY <1>2, <1>7, <1>8
<1>10. /\ t \in Seq(Symbols) /\ Len(t) = Len(d) + Len(two)
       /\ \A i \in 1 .. Len(d) : t[i] = d[i]
       /\ \A i \in 1 .. Len(two) : t[Len(d) + i] = two[i]
  BY ONLY <1>9, JoinFacts
<1>11. PICK m \in Nat : m = Len(d)
  BY <1>2
<1>12. Len(t) = m + 2 /\ t[m + 1] = Slash /\ t[m + 2] = v
  BY <1>7, <1>10, <1>11
<1>13. Joined(t, d, Slash, name)
  <2>1. \A i \in 1 .. Len(name) : i = 1 /\ t[m + 1 + i] = name[i]
    <3>1. Len(name) = 1 /\ name[1] = v /\ m + 1 + 1 = m + 2
      BY <1>6
    <3>2. QED
      BY <1>12, <3>1
  <2>2. QED
    BY <1>6, <1>10, <1>11, <1>12, <2>1 DEF Joined
<1>14. Tidy(d) /\ Tidy(name)
  BY <1>2, <1>4, <1>6, PlainTidy DEF Clean
<1>15. name # <<>>
  BY <1>5
<1>16. Tidy(t)
  BY <1>2, <1>6, <1>13, <1>14, <1>15, JoinedTidy
<1>17. \A i \in 1 .. Len(t) : t[i] # NUL
  <2>1. \A i \in 1 .. m : t[i] # NUL
    BY <1>2, <1>10, <1>11 DEF Clean
  <2>2. Slash # NUL /\ v # NUL
    BY <1>4, SeparatorFacts DEF Slash, NUL
  <2>3. \A i \in 1 .. Len(t) : i \in 1 .. m \/ i = m + 1 \/ i = m + 2
    BY <1>11, <1>12
  <2>4. QED
    BY <1>12, <2>1, <2>2, <2>3
<1>18. t # <<>>
  BY <1>12
<1>19. QED
  BY <1>1, <1>3, <1>5, <1>8, <1>16, <1>17, <1>18 DEF Clean, VersionFolder, Below

(***************************************************************************)
(* The directories on the way are the directory and those on the way to    *)
(* the one that it is in.                                                  *)
(***************************************************************************)
LEMMA AncestorsBelow ==
  ASSUME NEW d \in Seq(Symbols)
  PROVE  Ancestors(d) \subseteq {d} \cup Ancestors(ExtractDirectory(d))
<1>1. SUFFICES ASSUME NEW x \in Ancestors(d), x # d
               PROVE  x \in Ancestors(ExtractDirectory(d))
  OBVIOUS
<1>2. PICK n \in Nat : n = Len(d)
  OBVIOUS
<1>3. PICK i \in 2 .. n + 1 : x = SubSeq(d, 1, i - 1) /\ (i = n + 1 \/ d[i] = Slash)
  BY <1>1, <1>2 DEF Ancestors
<1>4. i # n + 1
  <2>1. SubSeq(d, 1, n) = d
    BY <1>2
  <2>2. i = n + 1 => i - 1 = n
    BY <1>2
  <2>3. QED
    BY <1>1, <1>3, <2>1, <2>2
<1>5. PICK k : k = LastSlash(d)
  OBVIOUS
<1>6. k \in 0 .. n /\ i \in 1 .. n /\ i <= k /\ d[i] = Slash
  BY <1>2, <1>3, <1>4, <1>5, LastSlashFacts
<1>7. PICK m, e : m = k - 1 /\ e = SubSeq(d, 1, m)
  OBVIOUS
<1>8. m \in 0 .. Len(d) /\ m >= 1 /\ k # 0
  BY <1>2, <1>3, <1>6, <1>7
<1>9. e \in Seq(Symbols) /\ Len(e) = m /\ \A j \in 1 .. m : e[j] = d[j]
  BY ONLY <1>7, <1>8, SubSeqFacts
<1>10. ExtractDirectory(d) = e
  BY <1>5, <1>7, <1>8 DEF ExtractDirectory
<1>11. i \in 2 .. Len(e) + 1 /\ (i = Len(e) + 1 \/ e[i] = Slash)
  <2>1. i \in 2 .. m + 1 /\ (i = m + 1 \/ i \in 1 .. m)
    BY <1>3, <1>6, <1>7, <1>8
  <2>2. QED
    BY <1>6, <1>9, <2>1
<1>12. x = SubSeq(e, 1, i - 1)
  <2>1. PICK l, y : l = i - 1 /\ y = SubSeq(e, 1, l)
    OBVIOUS
  <2>2. l \in 0 .. Len(e) /\ l \in 0 .. Len(d) /\ x = SubSeq(d, 1, l)
    BY <1>2, <1>3, <1>6, <1>7, <1>9, <2>1
  <2>3. y \in Seq(Symbols) /\ Len(y) = l /\ \A j \in 1 .. l : y[j] = e[j]
    BY ONLY <1>9, <2>1, <2>2, SubSeqFacts
  <2>4. x \in Seq(Symbols) /\ Len(x) = l /\ \A j \in 1 .. l : x[j] = d[j]
    BY ONLY <2>2, SubSeqFacts
  <2>5. \A j \in 1 .. l : j \in 1 .. m /\ x[j] = y[j]
    BY <1>9, <2>2, <2>3, <2>4
  <2>6. x = y
    BY <2>3, <2>4, <2>5
  <2>7. QED
    BY <2>1, <2>6
<1>13. QED
  BY <1>10, <1>11, <1>12 DEF Ancestors

(***************************************************************************)
(* The directory made last, one component longer.                          *)
(***************************************************************************)
LEMMA LongerPrefix ==
  ASSUME NEW d \in Seq(Symbols), NEW n \in 3 .. Len(d), NEW e \in n + 1 .. Len(d) + 1,
         d[n - 1] = Slash,
         NEW c, c = SubSeq(d, 1, n - 2), NEW str, str = SubSeq(d, n, e - 1)
  PROVE  c \o <<Slash>> \o str = SubSeq(d, 1, e - 1)
<1>1. PICK l \in Nat : l = Len(d)
  OBVIOUS
<1>2. PICK k : k = n - 2
  OBVIOUS
<1>3. k \in 0 .. Len(d) /\ k >= 1 /\ n = k + 2 /\ c = SubSeq(d, 1, k)
  BY <1>1, <1>2
<1>4. c \in Seq(Symbols) /\ Len(c) = k /\ \A i \in 1 .. k : c[i] = d[i]
  BY ONLY <1>3, SubSeqFacts
<1>5. /\ str \in Seq(Symbols) /\ Len(str) = e - n
      /\ \A i \in 1 .. e - n : str[i] = d[n + i - 1]
  <2>1. /\ n \in Int /\ e - 1 \in Int /\ n <= e - 1
        /\ \A i \in n .. e - 1 : d[i] \in Symbols
    <3>1. n \in Int /\ e - 1 \in Int /\ n <= e - 1 /\ \A i \in n .. e - 1 : i \in 1 .. l
      BY <1>1
    <3>2. \A i \in 1 .. l : d[i] \in Symbols
      BY <1>1
    <3>3. QED
      BY <3>1, <3>2
  <2>2. /\ SubSeq(d, n, e - 1) \in Seq(Symbols)
        /\ Len(SubSeq(d, n, e - 1)) = IF n <= e - 1 THEN e - 1 - n + 1 ELSE 0
        /\ \A i \in 1 .. e - 1 - n + 1 : SubSeq(d, n, e - 1)[i] = d[n + i - 1]
    BY ONLY <2>1, SubSeqProperties
  <2>3. e - 1 - n + 1 = e - n
    BY <1>1
  <2>4. QED
    BY <2>1, <2>2, <2>3
<1>6. PICK y, sep : sep = <<Slash>> /\ y = c \o sep
  OBVIOUS
<1>7. sep \in Seq(Symbols) /\ Len(sep) = 1 /\ sep[1] = Slash
  <2>1. Slash \in Symbols
    BY SymbolFacts
  <2> HIDE DEF Slash
  <2>2. QED
    BY <1>6, <2>1
<1>8. /\ y \in Seq(Symbols) /\ Len(y) = Len(c) + Len(sep)
      /\ \A i \in 1 .. Len(c) : y[i] = c[i]
      /\ \A i \in 1 .. Len(sep) : y[Len(c) + i] = sep[i]
  BY ONLY <1>4, <1>6, <1>7, JoinFacts
<1>9. Len(y) = k + 1 /\ \A i \in 1 .. k + 1 : y[i] = d[i]
  <2>1. Len(y) = k + 1 /\ \A i \in 1 .. k : y[i] = d[i]
    BY <1>4, <1>7, <1>8
  <2>2. y[k + 1] = d[k + 1]
    <3>1. y[k + 1] = Slash
      BY <1>4, <1>7, <1>8
    <3>2. n - 1 = k + 1
      BY <1>3
    <3>3. QED
      BY <3>1, <3>2
  <2>3. \A i \in 1 .. k + 1 : i \in 1 .. k \/ i = k + 1
    BY <1>3
  <2>4. QED
    BY <2>1, <2>2, <2>3
<1>10. PICK u : u = y \o str
  OBVIOUS
<1>11. /\ u \in Seq(Symbols) /\ Len(u) = Len(y) + Len(str)
       /\ \A i \in 1 .. Len(y) : u[i] = y[i]
       /\ \A i \in 1 .. Len(str) : u[Len(y) + i] = str[i]
  <2>1. y \in Seq(Symbols) /\ str \in Seq(Symbols) /\ u = y \o str
    BY <1>5, <1>8, <1>10
  <2>2. QED
    BY ONLY <2>1, JoinFacts
<1>12. PICK m, x : m = e - 1 /\ x = SubSeq(d, 1, m)
  OBVIOUS
<1>13. m \in 0 .. Len(d) /\ k + 1 + (e - n) = m /\ k \in Nat /\ m \in Nat
  BY <1>1, <1>3, <1>12
<1>14. x \in Seq(Symbols) /\ Len(x) = m /\ \A i \in 1 .. m : x[i] = d[i]
  BY ONLY <1>12, <1>13, SubSeqFacts
<1>15. Len(u) = m
  BY <1>5, <1>9, <1>11, <1>13
<1>16. ASSUME NEW i \in 1 .. m PROVE u[i] = d[i]
  <2>1. CASE i \in 1 .. k + 1
    BY <1>9, <1>11, <2>1
  <2>2. CASE i \notin 1 .. k + 1
    <3>1. PICK j : j = i - (k + 1)
      OBVIOUS
    <3>2. j \in 1 .. e - n /\ (k + 1) + j = i /\ n + j - 1 = i
      BY <1>1, <1>3, <1>13, <1>16, <2>2, <3>1
    <3>3. u[(k + 1) + j] = str[j] /\ str[j] = d[n + j - 1]
      BY <1>5, <1>9, <1>11, <3>2
    <3>4. QED
      BY <3>2, <3>3
  <2>3. QED
    BY <2>1, <2>2
<1>17. u = x
  <2>1. u \in Seq(Symbols) /\ x \in Seq(Symbols) /\ Len(u) = m /\ Len(x) = m
        /\ \A i \in 1 .. m : u[i] = x[i]
    BY <1>11, <1>14, <1>15, <1>16
  <2>2. QED
    BY ONLY <2>1
<1>18. QED
  BY <1>6, <1>10, <1>12, <1>17

-----------------------------------------------------------------------------
(***************************************************************************)
(* Texts stay tidy, and calls begin at no separator.                       *)
(***************************************************************************)
Cut(old, new) ==
  /\ Len(new) = Len(old)
  /\ \A i \in 1 .. Len(old) : new[i] # old[i] => old[i] \in Delimiters /\ new[i] = NUL

LEMMA PlaceKept ==
  ASSUME NEW s, NEW t, NEW place \in Places, \A v \in Workers : v = place[1] => Cut(s[v], t[v])
  PROVE  (Ready(place, s) => Ready(place, t)) /\ (AtWord(place, s) => AtWord(place, t))
<1>1. SUFFICES ASSUME Alive(place)
               PROVE  (Ready(place, s) => Ready(place, t)) /\ (AtWord(place, s) => AtWord(place, t))
  BY DEF Ready, AtWord
<1>2. PICK v, k : v = place[1] /\ k = place[2]
  OBVIOUS
<1>3. v \in Workers
  BY <1>1, <1>2, PlaceFacts
<1>4. PICK x, y : x = s[v] /\ y = t[v]
  OBVIOUS
<1>5. Cut(x, y)
  BY <1>2, <1>3, <1>4
<1>6. CharAt(y, k) = CharAt(x, k) \/ (CharAt(x, k) \in Delimiters /\ CharAt(y, k) = NUL)
  BY <1>5 DEF Cut, CharAt
<1>7. QED
  BY <1>1, <1>2, <1>4, <1>6, SeparatorFacts DEF Ready, AtWord

LEMMA DeadReady ==
  ASSUME NEW s, NEW place, ~Alive(place)
  PROVE  Ready(place, s) /\ AtWord(place, s)
  BY DEF Ready, AtWord

LEMMA SameCut == ASSUME NEW s PROVE Cut(s, s)
  BY DEF Cut

(***************************************************************************)
(* What a call in a text that is not dead does.                            *)
(***************************************************************************)
Called(owner, a, delim, found) ==
  LET string == text[owner]
  IN /\ owner \in Workers /\ a \in 1 .. Len(string) + 1 /\ delim \in Delimiters
     /\ CharAt(string, a) \notin Delimiters
     /\ found.text \in Seq(Symbols) /\ Cut(string, found.text)
     /\ found.next \in 1 .. Len(string) + 1
     /\ \/ /\ found.token = 0 /\ found.next = a /\ found.text = string
           /\ CharAt(string, a) = NUL
        \/ /\ found.token = a /\ a \in 1 .. Len(string) /\ string[a] \notin Separators
           /\ \E e \in a + 1 .. Len(string) + 1 :
                /\ \A i \in a .. e - 1 : string[i] \notin {delim, NUL}
                /\ \/ /\ CharAt(string, e) = NUL
                      /\ found.next = e /\ found.text = string
                   \/ /\ e \in 1 .. Len(string) /\ string[e] = delim
                      /\ found.next = e + 1 /\ found.text = [string EXCEPT ![e] = NUL]

LEMMA CalledFacts ==
  ASSUME TypeOK, PlaceInv, TidyInv, NEW w \in Workers, Scan(w), Alive(from[w])
  PROVE  \E owner, a, found :
           /\ owner = from[w][1] /\ a = from[w][2]
           /\ Called(owner, a, Delimiter(w), found)
           /\ text' = [text EXCEPT ![owner] = found.text]
           /\ position' = <<owner, found.next>>
           /\ token' = [token EXCEPT ![w] = IF found.token = 0 THEN NoPlace
                                            ELSE <<owner, found.token>>]
           /\ ub' = ub
<1>1. PICK owner, found :
        /\ owner = from[w][1] /\ owner \in Workers
        /\ found = Strtok(text[owner], from[w][2], Delimiter(w))
        /\ found.next \in 1 .. Len(text[owner]) + 1
        /\ found.text \in Seq(Symbols) /\ Len(found.text) = Len(text[owner])
        /\ \A i \in 1 .. Len(text[owner]) :
             found.text[i] # text[owner][i] =>
               text[owner][i] \in Delimiters /\ found.text[i] = NUL
        /\ text' = [text EXCEPT ![owner] = found.text]
        /\ position' = <<owner, found.next>>
        /\ token' = [token EXCEPT ![w] = IF found.token = 0 THEN NoPlace
                                         ELSE <<owner, found.token>>]
        /\ ub' = ub
  BY ScannedFacts
<1>2. PICK a, string, delim : a = from[w][2] /\ string = text[owner] /\ delim = Delimiter(w)
  OBVIOUS
<1>3. string \in Seq(Symbols) /\ delim \in Delimiters
  BY <1>1, <1>2, DelimiterFacts DEF TypeOK
<1>4. a \in 1 .. Len(string) + 1
  BY <1>1, <1>2 DEF PlaceInv, Within
<1>5. CharAt(string, a) \notin Delimiters
  BY <1>1, <1>2, SeparatorFacts DEF TidyInv, Ready
<1>6. found = Strtok(string, a, delim)
  BY <1>1, <1>2
<1>7. \/ /\ found.token = 0 /\ found.next = a /\ found.text = string
         /\ CharAt(string, a) = NUL
      \/ /\ found.token = a /\ a \in 1 .. Len(string) /\ string[a] \notin Separators
         /\ \E e \in a + 1 .. Len(string) + 1 :
              /\ \A i \in a .. e - 1 : string[i] \notin {delim, NUL}
              /\ \/ /\ CharAt(string, e) = NUL
                    /\ found.next = e /\ found.text = string
                 \/ /\ e \in 1 .. Len(string) /\ string[e] = delim
                    /\ found.next = e + 1 /\ found.text = [string EXCEPT ![e] = NUL]
  BY ONLY <1>3, <1>4, <1>5, <1>6, TidyCall
<1>8. Cut(string, found.text)
  BY <1>1, <1>2 DEF Cut
<1>9. Called(owner, a, delim, found)
  <2>1. text[owner] = string
    BY <1>2
  <2>2. found.next \in 1 .. Len(string) + 1 /\ found.text \in Seq(Symbols) /\ owner \in Workers
    BY <1>1, <1>2
  <2>3. QED
    BY <2>1, <2>2, <1>3, <1>4, <1>5, <1>7, <1>8 DEF Called
<1>10. QED
  BY <1>1, <1>2, <1>9

(***************************************************************************)
(* The next call begins at no separator, and the token is at none.         *)
(***************************************************************************)
LEMMA CalledReady ==
  ASSUME TypeOK, NEW owner, NEW a, NEW delim, NEW found, Called(owner, a, delim, found),
         Tidy(text[owner])
  PROVE  /\ CharAt(found.text, found.next) \notin Delimiters
         /\ found.token # 0 => CharAt(found.text, found.token) \notin Separators
         /\ Tidy(found.text)
<1>1. PICK string : string = text[owner]
  OBVIOUS
<1>2. string \in Seq(Symbols)
  BY <1>1 DEF Called, TypeOK
<1>3. PICK n \in Nat : n = Len(string)
  BY <1>2
<1>4. /\ a \in 1 .. n + 1 /\ delim \in Delimiters /\ CharAt(string, a) \notin Delimiters
      /\ Cut(string, found.text) /\ found.next \in 1 .. n + 1
      /\ \/ /\ found.token = 0 /\ found.next = a /\ found.text = string
            /\ CharAt(string, a) = NUL
         \/ /\ found.token = a /\ a \in 1 .. n /\ string[a] \notin Separators
            /\ \E e \in a + 1 .. n + 1 :
                 /\ \A i \in a .. e - 1 : string[i] \notin {delim, NUL}
                 /\ \/ /\ CharAt(string, e) = NUL
                       /\ found.next = e /\ found.text = string
                    \/ /\ e \in 1 .. n /\ string[e] = delim
                       /\ found.next = e + 1 /\ found.text = [string EXCEPT ![e] = NUL]
  BY <1>1, <1>3 DEF Called
<1>5. Tidy(found.text)
  <2>1. PICK t : t = found.text
    OBVIOUS
  <2>2. /\ Len(t) = Len(string) /\ Tidy(string) /\ Len(string) \in Nat
        /\ \A i \in 1 .. Len(string) : t[i] # string[i] => string[i] \in Delimiters /\ t[i] = NUL
    BY <1>1, <1>3, <1>4, <2>1 DEF Cut
  <2>3. Tidy(t)
    BY ONLY <2>2, CutTidy
  <2>4. QED
    BY <2>1, <2>3
<1>6. CASE found.token = 0 /\ found.next = a /\ found.text = string /\ CharAt(string, a) = NUL
  BY <1>4, <1>5, <1>6
<1>7. CASE found.token = a /\ a \in 1 .. n /\ string[a] \notin Separators /\ found.text = string
           /\ \E e : CharAt(string, e) = NUL /\ found.next = e
  BY <1>3, <1>5, <1>7, SeparatorFacts DEF CharAt
<1>8. ASSUME NEW e \in a + 1 .. n + 1, found.token = a, a \in 1 .. n, string[a] \notin Separators,
             e \in 1 .. n, string[e] = delim,
             found.next = e + 1, found.text = [string EXCEPT ![e] = NUL]
      PROVE  /\ CharAt(found.text, found.next) \notin Delimiters
             /\ found.token # 0 => CharAt(found.text, found.token) \notin Separators
  <2>1. PICK t : t = found.text
    OBVIOUS
  <2>2. Len(t) = n /\ a # e /\ e + 1 # e /\ (e + 1 \in 1 .. n \/ e + 1 = n + 1)
    BY <1>3, <1>4, <1>8, <2>1 DEF Cut
  <2>3. t[a] = string[a] /\ (e + 1 \in 1 .. n => t[e + 1] = string[e + 1])
    BY <1>2, <1>3, <1>8, <2>1, <2>2
  <2>4. CharAt(t, a) \notin Separators
    BY <1>8, <2>2, <2>3 DEF CharAt
  <2>5. e + 1 \in 1 .. n => string[e + 1] \notin Separators
    <3>1. SUFFICES ASSUME e + 1 \in 1 .. n, string[e + 1] \in Separators PROVE FALSE
      OBVIOUS
    <3>2. string[(e + 1) - 1] \notin Separators
      BY <1>1, <1>3, <3>1 DEF Tidy
    <3>3. (e + 1) - 1 = e
      BY <1>8
    <3>4. QED
      BY <1>4, <1>8, <3>2, <3>3, SeparatorFacts
  <2>6. CharAt(t, e + 1) \notin Delimiters
    BY <2>2, <2>3, <2>5, SeparatorFacts DEF CharAt
  <2>7. QED
    BY <1>8, <2>1, <2>4, <2>6
<1>9. QED
  BY <1>4, <1>5, <1>6, <1>7, <1>8

(***************************************************************************)
(* A worker without a text owns no place at all.                           *)
(***************************************************************************)
LEMMA NoPlaces ==
  ASSUME TypeOK, PlaceInv, NEW w \in Workers, ~HasText(w)
  PROVE  position[1] # w /\ \A v \in Workers : from[v][1] # w /\ token[v][1] # w
<1>1. w # Nobody
  BY PlaceFacts
<1>2. QED
  BY <1>1 DEF PlaceInv, Outside, Alive

LEMMA DirectoryTidy ==
  ASSUME TypeOK, TidyInv, TreeInv, NEW w \in Workers, job[w] # 1
  PROVE  /\ Directory(w) \in Seq(Symbols)
         /\ Directory(w) = <<>> \/ Clean(Directory(w))
<1>1. PICK q : q = path[w]
  OBVIOUS
<1>2. q \in Seq(Symbols) /\ q # <<>>
  BY <1>1 DEF TypeOK
<1>3. Clean(q)
  BY <1>1, <1>2 DEF TidyInv
<1>4. ExtractDirectory(q) \in Seq(Symbols) /\ VersionFolder(q) \in Seq(Symbols)
  BY ONLY <1>2, DirectoryFacts
<1>5. ExtractDirectory(q) = <<>> \/ Clean(ExtractDirectory(q))
  BY <1>2, <1>3, ExtractClean
<1>6. CASE job[w] = 2
  BY <1>1, <1>4, <1>5, <1>6 DEF Directory
<1>7. CASE job[w] # 2
  <2>1. job[w] = 3
    BY <1>7 DEF TypeOK
  <2>2. ExtractDirectory(q) # <<>>
    BY <1>1, <2>1 DEF TreeInv
  <2>3. Clean(VersionFolder(q))
    BY <1>2, <1>3, <2>2, VersionClean
  <2>4. QED
    BY <1>1, <1>4, <1>7, <2>3 DEF Directory
<1>8. QED
  BY <1>6, <1>7

LEMMA OpeningTidy ==
  ASSUME TypeOK, TidyPaths, TidyInv, TreeInv, JobInv, NEW w \in Workers, OpeningStep(w)
  PROVE  \E t : text' = [text EXCEPT ![w] = t] /\ Tidy(t)
<1>1. CASE ReceiveRequest(w)
  <2>1. PICK r \in Requests : text' = [text EXCEPT ![w] = SerializeRequest(r)]
    BY <1>1 DEF ReceiveRequest
  <2>2. Tidy(SerializeRequest(r))
    BY RequestTidy
  <2>3. QED
    BY <2>1, <2>2
<1>2. CASE NotThere(w)
  <2>1. text' = [text EXCEPT ![w] = Directory(w)] /\ job[w] # 1
    BY <1>2 DEF NotThere, JobInv, At
  <2>2. Directory(w) = <<>> \/ Clean(Directory(w))
    BY <2>1, DirectoryTidy
  <2>3. Tidy(<<>>)
    BY DEF Tidy
  <2>4. QED
    BY <2>1, <2>2, <2>3 DEF Clean
<1>3. QED
  BY <1>1, <1>2 DEF OpeningStep

PlacesTidy ==
  /\ Ready(position, text)
  /\ \A v \in Workers : Tidy(text[v]) /\ Ready(from[v], text) /\ AtWord(token[v], text)

LEMMA PlacesTidyStep ==
  ASSUME TypeOK, TypeOK', TidyPaths, PlaceInv, JobInv, TidyInv, TreeInv, NEW w \in Workers,
         \/ OpeningStep(w) \/ CallStep(w) \/ Scan(w) \/ TokenStep(w) \/ DropStep(w)
         \/ SaveStep(w) /\ ~AllDead'
  PROVE  PlacesTidy'
<1>1. /\ position \in Places /\ Ready(position, text)
      /\ \A v \in Workers : /\ from[v] \in Places /\ token[v] \in Places
                            /\ Tidy(text[v]) /\ Ready(from[v], text) /\ AtWord(token[v], text)
  BY DEF TypeOK, TidyInv
<1>2. SUFFICES /\ Ready(position', text')
               /\ \A v \in Workers :
                    Tidy(text'[v]) /\ Ready(from'[v], text') /\ AtWord(token'[v], text')
  BY DEF PlacesTidy
<1>3. CASE OpeningStep(w)
  <2>1. PICK t : text' = [text EXCEPT ![w] = t] /\ Tidy(t)
    BY <1>3, OpeningTidy
  <2>2. UNCHANGED <<position, from, token>> /\ ~HasText(w)
    BY <1>3, OpeningFrame DEF HasText
  <2>3. \A v \in Workers : (v # w => text'[v] = text[v]) /\ (v = w => text'[v] = t)
    BY <2>1 DEF TypeOK
  <2>4. position[1] # w /\ \A v \in Workers : from[v][1] # w /\ token[v][1] # w
    BY <2>2, NoPlaces
  <2>5. \A place \in Places : place[1] # w =>
          /\ Ready(place, text) => Ready(place, text')
          /\ AtWord(place, text) => AtWord(place, text')
    <3>1. SUFFICES ASSUME NEW place \in Places, place[1] # w
                   PROVE  /\ Ready(place, text) => Ready(place, text')
                          /\ AtWord(place, text) => AtWord(place, text')
      OBVIOUS
    <3>2. \A v \in Workers : v = place[1] => Cut(text[v], text'[v])
      BY <2>3, <3>1, SameCut
    <3>3. PICK s, u : s = text /\ u = text'
      OBVIOUS
    <3>4. (Ready(place, s) => Ready(place, u)) /\ (AtWord(place, s) => AtWord(place, u))
      BY <3>2, <3>3, PlaceKept
    <3>5. QED
      BY <3>3, <3>4
  <2>6. QED
    BY <1>1, <2>1, <2>2, <2>3, <2>4, <2>5
<1>4. CASE CallStep(w)
  <2>1. UNCHANGED <<position, text, token>>
    BY <1>4, CallFrame
  <2>2. \/ from' = [from EXCEPT ![w] = <<w, 1>>]
        \/ from' = [from EXCEPT ![w] = position]
    BY <1>4, CallFrame
  <2>3. Ready(<<w, 1>>, text)
    <3>1. PICK t : t = text[w] /\ Len(t) \in Nat
      BY DEF TypeOK
    <3>2. Tidy(t)
      BY <1>1, <3>1
    <3>3. 1 \in 1 .. Len(t) => t[1] \notin Separators
      BY <3>1, <3>2 DEF Tidy
    <3>4. CharAt(t, 1) \notin Delimiters
      BY <3>1, <3>3, SeparatorFacts DEF CharAt
    <3>5. QED
      BY <3>1, <3>4, SeparatorFacts DEF Ready
  <2>4. \A v \in Workers : from'[v] = from[v] \/ from'[v] = <<w, 1>> \/ from'[v] = position
    BY <2>2 DEF TypeOK
  <2>5. QED
    BY <1>1, <2>1, <2>3, <2>4
<1>5. CASE Scan(w)
  <2>1. from' = [from EXCEPT ![w] = NoPlace]
    BY <1>5, ScanFrame
  <2>2. \A v \in Workers : from'[v] = from[v] \/ from'[v] = NoPlace
    BY <2>1 DEF TypeOK
  <2>3. CASE ~Alive(from[w])
    <3>1. /\ text' = text /\ position' = NoPlace
          /\ \E place \in {NoPlace, from[w]} : token' = [token EXCEPT ![w] = place]
      BY <1>5, <2>3, DeadScanFrame
    <3>2. \A v \in Workers : token'[v] = token[v] \/ ~Alive(token'[v])
      BY <2>3, <3>1, PlaceFacts DEF TypeOK
    <3>3. ~Alive(position') /\ \A v \in Workers : from'[v] = from[v] \/ ~Alive(from'[v])
      BY <2>2, <3>1, PlaceFacts
    <3>4. QED
      BY <1>1, <3>1, <3>2, <3>3, DeadReady
  <2>4. CASE Alive(from[w])
    <3>1. PICK owner, a, found :
            /\ owner = from[w][1] /\ a = from[w][2]
            /\ Called(owner, a, Delimiter(w), found)
            /\ text' = [text EXCEPT ![owner] = found.text]
            /\ position' = <<owner, found.next>>
            /\ token' = [token EXCEPT ![w] = IF found.token = 0 THEN NoPlace
                                             ELSE <<owner, found.token>>]
      BY <1>5, <2>4, CalledFacts
    <3>2. owner \in Workers /\ Cut(text[owner], found.text)
      BY <3>1 DEF Called
    <3>3. /\ CharAt(found.text, found.next) \notin Delimiters
          /\ found.token # 0 => CharAt(found.text, found.token) \notin Separators
          /\ Tidy(found.text)
      BY <1>1, <3>1, <3>2, CalledReady
    <3>4. /\ text'[owner] = found.text
          /\ \A v \in Workers : v # owner => text'[v] = text[v]
      BY <3>1, <3>2 DEF TypeOK
    <3>5. Ready(position', text')
      <4>1. position'[1] = owner /\ position'[2] = found.next
        BY <3>1
      <4>2. QED
        BY <3>3, <3>4, <4>1, SeparatorFacts DEF Ready
    <3>6. \A v \in Workers : Tidy(text'[v]) /\ Cut(text[v], text'[v])
      BY <1>1, <3>2, <3>3, <3>4, SameCut
    <3>7. PICK s, u : s = text /\ u = text'
      OBVIOUS
    <3>8. \A place \in Places : /\ Ready(place, s) => Ready(place, u)
                                /\ AtWord(place, s) => AtWord(place, u)
      BY <3>6, <3>7, PlaceKept
    <3>9. \A v \in Workers : Ready(from'[v], text')
      BY <1>1, <2>2, <3>7, <3>8, PlaceFacts, DeadReady
    <3>10. \A v \in Workers : AtWord(token'[v], text')
      <4>1. SUFFICES ASSUME NEW v \in Workers PROVE AtWord(token'[v], text')
        OBVIOUS
      <4>2. \/ token'[v] = token[v] \/ token'[v] = NoPlace
            \/ found.token # 0 /\ token'[v] = <<owner, found.token>>
        BY <3>1 DEF TypeOK
      <4>3. CASE token'[v] = token[v] \/ token'[v] = NoPlace
        BY <1>1, <3>7, <3>8, <4>3, PlaceFacts, DeadReady
      <4>4. CASE found.token # 0 /\ token'[v] = <<owner, found.token>>
        <5>1. token'[v][1] = owner /\ token'[v][2] = found.token
          BY <4>4
        <5>2. QED
          BY <3>3, <3>4, <4>4, <5>1 DEF AtWord
      <4>5. QED
        BY <4>2, <4>3, <4>4
    <3>11. QED
      BY <3>5, <3>6, <3>9, <3>10
  <2>5. QED
    BY <2>3, <2>4
<1>6. CASE TokenStep(w)
  <2>1. UNCHANGED <<position, text, from>> /\ token' = [token EXCEPT ![w] = NoPlace]
    BY <1>6, TokenFrame
  <2>2. \A v \in Workers : token'[v] = token[v] \/ token'[v] = NoPlace
    BY <2>1 DEF TypeOK
  <2>3. QED
    BY <1>1, <2>1, <2>2, PlaceFacts, DeadReady
<1>7. CASE DropStep(w)
  <2>1. Drop(w)
    BY <1>7, DropFrame
  <2>2. /\ text' = [text EXCEPT ![w] = <<>>]
        /\ position' = IF position[1] = w THEN Gone ELSE position
        /\ \A v \in Workers : from'[v] = IF from[v][1] = w THEN Gone ELSE from[v]
        /\ \A v \in Workers : v # w => token'[v] = IF token[v][1] = w THEN Gone ELSE token[v]
        /\ token'[w] = NoPlace
    BY <2>1, DropFacts
  <2>3. \A v \in Workers : (v # w => text'[v] = text[v]) /\ (v = w => text'[v] = <<>>)
    BY <2>2 DEF TypeOK
  <2>4. \A place \in Places : place[1] # w =>
          /\ Ready(place, text) => Ready(place, text')
          /\ AtWord(place, text) => AtWord(place, text')
    <3>1. SUFFICES ASSUME NEW place \in Places, place[1] # w
                   PROVE  /\ Ready(place, text) => Ready(place, text')
                          /\ AtWord(place, text) => AtWord(place, text')
      OBVIOUS
    <3>2. \A v \in Workers : v = place[1] => Cut(text[v], text'[v])
      BY <2>3, <3>1, SameCut
    <3>3. PICK s, u : s = text /\ u = text'
      OBVIOUS
    <3>4. (Ready(place, s) => Ready(place, u)) /\ (AtWord(place, s) => AtWord(place, u))
      BY <3>2, <3>3, PlaceKept
    <3>5. QED
      BY <3>3, <3>4
  <2>5. Tidy(<<>>)
    BY DEF Tidy
  <2>6. Ready(position', text')
    BY <1>1, <2>2, <2>4, PlaceFacts, DeadReady
  <2>7. ASSUME NEW v \in Workers
        PROVE  Tidy(text'[v]) /\ Ready(from'[v], text') /\ AtWord(token'[v], text')
    <3>1. Tidy(text'[v])
      BY <1>1, <2>3, <2>5
    <3>2. Ready(from'[v], text')
      BY <1>1, <2>2, <2>4, PlaceFacts, DeadReady
    <3>3. AtWord(token'[v], text')
      BY <1>1, <2>2, <2>4, PlaceFacts, DeadReady
    <3>4. QED
      BY <3>1, <3>2, <3>3
  <2>8. QED
    BY <2>6, <2>7
<1>8. CASE SaveStep(w) /\ ~AllDead'
  BY <1>1, <1>8, SaveFrame
<1>9. QED
  BY <1>3, <1>4, <1>5, <1>6, <1>7, <1>8

(***************************************************************************)
(* What a token reads is clean, dead or not.                               *)
(***************************************************************************)
LEMMA StringsClean ==
  ASSUME TypeOK, TidyPaths, PlaceInv, TidyInv, NEW w \in Workers, NEW str \in Strings(w)
  PROVE  Clean(str) /\ str \in Seq(Symbols)
<1>1. CASE Alive(token[w])
  <2>1. token[w][1] \in Workers
    BY <1>1, PlaceFacts DEF TypeOK
  <2>2. PICK t, k : t = text[token[w][1]] /\ k = token[w][2]
    OBVIOUS
  <2>3. t \in Seq(Symbols) /\ k \in 1 .. Len(t) + 1 /\ Tidy(t) /\ CharAt(t, k) \notin Separators
    <3>1. t \in Seq(Symbols)
      BY <2>1, <2>2 DEF TypeOK
    <3>2. k \in 1 .. Len(t) + 1
      BY <1>1, <2>2 DEF PlaceInv, Within
    <3>3. Tidy(t) /\ CharAt(t, k) \notin Separators
      BY <1>1, <2>1, <2>2 DEF TidyInv, AtWord
    <3>4. QED
      BY <3>1, <3>2, <3>3
  <2>4. Clean(StringAt(t, k))
    BY ONLY <2>3, StringClean
  <2>5. str = StringAt(t, k)
    BY <1>1, <2>2 DEF Strings
  <2>6. QED
    BY <2>4, <2>5, TokenStrings
<1>2. CASE ~Alive(token[w])
  <2>1. str = <<"junk">> \/ \E r \in Requests : str = r.remote_path
    BY <1>2 DEF Strings, Remains
  <2>2. Clean(<<"junk">>)
    <3>1. PICK j : j = "junk"
      OBVIOUS
    <3>2. j \notin Separators /\ j # NUL
      BY <3>1 DEF Separators, Comma, Slash, NUL
    <3>3. PICK s : s = <<j>>
      OBVIOUS
    <3>4. s # <<>>
      BY <3>3
    <3>5. \A i \in 1 .. Len(s) : s[i] = j
      BY <3>3
    <3>6. QED
      BY <3>1, <3>2, <3>3, <3>4, <3>5 DEF Clean, Tidy
  <2>3. QED
    BY <2>1, <2>2, TokenStrings DEF TidyPaths
<1>3. QED
  BY <1>1, <1>2

FieldsClean ==
  \A v \in Workers :
    /\ \A i \in 1 .. Len(fields[v]) : Clean(fields[v][i])
    /\ path[v] = <<>> \/ Clean(path[v])

LEMMA SavePath ==
  ASSUME NEW w \in Workers, SaveStep(w)
  PROVE  /\ current' = current /\ made' \in {made, [made EXCEPT ![w] = FALSE]}
         /\ path' \in {path, [path EXCEPT ![w] = <<>>]}
<1>1. CASE TakeLock(w) \/ Store(w) \/ RemovePath(w)
  BY <1>1 DEF TakeLock, Store, RemovePath, Leave, results
<1>2. CASE Save(w) \/ SaveAtRoot(w) \/ OpenVersion(w)
  BY <1>2 DEF Save, SaveAtRoot, OpenVersion
<1>3. QED
  BY <1>1, <1>2 DEF SaveStep

(***************************************************************************)
(* What a step leaves to the others, as far as directories go.             *)
(***************************************************************************)
LEMMA PathFrame ==
  ASSUME TypeOK, NEW w \in Workers,
         \/ OpeningStep(w) \/ CallStep(w) \/ Scan(w) \/ TokenStep(w) \/ DropStep(w)
         \/ SaveStep(w) /\ ~AllDead'
  PROVE  /\ \A v \in Workers : v # w =>
              /\ pc'[v] = pc[v] /\ job'[v] = job[v] /\ path'[v] = path[v]
              /\ current'[v] = current[v] /\ made'[v] = made[v]
         /\ disturbed \subseteq disturbed' \cup {w}
<1>1. CASE OpeningStep(w)
  <2>1. /\ UNCHANGED <<job, path, current, made, disturbed>> /\ pc' = [pc EXCEPT ![w] = "begin"]
    BY <1>1 DEF OpeningStep, ReceiveRequest, NotThere, Goto, results, tree
  <2>2. QED
    BY <2>1 DEF TypeOK
<1>2. CASE CallStep(w)
  <2>1. /\ UNCHANGED <<job, path, current, made>> /\ pc' = [pc EXCEPT ![w] = "scan"]
        /\ disturbed' \in {disturbed, disturbed \ {w}}
    BY <1>2 DEF CallStep, Begin, GoOn, Goto, results, tree
  <2>2. QED
    BY <2>1 DEF TypeOK
<1>3. CASE Scan(w)
  <2>1. /\ UNCHANGED <<job, path, current, made>> /\ pc' = [pc EXCEPT ![w] = "use"]
        /\ disturbed \subseteq disturbed'
    BY <1>3 DEF Scan, Goto, results, tree
  <2>2. QED
    BY <2>1 DEF TypeOK
<1>4. CASE TokenStep(w)
  <2>1. /\ UNCHANGED <<job, path, made, disturbed>> /\ pc' = [pc EXCEPT ![w] = "next"]
        /\ current' = current \/ \E c : current' = [current EXCEPT ![w] = c]
    BY <1>4 DEF TokenStep, UseField, MakeDirectory, Goto, results, tree
  <2>2. QED
    BY <2>1 DEF TypeOK
<1>5. CASE DropStep(w)
  <2>1. CASE EndOfFields(w)
    <3>1. /\ UNCHANGED <<current, made>> /\ disturbed' = disturbed \ {w}
          /\ path' = path \/ path' = [path EXCEPT ![w] = Result(w).remote_path]
          /\ job' = [job EXCEPT ![w] = IF Result(w).command = "WRITE" THEN 2 ELSE 1]
          /\ pc' = [pc EXCEPT ![w] = "lock"] \/ pc' = [pc EXCEPT ![w] = "done"]
      BY <2>1 DEF EndOfFields, Goto
    <3>2. QED
      BY <3>1 DEF TypeOK
  <2>2. CASE AlreadyThere(w) \/ MakeDirectoryFails(w) \/ EndOfComponents(w)
    <3>1. /\ UNCHANGED <<job, path, disturbed>> /\ current' = [current EXCEPT ![w] = <<>>]
          /\ \E b : made' = [made EXCEPT ![w] = b]
          /\ \E l : pc' = [pc EXCEPT ![w] = l]
      BY <2>2 DEF AlreadyThere, MakeDirectoryFails, EndOfComponents, Return, Goto
    <3>2. QED
      BY <3>1 DEF TypeOK
  <2>3. QED
    BY <1>5, <2>1, <2>2 DEF DropStep
<1>6. CASE SaveStep(w) /\ ~AllDead'
  <2>1. /\ current' = current /\ made' \in {made, [made EXCEPT ![w] = FALSE]}
        /\ path' \in {path, [path EXCEPT ![w] = <<>>]}
    BY <1>6, SavePath
  <2>2. /\ \A v \in Workers : v # w => pc'[v] = pc[v] /\ job'[v] = job[v]
        /\ disturbed' \in {disturbed, disturbed \ {w}}
    BY <1>6, SaveFrame DEF AllDead, At
  <2>3. QED
    BY <2>1, <2>2 DEF TypeOK
<1>7. QED
  BY <1>1, <1>2, <1>3, <1>4, <1>5, <1>6

LEMMA FieldsStep ==
  ASSUME TypeOK, TypeOK', TidyPaths, PlaceInv, JobInv, TidyInv, NEW w \in Workers,
         \/ OpeningStep(w) \/ CallStep(w) \/ Scan(w) \/ TokenStep(w) \/ DropStep(w)
         \/ SaveStep(w) /\ ~AllDead'
  PROVE  FieldsClean'
<1>1. \A v \in Workers :
        /\ \A i \in 1 .. Len(fields[v]) : Clean(fields[v][i])
        /\ path[v] = <<>> \/ Clean(path[v])
  BY DEF TidyInv
<1>2. CASE OpeningStep(w) \/ CallStep(w) \/ Scan(w)
  <2>1. UNCHANGED <<fields, path>>
    BY <1>2 DEF OpeningStep, ReceiveRequest, NotThere, CallStep, Begin, GoOn, Scan, results, tree
  <2>2. QED
    BY <1>1, <2>1 DEF FieldsClean
<1>3. CASE TokenStep(w)
  <2>1. path' = path
    BY <1>3 DEF TokenStep, UseField, MakeDirectory, results, tree
  <2>2. CASE fields' = fields
    BY <1>1, <2>1, <2>2 DEF FieldsClean
  <2>3. CASE \E str \in Strings(w) : fields' = [fields EXCEPT ![w] = Append(@, str)]
    <3>1. PICK str \in Strings(w) : fields' = [fields EXCEPT ![w] = Append(@, str)]
      BY <2>3
    <3>2. Clean(str) /\ str \in Seq(Symbols)
      BY StringsClean
    <3>3. PICK f, g : f = fields[w] /\ g = fields'[w]
      OBVIOUS
    <3>4. f \in Seq(Seq(Symbols)) /\ g = Append(f, str)
      BY <3>1, <3>3 DEF TypeOK
    <3>5. \A i \in 1 .. Len(f) : Clean(f[i])
      BY <1>1, <3>3
    <3>6. \A i \in 1 .. Len(g) : (i \in 1 .. Len(f) /\ g[i] = f[i]) \/ g[i] = str
      BY <3>2, <3>4
    <3>7. \A i \in 1 .. Len(g) : Clean(g[i])
      BY <3>2, <3>5, <3>6
    <3>8. \A v \in Workers : v # w => fields'[v] = fields[v]
      BY <3>1 DEF TypeOK
    <3>9. QED
      BY <1>1, <2>1, <3>3, <3>7, <3>8 DEF FieldsClean
  <2>4. QED
    BY <1>3, <2>2, <2>3, TokenFrame
<1>4. CASE DropStep(w)
  <2>1. CASE EndOfFields(w)
    <3>1. fields' = [fields EXCEPT ![w] = <<>>]
      BY <2>1 DEF EndOfFields
    <3>2. \A v \in Workers : fields'[v] = fields[v] \/ fields'[v] = <<>>
      BY <3>1 DEF TypeOK
    <3>3. CASE Result(w).command \in {"WRITE", "RM"}
      <4>1. path' = [path EXCEPT ![w] = Result(w).remote_path]
        BY <2>1, <3>3 DEF EndOfFields
      <4>2. PICK f : f = fields[w]
        OBVIOUS
      <4>3. /\ ~(Len(f) < 3)
            /\ Result(w) = CreateRequestFromParts(StrToCommandType(f[1]), f[3], StrToL(f[2]))
        BY <3>3, <4>2 DEF Result, RequestOf, NoRequest, UNKNOWN
      <4>4. Result(w).remote_path = f[3]
        BY <3>3, <4>3 DEF CreateRequestFromParts, NoRequest, UNKNOWN
      <4>5. Clean(f[3])
        <5>1. f \in Seq(Seq(Symbols))
          BY <4>2 DEF TypeOK
        <5>2. 3 \in 1 .. Len(f)
          BY <4>3, <5>1
        <5>3. QED
          BY <1>1, <4>2, <5>2
      <4>6. \A v \in Workers : path'[v] = path[v] \/ path'[v] = f[3]
        BY <4>1, <4>4 DEF TypeOK
      <4>7. QED
        BY <1>1, <3>2, <4>5, <4>6 DEF FieldsClean
    <3>4. CASE Result(w).command \notin {"WRITE", "RM"}
      <4>1. path' = path
        BY <2>1, <3>4 DEF EndOfFields
      <4>2. QED
        BY <1>1, <3>2, <4>1 DEF FieldsClean
    <3>5. QED
      BY <3>3, <3>4
  <2>2. CASE AlreadyThere(w) \/ MakeDirectoryFails(w) \/ EndOfComponents(w)
    <3>1. UNCHANGED <<fields, path>>
      BY <2>2 DEF AlreadyThere, MakeDirectoryFails, EndOfComponents, Return
    <3>2. QED
      BY <1>1, <3>1 DEF FieldsClean
  <2>3. QED
    BY <1>4, <2>1, <2>2 DEF DropStep
<1>5. CASE SaveStep(w) /\ ~AllDead'
  <2>1. fields' = fields
    BY <1>5, SaveFrame
  <2>2. path' = path \/ path' = [path EXCEPT ![w] = <<>>]
    BY <1>5, SavePath
  <2>3. \A v \in Workers : path'[v] = path[v] \/ path'[v] = <<>>
    BY <2>2 DEF TypeOK
  <2>4. QED
    BY <1>1, <2>1, <2>3 DEF FieldsClean
<1>6. QED
  BY <1>2, <1>3, <1>4, <1>5

-----------------------------------------------------------------------------
(***************************************************************************)
(* Directories are made in directories that exist.                         *)
(***************************************************************************)
LEMMA LongerIsSome ==
  ASSUME TypeOK, NEW w \in Workers, NEW str \in Seq(Symbols), str # <<>>
  PROVE  Longer(w, str) # <<>>
<1>1. CASE current[w] = <<>>
  BY <1>1 DEF Longer
<1>2. CASE current[w] # <<>>
  <2>1. PICK c, sep : c = current[w] /\ sep = <<Slash>>
    OBVIOUS
  <2>2. c \in Seq(Symbols) /\ sep \in Seq(Symbols)
    <3>1. Slash \in Symbols
      BY SymbolFacts
    <3> HIDE DEF Slash
    <3>2. QED
      BY <2>1, <3>1 DEF TypeOK
  <2>3. PICK y, t : y = c \o sep /\ t = y \o str
    OBVIOUS
  <2>4. /\ y \in Seq(Symbols) /\ Len(y) = Len(c) + Len(sep)
        /\ \A i \in 1 .. Len(c) : y[i] = c[i]
        /\ \A i \in 1 .. Len(sep) : y[Len(c) + i] = sep[i]
    BY ONLY <2>2, <2>3, JoinFacts
  <2>5. y \in Seq(Symbols) /\ str \in Seq(Symbols) /\ t = y \o str
    BY <2>3, <2>4
  <2>6. /\ t \in Seq(Symbols) /\ Len(t) = Len(y) + Len(str)
        /\ \A i \in 1 .. Len(y) : t[i] = y[i]
        /\ \A i \in 1 .. Len(str) : t[Len(y) + i] = str[i]
    BY ONLY <2>5, JoinFacts
  <2>7. Len(y) \in Nat /\ Len(str) \in Nat /\ Len(str) # 0
    BY <2>5, EmptySeq
  <2>8. Len(t) # 0
    BY <2>6, <2>7
  <2>9. t # <<>>
    BY <2>8
  <2>10. QED
    BY <1>2, <2>1, <2>3, <2>9 DEF Longer
<1>3. QED
  BY <1>1, <1>2

LEMMA NoAncestors == Ancestors(<<>>) = {}
<1>1. Len(<<>>) + 1 = 1
  BY EmptySeq
<1>2. 2 .. 1 = {}
  OBVIOUS
<1>3. QED
  BY <1>1, <1>2 DEF Ancestors

(***************************************************************************)
(* What is known stays known, and so do the obstacles.                     *)
(***************************************************************************)
LEMMA TreeSame ==
  ASSUME NEW w \in Workers, ~MakeDirectory(w), ~Store(w), ~RemovePath(w),
         \/ OpeningStep(w) \/ CallStep(w) \/ Scan(w) \/ TokenStep(w) \/ DropStep(w)
         \/ SaveStep(w)
  PROVE  UNCHANGED tree
<1>1. CASE OpeningStep(w) \/ CallStep(w) \/ Scan(w)
  BY <1>1 DEF OpeningStep, ReceiveRequest, NotThere, CallStep, Begin, GoOn, Scan
<1>2. CASE TokenStep(w)
  BY <1>2 DEF TokenStep, UseField
<1>3. CASE SaveStep(w)
  BY <1>3 DEF SaveStep, TakeLock, Save, SaveAtRoot, OpenVersion
<1>4. CASE DropStep(w)
  BY <1>4 DEF DropStep, EndOfFields, AlreadyThere, MakeDirectoryFails, EndOfComponents
<1>5. QED
  BY <1>1, <1>2, <1>3, <1>4

KnownGrows ==
  /\ Obstacles \subseteq Obstacles' /\ Known \subseteq Known' /\ <<>> \notin Known'
  /\ \A d \in Known' : Ancestors(d) \subseteq Known'

LEMMA KnownWith ==
  ASSUME TreeInv, NEW d \in Seq(Symbols), d # <<>>, Obstacles \subseteq Obstacles',
         d \in Known \/ ExtractDirectory(d) \in Known \cup {<<>>},
         Known' = Known \cup {d}
  PROVE  KnownGrows
<1>1. <<>> \notin Known /\ \A e \in Known : Ancestors(e) \subseteq Known
  BY DEF TreeInv
<1>2. Ancestors(d) \subseteq Known \cup {d}
  <2>1. CASE d \in Known
    BY <1>1, <2>1
  <2>2. CASE ExtractDirectory(d) \in Known \cup {<<>>}
    <3>1. Ancestors(d) \subseteq {d} \cup Ancestors(ExtractDirectory(d))
      BY AncestorsBelow
    <3>2. Ancestors(ExtractDirectory(d)) \subseteq Known
      BY <1>1, <2>2, NoAncestors
    <3>3. QED
      BY <3>1, <3>2
  <2>3. QED
    BY <2>1, <2>2
<1>3. QED
  BY <1>1, <1>2 DEF KnownGrows

LEMMA DirsStep ==
  ASSUME TypeOK, TidyPaths, PlaceInv, JobInv, TidyInv, TreeInv, NEW w \in Workers,
         \/ OpeningStep(w) \/ CallStep(w) \/ Scan(w) \/ TokenStep(w) \/ DropStep(w)
         \/ SaveStep(w)
  PROVE  KnownGrows /\ (MakeDirectory(w) => current'[w] \in Known')
<1>1. CASE MakeDirectory(w)
  <2>1. PICK str \in Strings(w) :
          /\ Exists(Longer(w, str)) \/ InDirectory(Longer(w, str))
          /\ dirs' = dirs \cup ({Longer(w, str)} \ regular)
          /\ current' = [current EXCEPT ![w] = Longer(w, str)]
    BY <1>1 DEF MakeDirectory
  <2>2. Clean(str) /\ str \in Seq(Symbols)
    BY StringsClean
  <2>3. PICK d : d = Longer(w, str)
    OBVIOUS
  <2>4. d \in Seq(Symbols)
    BY <2>2, <2>3, LongerFacts
  <2>5. d # <<>>
    BY <2>2, <2>3, LongerIsSome DEF Clean
  <2>6. current'[w] = d /\ dirs' = dirs \cup ({d} \ regular)
    BY <2>1, <2>3 DEF TypeOK
  <2>7. Exists(d) \/ InDirectory(d)
    BY <2>1, <2>3
  <2>8. UNCHANGED <<regular, removed>>
    BY <1>1 DEF MakeDirectory
  <2>9. Obstacles' = Obstacles /\ Known' = Known \cup {d}
    BY <2>6, <2>8 DEF Known, Obstacles
  <2>10. d \in Known \/ ExtractDirectory(d) \in Known \cup {<<>>}
    BY <2>7 DEF Exists, InDirectory, Known, Obstacles
  <2>11. KnownGrows
    BY <2>4, <2>5, <2>9, <2>10, KnownWith
  <2>12. QED
    BY <2>6, <2>9, <2>11
<1>2. CASE Store(w) /\ ~MakeDirectory(w)
  <2>1. job[w] # 1 /\ UNCHANGED <<dirs, removed>>
    BY <1>2 DEF Store, JobInv, At
  <2>2. path[w] \in Seq(Symbols) /\ path[w] # <<>>
    BY <2>1 DEF TypeOK
  <2>3. CASE InDirectory(path[w]) /\ regular' = regular \cup {path[w]}
    <3>1. Obstacles \subseteq Obstacles' /\ Known' = Known \cup {path[w]}
      BY <2>1, <2>3 DEF Known, Obstacles
    <3>2. ExtractDirectory(path[w]) \in Known \cup {<<>>}
      BY <2>3 DEF InDirectory, Known
    <3>3. KnownGrows
      BY <2>2, <3>1, <3>2, KnownWith
    <3>4. QED
      BY <1>2, <3>3
  <2>4. CASE regular' = regular
    <3>1. Obstacles' = Obstacles /\ Known' = Known
      BY <2>1, <2>4 DEF Known, Obstacles
    <3>2. QED
      BY <1>2, <3>1 DEF KnownGrows, TreeInv
  <2>5. QED
    BY <1>2, <2>3, <2>4 DEF Store
<1>3. CASE RemovePath(w) /\ ~MakeDirectory(w)
  <2>1. \/ UNCHANGED tree
        \/ /\ path[w] \in dirs \cup regular
           /\ dirs' = dirs \ {path[w]}
           /\ regular' = regular \ {path[w]}
           /\ removed' = removed \cup {path[w]}
    BY <1>3 DEF RemovePath, Removable, Exists
  <2>2. Obstacles \subseteq Obstacles' /\ Known' = Known
    BY <2>1 DEF tree, Known, Obstacles
  <2>3. QED
    BY <1>3, <2>2 DEF KnownGrows, TreeInv
<1>4. CASE ~MakeDirectory(w) /\ ~Store(w) /\ ~RemovePath(w)
  <2>1. UNCHANGED tree
    BY <1>4, TreeSame
  <2>2. Obstacles' = Obstacles /\ Known' = Known
    BY <2>1 DEF tree, Known, Obstacles
  <2>3. QED
    BY <1>4, <2>2 DEF KnownGrows, TreeInv
<1>5. QED
  BY <1>1, <1>2, <1>3, <1>4

InTree(w) ==
  /\ current[w] \in Known \cup {<<>>}
  /\ job[w] = 1 \/ ~HasText(w) \/ At(w, "begin") => current[w] = <<>>
  /\ job[w] = 3 => ExtractDirectory(path[w]) # <<>>

LEMMA OwnTree ==
  ASSUME TypeOK, TypeOK', TidyPaths, PlaceInv, JobInv, TidyInv, TreeInv, NEW w \in Workers,
         \/ OpeningStep(w) \/ CallStep(w) \/ Scan(w) \/ TokenStep(w) \/ DropStep(w)
         \/ SaveStep(w) /\ ~AllDead'
  PROVE  InTree(w)'
<1>1. InTree(w) /\ <<>> \notin Known
  BY DEF TreeInv, InTree
<1>2. Known \subseteq Known' /\ (MakeDirectory(w) => current'[w] \in Known')
  BY DirsStep DEF KnownGrows
<1>3. CASE OpeningStep(w)
  <2>1. UNCHANGED <<job, path, current>> /\ ~HasText(w)
    BY <1>3 DEF OpeningStep, ReceiveRequest, NotThere, results, tree, HasText, At
  <2>2. QED
    BY <1>1, <1>2, <2>1 DEF InTree
<1>4. CASE CallStep(w) \/ Scan(w)
  <2>1. UNCHANGED <<job, path, current>> /\ pc'[w] \in {"scan", "use"}
    BY <1>4 DEF CallStep, Begin, GoOn, Scan, results, tree, Goto, TypeOK
  <2>2. QED
    BY <1>1, <1>2, <2>1 DEF InTree, HasText, At
<1>5. CASE TokenStep(w)
  <2>1. UNCHANGED <<job, path>> /\ pc'[w] = "next"
    BY <1>5 DEF TokenStep, UseField, MakeDirectory, results, tree, Goto, TypeOK
  <2>2. \/ job[w] = 1 /\ current' = current
        \/ job[w] # 1 /\ MakeDirectory(w)
    BY <1>5 DEF TokenStep, UseField, MakeDirectory
  <2>3. QED
    BY <1>1, <1>2, <2>1, <2>2 DEF InTree, HasText, At
<1>6. CASE DropStep(w)
  <2>1. CASE EndOfFields(w)
    <3>1. job[w] = 1 /\ current' = current
      BY <2>1 DEF EndOfFields, FieldsRead
    <3>2. job'[w] # 3
      BY <2>1, <3>1 DEF EndOfFields, TypeOK
    <3>3. QED
      BY <1>1, <1>2, <3>1, <3>2 DEF InTree
  <2>2. CASE AlreadyThere(w) \/ MakeDirectoryFails(w) \/ EndOfComponents(w)
    <3>1. UNCHANGED <<job, path>> /\ current'[w] = <<>>
      BY <2>2 DEF AlreadyThere, MakeDirectoryFails, EndOfComponents, Return, TypeOK
    <3>2. QED
      BY <1>1, <3>1 DEF InTree
  <2>3. QED
    BY <1>6, <2>1, <2>2 DEF DropStep
<1>7. CASE SaveStep(w) /\ ~AllDead'
  <2>1. current' = current /\ ~HasText(w)
    <3>1. ~HasText(w)
      BY <1>7 DEF SaveStep, TakeLock, Save, SaveAtRoot, OpenVersion, Store, RemovePath, At,
                  HasText
    <3>2. QED
      BY <1>7, <3>1, SavePath
  <2>2. \/ job'[w] = 1
        \/ path' = path /\ job' = job
        \/ path' = path /\ ExtractDirectory(path[w]) # <<>>
    <3>1. CASE TakeLock(w) \/ SaveAtRoot(w) \/ OpenVersion(w)
      BY <3>1 DEF TakeLock, SaveAtRoot, OpenVersion, results
    <3>2. CASE Store(w) \/ RemovePath(w)
      BY <3>2 DEF Store, RemovePath, Leave, TypeOK
    <3>3. CASE Save(w)
      BY <3>3 DEF Save
    <3>4. QED
      BY <1>7, <3>1, <3>2, <3>3 DEF SaveStep
  <2>3. QED
    BY <1>1, <1>2, <2>1, <2>2 DEF InTree
<1>8. QED
  BY <1>3, <1>4, <1>5, <1>6, <1>7

LEMMA TreeStep ==
  ASSUME TypeOK, TypeOK', TidyPaths, PlaceInv, JobInv, TidyInv, TreeInv, NEW w \in Workers,
         \/ OpeningStep(w) \/ CallStep(w) \/ Scan(w) \/ TokenStep(w) \/ DropStep(w)
         \/ SaveStep(w) /\ ~AllDead'
  PROVE  TreeInv'
<1>1. KnownGrows
  BY DirsStep
<1>2. ASSUME NEW v \in Workers PROVE InTree(v)'
  <2>1. CASE v = w
    BY <2>1, OwnTree
  <2>2. CASE v # w
    <3>1. /\ pc'[v] = pc[v] /\ job'[v] = job[v] /\ path'[v] = path[v]
          /\ current'[v] = current[v]
      BY <2>2, PathFrame
    <3>2. QED
      BY <1>1, <3>1 DEF TreeInv, InTree, HasText, At, KnownGrows
  <2>3. QED
    BY <2>1, <2>2
<1>3. QED
  BY <1>1, <1>2 DEF TreeInv, InTree, KnownGrows

-----------------------------------------------------------------------------
(***************************************************************************)
(* A loop that no other thread's call came into goes through its own       *)
(* directory.                                                              *)
(***************************************************************************)
LEMMA SameSub ==
  ASSUME NEW s \in Seq(Symbols), NEW t \in Seq(Symbols), NEW a \in 1 .. Len(s), NEW b \in Int,
         a <= b + 1, b <= Len(s), b <= Len(t), \A i \in a .. b : s[i] = t[i]
  PROVE  SubSeq(s, a, b) = SubSeq(t, a, b)
<1>1. PICK n \in Nat, m \in Nat : n = Len(s) /\ m = Len(t)
  OBVIOUS
<1>2. a \in Int /\ b \in Int /\ \A i \in a .. b : i \in 1 .. n /\ i \in 1 .. m
  BY <1>1
<1>3. (\A i \in a .. b : s[i] \in Symbols) /\ (\A i \in a .. b : t[i] \in Symbols)
  BY <1>1, <1>2
<1>4. PICK x, y : x = SubSeq(s, a, b) /\ y = SubSeq(t, a, b)
  OBVIOUS
<1>5. /\ SubSeq(s, a, b) \in Seq(Symbols)
      /\ Len(SubSeq(s, a, b)) = IF a <= b THEN b - a + 1 ELSE 0
      /\ \A i \in 1 .. b - a + 1 : SubSeq(s, a, b)[i] = s[a + i - 1]
  BY ONLY <1>2, <1>3, SubSeqProperties
<1>6. /\ SubSeq(t, a, b) \in Seq(Symbols)
      /\ Len(SubSeq(t, a, b)) = IF a <= b THEN b - a + 1 ELSE 0
      /\ \A i \in 1 .. b - a + 1 : SubSeq(t, a, b)[i] = t[a + i - 1]
  BY ONLY <1>2, <1>3, SubSeqProperties
<1>7. \A i \in 1 .. b - a + 1 : a + i - 1 \in a .. b
  BY <1>1
<1>8. \A i \in 1 .. b - a + 1 : x[i] = y[i]
  BY <1>4, <1>5, <1>6, <1>7
<1>9. x \in Seq(Symbols) /\ y \in Seq(Symbols) /\ Len(x) = Len(y) /\ Len(x) \in {0, b - a + 1}
  BY <1>4, <1>5, <1>6
<1>10. \A i \in 1 .. Len(x) : x[i] = y[i]
  BY <1>8, <1>9
<1>11. x = y
  BY ONLY <1>9, <1>10
<1>12. QED
  BY <1>4, <1>11

(***************************************************************************)
(* A call of the loop, from one stop to the next.                          *)
(***************************************************************************)
FromStop(d, string, n, e, next, t) ==
  /\ d \in Seq(Symbols) /\ string \in Seq(Symbols) /\ t \in Seq(Symbols)
  /\ Clean(d) /\ Stop(d, n) /\ CutAt(string, d, n)
  /\ n \in 1 .. Len(d) /\ e \in n + 1 .. Len(d) + 1
  /\ \A i \in n .. e - 1 : string[i] \notin {Slash, NUL}
  /\ \/ /\ CharAt(string, e) = NUL
        /\ next = e /\ t = string
     \/ /\ e \in 1 .. Len(d) /\ string[e] = Slash
        /\ next = e + 1 /\ t = [string EXCEPT ![e] = NUL]

Extended(directory, str) == IF directory = <<>> THEN str ELSE directory \o <<Slash>> \o str

LEMMA NextStop ==
  ASSUME NEW d, NEW string, NEW n, NEW e, NEW next, NEW t, FromStop(d, string, n, e, next, t)
  PROVE  /\ Stop(d, next) /\ CutAt(t, d, next)
         /\ Extended(Before(d, n), StringAt(t, n)) = Before(d, next)
<1>1. PICK c, str : c = Before(d, n) /\ str = StringAt(t, n)
  OBVIOUS
<1> SUFFICES /\ Stop(d, next) /\ CutAt(t, d, next)
             /\ (IF c = <<>> THEN str ELSE c \o <<Slash>> \o str) = Before(d, next)
  BY <1>1 DEF Extended
<1> USE <1>1 DEF FromStop
<1>2. PICK l \in Nat : l = Len(d)
  OBVIOUS
<1>3. /\ Tidy(d) /\ \A i \in 1 .. l : d[i] # NUL
  BY <1>2 DEF Clean
<1>4. Len(string) = l
  BY <1>2 DEF CutAt
<1>5. \A i \in 1 .. l : string[i] = IF d[i] = Slash /\ i < n THEN NUL ELSE d[i]
  BY <1>2 DEF CutAt
<1>6. \A i \in n .. l : i \in 1 .. l /\ ~(i < n)
  BY <1>2
<1>7. \A i \in n .. l : string[i] = d[i] /\ string[i] # NUL
  BY <1>3, <1>5, <1>6
<1>8. n = 1 \/ (n >= 3 /\ d[n - 1] = Slash)
  <2>1. n = 1 \/ d[n - 1] = Slash
    BY <1>2 DEF Stop
  <2>2. ASSUME n # 1 PROVE n >= 3
    <3>1. n - 1 \in 1 .. l /\ d[n - 1] \in Separators
      BY <1>2, <2>1, <2>2, SeparatorFacts
    <3>2. n - 1 > 1
      BY <1>2, <1>3, <3>1 DEF Tidy
    <3>3. QED
      BY <1>2, <3>2
  <2>3. QED
    BY <2>1, <2>2
<1>9. c = SubSeq(d, 1, n - 2)
  BY <1>2 DEF Before
<1>10. PICK part : part = SubSeq(d, n, e - 1)
  OBVIOUS
<1>11. (IF c = <<>> THEN part ELSE c \o <<Slash>> \o part) = SubSeq(d, 1, e - 1)
  <2> HIDE DEF Slash
  <2>1. CASE n = 1
    <3>1. n - 2 < 1 /\ 1 \in Int /\ n - 2 \in Int
      BY <2>1
    <3>2. SubSeq(d, 1, n - 2) = <<>>
      BY <3>1, SubSeqEmpty
    <3>3. QED
      BY <1>9, <1>10, <2>1, <3>2
  <2>2. CASE n >= 3 /\ d[n - 1] = Slash
    <3>1. n \in 3 .. Len(d) /\ n \in 1 .. Len(d) /\ e \in n + 1 .. Len(d) + 1
      BY <1>2, <2>2
    <3>2. d \in Seq(Symbols) /\ d[n - 1] = Slash /\ c = SubSeq(d, 1, n - 2)
          /\ part = SubSeq(d, n, e - 1)
      BY <1>9, <1>10, <2>2
    <3>3. c \o <<Slash>> \o part = SubSeq(d, 1, e - 1)
      BY ONLY <3>1, <3>2, LongerPrefix
    <3>4. Len(c) = n - 2
      <4>1. PICK k : k = n - 2
        OBVIOUS
      <4>2. k \in 0 .. Len(d) /\ c = SubSeq(d, 1, k)
        BY <1>2, <3>1, <3>2, <4>1
      <4>3. Len(c) = k
        BY ONLY <3>2, <4>2, SubSeqFacts
      <4>4. QED
        BY <4>1, <4>3
    <3>5. c # <<>>
      BY <3>1, <3>4, EmptySeq
    <3>6. QED
      BY <3>3, <3>5
  <2>3. QED
    BY <1>8, <2>1, <2>2
<1>12. \A i \in n .. e - 1 : i \in n .. l /\ d[i] \notin {Slash, NUL}
  BY <1>2, <1>7
<1>13. ASSUME CharAt(t, e) = NUL, \A i \in n .. e - 1 : t[i] = string[i], Len(t) = l
       PROVE  str = part
  <2>1. \A i \in n .. e - 1 : t[i] = d[i] /\ t[i] # NUL
    BY <1>7, <1>12, <1>13
  <2>2. n \in 1 .. Len(t) /\ e \in n .. Len(t) + 1
    BY <1>2, <1>13
  <2>3. \A i \in n .. e - 1 : t[i] # NUL
    BY <2>1
  <2>4. str = SubSeq(t, n, e - 1)
    BY <1>13, <2>2, <2>3, StringIs
  <2>5. /\ e - 1 \in Int /\ n <= e - 1 + 1 /\ e - 1 <= Len(d) /\ e - 1 <= Len(t)
        /\ n \in 1 .. Len(t) /\ \A i \in n .. e - 1 : t[i] = d[i]
        /\ t \in Seq(Symbols) /\ d \in Seq(Symbols)
    BY <1>2, <1>13, <2>1, <2>2
  <2>6. SubSeq(t, n, e - 1) = SubSeq(d, n, e - 1)
    BY ONLY <2>5, SameSub
  <2>7. QED
    BY <1>10, <2>4, <2>6
<1>14. CASE CharAt(string, e) = NUL /\ next = e /\ t = string
  <2>1. e = l + 1
    <3>1. e \notin n .. l
      BY <1>2, <1>4, <1>6, <1>7, <1>14 DEF CharAt
    <3>2. QED
      BY <1>2, <3>1
  <2>2. Stop(d, next)
    BY <1>2, <1>14, <2>1 DEF Stop
  <2>3. CutAt(t, d, next)
    <3>1. ASSUME NEW i \in 1 .. l
          PROVE  string[i] = IF d[i] = Slash /\ i < e THEN NUL ELSE d[i]
      <4>1. CASE i < n
        BY <1>2, <1>5, <2>1, <4>1
      <4>2. CASE ~(i < n)
        <5>1. i \in n .. e - 1
          BY <1>2, <2>1, <4>2
        <5>2. QED
          BY <1>5, <1>12, <4>2, <5>1
      <4>3. QED
        BY <4>1, <4>2
    <3>2. QED
      BY <1>2, <1>4, <1>14, <3>1 DEF CutAt
  <2>4. str = part
    BY <1>4, <1>13, <1>14
  <2>5. SubSeq(d, 1, e - 1) = d
    <3>1. e - 1 = Len(d)
      BY <1>2, <2>1
    <3>2. QED
      BY <3>1
  <2>6. Before(d, next) = d
    BY <1>2, <1>14, <2>1 DEF Before
  <2>7. QED
    BY <1>11, <2>2, <2>3, <2>4, <2>5, <2>6
<1>15. CASE e \in 1 .. Len(d) /\ string[e] = Slash /\ next = e + 1 /\ t = [string EXCEPT ![e] = NUL]
  <2>1. e \in 1 .. l /\ e \in n .. l /\ d[e] = Slash
    BY <1>2, <1>7, <1>15
  <2>2. e < l
    BY <1>2, <1>3, <2>1, SeparatorFacts DEF Tidy
  <2>3. Stop(d, next)
    <3>1. next \in 1 .. l + 1 /\ next - 1 = e
      BY <1>2, <1>15, <2>1
    <3>2. QED
      BY <1>2, <2>1, <3>1 DEF Stop
  <2>4. Len(t) = l /\ t[e] = NUL /\ \A i \in 1 .. l : i # e => t[i] = string[i]
    BY <1>4, <1>15, <2>1
  <2>5. CutAt(t, d, next)
    <3>1. ASSUME NEW i \in 1 .. l
          PROVE  t[i] = IF d[i] = Slash /\ i < next THEN NUL ELSE d[i]
      <4>1. CASE i = e
        BY <1>2, <1>15, <2>1, <2>4, <4>1
      <4>2. CASE i < n
        <5>1. i < next /\ i # e
          BY <1>2, <1>15, <2>1, <4>2
        <5>2. QED
          BY <1>5, <2>4, <4>2, <5>1
      <4>3. CASE i >= n /\ i < e
        <5>1. i \in n .. e - 1 /\ ~(i < n) /\ i # e
          BY <1>2, <2>1, <4>3
        <5>2. d[i] # Slash
          BY <1>12, <5>1
        <5>3. QED
          BY <1>5, <2>4, <5>1, <5>2
      <4>4. CASE i > e
        <5>1. ~(i < n) /\ i # e /\ ~(i < next)
          BY <1>2, <1>15, <2>1, <4>4
        <5>2. QED
          BY <1>5, <2>4, <5>1
      <4>5. i = e \/ i < n \/ (i >= n /\ i < e) \/ i > e
        BY <1>2, <2>1
      <4>6. QED
        BY <4>1, <4>2, <4>3, <4>4, <4>5
    <3>2. QED
      BY <1>2, <2>4, <3>1 DEF CutAt
  <2>6. str = part
    <3>1. CharAt(t, e) = NUL
      BY <2>1, <2>4 DEF CharAt
    <3>2. \A i \in n .. e - 1 : i \in 1 .. l /\ i # e
      BY <1>2, <2>1
    <3>3. \A i \in n .. e - 1 : t[i] = string[i]
      BY <2>4, <3>2
    <3>4. QED
      BY <1>13, <2>4, <3>1, <3>3
  <2>7. Before(d, next) = SubSeq(d, 1, e - 1)
    <3>1. next # Len(d) + 1 /\ next - 2 = e - 1
      BY <1>2, <1>15, <2>1, <2>2
    <3>2. QED
      BY <3>1 DEF Before
  <2>8. QED
    BY <1>11, <2>3, <2>5, <2>6, <2>7
<1>16. QED
  BY <1>14, <1>15

(***************************************************************************)
(* A directory and the next one on the way: the first is the second's      *)
(* parent, and on the way itself.                                          *)
(***************************************************************************)
LEMMA ParentOf ==
  ASSUME NEW d \in Seq(Symbols), NEW n \in 1 .. Len(d), NEW m \in n .. Len(d),
         n = 1 \/ (n >= 3 /\ d[n - 1] = Slash), \A i \in n .. m : d[i] # Slash,
         NEW x, x = SubSeq(d, 1, m), NEW c, c = SubSeq(d, 1, n - 2)
  PROVE  ExtractDirectory(x) = c /\ c \in Ancestors(d) \cup {<<>>}
<1> HIDE DEF Slash
<1>1. PICK l \in Nat : l = Len(d)
  OBVIOUS
<1>2. m \in 0 .. Len(d) /\ m \in Nat /\ n <= m
  BY <1>1
<1>3. x \in Seq(Symbols) /\ Len(x) = m /\ \A i \in 1 .. m : x[i] = d[i]
  BY ONLY <1>2, x = SubSeq(d, 1, m), d \in Seq(Symbols), SubSeqFacts
<1>4. PICK k : k = LastSlash(x)
  OBVIOUS
<1>5. /\ k \in 0 .. m /\ (k # 0 => x[k] = Slash)
      /\ \A i \in 1 .. m : x[i] = Slash => i <= k
  BY <1>3, <1>4, LastSlashFacts
<1>6. k # 0 => k \in 1 .. m /\ d[k] = Slash
  BY <1>3, <1>5
<1>7. k < n
  <2>1. k \in n .. m => d[k] # Slash
    OBVIOUS
  <2>2. k >= n => k \in n .. m /\ k # 0
    BY <1>1, <1>5
  <2>3. ~(k >= n)
    BY <1>6, <2>1, <2>2
  <2>4. QED
    BY <1>1, <1>5, <2>3
<1>8. CASE n = 1
  <2>1. k = 0
    BY <1>5, <1>7, <1>8
  <2>2. n - 2 < 1 /\ 1 \in Int /\ n - 2 \in Int
    BY <1>8
  <2>3. c = <<>>
    BY <2>2, SubSeqEmpty
  <2>4. QED
    BY <1>4, <2>1, <2>3 DEF ExtractDirectory
<1>9. CASE n >= 3 /\ d[n - 1] = Slash
  <2>1. PICK j : j = n - 1
    OBVIOUS
  <2>2. j \in 2 .. l /\ j \in 1 .. m /\ j - 1 = n - 2 /\ d[j] = Slash
    BY <1>1, <1>9, <2>1
  <2>3. j <= k
    BY <1>3, <1>5, <2>2
  <2>4. k = j
    BY <1>1, <1>5, <1>7, <2>1, <2>3
  <2>5. k # 0 /\ ExtractDirectory(x) = SubSeq(x, 1, j - 1)
    BY <1>4, <2>2, <2>4 DEF ExtractDirectory
  <2>6. SubSeq(x, 1, j - 1) = SubSeq(d, 1, j - 1)
    <3>1. PICK b : b = j - 1
      OBVIOUS
    <3>2. b \in Int /\ 1 <= b + 1 /\ b <= m /\ b <= l /\ 1 \in 1 .. m
          /\ \A i \in 1 .. b : i \in 1 .. m
      BY <1>1, <2>2, <3>1
    <3>3. /\ x \in Seq(Symbols) /\ d \in Seq(Symbols) /\ 1 \in 1 .. Len(x) /\ b \in Int
          /\ 1 <= b + 1 /\ b <= Len(x) /\ b <= Len(d) /\ \A i \in 1 .. b : x[i] = d[i]
      BY <1>1, <1>3, <3>2
    <3>4. SubSeq(x, 1, b) = SubSeq(d, 1, b)
      BY ONLY <3>3, SameSub
    <3>5. QED
      BY <3>1, <3>4
  <2>7. ExtractDirectory(x) = c
    BY <2>2, <2>5, <2>6
  <2>8. j \in 2 .. Len(d) + 1 /\ c = SubSeq(d, 1, j - 1)
    BY <1>1, <2>2
  <2>9. c \in Ancestors(d)
    BY <2>2, <2>8 DEF Ancestors
  <2>10. QED
    BY <2>7, <2>9
<1>10. QED
  BY <1>8, <1>9

LEMMA ParentBefore ==
  ASSUME NEW d, NEW string, NEW n, NEW e, NEW next, NEW t, FromStop(d, string, n, e, next, t)
  PROVE  /\ ExtractDirectory(Before(d, next)) = Before(d, n)
         /\ Before(d, n) \in Ancestors(d) \cup {<<>>}
<1> USE DEF FromStop
<1>1. PICK l \in Nat : l = Len(d)
  OBVIOUS
<1>2. /\ Tidy(d) /\ \A i \in 1 .. l : d[i] # NUL
  BY <1>1 DEF Clean
<1>3. \A i \in 1 .. l : string[i] = IF d[i] = Slash /\ i < n THEN NUL ELSE d[i]
  BY <1>1 DEF CutAt
<1>4. \A i \in n .. l : i \in 1 .. l /\ ~(i < n)
  BY <1>1
<1>5. \A i \in n .. l : string[i] = d[i] /\ string[i] # NUL
  BY <1>2, <1>3, <1>4
<1>6. n = 1 \/ (n >= 3 /\ d[n - 1] = Slash)
  <2>1. n = 1 \/ d[n - 1] = Slash
    BY <1>1 DEF Stop
  <2>2. ASSUME n # 1 PROVE n >= 3
    <3>1. n - 1 \in 1 .. l /\ d[n - 1] \in Separators
      BY <1>1, <2>1, <2>2, SeparatorFacts
    <3>2. n - 1 > 1
      BY <1>1, <1>2, <3>1 DEF Tidy
    <3>3. QED
      BY <1>1, <3>2
  <2>3. QED
    BY <2>1, <2>2
<1>7. Before(d, n) = SubSeq(d, 1, n - 2)
  BY <1>1 DEF Before
<1>8. PICK m : m = e - 1
  OBVIOUS
<1>9. m \in n .. Len(d) /\ m \in Nat /\ e = m + 1
  BY <1>1, <1>8
<1>10. Before(d, next) = SubSeq(d, 1, m)
  <2>1. CASE CharAt(string, e) = NUL /\ next = e
    <3>1. Len(string) = l
      BY <1>1 DEF CutAt
    <3>2. e \notin n .. l
      BY <1>1, <1>4, <1>5, <2>1, <3>1 DEF CharAt
    <3>3. e = l + 1 /\ m = Len(d)
      BY <1>1, <1>8, <3>2
    <3>4. Before(d, next) = d
      BY <1>1, <2>1, <3>3 DEF Before
    <3>5. SubSeq(d, 1, m) = d
      BY <3>3
    <3>6. QED
      BY <3>4, <3>5
  <2>2. CASE e \in 1 .. Len(d) /\ string[e] = Slash /\ next = e + 1
    <3>1. e \in 1 .. l /\ e \in n .. l /\ d[e] = Slash
      BY <1>1, <1>5, <2>2
    <3>2. e < l
      BY <1>1, <1>2, <3>1, SeparatorFacts DEF Tidy
    <3>3. next # Len(d) + 1 /\ next - 2 = m
      BY <1>1, <1>8, <2>2, <3>1, <3>2
    <3>4. QED
      BY <3>3 DEF Before
  <2>3. QED
    BY <2>1, <2>2
<1>11. \A i \in n .. m : d[i] # Slash
  <2>1. \A i \in n .. m : i \in n .. e - 1 /\ i \in n .. l
    BY <1>1, <1>8, <1>9
  <2>2. \A i \in n .. m : string[i] # Slash
    BY <2>1
  <2>3. QED
    BY <1>5, <2>1, <2>2
<1>12. PICK x, c : x = SubSeq(d, 1, m) /\ c = SubSeq(d, 1, n - 2)
  OBVIOUS
<1>13. d \in Seq(Symbols) /\ n \in 1 .. Len(d) /\ m \in n .. Len(d)
  BY <1>9
<1>14. ExtractDirectory(x) = c /\ c \in Ancestors(d) \cup {<<>>}
  BY ONLY <1>6, <1>11, <1>12, <1>13, ParentOf
<1>15. QED
  BY <1>7, <1>10, <1>12, <1>14

LEMMA DirectoryKept ==
  ASSUME NEW v \in Workers, job'[v] = job[v], path'[v] = path[v]
  PROVE  Directory(v)' = Directory(v)
  BY DEF Directory

(***************************************************************************)
(* A loop begins with no directory made and nothing cut.                   *)
(***************************************************************************)
LEMMA AtTheBeginning ==
  ASSUME NEW d \in Seq(Symbols)
  PROVE  Stop(d, 1) /\ CutAt(d, d, 1) /\ Before(d, 1) = <<>>
<1>1. PICK l \in Nat : l = Len(d)
  OBVIOUS
<1>2. Stop(d, 1)
  BY <1>1 DEF Stop
<1>3. \A i \in 1 .. l : ~(i < 1)
  BY <1>1
<1>4. CutAt(d, d, 1)
  BY <1>1, <1>3 DEF CutAt
<1>5. CASE l = 0
  <2>1. d = <<>>
    BY <1>1, <1>5, EmptySeq
  <2>2. QED
    BY <1>1, <1>2, <1>4, <1>5, <2>1 DEF Before
<1>6. CASE l # 0
  <2>1. 1 - 2 < 1 /\ 1 \in Int /\ 1 - 2 \in Int
    OBVIOUS
  <2>2. SubSeq(d, 1, 1 - 2) = <<>>
    BY <2>1, SubSeqEmpty
  <2>3. 1 # l + 1
    BY <1>6
  <2>4. Before(d, 1) = SubSeq(d, 1, 1 - 2)
    BY <1>1, <2>3 DEF Before
  <2>5. QED
    BY <1>2, <1>4, <2>2, <2>4
<1>7. QED
  BY <1>5, <1>6

LEMMA OwnOpeningLoop ==
  ASSUME TypeOK, TypeOK', PlaceInv, JobInv, NEW w \in Workers, OpeningStep(w)
  PROVE  InLoop(w)'
<1>1. CASE ReceiveRequest(w)
  <2>1. job'[w] = 1
    BY <1>1 DEF ReceiveRequest, JobInv
  <2>2. QED
    BY <2>1 DEF InLoop, Making
<1>2. CASE NotThere(w)
  <2>1. /\ pc'[w] = "begin" /\ text'[w] = Directory(w)
        /\ UNCHANGED <<position, job, from, token, path>>
    BY <1>2 DEF NotThere, Goto, TypeOK, results, tree
  <2>2. Directory(w)' = Directory(w)
    BY <2>1, DirectoryKept
  <2>3. ~HasText(w)
    BY <1>2 DEF NotThere, HasText, At
  <2>4. Unshared(w)
    BY <2>3, NoTextNoPlaces
  <2>5. Unshared(w)'
    BY <2>1, <2>4 DEF Unshared
  <2>6. QED
    BY <2>1, <2>2, <2>5 DEF InLoop, At
<1>3. QED
  BY <1>1, <1>2 DEF OpeningStep

LEMMA OwnCallLoop ==
  ASSUME TypeOK, TypeOK', PlaceInv, JobInv, TidyInv, TreeInv, LoopInv, NEW w \in Workers,
         CallStep(w)
  PROVE  InLoop(w)'
<1>1. SUFFICES ASSUME job[w] # 1, Quiet(w)', ~ub PROVE MadeTo(w, from[w][2])'
  BY CallFrame DEF InLoop, Making, At, TypeOK
<1>2. /\ UNCHANGED <<text, job, path, current>>
  BY DEF CallStep, Begin, GoOn, results, tree
<1>3. Directory(w)' = Directory(w) /\ Directory(w) \in Seq(Symbols)
  BY <1>1, <1>2, DirectoryKept, DirectoryTidy
<1>4. HasText(w) /\ Making(w)
  BY <1>1 DEF CallStep, Begin, GoOn, HasText, Making, At
<1>5. InLoop(w)
  BY DEF LoopInv
<1>6. CASE Begin(w)
  <2>1. from'[w] = <<w, 1>> /\ At(w, "begin")
    BY <1>6 DEF Begin, TypeOK
  <2>2. text[w] = Directory(w) /\ current[w] = <<>>
    BY <1>4, <1>5, <2>1 DEF InLoop, TreeInv
  <2>3. from'[w][2] = 1
    BY <2>1
  <2>4. Stop(Directory(w), 1) /\ CutAt(text[w], Directory(w), 1) /\ Before(Directory(w), 1) = <<>>
    BY <1>3, <2>2, AtTheBeginning
  <2>5. QED
    BY <1>2, <1>3, <2>2, <2>3, <2>4 DEF MadeTo, UpTo
<1>7. CASE GoOn(w)
  <2>1. from'[w] = position /\ At(w, "next") /\ disturbed' = disturbed
    BY <1>7 DEF GoOn, TypeOK
  <2>2. MadeTo(w, position[2])
    BY <1>1, <1>4, <1>5, <2>1 DEF InLoop, Quiet
  <2>3. from'[w][2] = position[2]
    BY <2>1
  <2>4. QED
    BY <1>2, <1>3, <2>2, <2>3 DEF MadeTo, UpTo
<1>8. QED
  BY <1>6, <1>7 DEF CallStep

LEMMA OwnTokenLoop ==
  ASSUME TypeOK, TypeOK', PlaceInv, JobInv, QuietInv, LoopInv, NEW w \in Workers, TokenStep(w)
  PROVE  InLoop(w)'
<1>1. /\ pc[w] = "use" /\ pc'[w] = "next" /\ token[w] # NoPlace
      /\ ub' = (ub \/ ~Alive(token[w]))
      /\ UNCHANGED <<position, text, job, disturbed>>
  BY TokenFrame DEF TypeOK
<1>2. SUFFICES ASSUME job[w] # 1, Quiet(w), ~ub PROVE MadeTo(w, position[2])'
  BY <1>1 DEF InLoop, Making, At, Quiet
<1>3. MakeDirectory(w)
  BY <1>2 DEF TokenStep, UseField
<1>4. path' = path
  BY <1>3 DEF MakeDirectory, results, tree
<1>5. Directory(w)' = Directory(w)
  BY <1>1, <1>4, DirectoryKept
<1>6. token[w][1] = w /\ Alive(token[w])
  BY <1>1, <1>2, PlaceFacts DEF QuietInv, At, Alive
<1>7. PICK str \in Strings(w) : current' = [current EXCEPT ![w] = Longer(w, str)]
  BY <1>3 DEF MakeDirectory
<1>8. str = StringAt(text[w], token[w][2])
  BY <1>6, <1>7 DEF Strings
<1>9. current'[w] = Longer(w, StringAt(text[w], token[w][2]))
  BY <1>7, <1>8 DEF TypeOK
<1>10. /\ UpTo(w, position[2])
       /\ Longer(w, StringAt(text[w], token[w][2])) = Before(Directory(w), position[2])
  BY <1>1, <1>2 DEF LoopInv, InLoop, Making, HasText, At, OnTheWay, NextOne
<1>11. QED
  BY <1>1, <1>5, <1>9, <1>10 DEF MadeTo, UpTo

(***************************************************************************)
(* The call of a loop no other call came into: nothing is left, or one     *)
(* component more.                                                         *)
(***************************************************************************)
LEMMA OwnScanLoop ==
  ASSUME TypeOK, TypeOK', PlaceInv, JobInv, QuietInv, TidyInv, TreeInv, LoopInv,
         NEW w \in Workers, Scan(w)
  PROVE  InLoop(w)'
<1>1. pc[w] = "scan" /\ pc'[w] = "use" /\ UNCHANGED <<job, path, current>>
  BY DEF Scan, At, Goto, results, tree, TypeOK
<1>2. Quiet(w)' => Quiet(w)
  BY DEF Scan, Quiet
<1>3. ub => ub'
  BY DEF Scan, ScanAlive, ScanDead
<1>4. SUFFICES ASSUME job[w] # 1, Quiet(w), ~ub
               PROVE  IF token'[w] = NoPlace
                        THEN MadeTo(w, position[2])' /\ position'[2] = Len(Directory(w)') + 1
                        ELSE OnTheWay(w)'
  BY <1>1, <1>2, <1>3 DEF InLoop, Making, At
<1>5. from[w][1] = w /\ Alive(from[w])
  BY <1>1, <1>4, PlaceFacts DEF QuietInv, At, Alive
<1>6. MadeTo(w, from[w][2])
  BY <1>1, <1>4 DEF LoopInv, InLoop, Making, HasText, At
<1>7. PICK owner, n, found :
        /\ owner = from[w][1] /\ n = from[w][2]
        /\ Called(owner, n, Delimiter(w), found)
        /\ text' = [text EXCEPT ![owner] = found.text]
        /\ position' = <<owner, found.next>>
        /\ token' = [token EXCEPT ![w] = IF found.token = 0 THEN NoPlace
                                         ELSE <<owner, found.token>>]
        /\ ub' = ub
  BY <1>5, CalledFacts
<1>8. owner = w /\ Delimiter(w) = Slash
  BY <1>4, <1>5, <1>7 DEF Delimiter
<1>9. PICK d, string, t, next : d = Directory(w) /\ string = text[w] /\ t = found.text /\ next = found.next
  OBVIOUS
<1>10. /\ text'[w] = t /\ position'[2] = next /\ Directory(w)' = d
       /\ token'[w] = IF found.token = 0 THEN NoPlace ELSE <<w, found.token>>
  BY <1>1, <1>7, <1>8, <1>9, DirectoryKept DEF TypeOK
<1>11. Stop(d, n) /\ CutAt(string, d, n) /\ current[w] = Before(d, n)
  BY <1>6, <1>7, <1>9 DEF MadeTo, UpTo
<1>12. d \in Seq(Symbols) /\ (d = <<>> \/ Clean(d)) /\ string \in Seq(Symbols) /\ t \in Seq(Symbols)
  BY <1>4, <1>7, <1>9, DirectoryTidy DEF Called, TypeOK
<1>13. PICK l \in Nat : l = Len(d)
  BY <1>12
<1>14. Len(string) = l /\ n \in 1 .. l + 1
  BY <1>11, <1>13 DEF Stop, CutAt
<1>15. \/ /\ found.token = 0 /\ next = n /\ t = string /\ CharAt(string, n) = NUL
       \/ /\ found.token = n /\ n \in 1 .. l /\ string[n] \notin Separators
          /\ \E e \in n + 1 .. l + 1 :
               /\ \A i \in n .. e - 1 : string[i] \notin {Slash, NUL}
               /\ \/ /\ CharAt(string, e) = NUL
                     /\ next = e /\ t = string
                  \/ /\ e \in 1 .. l /\ string[e] = Slash
                     /\ next = e + 1 /\ t = [string EXCEPT ![e] = NUL]
  BY <1>7, <1>8, <1>9, <1>14 DEF Called
<1>16. CASE found.token = 0 /\ next = n /\ t = string /\ CharAt(string, n) = NUL
  <2>1. n \notin 1 .. l
    <3>1. SUFFICES ASSUME n \in 1 .. l PROVE FALSE
      OBVIOUS
    <3>2. string[n] = NUL
      BY <1>14, <1>16, <3>1 DEF CharAt
    <3>3. string[n] = d[n]
      BY <1>11, <1>13, <3>1 DEF CutAt
    <3>4. d # <<>>
      BY <1>13, <3>1, EmptySeq
    <3>5. QED
      BY <1>12, <1>13, <3>1, <3>2, <3>3, <3>4 DEF Clean
  <2>2. n = l + 1
    BY <1>14, <2>1
  <2>3. token'[w] = NoPlace
    BY <1>10, <1>16
  <2>4. MadeTo(w, position[2])'
    BY <1>1, <1>10, <1>11, <1>16 DEF MadeTo, UpTo
  <2>5. QED
    BY <1>10, <1>13, <1>16, <2>2, <2>3, <2>4
<1>17. ASSUME found.token = n, n \in 1 .. l, NEW e \in n + 1 .. l + 1,
              \A i \in n .. e - 1 : string[i] \notin {Slash, NUL},
              \/ /\ CharAt(string, e) = NUL
                 /\ next = e /\ t = string
              \/ /\ e \in 1 .. l /\ string[e] = Slash
                 /\ next = e + 1 /\ t = [string EXCEPT ![e] = NUL]
       PROVE  IF token'[w] = NoPlace
                THEN MadeTo(w, position[2])' /\ position'[2] = Len(Directory(w)') + 1
                ELSE OnTheWay(w)'
  <2>1. token'[w] = <<w, n>>
    BY <1>10, <1>17
  <2>2. token'[w] # NoPlace /\ token'[w][2] = n
    BY <2>1, PlaceFacts DEF NoPlace
  <2>3. d # <<>>
    BY <1>13, <1>17, EmptySeq
  <2>4. FromStop(d, string, n, e, next, t)
    BY <1>11, <1>12, <1>13, <1>17, <2>3 DEF FromStop
  <2>5. /\ Stop(d, next) /\ CutAt(t, d, next)
        /\ Extended(Before(d, n), StringAt(t, n)) = Before(d, next)
    BY ONLY <2>4, NextStop
  <2>6. UpTo(w, position[2])'
    BY <1>10, <2>5 DEF UpTo
  <2>7. NextOne(w)' = Extended(Before(d, n), StringAt(t, n))
    BY <1>1, <1>10, <1>11, <2>2 DEF NextOne, Longer, Extended
  <2>8. Before(Directory(w), position[2])' = Before(d, next)
    BY <1>10 DEF Before
  <2>9. /\ ExtractDirectory(Before(d, next)) = Before(d, n)
        /\ Before(d, n) \in Ancestors(d) \cup {<<>>}
    BY ONLY <2>4, ParentBefore
  <2>10. current'[w] = Before(d, n)
    BY <1>1, <1>11
  <2>11. ExtractDirectory(NextOne(w))' = ExtractDirectory(NextOne(w)')
    OBVIOUS
  <2>12. OnTheWay(w)'
    BY <1>10, <2>5, <2>6, <2>7, <2>8, <2>9, <2>10, <2>11 DEF OnTheWay
  <2>13. QED
    BY <2>2, <2>12
<1>18. QED
  BY <1>15, <1>16, <1>17

LEMMA UbStays ==
  ASSUME TypeOK, NEW w \in Workers,
         \/ OpeningStep(w) \/ CallStep(w) \/ Scan(w) \/ TokenStep(w) \/ DropStep(w)
         \/ SaveStep(w)
  PROVE  ub => ub'
<1>1. CASE OpeningStep(w)
  BY <1>1, OpeningFrame
<1>2. CASE CallStep(w)
  BY <1>2, CallFrame
<1>3. CASE Scan(w)
  BY <1>3 DEF Scan, ScanAlive, ScanDead
<1>4. CASE TokenStep(w)
  BY <1>4, TokenFrame
<1>5. CASE DropStep(w)
  BY <1>5, DropFrame
<1>6. CASE SaveStep(w)
  BY <1>6, SaveFrame
<1>7. QED
  BY <1>1, <1>2, <1>3, <1>4, <1>5, <1>6

LEMMA OthersLoop ==
  ASSUME TypeOK, TypeOK', PlaceInv, QuietInv, LoopInv, NEW w \in Workers,
         \/ OpeningStep(w) \/ CallStep(w) \/ Scan(w) \/ TokenStep(w) \/ DropStep(w)
         \/ SaveStep(w) /\ ~AllDead',
         NEW v \in Workers, v # w
  PROVE  InLoop(v)'
<1>1. /\ pc'[v] = pc[v] /\ job'[v] = job[v]
      /\ Unshared(v) => Unshared(v)' /\ text'[v] = text[v]
      /\ from[v][1] = v => from'[v] = from[v]
      /\ token[v][1] # w => token'[v] = token[v]
      /\ Scan(w) \/ (text'[v] = text[v] /\ (position[1] = v => position' = position))
  BY OthersFrame
<1>2. path'[v] = path[v] /\ current'[v] = current[v] /\ disturbed \subseteq disturbed' \cup {w}
  BY PathFrame
<1>3. Directory(v)' = Directory(v)
  BY <1>1, <1>2, DirectoryKept
<1>4. ub => ub'
  BY UbStays
<1>5. SUFFICES ASSUME Making(v)' PROVE InLoop(v)'
  BY DEF InLoop
<1>6. Making(v) /\ InLoop(v)
  BY <1>1, <1>5 DEF Making, HasText, At, LoopInv
<1>7. At(v, "begin")' => (text[v] = Directory(v))' /\ Unshared(v)'
  BY <1>1, <1>3, <1>6 DEF InLoop, At
<1>8. ASSUME Quiet(v)', ~ub', ~At(v, "begin")'
      PROVE  /\ At(v, "scan")' => MadeTo(v, from[v][2])'
             /\ At(v, "next")' => MadeTo(v, position[2])'
             /\ At(v, "use")' =>
                  IF token'[v] = NoPlace
                    THEN MadeTo(v, position[2])' /\ position'[2] = Len(Directory(v)') + 1
                    ELSE OnTheWay(v)'
  <2>1. Looping(v)
    BY <1>1, <1>5, <1>8 DEF Looping, Making, HasText, At
  <2>2. ~Scan(w)
    BY <1>8, <2>1 DEF Scan, Quiet
  <2>3. Quiet(v) /\ ~ub
    BY <1>2, <1>4, <1>8 DEF Quiet
  <2>4. text'[v] = text[v] /\ (position[1] = v => position' = position)
    BY <1>1, <2>2
  <2>5. CASE At(v, "scan")'
    <3>1. from[v][1] = v
      BY <1>1, <2>3, <2>5 DEF QuietInv, At
    <3>2. from'[v] = from[v] /\ MadeTo(v, from[v][2])
      BY <1>1, <1>6, <2>3, <2>5, <3>1 DEF InLoop, At
    <3>3. QED
      BY <1>2, <1>3, <2>4, <2>5, <3>2 DEF MadeTo, UpTo, At
  <2>6. CASE At(v, "next")'
    <3>1. position' = position
      BY <1>1, <2>3, <2>4, <2>6 DEF QuietInv, At
    <3>2. MadeTo(v, position[2])
      BY <1>1, <1>6, <2>3, <2>6 DEF InLoop, At
    <3>3. QED
      BY <1>2, <1>3, <2>4, <2>6, <3>1, <3>2 DEF MadeTo, UpTo, At
  <2>7. CASE At(v, "use")'
    <3>1. position' = position /\ (token[v] = NoPlace \/ token[v][1] = v)
      BY <1>1, <2>3, <2>4, <2>7 DEF QuietInv, At
    <3>2. NoPlace[1] # w
      BY PlaceFacts DEF NoPlace
    <3>3. token'[v] = token[v]
      BY <1>1, <3>1, <3>2
    <3>4. IF token[v] = NoPlace
            THEN MadeTo(v, position[2]) /\ position[2] = Len(Directory(v)) + 1
            ELSE OnTheWay(v)
      BY <1>1, <1>6, <2>3, <2>7 DEF InLoop, At
    <3>5. NextOne(v)' = NextOne(v)
      BY <1>2, <2>4, <3>3 DEF NextOne, Longer
    <3>6. OnTheWay(v) => OnTheWay(v)'
      BY <1>2, <1>3, <2>4, <3>1, <3>5 DEF OnTheWay, UpTo
    <3>7. QED
      BY <1>2, <1>3, <2>4, <2>7, <3>1, <3>3, <3>4, <3>6 DEF MadeTo, UpTo, At
  <2>8. QED
    BY <2>5, <2>6, <2>7
<1>9. QED
  BY <1>7, <1>8 DEF InLoop, At

LEMMA LoopStep ==
  ASSUME TypeOK, TypeOK', PlaceInv, JobInv, QuietInv, TidyInv, TreeInv, LoopInv,
         NEW w \in Workers,
         \/ OpeningStep(w) \/ CallStep(w) \/ Scan(w) \/ TokenStep(w) \/ DropStep(w)
         \/ SaveStep(w) /\ ~AllDead'
  PROVE  LoopInv'
<1>1. ASSUME DropStep(w) \/ (SaveStep(w) /\ ~AllDead') PROVE InLoop(w)'
  <2>1. CASE DropStep(w)
    <3>1. pc'[w] \in {"lock", "done", "save", "version"}
      BY <2>1, DropFrame
    <3>2. QED
      BY <3>1 DEF InLoop, Making, HasText
  <2>2. CASE SaveStep(w) /\ ~AllDead'
    <3>1. pc'[w] \in {"look", "store", "remove", "stuck", "done"}
      BY <2>2, SaveFrame DEF AllDead, At
    <3>2. QED
      BY <3>1 DEF InLoop, Making, HasText
  <2>3. QED
    BY <1>1, <2>1, <2>2
<1>2. InLoop(w)'
  BY <1>1, OwnOpeningLoop, OwnCallLoop, OwnScanLoop, OwnTokenLoop
<1>3. \A v \in Workers : v # w => InLoop(v)'
  BY OthersLoop
<1>4. QED
  BY <1>2, <1>3 DEF LoopInv

-----------------------------------------------------------------------------
(***************************************************************************)
(* A loop that ends has made its directory, or something kept it from it.  *)
(***************************************************************************)
MadeBy(w) ==
  pc[w] \in {"save", "version"} /\ Quiet(w) /\ ~ub =>
    IF made[w] THEN Directory(w) \in Known \cup {<<>>}
    ELSE DiskFaults \/ Ancestors(Directory(w)) \cap Obstacles # {}

LEMMA OwnMade ==
  ASSUME TypeOK, TypeOK', PlaceInv, JobInv, QuietInv, TreeInv, LoopInv, NEW w \in Workers,
         \/ OpeningStep(w) \/ CallStep(w) \/ Scan(w) \/ TokenStep(w) \/ DropStep(w)
         \/ SaveStep(w) /\ ~AllDead'
  PROVE  MadeBy(w)'
<1>1. SUFFICES ASSUME pc'[w] \in {"save", "version"}, Quiet(w)', ~ub'
               PROVE  IF made'[w] THEN Directory(w)' \in Known' \cup {<<>>}
                      ELSE DiskFaults \/ Ancestors(Directory(w)') \cap Obstacles' # {}
  BY DEF MadeBy
<1>2. DropStep(w)
  <2>1. CASE OpeningStep(w)
    BY <1>1, <2>1, OpeningFrame DEF TypeOK
  <2>2. CASE CallStep(w)
    BY <1>1, <2>2, CallFrame DEF TypeOK
  <2>3. CASE Scan(w)
    BY <1>1, <2>3, ScanFrame DEF TypeOK
  <2>4. CASE TokenStep(w)
    BY <1>1, <2>4, TokenFrame DEF TypeOK
  <2>5. CASE SaveStep(w) /\ ~AllDead'
    BY <1>1, <2>5, SaveFrame DEF AllDead, At
  <2>6. QED
    BY <2>1, <2>2, <2>3, <2>4, <2>5
<1>3. CASE EndOfFields(w)
  <2>1. pc'[w] \in {"lock", "done"}
    BY <1>3 DEF EndOfFields, Goto, TypeOK
  <2>2. QED
    BY <1>1, <2>1
<1>4. CASE MakeDirectoryFails(w)
  <2>1. /\ HasToken(w) /\ job[w] # 1 /\ ub' = (ub \/ ~Alive(token[w]))
        /\ UNCHANGED <<job, path, dirs, regular, removed, disturbed>>
    BY <1>4 DEF MakeDirectoryFails, Touch, Return, tree
  <2>2. made'[w] = FALSE
    BY <1>4 DEF MakeDirectoryFails, Return, TypeOK
  <2>3. Making(w) /\ Quiet(w) /\ ~ub /\ At(w, "use") /\ token[w] # NoPlace
    BY <1>1, <2>1 DEF HasToken, Making, HasText, At, Quiet
  <2>4. OnTheWay(w)
    BY <2>3 DEF LoopInv, InLoop
  <2>5. token[w][1] = w /\ Alive(token[w])
    BY <2>3, PlaceFacts DEF QuietInv, Alive
  <2>6. PICK str \in Strings(w) :
          ~Exists(Longer(w, str)) /\ (InDirectory(Longer(w, str)) => DiskFaults)
    BY <1>4 DEF MakeDirectoryFails
  <2>7. Longer(w, str) = NextOne(w)
    BY <2>5, <2>6 DEF Strings, NextOne
  <2>8. ASSUME ~DiskFaults PROVE Ancestors(Directory(w)) \cap Obstacles # {}
    <3>1. ExtractDirectory(NextOne(w)) \notin dirs \cup {<<>>}
      BY <2>6, <2>7, <2>8 DEF InDirectory
    <3>2. current[w] \notin dirs \cup {<<>>} /\ current[w] \in Ancestors(Directory(w))
      BY <2>4, <3>1 DEF OnTheWay
    <3>3. current[w] \in Known \cup {<<>>}
      BY DEF TreeInv
    <3>4. current[w] \in Obstacles
      BY <3>2, <3>3 DEF Known
    <3>5. QED
      BY <3>2, <3>4
  <2>9. Obstacles' = Obstacles /\ Directory(w)' = Directory(w)
    BY <2>1, DirectoryKept DEF Obstacles
  <2>10. QED
    BY <2>2, <2>8, <2>9
<1>5. CASE AlreadyThere(w)
  <2>1. UNCHANGED <<job, path, dirs>> /\ Directory(w) \in dirs /\ made'[w] = TRUE
    BY <1>5 DEF AlreadyThere, Return, tree, TypeOK
  <2>2. QED
    BY <2>1, DirectoryKept DEF Known
<1>6. CASE EndOfComponents(w)
  <2>1. UNCHANGED <<job, path, dirs, regular, removed, disturbed, ub>> /\ made'[w] = TRUE
    BY <1>6 DEF EndOfComponents, Return, tree, TypeOK
  <2>2. At(w, "use") /\ token[w] = NoPlace /\ job[w] # 1
    BY <1>6 DEF EndOfComponents
  <2>3. Making(w) /\ Quiet(w) /\ ~ub
    BY <1>1, <2>1, <2>2 DEF Making, HasText, At, Quiet
  <2>4. MadeTo(w, position[2]) /\ position[2] = Len(Directory(w)) + 1
    BY <2>2, <2>3 DEF LoopInv, InLoop
  <2>5. current[w] = Directory(w)
    BY <2>4 DEF MadeTo, Before
  <2>6. Directory(w) \in Known \cup {<<>>}
    BY <2>5 DEF TreeInv
  <2>7. Known' = Known
    BY <2>1 DEF Known, Obstacles
  <2>8. QED
    BY <2>1, <2>6, <2>7, DirectoryKept
<1>7. QED
  BY <1>2, <1>3, <1>4, <1>5, <1>6 DEF DropStep

LEMMA MadeStep ==
  ASSUME TypeOK, TypeOK', TidyPaths, PlaceInv, JobInv, QuietInv, TidyInv, TreeInv, LoopInv,
         MadeInv, NEW w \in Workers,
         \/ OpeningStep(w) \/ CallStep(w) \/ Scan(w) \/ TokenStep(w) \/ DropStep(w)
         \/ SaveStep(w) /\ ~AllDead'
  PROVE  MadeInv'
<1>1. MadeBy(w)'
  BY OwnMade
<1>2. ASSUME NEW v \in Workers, v # w PROVE MadeBy(v)'
  <2>1. /\ pc'[v] = pc[v] /\ job'[v] = job[v] /\ path'[v] = path[v] /\ made'[v] = made[v]
        /\ disturbed \subseteq disturbed' \cup {w}
    BY <1>2, PathFrame
  <2>2. Directory(v)' = Directory(v)
    BY <2>1, DirectoryKept
  <2>3. ub => ub'
    BY UbStays
  <2>4. Known \subseteq Known' /\ Obstacles \subseteq Obstacles'
    BY DirsStep DEF KnownGrows
  <2>5. MadeBy(v)
    BY DEF MadeInv, MadeBy
  <2>6. SUFFICES ASSUME pc'[v] \in {"save", "version"}, Quiet(v)', ~ub'
                 PROVE  IF made'[v] THEN Directory(v)' \in Known' \cup {<<>>}
                        ELSE DiskFaults \/ Ancestors(Directory(v)') \cap Obstacles' # {}
    BY DEF MadeBy
  <2>7. pc[v] \in {"save", "version"} /\ Quiet(v) /\ ~ub
    BY <1>2, <2>1, <2>3, <2>6 DEF Quiet
  <2>8. IF made[v] THEN Directory(v) \in Known \cup {<<>>}
        ELSE DiskFaults \/ Ancestors(Directory(v)) \cap Obstacles # {}
    BY <2>5, <2>7 DEF MadeBy
  <2>9. QED
    BY <2>1, <2>2, <2>4, <2>8
<1>3. QED
  BY <1>1, <1>2 DEF MadeInv, MadeBy

-----------------------------------------------------------------------------
(***************************************************************************)
(* The invariant of the directories.                                       *)
(***************************************************************************)
LEMMA DirectoryStep ==
  ASSUME TidyPaths, ParserInv, DirectoryInv, NEW w \in Workers, ReceiveRequest(w) \/ Step(w)
  PROVE  DirectoryInv'
<1>1. ~AllDead
  BY TheDeadStayDead
<1>2. TypeOK /\ PlaceInv /\ JobInv /\ QuietInv /\ TidyInv /\ TreeInv /\ LoopInv /\ MadeInv
  BY <1>1 DEF ParserInv, DirectoryInv
<1>3. TypeOK'
  BY StepKeeps DEF ParserInv
<1>4. CASE AllDead'
  BY <1>4 DEF DirectoryInv
<1>5. CASE ~AllDead'
  <2>1. \/ OpeningStep(w) \/ CallStep(w) \/ Scan(w) \/ TokenStep(w) \/ DropStep(w)
        \/ SaveStep(w) /\ ~AllDead'
    BY <1>5, StepKinds
  <2>2. PlacesTidy' /\ FieldsClean'
    BY <1>2, <1>3, <2>1, PlacesTidyStep, FieldsStep
  <2>3. TidyInv'
    BY <2>2 DEF PlacesTidy, FieldsClean, TidyInv
  <2>4. TreeInv'
    BY <1>2, <1>3, <2>1, TreeStep
  <2>5. LoopInv'
    BY <1>2, <1>3, <2>1, LoopStep
  <2>6. MadeInv'
    BY <1>2, <1>3, <2>1, MadeStep
  <2>7. QED
    BY <2>3, <2>4, <2>5, <2>6 DEF DirectoryInv
<1>6. QED
  BY <1>4, <1>5

LEMMA DirectoryStutter ==
  ASSUME DirectoryInv, UNCHANGED vars
  PROVE  DirectoryInv'
<1>1. UNCHANGED <<pc, job, position, text, from, token, fields, path, current, sent, made, dirs,
                  regular, removed, disturbed, ub>>
  BY DEF vars, texts, results, tree
<1>2. AllDead' <=> AllDead
  BY <1>1 DEF AllDead, At
<1>3. TidyInv' <=> TidyInv
  BY <1>1 DEF TidyInv
<1>4. TreeInv' <=> TreeInv
  BY <1>1 DEF TreeInv, HasText, At, Known, Obstacles
<1>5. \A w \in Workers : Directory(w)' = Directory(w)
  BY <1>1, DirectoryKept
<1>6. LoopInv' <=> LoopInv
  <2>1. \A w \in Workers : Making(w)' <=> Making(w)
    BY <1>1 DEF Making, HasText
  <2>2. \A w \in Workers : Unshared(w)' <=> Unshared(w)
    BY <1>1 DEF Unshared
  <2>3. \A w \in Workers : NextOne(w)' = NextOne(w)
    BY <1>1 DEF NextOne, Longer
  <2>4. QED
    BY <1>1, <1>5, <2>1, <2>2, <2>3
       DEF LoopInv, InLoop, OnTheWay, MadeTo, UpTo, Quiet, At
<1>7. MadeInv' <=> MadeInv
  BY <1>1, <1>5 DEF MadeInv, Quiet, Known, Obstacles
<1>8. QED
  BY <1>2, <1>3, <1>4, <1>6, <1>7 DEF DirectoryInv

LEMMA DirectoryInit ==
  ASSUME Init
  PROVE  DirectoryInv
<1>1. TidyInv
  <2>1. Len(<<>>) = 0
    BY EmptySeq
  <2>2. Tidy(<<>>)
    BY <2>1 DEF Tidy
  <2>3. Ready(NoPlace, text) /\ AtWord(NoPlace, text)
    BY PlaceFacts, DeadReady
  <2>4. QED
    BY <2>1, <2>2, <2>3 DEF Init, TidyInv
<1>2. TreeInv
  BY DEF Init, TreeInv, HasText, At, Known, Obstacles
<1>3. LoopInv /\ MadeInv
  BY DEF Init, LoopInv, InLoop, Making, MadeInv
<1>4. QED
  BY <1>1, <1>2, <1>3 DEF DirectoryInv

(***************************************************************************)
(* createNestedDirectories, when no call of another thread came into its   *)
(* loop, however deep the path: if it returns true, every directory on the *)
(* way has been made, and is there unless a file had the name already or   *)
(* an RM has removed it since; if it returns false, a file or an RM was in *)
(* the way, or the disk failed (utils.h:94-96, utils.c:142-193).           *)
(***************************************************************************)
THEOREM DirectoriesAreMade ==
  ASSUME TidyPaths
  PROVE  Spec => []UndisturbedDirectories
<1>1. Init => DirectoryInv
  BY DirectoryInit
<1>2. ParserInv /\ DirectoryInv /\ [Next]_vars => DirectoryInv'
  BY DirectoryStep, DirectoryStutter DEF Next, Finished
<1>3. ParserInv /\ DirectoryInv => UndisturbedDirectories
  <2>1. SUFFICES ASSUME DirectoryInv, NEW w \in Workers, pc[w] \in {"save", "version"},
                        w \notin disturbed, ~ub
                 PROVE  IF made[w] THEN Ancestors(Directory(w)) \subseteq dirs \cup Obstacles
                        ELSE DiskFaults \/ Ancestors(Directory(w)) \cap Obstacles # {}
    BY DEF UndisturbedDirectories
  <2>2. TreeInv /\ MadeInv
    BY <2>1 DEF DirectoryInv, AllDead, At
  <2>3. IF made[w] THEN Directory(w) \in Known \cup {<<>>}
        ELSE DiskFaults \/ Ancestors(Directory(w)) \cap Obstacles # {}
    BY <2>1, <2>2 DEF MadeInv, Quiet
  <2>4. Directory(w) \in Known \cup {<<>>} => Ancestors(Directory(w)) \subseteq Known
    BY <2>2, NoAncestors DEF TreeInv
  <2>5. QED
    BY <2>3, <2>4 DEF Known
<1>4. QED
  BY <1>1, <1>2, <1>3, Invariance, PTL DEF Spec

-----------------------------------------------------------------------------
(***************************************************************************)
(* A parse that no other thread's call came into reads the fields of its   *)
(* own request, one after the other.                                       *)
(***************************************************************************)
LEMMA RequestLine ==
  ASSUME PlainPaths, NEW r \in Requests
  PROVE  /\ PlainLine(Symbols, SerializeRequest(r), r.command, Numeral(r.data_len), r.remote_path)
         /\ \A i \in 1 .. Len(r.remote_path) : Plain(r.remote_path[i])
<1>1. PICK num, path_, word : num = Numeral(r.data_len) /\ path_ = r.remote_path /\ word = r.command
  OBVIOUS
<1>2. r.data_len \in Nat /\ r.data_len < 10^MaxDigits /\ word \in ToSet(COMMAND_STRINGS)
  BY <1>1, ParserAssumption
<1>3. /\ num \in Seq(Symbols) /\ Len(num) >= 1
      /\ \A i \in 1 .. Len(num) : \E k \in 1 .. 10 : num[i] = Digits[k]
  BY <1>1, <1>2, NumeralFacts
<1>4. /\ path_ \in Seq(Symbols) /\ path_ # <<>> /\ word \in Symbols /\ Comma \in Symbols
  BY <1>1, SymbolFacts
<1>5. \A k \in 1 .. 10 : Plain(Digits[k])
  BY PlainDigits
<1>6. Plain(word)
  BY <1>2, CommandFacts DEF Plain
<1>7. \A i \in 1 .. Len(num) : Plain(num[i])
  BY <1>3, <1>5
<1>8. \A i \in 1 .. Len(path_) : Plain(path_[i])
  BY <1>1 DEF PlainPaths, Plain
<1>9. Len(path_) >= 1
  BY <1>4, EmptySeq
<1>10. Laid(Symbols, <<word, Comma>> \o num \o <<Comma>> \o path_, word, num, path_)
  BY <1>3, <1>4, Serialized
<1>11. SerializeRequest(r) = <<word, Comma>> \o num \o <<Comma>> \o path_
  BY <1>1 DEF SerializeRequest
<1>12. 1 \in 1 .. Len(path_)
  BY <1>4, <1>9
<1>13. PlainLine(Symbols, SerializeRequest(r), word, num, path_)
  BY <1>3, <1>6, <1>7, <1>8, <1>9, <1>10, <1>11, <1>12 DEF PlainLine
<1>14. QED
  BY <1>1, <1>8, <1>13

(***************************************************************************)
(* A call that starts at a field of a text that is cut before it.          *)
(***************************************************************************)
AtField(r, string, n, e, next) ==
  /\ r \in Requests /\ string \in Seq(Symbols) /\ CutTo(string, r, n)
  /\ n \in 1 .. Len(string) /\ e \in n + 1 .. Len(string) + 1
  /\ \A j \in n .. e - 1 : Plain(SerializeRequest(r)[j])
  /\ \/ e = Len(string) + 1 /\ next = e
     \/ e \in 1 .. Len(string) /\ SerializeRequest(r)[e] = Comma /\ next = e + 1

LEMMA FieldRead ==
  ASSUME NEW r, NEW string, NEW n, NEW e, NEW next, AtField(r, string, n, e, next),
         NEW found, found = Strtok(string, n, Comma)
  PROVE  /\ found.token = n /\ found.next = next
         /\ CutTo(found.text, r, next)
         /\ StringAt(found.text, n) = SubSeq(SerializeRequest(r), n, e - 1)
<1>1. PICK t : t = SerializeRequest(r)
  OBVIOUS
<1>2. t \in Seq(Symbols) /\ string \in Seq(Symbols)
  BY <1>1, RequestText DEF AtField
<1>3. PICK l \in Nat : l = Len(string)
  BY <1>2
<1>4. /\ Len(t) = l /\ n \in 1 .. l /\ e \in n + 1 .. l + 1
      /\ \A i \in 1 .. l : string[i] = IF t[i] = Comma /\ i < n THEN NUL ELSE t[i]
      /\ \A j \in n .. e - 1 : Plain(t[j])
      /\ \/ e = l + 1 /\ next = e
         \/ e \in 1 .. l /\ t[e] = Comma /\ next = e + 1
  BY <1>1, <1>3 DEF AtField, CutTo
<1>5. \A j \in n .. l : j \in 1 .. l /\ string[j] = t[j]
  BY <1>4
<1>6. \A j \in n .. e - 1 : j \in n .. l /\ string[j] = t[j] /\ string[j] \notin {Comma, NUL}
  <2>1. \A j \in n .. e - 1 : j \in n .. l
    BY <1>4
  <2>2. QED
    BY <1>4, <1>5, <2>1 DEF Plain
<1>7. Comma # NUL
  BY DEF Comma, NUL
<1>8. ASSUME NEW s \in Seq(Symbols), Len(s) = l, \A j \in n .. e - 1 : s[j] = string[j], CharAt(s, e) = NUL
      PROVE  StringAt(s, n) = SubSeq(t, n, e - 1)
  <2>1. n \in 1 .. Len(s) /\ e \in n .. Len(s) + 1 /\ \A i \in n .. e - 1 : s[i] # NUL
    BY <1>4, <1>6, <1>8
  <2>2. StringAt(s, n) = SubSeq(s, n, e - 1)
    BY <1>8, <2>1, StringIs
  <2>3. /\ s \in Seq(Symbols) /\ t \in Seq(Symbols) /\ n \in 1 .. Len(s) /\ e - 1 \in Int
        /\ n <= e - 1 + 1 /\ e - 1 <= Len(s) /\ e - 1 <= Len(t)
        /\ \A i \in n .. e - 1 : s[i] = t[i]
    BY <1>2, <1>4, <1>6, <1>8, <2>1
  <2>4. SubSeq(s, n, e - 1) = SubSeq(t, n, e - 1)
    BY ONLY <2>3, SameSub
  <2>5. QED
    BY <2>2, <2>4
<1>9. CharAt(string, e) = IF e = l + 1 THEN NUL ELSE Comma
  BY <1>3, <1>4, <1>5 DEF CharAt
<1>10. found = IF CharAt(string, e) = NUL THEN [token |-> n, next |-> e, text |-> string]
               ELSE [token |-> n, next |-> e + 1, text |-> [string EXCEPT ![e] = NUL]]
  <2>1. /\ n \in 1 .. Len(string) /\ e \in n + 1 .. Len(string) + 1
        /\ \A j \in n .. e - 1 : string[j] \notin {Comma, NUL}
        /\ CharAt(string, e) \in {Comma, NUL}
    BY <1>3, <1>4, <1>6, <1>9
  <2>2. QED
    BY <1>2, <1>7, <2>1, CallAtField
<1>11. CASE e = l + 1
  <2>1. found.token = n /\ found.next = e /\ found.text = string /\ next = e
    BY <1>4, <1>9, <1>10, <1>11
  <2>2. \A i \in 1 .. l : string[i] = IF t[i] = Comma /\ i < e THEN NUL ELSE t[i]
    <3>1. \A i \in 1 .. l : i < n \/ (i \in n .. e - 1 /\ ~(i < n) /\ i < e)
      BY <1>4, <1>11
    <3>2. \A i \in n .. e - 1 : t[i] # Comma
      BY <1>4 DEF Plain
    <3>3. \A i \in 1 .. l : i < n => i < e
      BY <1>4
    <3>4. QED
      BY <1>4, <3>1, <3>2, <3>3
  <2>3. CutTo(string, r, e)
    BY <1>1, <1>3, <1>4, <2>2 DEF CutTo
  <2>4. StringAt(string, n) = SubSeq(t, n, e - 1)
    BY <1>2, <1>3, <1>8, <1>9, <1>11
  <2>5. QED
    BY <1>1, <2>1, <2>3, <2>4
<1>12. CASE e # l + 1
  <2>1. /\ found.token = n /\ found.next = e + 1 /\ found.text = [string EXCEPT ![e] = NUL]
        /\ next = e + 1 /\ e \in 1 .. l /\ t[e] = Comma
    BY <1>4, <1>7, <1>9, <1>10, <1>12
  <2>2. PICK s : s = found.text
    OBVIOUS
  <2>3. /\ s \in Seq(Symbols) /\ Len(s) = l /\ s[e] = NUL
        /\ \A i \in 1 .. l : i # e => s[i] = string[i]
    BY <1>2, <1>3, <2>1, <2>2, SymbolFacts
  <2>4. \A i \in 1 .. l : s[i] = IF t[i] = Comma /\ i < e + 1 THEN NUL ELSE t[i]
    <3> SUFFICES ASSUME NEW i \in 1 .. l
                 PROVE  s[i] = IF t[i] = Comma /\ i < e + 1 THEN NUL ELSE t[i]
      OBVIOUS
    <3>1. CASE i = e
      BY <1>4, <2>1, <2>3, <3>1
    <3>2. CASE i < n
      <4>1. i < e + 1 /\ i # e
        BY <1>4, <3>2
      <4>2. QED
        BY <1>4, <2>3, <3>2, <4>1
    <3>3. CASE i \in n .. e - 1
      <4>1. i # e /\ string[i] = t[i] /\ t[i] # Comma
        BY <1>4, <1>6, <3>3
      <4>2. QED
        BY <2>3, <4>1
    <3>4. CASE i > e
      <4>1. i \in n .. l /\ i # e /\ ~(i < e + 1)
        BY <1>4, <3>4
      <4>2. QED
        BY <1>5, <2>3, <4>1
    <3>5. i = e \/ i < n \/ i \in n .. e - 1 \/ i > e
      BY <1>4
    <3>6. QED
      BY <3>1, <3>2, <3>3, <3>4, <3>5
  <2>5. CutTo(s, r, next)
    BY <1>1, <1>4, <2>1, <2>3, <2>4 DEF CutTo
  <2>6. StringAt(s, n) = SubSeq(t, n, e - 1)
    <3>1. CharAt(s, e) = NUL
      BY <2>1, <2>3 DEF CharAt
    <3>2. \A j \in n .. e - 1 : j \in 1 .. l /\ j # e
      BY <1>4
    <3>3. QED
      BY <1>8, <2>3, <3>1, <3>2
  <2>7. QED
    BY <1>1, <2>1, <2>2, <2>5, <2>6
<1>13. QED
  BY <1>11, <1>12

(***************************************************************************)
(* A field more.                                                           *)
(***************************************************************************)
LEMMA FieldAdded ==
  ASSUME NEW r, NEW string, NEW strings \in Seq(Seq(Symbols)), NEW str \in Seq(Symbols), NEW next,
         Len(strings) \in 0 .. 2, \A i \in 1 .. Len(strings) : strings[i] = FieldsOf(r)[i],
         CutTo(string, r, next), next = CallsAt(r)[Len(strings) + 2],
         str = FieldsOf(r)[Len(strings) + 1]
  PROVE  ReadTo(r, string, Append(strings, str), next)
<1>0. PICK k \in 0 .. 2 : k = Len(strings)
  OBVIOUS
<1>1. PICK f : k = Len(strings) /\ f = FieldsOf(r)
  BY <1>0
<1>2. PICK s : s = Append(strings, str)
  OBVIOUS
<1>3. Len(s) = k + 1 /\ s[k + 1] = str /\ \A i \in 1 .. k : s[i] = strings[i]
  BY <1>1, <1>2, AppendProperties
<1>4. \A i \in 1 .. k + 1 : i = k + 1 \/ i \in 1 .. k
  BY <1>1
<1>5. \A i \in 1 .. k + 1 : s[i] = f[i]
  BY <1>1, <1>3, <1>4
<1>6. k + 1 \in 0 .. 3 /\ (k + 1) + 1 = k + 2
  <2>1. k \in 0 .. 2
    BY <1>0
  <2>2. QED
    BY ONLY <2>1
<1>7. next = CallsAt(r)[Len(s) + 1] /\ Len(s) \in 0 .. 3
  BY <1>1, <1>3, <1>6
<1>8. QED
  BY <1>1, <1>2, <1>3, <1>5, <1>7 DEF ReadTo

LEMMA ParseGoesOn ==
  ASSUME PlainPaths, NEW r \in Requests, NEW string \in Seq(Symbols),
         NEW strings \in Seq(Seq(Symbols)), NEW n, ReadTo(r, string, strings, n),
         NEW found, found = Strtok(string, n, Comma)
  PROVE  \/ found.token = 0 /\ strings = FieldsOf(r)
         \/ /\ found.token = n /\ n # 0
            /\ ReadTo(r, found.text, Append(strings, StringAt(found.text, n)), found.next)
<1>1. PICK t, num, rest : t = SerializeRequest(r) /\ num = Numeral(r.data_len) /\ rest = r.remote_path
  OBVIOUS
<1>2. /\ PlainLine(Symbols, t, r.command, num, rest)
      /\ \A i \in 1 .. Len(rest) : Plain(rest[i])
  BY <1>1, RequestLine
<1>3. PICK m \in Nat, p \in Nat : m = Len(num) /\ p = Len(rest)
  BY <1>2 DEF PlainLine, Laid
<1>4. /\ m >= 1 /\ p >= 1 /\ Len(t) = m + p + 3
      /\ t \in Seq(Symbols) /\ num \in Seq(Symbols) /\ rest \in Seq(Symbols)
      /\ Plain(t[1]) /\ t[2] = Comma /\ t[m + 3] = Comma
      /\ \A i \in 1 .. m : t[i + 2] = num[i] /\ Plain(num[i])
      /\ \A i \in 1 .. p : t[m + 3 + i] = rest[i] /\ Plain(rest[i])
  BY <1>2, <1>3 DEF PlainLine, Laid
<1>5. PICK k : k = Len(strings)
  OBVIOUS
<1>6. /\ CutTo(string, r, n) /\ k \in {0, 1, 2, 3} /\ n = CallsAt(r)[k + 1]
      /\ \A i \in 1 .. k : strings[i] = FieldsOf(r)[i]
  BY <1>5 DEF ReadTo
<1>7. Len(string) = m + p + 3
  BY <1>1, <1>4, <1>6 DEF CutTo
<1>8. /\ CallsAt(r)[1] = 1 /\ CallsAt(r)[2] = 3 /\ CallsAt(r)[3] = m + 4
      /\ CallsAt(r)[4] = m + p + 4
  BY <1>1, <1>3, <1>4 DEF CallsAt
<1>9. FieldsOf(r) = <<<<r.command>>, num, rest>>
  BY <1>1 DEF FieldsOf
<1>10. /\ SubSeq(t, 1, 1) = <<r.command>> /\ SubSeq(t, 3, m + 2) = num
       /\ SubSeq(t, m + 4, m + p + 3) = rest
  <2>1. Laid(Symbols, t, r.command, num, rest) /\ p + 1 \in 2 .. Len(rest) + 1
    BY <1>2, <1>3, <1>4 DEF PlainLine
  <2>2. PartsOf(t, r.command, num, rest, p + 1)
    BY ONLY <2>1, LineParts
  <2>3. /\ 2 - 1 = 1 /\ (m + 3) - 1 = m + 2 /\ (m + 3 + (p + 1)) - 1 = m + p + 3
        /\ (p + 1) - 1 = p
    OBVIOUS
  <2>4. SubSeq(rest, 1, p) = rest
    BY <1>3, <1>4
  <2>5. QED
    BY <1>3, <2>2, <2>3, <2>4 DEF PartsOf
<1>11. CASE k = 3
  <2>1. n = Len(string) + 1
    BY <1>6, <1>7, <1>8, <1>11
  <2>c. Comma # NUL
    BY DEF Comma, NUL
  <2>2. found.token = 0
    <3>1. Strtok(string, Len(string) + 1, Comma) =
            [token |-> 0, next |-> Len(string) + 1, text |-> string]
      BY <2>c, CallAtEnd
    <3>2. QED
      BY <2>1, <3>1
  <2>3. 1 \in 1 .. k /\ 2 \in 1 .. k /\ 3 \in 1 .. k
    BY <1>11
  <2>4. strings[1] = <<r.command>> /\ strings[2] = num /\ strings[3] = rest
    BY <1>6, <1>9, <2>3
  <2>5. strings = <<<<r.command>>, num, rest>>
    <3>1. PICK s : s = <<<<r.command>>, num, rest>>
      OBVIOUS
    <3>2. /\ DOMAIN s = 1 .. 3 /\ s = [i \in 1 .. 3 |-> s[i]]
          /\ s[1] = <<r.command>> /\ s[2] = num /\ s[3] = rest
      BY <3>1
    <3>0. strings = [i \in 1 .. Len(strings) |-> strings[i]]
      OBVIOUS
    <3>3. strings = [i \in 1 .. 3 |-> strings[i]]
      BY <1>5, <1>11, <3>0
    <3>4. \A i \in 1 .. 3 : strings[i] = s[i]
      <4>1. \A i \in 1 .. 3 : i = 1 \/ i = 2 \/ i = 3
        OBVIOUS
      <4>2. QED
        BY <2>4, <3>2, <4>1
    <3>5. strings = s
      BY <3>2, <3>3, <3>4
    <3>6. QED
      BY <3>1, <3>5
  <2>6. QED
    BY <1>9, <2>2, <2>5
<1>12. ASSUME NEW e, NEW next, e \in n + 1 .. m + p + 4, n \in 1 .. m + p + 3,
              \A j \in n .. e - 1 : Plain(t[j]),
              \/ e = m + p + 4 /\ next = e
              \/ e \in 1 .. m + p + 3 /\ t[e] = Comma /\ next = e + 1,
              k # 3, next = CallsAt(r)[k + 2], SubSeq(t, n, e - 1) = FieldsOf(r)[k + 1]
       PROVE  /\ found.token = n /\ n # 0
              /\ ReadTo(r, found.text, Append(strings, StringAt(found.text, n)), found.next)
  <2>1. AtField(r, string, n, e, next)
    BY <1>1, <1>6, <1>7, <1>12 DEF AtField
  <2>2. /\ found.token = n /\ found.next = next /\ CutTo(found.text, r, next)
        /\ StringAt(found.text, n) = SubSeq(SerializeRequest(r), n, e - 1)
    BY ONLY <2>1, FieldRead, found = Strtok(string, n, Comma)
  <2>3. PICK str : str = StringAt(found.text, n)
    OBVIOUS
  <2>4. str = FieldsOf(r)[k + 1]
    BY <1>1, <1>12, <2>2, <2>3
  <2>5. str \in Seq(Symbols)
    <3>1. <<r.command>> \in Seq(Symbols)
      BY SymbolFacts
    <3>2. /\ FieldsOf(r)[1] = <<r.command>> /\ FieldsOf(r)[2] = num /\ FieldsOf(r)[3] = rest
      BY <1>9
    <3>3. k + 1 = 1 \/ k + 1 = 2 \/ k + 1 = 3
      BY <1>6, <1>12
    <3>4. QED
      BY <1>4, <2>4, <3>1, <3>2, <3>3
  <2>6. k \in 0 .. 2
    BY <1>6, <1>12
  <2>7. ReadTo(r, found.text, Append(strings, str), next)
    BY <1>5, <1>6, <1>12, <2>2, <2>4, <2>5, <2>6, FieldAdded
  <2>8. QED
    BY <1>12, <2>2, <2>3, <2>7
<1>13. CASE k = 0
  <2>1. /\ n = 1 /\ 2 \in n + 1 .. m + p + 4 /\ n \in 1 .. m + p + 3 /\ k # 3
        /\ 2 \in 1 .. m + p + 3 /\ t[2] = Comma /\ 3 = 2 + 1 /\ 3 = CallsAt(r)[k + 2]
        /\ \A j \in n .. 2 - 1 : Plain(t[j])
    BY <1>4, <1>6, <1>8, <1>13
  <2>2. SubSeq(t, n, 2 - 1) = FieldsOf(r)[k + 1]
    BY <1>9, <1>10, <1>13, <2>1
  <2>3. QED
    BY <1>12, <2>1, <2>2
<1>14. CASE k = 1
  <2>1. /\ n = 3 /\ m + 3 \in n + 1 .. m + p + 4 /\ n \in 1 .. m + p + 3 /\ k # 3
        /\ m + 3 \in 1 .. m + p + 3 /\ t[m + 3] = Comma /\ m + 4 = (m + 3) + 1
        /\ m + 4 = CallsAt(r)[k + 2] /\ (m + 3) - 1 = m + 2
    BY <1>4, <1>6, <1>8, <1>14
  <2>2. \A j \in n .. (m + 3) - 1 : Plain(t[j])
    <3>1. \A j \in n .. (m + 3) - 1 : j - 2 \in 1 .. m /\ (j - 2) + 2 = j
      BY <2>1
    <3>2. \A i \in 1 .. m : Plain(t[i + 2])
      BY <1>4
    <3>3. QED
      BY <3>1, <3>2
  <2>3. SubSeq(t, n, (m + 3) - 1) = FieldsOf(r)[k + 1]
    BY <1>9, <1>10, <1>14, <2>1
  <2>4. QED
    BY <1>12, <2>1, <2>2, <2>3
<1>15. CASE k = 2
  <2>1. /\ n = m + 4 /\ m + p + 4 \in n + 1 .. m + p + 4 /\ n \in 1 .. m + p + 3 /\ k # 3
        /\ m + p + 4 = CallsAt(r)[k + 2] /\ (m + p + 4) - 1 = m + p + 3
    BY <1>4, <1>6, <1>8, <1>15
  <2>2. \A j \in n .. (m + p + 4) - 1 : Plain(t[j])
    <3>1. \A j \in n .. (m + p + 4) - 1 : j - (m + 3) \in 1 .. p /\ m + 3 + (j - (m + 3)) = j
      BY <2>1
    <3>2. \A i \in 1 .. p : Plain(t[m + 3 + i])
      BY <1>4
    <3>3. QED
      BY <3>1, <3>2
  <2>3. SubSeq(t, n, (m + p + 4) - 1) = FieldsOf(r)[k + 1]
    BY <1>9, <1>10, <1>15, <2>1
  <2>4. QED
    BY <1>12, <2>1, <2>2, <2>3
<1>16. QED
  BY <1>6, <1>11, <1>13, <1>14, <1>15

LEMMA ParseBegins ==
  ASSUME NEW r \in Requests
  PROVE  ReadTo(r, SerializeRequest(r), <<>>, 1)
<1>1. Len(<<>>) = 0 /\ 0 \in 0 .. 3 /\ 0 + 1 = 1
  BY EmptySeq
<1>2. CallsAt(r)[1] = 1
  BY DEF CallsAt
<1>3. CutTo(SerializeRequest(r), r, 1)
  <2>0. PICK t : t = SerializeRequest(r)
    OBVIOUS
  <2>1. PICK l \in Nat : l = Len(t)
    BY <2>0, RequestText
  <2>2. \A i \in 1 .. l : ~(i < 1)
    OBVIOUS
  <2>3. QED
    BY <2>0, <2>1, <2>2 DEF CutTo
<1>4. QED
  BY <1>1, <1>2, <1>3 DEF ReadTo

(***************************************************************************)
(* The steps of the worker itself.                                         *)
(***************************************************************************)
LEMMA OwnOpeningParse ==
  ASSUME TypeOK, TypeOK', JobInv, NEW w \in Workers, OpeningStep(w)
  PROVE  InParse(w)'
<1>1. CASE ReceiveRequest(w)
  <2>1. PICK r \in Requests : /\ sent' = [sent EXCEPT ![w] = r]
                              /\ text' = [text EXCEPT ![w] = SerializeRequest(r)]
    BY <1>1 DEF ReceiveRequest
  <2>2. sent'[w] = r /\ text'[w] = SerializeRequest(r)
    BY <2>1 DEF TypeOK
  <2>3. pc'[w] = "begin" /\ fields' = fields
    BY <1>1 DEF ReceiveRequest, Goto, TypeOK
  <2>4. fields[w] = <<>>
    BY <1>1 DEF ReceiveRequest, JobInv, Parsing, HasText, At
  <2>5. QED
    BY <2>2, <2>3, <2>4 DEF InParse, At
<1>2. CASE NotThere(w)
  <2>1. job'[w] # 1
    BY <1>2 DEF NotThere, JobInv, At
  <2>2. QED
    BY <2>1 DEF InParse, Parsing
<1>3. QED
  BY <1>1, <1>2 DEF OpeningStep

LEMMA OwnCallParse ==
  ASSUME TypeOK, TypeOK', JobInv, NEW w \in Workers, InParse(w), CallStep(w)
  PROVE  InParse(w)'
<1>1. SUFFICES ASSUME job[w] = 1, Quiet(w)', ~ub
               PROVE  ReadTo(sent[w], text[w], fields[w], from[w][2])'
  <2>0. pc' = [pc EXCEPT ![w] = "scan"] /\ job' = job /\ ub' = ub
    BY CallFrame
  <2>1. pc'[w] = "scan" /\ job' = job /\ ub' = ub
    BY <2>0 DEF TypeOK
  <2>2. QED
    BY <2>1 DEF InParse, Parsing, At
<1>2. UNCHANGED <<text, fields, sent>>
  BY CallFrame
<1>3. Parsing(w)
  BY <1>1 DEF CallStep, Begin, GoOn, HasText, Parsing, At
<1>4. CASE Begin(w)
  <2>1. from'[w] = <<w, 1>> /\ At(w, "begin")
    BY <1>4 DEF Begin, TypeOK
  <2>2. text[w] = SerializeRequest(sent[w]) /\ fields[w] = <<>> /\ sent[w] \in Requests
    BY <1>3, <2>1 DEF InParse, JobInv
  <2>3. from'[w][2] = 1
    BY <2>1
  <2>4. ReadTo(sent[w], text[w], fields[w], 1)
    BY <2>2, ParseBegins
  <2>5. QED
    BY <1>2, <2>3, <2>4
<1>5. CASE GoOn(w)
  <2>1. from'[w] = position /\ At(w, "next") /\ disturbed' = disturbed
    BY <1>5 DEF GoOn, TypeOK
  <2>2. ReadTo(sent[w], text[w], fields[w], position[2])
    BY <1>1, <1>3, <2>1 DEF InParse, Quiet
  <2>3. from'[w][2] = position[2]
    BY <2>1
  <2>4. QED
    BY <1>2, <2>2, <2>3
<1>6. QED
  BY <1>4, <1>5 DEF CallStep

LEMMA OwnTokenParse ==
  ASSUME TypeOK, TypeOK', QuietInv, NEW w \in Workers, InParse(w), TokenStep(w)
  PROVE  InParse(w)'
<1>1. /\ pc[w] = "use" /\ pc'[w] = "next" /\ token[w] # NoPlace
      /\ ub' = (ub \/ ~Alive(token[w]))
      /\ UNCHANGED <<position, text, job, sent, disturbed>>
  BY TokenFrame DEF TypeOK
<1>2. SUFFICES ASSUME job[w] = 1, Quiet(w), ~ub
               PROVE  ReadTo(sent[w], text[w], fields[w], position[2])'
  BY <1>1 DEF InParse, Parsing, At, Quiet
<1>3. UseField(w)
  BY <1>2 DEF TokenStep, MakeDirectory
<1>4. token[w][1] = w /\ Alive(token[w])
  BY <1>1, <1>2, PlaceFacts DEF QuietInv, At, Alive
<1>5. PICK str \in Strings(w) : fields' = [fields EXCEPT ![w] = Append(@, str)]
  BY <1>3 DEF UseField
<1>6. str = StringAt(text[w], token[w][2])
  BY <1>4, <1>5 DEF Strings
<1>7. fields'[w] = Append(fields[w], StringAt(text[w], token[w][2]))
  BY <1>5, <1>6 DEF TypeOK
<1>8. ReadTo(sent[w], text[w], Append(fields[w], StringAt(text[w], token[w][2])), position[2])
  BY <1>1, <1>2 DEF InParse, Parsing, HasText, At
<1>9. QED
  BY <1>1, <1>7, <1>8

LEMMA OwnScanParse ==
  ASSUME PlainPaths, TypeOK, TypeOK', JobInv, PlaceInv, QuietInv, NEW w \in Workers, InParse(w), Scan(w)
  PROVE  InParse(w)'
<1>1. /\ pc[w] = "scan" /\ pc'[w] = "use" /\ UNCHANGED <<job, fields, sent>>
  BY ScanFrame DEF TypeOK
<1>2. Quiet(w)' => Quiet(w)
  BY DEF Scan, Quiet
<1>3. ub => ub'
  BY DEF Scan, ScanAlive, ScanDead
<1>4. SUFFICES ASSUME job[w] = 1, Quiet(w), ~ub
               PROVE  IF token'[w] = NoPlace THEN fields[w] = FieldsOf(sent[w])
                      ELSE ReadTo(sent[w], text'[w],
                                  Append(fields[w], StringAt(text'[w], token'[w][2])), position'[2])
  BY <1>1, <1>2, <1>3 DEF InParse, Parsing, At
<1>5. from[w][1] = w /\ Alive(from[w])
  BY <1>1, <1>4, PlaceFacts DEF QuietInv, At, Alive
<1>6. Parsing(w) /\ sent[w] \in Requests /\ ReadTo(sent[w], text[w], fields[w], from[w][2])
  BY <1>1, <1>4 DEF JobInv, InParse, Parsing, HasText, At
<1>7. PICK n, found : n = from[w][2] /\ found = Strtok(text[w], n, Comma)
  OBVIOUS
<1>8. /\ text' = [text EXCEPT ![w] = found.text]
      /\ position' = <<w, found.next>>
      /\ token' = [token EXCEPT ![w] = IF found.token = 0 THEN NoPlace ELSE <<w, found.token>>]
  <2>1. ScanAlive(w, w, found)
    BY <1>4, <1>5, <1>7 DEF Scan, Delimiter
  <2>2. QED
    BY <2>1 DEF ScanAlive
<1>9. /\ text'[w] = found.text /\ position'[2] = found.next
      /\ token'[w] = IF found.token = 0 THEN NoPlace ELSE <<w, found.token>>
  BY <1>8 DEF TypeOK
<1>10. \/ found.token = 0 /\ fields[w] = FieldsOf(sent[w])
       \/ /\ found.token = n /\ n # 0
          /\ ReadTo(sent[w], found.text, Append(fields[w], StringAt(found.text, n)), found.next)
  <2>1. /\ sent[w] \in Requests /\ text[w] \in Seq(Symbols) /\ fields[w] \in Seq(Seq(Symbols))
        /\ ReadTo(sent[w], text[w], fields[w], n)
    BY <1>6, <1>7 DEF TypeOK
  <2>2. QED
    BY <1>7, <2>1, ParseGoesOn
<1>11. CASE found.token = 0 /\ fields[w] = FieldsOf(sent[w])
  BY <1>9, <1>11
<1>12. CASE /\ found.token = n /\ n # 0
            /\ ReadTo(sent[w], found.text, Append(fields[w], StringAt(found.text, n)), found.next)
  <2>1. token'[w] = <<w, n>> /\ token'[w][2] = n
    BY <1>9, <1>12
  <2>2. token'[w] # NoPlace
    BY <2>1, PlaceFacts DEF NoPlace
  <2>3. QED
    BY <1>9, <1>12, <2>1, <2>2
<1>13. QED
  BY <1>10, <1>11, <1>12

(***************************************************************************)
(* A step of another worker.                                               *)
(***************************************************************************)
LEMMA OthersParse ==
  ASSUME TypeOK, TypeOK', PlaceInv, CommandInv, QuietInv, NEW w \in Workers,
         \/ OpeningStep(w) \/ CallStep(w) \/ Scan(w) \/ TokenStep(w) \/ DropStep(w)
         \/ SaveStep(w) /\ ~AllDead',
         NEW v \in Workers, v # w, InParse(v)
  PROVE  InParse(v)'
<1>1. /\ pc'[v] = pc[v] /\ job'[v] = job[v] /\ fields'[v] = fields[v] /\ sent'[v] = sent[v]
      /\ Unshared(v) => Unshared(v)' /\ text'[v] = text[v]
      /\ from[v][1] = v => from'[v] = from[v]
      /\ token[v][1] # w => token'[v] = token[v]
      /\ Scan(w) \/ (text'[v] = text[v] /\ (position[1] = v => position' = position))
  BY OthersFrame
<1>2. disturbed \subseteq disturbed' \cup {w}
  BY PathFrame
<1>3. ub => ub'
  BY UbStays
<1>4. SUFFICES ASSUME Parsing(v)' PROVE InParse(v)'
  BY DEF InParse
<1>5. Parsing(v)
  BY <1>1, <1>4 DEF Parsing, HasText
<1>6. At(v, "begin")' => (text[v] = SerializeRequest(sent[v]) /\ fields[v] = <<>>)'
  <2>1. SUFFICES ASSUME At(v, "begin") PROVE (text[v] = SerializeRequest(sent[v]) /\ fields[v] = <<>>)'
    BY <1>1 DEF At
  <2>2. text[v] = SerializeRequest(sent[v]) /\ fields[v] = <<>>
    BY <1>5, <2>1 DEF InParse
  <2>3. Unshared(v)
    BY <1>5, <2>1, <2>2 DEF CommandInv, FirstField, At
  <2>4. QED
    BY <1>1, <2>2, <2>3
<1>7. ASSUME Quiet(v)', ~ub', ~At(v, "begin")'
      PROVE  /\ At(v, "scan")' => ReadTo(sent[v], text[v], fields[v], from[v][2])'
             /\ At(v, "next")' => ReadTo(sent[v], text[v], fields[v], position[2])'
             /\ At(v, "use")' =>
                  IF token'[v] = NoPlace THEN fields'[v] = FieldsOf(sent'[v])
                  ELSE ReadTo(sent'[v], text'[v],
                              Append(fields'[v], StringAt(text'[v], token'[v][2])), position'[2])
  <2>1. Looping(v)
    BY <1>1, <1>4, <1>7 DEF Looping, Parsing, HasText, At
  <2>2. ~Scan(w)
    BY <1>7, <2>1 DEF Scan, Quiet
  <2>3. Quiet(v) /\ ~ub
    BY <1>2, <1>3, <1>7 DEF Quiet
  <2>4. text'[v] = text[v] /\ (position[1] = v => position' = position)
    BY <1>1, <2>2
  <2>5. CASE At(v, "scan")'
    <3>1. from[v][1] = v
      BY <1>1, <2>3, <2>5 DEF QuietInv, At
    <3>2. from'[v] = from[v] /\ ReadTo(sent[v], text[v], fields[v], from[v][2])
      BY <1>1, <1>5, <2>3, <2>5, <3>1 DEF InParse, At
    <3>3. QED
      BY <1>1, <2>4, <2>5, <3>2 DEF At
  <2>6. CASE At(v, "next")'
    <3>1. position' = position
      BY <1>1, <2>3, <2>4, <2>6 DEF QuietInv, At
    <3>2. ReadTo(sent[v], text[v], fields[v], position[2])
      BY <1>1, <1>5, <2>3, <2>6 DEF InParse, At
    <3>3. QED
      BY <1>1, <2>4, <2>6, <3>1, <3>2 DEF At
  <2>7. CASE At(v, "use")'
    <3>1. position' = position /\ (token[v] = NoPlace \/ token[v][1] = v)
      BY <1>1, <2>3, <2>4, <2>7 DEF QuietInv, At
    <3>2. NoPlace[1] # w
      BY PlaceFacts DEF NoPlace
    <3>3. token'[v] = token[v]
      BY <1>1, <3>1, <3>2
    <3>4. IF token[v] = NoPlace THEN fields[v] = FieldsOf(sent[v])
          ELSE ReadTo(sent[v], text[v],
                      Append(fields[v], StringAt(text[v], token[v][2])), position[2])
      BY <1>1, <1>5, <2>3, <2>7 DEF InParse, At
    <3>5. QED
      BY <1>1, <2>4, <2>7, <3>1, <3>3, <3>4 DEF At
  <2>8. QED
    BY <2>5, <2>6, <2>7
<1>8. QED
  BY <1>6, <1>7 DEF InParse, At

LEMMA FieldsKept ==
  ASSUME PlainPaths, ParserInv, FieldsInv, NEW w \in Workers, ReceiveRequest(w) \/ Step(w)
  PROVE  FieldsInv'
<1>1. ~AllDead
  BY TheDeadStayDead
<1>2. /\ TypeOK /\ PlaceInv /\ JobInv /\ QuietInv /\ CommandInv
      /\ \A v \in Workers : InParse(v)
  BY <1>1 DEF ParserInv, FieldsInv
<1>3. TypeOK'
  BY StepKeeps DEF ParserInv
<1>4. CASE AllDead'
  BY <1>4 DEF FieldsInv
<1>5. CASE ~AllDead'
  <2>1. \/ OpeningStep(w) \/ CallStep(w) \/ Scan(w) \/ TokenStep(w) \/ DropStep(w)
        \/ SaveStep(w) /\ ~AllDead'
    BY <1>5, StepKinds
  <2>2. CASE DropStep(w)
    <3>1. pc'[w] \in {"lock", "done", "save", "version"}
      BY <1>2, <2>2, DropFrame
    <3>2. InParse(w)'
      BY <3>1 DEF InParse, Parsing, HasText
    <3>3. QED
      BY <1>2, <1>3, <2>1, <3>2, OthersParse DEF FieldsInv
  <2>3. CASE SaveStep(w) /\ ~AllDead'
    <3>1. pc'[w] \in {"look", "store", "remove", "stuck", "done"}
      BY <1>2, <2>3, SaveFrame DEF AllDead, At
    <3>2. InParse(w)'
      BY <3>1 DEF InParse, Parsing, HasText
    <3>3. QED
      BY <1>2, <1>3, <2>1, <3>2, OthersParse DEF FieldsInv
  <2>4. CASE OpeningStep(w) \/ CallStep(w) \/ Scan(w) \/ TokenStep(w)
    <3>1. InParse(w)'
      BY <1>2, <1>3, <2>4, OwnOpeningParse, OwnCallParse, OwnScanParse, OwnTokenParse
    <3>2. QED
      BY <1>2, <1>3, <2>1, <3>1, OthersParse DEF FieldsInv
  <2>5. QED
    BY <2>1, <2>2, <2>3, <2>4
<1>6. QED
  BY <1>4, <1>5

LEMMA FieldsStutter ==
  ASSUME FieldsInv, UNCHANGED vars
  PROVE  FieldsInv'
<1>1. UNCHANGED <<pc, job, position, text, from, token, fields, sent, disturbed, ub>>
  BY DEF vars, texts, results, tree
<1>2. AllDead' <=> AllDead
  BY <1>1 DEF AllDead, At
<1>3. ASSUME NEW w \in Workers PROVE InParse(w)' <=> InParse(w)
  BY <1>1 DEF InParse, Parsing, HasText, Quiet, At
<1>4. QED
  BY <1>2, <1>3 DEF FieldsInv

(***************************************************************************)
(* A parse that no call of another thread came into gives the request that *)
(* was sent, for any number of workers and any requests whose paths have   *)
(* no commas, whatever the other threads do meanwhile                      *)
(* (protocol.c:120-142).                                                   *)
(***************************************************************************)
THEOREM UndisturbedParsesAgree ==
  ASSUME PlainPaths
  PROVE  Spec => []UndisturbedParse
<1>1. Init => FieldsInv
  BY DEF Init, FieldsInv, InParse, Parsing, HasText
<1>2. ParserInv /\ FieldsInv /\ [Next]_vars => FieldsInv'
  BY FieldsKept, FieldsStutter DEF Next, Finished
<1>3. ParserInv /\ FieldsInv => UndisturbedParse
  <2>1. SUFFICES ASSUME ParserInv, FieldsInv, NEW w \in Workers, FieldsRead(w),
                        w \notin disturbed, ~ub
                 PROVE  Result(w) = sent[w]
    BY DEF UndisturbedParse
  <2>2. At(w, "use") /\ job[w] = 1 /\ (token[w] = NoPlace \/ Len(fields[w]) = 3)
    BY <2>1 DEF FieldsRead
  <2>3. ~AllDead
    BY <2>2 DEF AllDead, At
  <2>4. TypeOK /\ JobInv /\ InParse(w) /\ Parsing(w) /\ Quiet(w)
    BY <2>1, <2>2, <2>3 DEF ParserInv, FieldsInv, Parsing, HasText, Quiet, At
  <2>5. sent[w] \in Requests
    BY <2>4 DEF JobInv
  <2>6. token[w] = NoPlace
    <3>1. SUFFICES ASSUME token[w] # NoPlace PROVE FALSE
      OBVIOUS
    <3>2. Len(Append(fields[w], StringAt(text[w], token[w][2]))) \in 0 .. 3
      BY <2>1, <2>2, <2>4, <3>1 DEF InParse, ReadTo
    <3>3. PlaceInv /\ token[w][1] = w
      BY <2>1, <2>2, <2>3, <2>4, <3>1 DEF ParserInv, QuietInv, At
    <3>4. StringAt(text[w], token[w][2]) \in Strings(w)
      BY <3>3, PlaceFacts DEF Strings, Alive
    <3>5. PICK str : str = StringAt(text[w], token[w][2])
      OBVIOUS
    <3>6. str \in Seq(Symbols)
      BY <2>4, <3>3, <3>4, <3>5, TokenStrings
    <3>7. PICK f : f = fields[w]
      OBVIOUS
    <3>8. f \in Seq(Seq(Symbols)) /\ Len(f) = 3
      BY <2>2, <2>4, <3>1, <3>7 DEF TypeOK
    <3>9. Len(Append(f, str)) = Len(f) + 1
      BY <3>6, <3>8, AppendProperties
    <3>10. QED
      BY <3>2, <3>5, <3>7, <3>8, <3>9
  <2>7. fields[w] = FieldsOf(sent[w])
    BY <2>1, <2>2, <2>4, <2>6 DEF InParse
  <2>8. PICK r \in Requests : r = sent[w]
    BY <2>5
  <2>9. /\ r.command \in ToSet(COMMAND_STRINGS) /\ r.remote_path # <<>>
        /\ r.data_len \in Nat /\ r.data_len < 10^MaxDigits
        /\ r = [command |-> r.command, remote_path |-> r.remote_path, data_len |-> r.data_len]
    BY ParserAssumption
  <2>10. /\ Len(fields[w]) = 3 /\ fields[w][1] = <<r.command>>
         /\ fields[w][2] = Numeral(r.data_len) /\ fields[w][3] = r.remote_path
    BY <2>7, <2>8 DEF FieldsOf
  <2>11. StrToCommandType(<<r.command>>) = r.command /\ r.command # UNKNOWN
    BY <2>9, CommandNames
  <2>12. StrToL(Numeral(r.data_len)) = r.data_len
    BY <2>9, NumeralReadBack
  <2>13. Result(w) = CreateRequestFromParts(r.command, r.remote_path, r.data_len)
    BY <2>10, <2>11, <2>12 DEF Result, RequestOf
  <2>14. Result(w) = r
    BY <2>9, <2>11, <2>13 DEF CreateRequestFromParts
  <2>15. QED
    BY <2>8, <2>14
<1>4. QED
  BY <1>1, <1>2, <1>3, Invariance, PTL DEF Spec
=============================================================================
