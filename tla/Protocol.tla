------------------------------- MODULE Protocol -------------------------------
(***************************************************************************)
(* protocol.c and the commands of command.c: requests and responses, the   *)
(* texts they travel as, and strtok, which takes the texts apart.          *)
(***************************************************************************)
EXTENDS Integers, Sequences, SequencesExt

Comma == ","
NUL == "NUL"

COMMAND_STRINGS == <<"WRITE", "GET", "RM", "LS">>
UNKNOWN == "UNKNOWN"
Digits == <<"0", "1", "2", "3", "4", "5", "6", "7", "8", "9">>

MaxDigits == 9      \* bound: data lengths have at most so many digits

-----------------------------------------------------------------------------
(* Numbers in texts *)

DigitCount(n) == CHOOSE k \in 1 .. MaxDigits : n < 10^k /\ (k = 1 \/ n >= 10^(k - 1))

\* sprintf's %ld
Numeral(n) ==
  [i \in 1 .. DigitCount(n) |-> Digits[((n \div 10^(DigitCount(n) - i)) % 10) + 1]]

\* The number digits stand for, the first the highest.
DigitValue(s) == CHOOSE v \in 0 .. 9 : Digits[v + 1] = s
DigitsValue(digits) ==
  LET value[i \in 0 .. Len(digits)] ==
        IF i = 0 THEN 0 ELSE 10 * value[i - 1] + DigitValue(digits[i])
  IN value[Len(digits)]

\* strtol: the digits the text begins with; 0 when there are none.
StrToL(str) ==
  LET other == SelectInSeq(str, LAMBDA s : s \notin ToSet(Digits))
  IN DigitsValue(IF other = 0 THEN str ELSE SubSeq(str, 1, other - 1))

\* ceil(log10(n)), the length serializeRequest and serializeResponse count with
CeilLog10(n) == CHOOSE k \in 0 .. MaxDigits : n <= 10^k /\ (k = 0 \/ n > 10^(k - 1))

CountedDigits(n) == IF n = 0 THEN 1 ELSE CeilLog10(n)

\* A command is named by its string, or by its place in the enumeration.
StrToCommandType(str) ==
  LET named == {i \in 1 .. 4 : str \in {<<COMMAND_STRINGS[i]>>, <<Digits[i]>>}}
  IN IF named = {} THEN UNKNOWN ELSE COMMAND_STRINGS[CHOOSE i \in named : TRUE]

-----------------------------------------------------------------------------
(* strtok *)

CharAt(text, i) == IF i \in 1 .. Len(text) THEN text[i] ELSE NUL
FirstFrom(text, from, Test(_)) ==
  CHOOSE i \in from .. Len(text) + 1 :
    Test(CharAt(text, i)) /\ \A j \in from .. i - 1 : ~Test(CharAt(text, j))

(***************************************************************************)
(* One call that starts at from: where the token begins, 0 for NULL; where *)
(* the next call will start; and the text, in which a NUL ends the token.  *)
(***************************************************************************)
Strtok(text, from, delim) ==
  LET start == FirstFrom(text, from, LAMBDA c : c # delim)
      end == FirstFrom(text, start, LAMBDA c : c \in {delim, NUL})
  IN IF CharAt(text, start) = NUL THEN [token |-> 0, next |-> start, text |-> text]
     ELSE IF CharAt(text, end) = NUL THEN [token |-> start, next |-> end, text |-> text]
     ELSE [token |-> start, next |-> end + 1, text |-> [text EXCEPT ![end] = NUL]]

\* The string a token points to.
StringAt(text, start) ==
  SubSeq(text, start, FirstFrom(text, start, LAMBDA c : c = NUL) - 1)

\* What the calls of one loop return: the runs of symbols between delimiters.
Fields(text, delim) ==
  LET Starts == {i \in 1 .. Len(text) : text[i] # delim /\ CharAt(text, i - 1) \in {delim, NUL}}
      First(k) == CHOOSE i \in Starts : Cardinality({j \in Starts : j <= i}) = k
      End(i) == FirstFrom(text, i, LAMBDA c : c \in {delim, NUL})
  IN [k \in 1 .. Cardinality(Starts) |-> SubSeq(text, First(k), End(First(k)) - 1)]

-----------------------------------------------------------------------------
(* Requests *)

NoRequest == [command |-> UNKNOWN, remote_path |-> <<>>, data_len |-> 0]

CreateRequestFromParts(type, path, data_length) ==
  IF type = UNKNOWN \/ path = <<>> \/ data_length < 0 THEN NoRequest
  ELSE [command |-> type, remote_path |-> path, data_len |-> data_length]

SerializeRequest(req) ==
  <<req.command, Comma>> \o Numeral(req.data_len) \o <<Comma>> \o req.remote_path

\* Faulty variant: the third field is whatever follows the second comma but one.
RequestOfReversed(fields) ==
  IF Len(fields) < 3 THEN NoRequest
  ELSE CreateRequestFromParts(StrToCommandType(fields[1]), fields[Len(fields)], StrToL(fields[2]))

\* Faulty variant: nobody counts the fields.
RequestOfUnchecked(fields) ==
  LET Field(i) == IF i \in DOMAIN fields THEN fields[i] ELSE <<>>
  IN [command |-> StrToCommandType(Field(1)), remote_path |-> Field(3),
      data_len |-> StrToL(Field(2))]

\* What deSerializeRequest makes of the fields it found; a fourth is not looked at.
RequestOf(fields) ==
  IF Len(fields) < 3 THEN NoRequest
  ELSE CreateRequestFromParts(StrToCommandType(fields[1]), fields[3], StrToL(fields[2]))

DeSerializeRequest(buffer) == RequestOf(Fields(buffer, Comma))

-----------------------------------------------------------------------------
(* Responses *)

NoResponse == [status |-> FALSE, message |-> <<>>, data_len |-> 0]

\* Faulty variant: an empty message stays empty.
CreateResponseAsIs(success, message, size) ==
  IF size < 0 THEN NoResponse
  ELSE [status |-> success, message |-> message, data_len |-> size]

CreateResponse(success, message, size) ==
  IF size < 0 THEN NoResponse
  ELSE [status |-> success, data_len |-> size,
        message |-> IF message = <<>> THEN <<"NULL">> ELSE message]

SerializeResponse(res) ==
  <<IF res.status THEN "1" ELSE "0", Comma>> \o Numeral(res.data_len) \o <<Comma>> \o res.message

\* More than three fields are warned about and not looked at.
DeSerializeResponse(buffer) ==
  LET fields == Fields(buffer, Comma)
  IN IF Len(fields) < 3 \/ fields[1] \notin {<<"0">>, <<"1">>} THEN NoResponse
     ELSE CreateResponse(fields[1] = <<"1">>, fields[3], StrToL(fields[2]))
=============================================================================
