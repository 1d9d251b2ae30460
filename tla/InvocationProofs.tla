--------------------------- MODULE InvocationProofs ---------------------------
(***************************************************************************)
(* Proofs about Invocation, for any arguments and any sizes of files below *)
(* the bound: what argParser makes of well-formed arguments, and that      *)
(* requests and responses arrive as they were sent.                        *)
(***************************************************************************)
EXTENDS InvocationInvariant, ProtocolProofs

-----------------------------------------------------------------------------
(* Arguments *)

(***************************************************************************)
(* What texts are made of.                                                 *)
(***************************************************************************)
LEMMA SymbolFacts ==
  /\ Comma \in Symbols /\ Slash \in Symbols /\ "data" \in Symbols
  /\ \A c \in Types : c \in Symbols
  /\ \A k \in 1 .. 10 : Digits[k] \in Symbols
  /\ \A d \in ToSet(Digits) : d \in Symbols
  /\ \A m \in {<<"OK">>, Failure, <<"NULL">>} : m \in Seq(Symbols)
<1>1. \A k \in 1 .. 10 : Digits[k] \in ToSet(Digits)
  BY DEF ToSet, Digits
<1>2. ToSet(Digits) \subseteq Symbols /\ Types \subseteq Symbols
  BY DEF Symbols, Types
<1>3. {Comma, Slash, "data", "OK", "NULL"} \subseteq Symbols
  BY DEF Symbols
<1>4. "unable" \in Symbols
  <2>1. Failure = <<"unable">> /\ 1 \in DOMAIN Failure
    BY DEF Failure
  <2>2. Failure[1] \in ToSet(Failure)
    BY <2>1 DEF ToSet
  <2>3. QED
    BY <2>1, <2>2 DEF Symbols
<1>5. <<"OK">> \in Seq(Symbols) /\ <<"NULL">> \in Seq(Symbols)
  <2> HIDE DEF Symbols
  <2>1. "OK" \in Symbols /\ "NULL" \in Symbols
    BY <1>3
  <2>2. QED
    BY <2>1
<1>6. Failure \in Seq(Symbols)
  <2>1. PICK word : word = "unable"
    OBVIOUS
  <2>2. word \in Symbols /\ Failure = <<word>>
    BY <1>4, <2>1 DEF Failure
  <2>3. QED
    BY <2>2
<1>7. QED
  BY <1>1, <1>2, <1>3, <1>5, <1>6

(***************************************************************************)
(* An argument is a text without a NUL, and not NULL.                      *)
(***************************************************************************)
LEMMA ArgumentFacts ==
  ASSUME NEW args \in Invocations
  PROVE  /\ args \in Seq(Seq(Symbols))
         /\ \A i \in 1 .. Len(args) :
              /\ args[i] \in Seq(Symbols) /\ args[i] # Null
              /\ \A j \in 1 .. Len(args[i]) : args[i][j] # NUL
<1>1. args \in Seq(Seq(STRING))
  BY InvocationAssumption
<1>2. ASSUME NEW i \in 1 .. Len(args)
      PROVE  /\ args[i] \in Seq(Symbols) /\ args[i] # Null
             /\ \A j \in 1 .. Len(args[i]) : args[i][j] # NUL
  <2>1. PICK a : a = args[i]
    OBVIOUS
  <2>2. a \in Seq(STRING)
    BY <1>1, <2>1
  <2>3. args[i] # Null /\ NUL \notin ToSet(args[i])
    BY <1>1, InvocationAssumption
  <2>4. a \in ToSet(args)
    BY <2>1 DEF ToSet
  <2>5. \A j \in 1 .. Len(a) : a[j] \in ToSet(a)
    BY DEF ToSet
  <2>6. ToSet(a) \subseteq Symbols
    <3>1. a \in UNION {ToSet(x) : x \in Invocations}
      BY <2>4
    <3>2. QED
      BY <3>1 DEF Symbols
  <2>7. a = [j \in 1 .. Len(a) |-> a[j]] /\ Len(a) \in Nat
    BY <2>2
  <2>8. a \in Seq(Symbols)
    BY <2>5, <2>6, <2>7, IsASeq
  <2>9. QED
    BY <2>1, <2>3, <2>5, <2>8
<1>3. args = [i \in 1 .. Len(args) |-> args[i]] /\ Len(args) \in Nat
  BY <1>1
<1>4. args \in Seq(Seq(Symbols))
  BY <1>2, <1>3, IsASeq
<1>5. QED
  BY <1>2, <1>4

(***************************************************************************)
(* What names a command is one symbol, and no flag.                        *)
(***************************************************************************)
LEMMA CommandWords ==
  ASSUME NEW args \in Invocations, GetCommandType(args) # UNKNOWN
  PROVE  /\ GetCommandType(args) \in Types
         /\ Len(args) >= 1 /\ args[1] \notin Flags
<1>1. args # <<>> /\ GetCommandType(args) = StrToCommandType(args[1])
  BY DEF GetCommandType
<1>2. Len(args) \in Nat /\ Len(args) >= 1
  BY <1>1, InvocationAssumption
<1>3. PICK str : str = args[1]
  OBVIOUS
<1>4. PICK named : named = {i \in 1 .. 4 : str \in {<<COMMAND_STRINGS[i]>>, <<Digits[i]>>}}
  OBVIOUS
<1>5. GetCommandType(args) =
        IF named = {} THEN UNKNOWN ELSE COMMAND_STRINGS[CHOOSE i \in named : TRUE]
  BY <1>1, <1>3, <1>4 DEF StrToCommandType
<1>6. PICK n : n \in named /\ GetCommandType(args) = COMMAND_STRINGS[n]
  BY <1>5
<1>7. n \in 1 .. 4 /\ str \in {<<COMMAND_STRINGS[n]>>, <<Digits[n]>>}
  BY <1>4, <1>6
<1>8. Len(str) = 1
  BY <1>7
<1>9. \A flag \in Flags : Len(flag) = 3
  BY DEF Flags, REMOTE_FLAG, LOCAL_FLAG, SERVER_FLAG
<1>10. COMMAND_STRINGS[n] \in Types
  BY <1>7 DEF Types, ToSet, COMMAND_STRINGS
<1>11. QED
  BY <1>2, <1>3, <1>6, <1>8, <1>9, <1>10

(***************************************************************************)
(* The first place of a flag.                                              *)
(***************************************************************************)
LEMMA ValueFacts ==
  ASSUME NEW args \in Invocations, NEW flag
  PROVE  /\ Places(args, flag) = {} => GetPathArg(args, flag) = Null
         /\ Places(args, flag) # {} =>
              \E i \in Places(args, flag) :
                /\ ValueAt(args, flag) = i + 1 /\ GetPathArg(args, flag) = args[i + 1]
                /\ \A j \in Places(args, flag) : i <= j
<1>1. Places(args, flag) = {} => GetPathArg(args, flag) = Null
  BY DEF GetPathArg
<1>2. ASSUME Places(args, flag) # {}
      PROVE  \E i \in Places(args, flag) :
               /\ ValueAt(args, flag) = i + 1 /\ GetPathArg(args, flag) = args[i + 1]
               /\ \A j \in Places(args, flag) : i <= j
  <2>1. PICK S : S = Places(args, flag)
    OBVIOUS
  <2>2. S \in SUBSET Nat /\ S # {}
    BY <1>2, <2>1, InvocationAssumption DEF Places
  <2>3. PICK x \in S : \A y \in S : x <= y
    BY <2>2, LowestExists
  <2>4. PICK i : i = Min(S)
    OBVIOUS
  <2>5. i \in S /\ \A y \in S : i <= y
    BY <2>3, <2>4 DEF Min
  <2>6. QED
    BY <1>2, <2>1, <2>4, <2>5 DEF ValueAt, GetPathArg
<1>3. QED
  BY <1>1, <1>2

(***************************************************************************)
(* Where the program goes on, the value of a flag is NULL or an argument.  *)
(***************************************************************************)
LEMMA PathArgFacts ==
  ASSUME NEW args \in Invocations, NEW flag \in Flags, ~Misused(args, flag)
  PROVE  \/ Places(args, flag) = {} /\ GetPathArg(args, flag) = Null
         \/ Places(args, flag) # {} /\ GetPathArg(args, flag) \in ToSet(args) \ {Null}
<1>1. CASE Places(args, flag) = {}
  BY <1>1, ValueFacts
<1>2. CASE Places(args, flag) # {}
  <2>1. PICK i \in Places(args, flag) :
          ValueAt(args, flag) = i + 1 /\ GetPathArg(args, flag) = args[i + 1]
    BY <1>2, ValueFacts
  <2>2. i + 1 <= Len(args) /\ Len(args) \in Nat /\ i \in 1 .. Len(args)
    BY <1>2, <2>1, InvocationAssumption DEF Misused, Places
  <2>3. i + 1 \in 1 .. Len(args)
    BY <2>2
  <2>4. args[i + 1] \in ToSet(args) /\ args[i + 1] # Null
    BY <2>3, ArgumentFacts DEF ToSet
  <2>5. QED
    BY <1>2, <2>1, <2>4
<1>3. QED
  BY <1>1, <1>2

(***************************************************************************)
(* A command that is returned has a type, and its paths are arguments in   *)
(* the folder of all files; only RM and LS have no local one.              *)
(***************************************************************************)
LEMMA ParsedFacts ==
  ASSUME NEW args \in Invocations, NEW cmd, cmd = ArgParser(args), cmd # NoCommand
  PROVE  /\ cmd.c_type \in Types
         /\ cmd.server_ip \in ToSet(args) \cup {DEFAULT_IP}
         /\ cmd.remote_path \in {FormatPath(a) : a \in ToSet(args)}
         /\ cmd.local_path \in {FormatPath(a) : a \in ToSet(args) \cup {<<>>}}
<1>1. PICK type, ip, local, remote :
        /\ type = GetCommandType(args) /\ ip = GetPathArg(args, SERVER_FLAG)
        /\ local = GetPathArg(args, LOCAL_FLAG) /\ remote = GetPathArg(args, REMOTE_FLAG)
  OBVIOUS
<1>2. ~Exits(args)
  BY DEF ArgParser
<1>3. type \in Types
  BY <1>1, <1>2, CommandWords DEF Exits
<1>4. /\ ip = Null \/ ip \in ToSet(args)
      /\ local = Null \/ local \in ToSet(args)
      /\ remote = Null \/ remote \in ToSet(args)
  BY <1>1, <1>2, PathArgFacts DEF Exits, Flags
<1>5. /\ type = "WRITE" => local # Null
      /\ type # "WRITE" => remote # Null
  BY <1>1, <1>2 DEF Exits, LacksPath
<1>6. cmd = CreateCommandStruct(type, Or(ip, DEFAULT_IP),
              CASE type = "WRITE" -> local [] type = "GET" -> Or(local, remote) [] OTHER -> <<>>,
              IF type = "WRITE" THEN Or(remote, local) ELSE remote)
  BY <1>1, <1>2 DEF ArgParser
<1>7. PICK l, r :
        /\ l = CASE type = "WRITE" -> local [] type = "GET" -> Or(local, remote) [] OTHER -> <<>>
        /\ r = IF type = "WRITE" THEN Or(remote, local) ELSE remote
  OBVIOUS
<1>8. r \in ToSet(args)
  BY <1>4, <1>5, <1>7 DEF Or
<1>9. l \in ToSet(args) \cup {<<>>}
  <2>1. CASE type = "WRITE"
    BY <1>4, <1>5, <1>7, <2>1
  <2>2. CASE type = "GET"
    BY <1>4, <1>5, <1>7, <2>2 DEF Or
  <2>3. CASE type # "WRITE" /\ type # "GET"
    BY <1>7, <2>3
  <2>4. QED
    BY <2>1, <2>2, <2>3
<1>10. cmd = [c_type |-> type, server_ip |-> Or(ip, DEFAULT_IP),
              local_path |-> FormatPath(l), remote_path |-> FormatPath(r)]
  BY <1>6, <1>7 DEF CreateCommandStruct
<1>11. Or(ip, DEFAULT_IP) \in ToSet(args) \cup {DEFAULT_IP}
  BY <1>4 DEF Or
<1>12. QED
  BY <1>3, <1>8, <1>9, <1>10, <1>11

(***************************************************************************)
(* In well-formed arguments a flag is only where a flag should be, and at  *)
(* most once: its value is the argument after it.                          *)
(***************************************************************************)
LEMMA FlagFacts ==
  ASSUME argv \in Invocations, WellFormed, NEW flag \in Flags
  PROVE  /\ ~Misused(argv, flag)
         /\ Given(flag) => GetPathArg(argv, flag) = ValueOf(flag) /\ ValueOf(flag) # Null
         /\ ~Given(flag) => GetPathArg(argv, flag) = Null
<1>1. PICK n \in Nat : n = Len(argv)
  BY InvocationAssumption
<1>2. /\ DOMAIN argv = 1 .. n /\ n % 2 = 1
      /\ \A i \in 1 .. n : i % 2 = 0 =>
           /\ argv[i] \in Flags /\ CharAt(argv[i + 1], 1) # Dash
           /\ \A j \in 1 .. n : j % 2 = 0 /\ argv[i] = argv[j] => i = j
  <2>1. DOMAIN argv = 1 .. n
    BY <1>1, InvocationAssumption
  <2>2. FlagPlaces = {i \in 1 .. n : i % 2 = 0} /\ n % 2 = 1
    BY <1>1, <2>1 DEF FlagPlaces, WellFormed
  <2>3. \A i \in FlagPlaces :
          /\ argv[i] \in Flags /\ CharAt(argv[i + 1], 1) # Dash
          /\ \A j \in FlagPlaces : argv[i] = argv[j] => i = j
    BY DEF WellFormed
  <2>4. QED
    BY <2>1, <2>2, <2>3
<1>3. argv[1] \notin Flags
  BY CommandWords DEF WellFormed
<1>4. ASSUME NEW i \in 1 .. n, argv[i] \in Flags
      PROVE  i % 2 = 0
  <2>1. SUFFICES ASSUME i % 2 # 0 PROVE FALSE
    OBVIOUS
  <2>2. i # 1
    BY <1>3, <1>4
  <2>3. i - 1 \in 1 .. n /\ (i - 1) % 2 = 0 /\ (i - 1) + 1 = i
    BY <2>1, <2>2
  <2>4. CharAt(argv[i], 1) # Dash
    BY <1>2, <2>3
  <2>5. \A f \in Flags : CharAt(f, 1) = Dash
    BY DEF Flags, REMOTE_FLAG, LOCAL_FLAG, SERVER_FLAG, CharAt
  <2>6. QED
    BY <1>4, <2>4, <2>5
<1>5. Places(argv, flag) = {i \in FlagPlaces : argv[i] = flag}
  BY <1>2, <1>4 DEF Places, FlagPlaces
<1>6. CASE Given(flag)
  <2>1. PICK i \in FlagPlaces : argv[i] = flag
    BY <1>6 DEF Given
  <2>2. i \in 1 .. n /\ i % 2 = 0
    BY <1>2, <2>1 DEF FlagPlaces
  <2>3. \A j \in FlagPlaces : argv[j] = flag <=> j = i
    BY <1>2, <2>1, <2>2 DEF FlagPlaces
  <2>4. ValueOf(flag) = argv[i + 1]
    BY <2>1, <2>3 DEF ValueOf
  <2>5. Places(argv, flag) = {i}
    BY <1>5, <2>1, <2>3
  <2>6. ValueAt(argv, flag) = i + 1 /\ GetPathArg(argv, flag) = argv[i + 1]
    BY <2>5, ValueFacts
  <2>7. i + 1 \in 1 .. n
    BY <1>1, <1>2, <2>2
  <2>8. argv[i + 1] # Null
    BY <1>1, <2>7, ArgumentFacts
  <2>9. CharAt(argv[i + 1], 1) # Dash
    BY <1>2, <2>2
  <2>10. ~Misused(argv, flag)
    BY <1>1, <2>6, <2>7, <2>9 DEF Misused
  <2>11. QED
    BY <1>6, <2>4, <2>6, <2>8, <2>10
<1>7. CASE ~Given(flag)
  <2>1. Places(argv, flag) = {}
    BY <1>5, <1>7 DEF Given
  <2>2. QED
    BY <1>7, <2>1, ValueFacts DEF Misused
<1>8. QED
  BY <1>6, <1>7

(***************************************************************************)
(* What argParser makes of well-formed arguments.                          *)
(***************************************************************************)
LEMMA UsageFacts ==
  ASSUME argv \in Invocations, WellFormed, command = ArgParser(argv), NEW type, NEW required,
         type = GetCommandType(argv),
         required = IF type = "WRITE" THEN LOCAL_FLAG ELSE REMOTE_FLAG
  PROVE  IF ~Given(required) THEN command = NoCommand
         ELSE /\ command.c_type = type
              /\ command.server_ip = GivenOr(SERVER_FLAG, DEFAULT_IP)
              /\ command.remote_path = FormatPath(GivenOr(REMOTE_FLAG, ValueOf(required)))
              /\ type \in {"WRITE", "GET"} =>
                   command.local_path = FormatPath(GivenOr(LOCAL_FLAG, ValueOf(required)))
<1>1. PICK ip, local, remote :
        /\ ip = GetPathArg(argv, SERVER_FLAG)
        /\ local = GetPathArg(argv, LOCAL_FLAG) /\ remote = GetPathArg(argv, REMOTE_FLAG)
  OBVIOUS
<1>2. \A flag \in Flags :
        /\ ~Misused(argv, flag)
        /\ Given(flag) => GetPathArg(argv, flag) = ValueOf(flag) /\ ValueOf(flag) # Null
        /\ ~Given(flag) => GetPathArg(argv, flag) = Null
  BY FlagFacts
<1>3. SERVER_FLAG \in Flags /\ LOCAL_FLAG \in Flags /\ REMOTE_FLAG \in Flags /\ required \in Flags
  BY DEF Flags
<1>4. type # UNKNOWN
  BY DEF WellFormed
<1>5. GetPathArg(argv, required) = IF type = "WRITE" THEN local ELSE remote
  BY <1>1
<1>6. Exits(argv) <=> ~Given(required)
  BY <1>2, <1>3, <1>4 DEF Exits, LacksPath
<1>7. CASE ~Given(required)
  BY <1>6, <1>7 DEF ArgParser
<1>8. CASE Given(required)
  <2>1. PICK l, r :
          /\ l = CASE type = "WRITE" -> local [] type = "GET" -> Or(local, remote) [] OTHER -> <<>>
          /\ r = IF type = "WRITE" THEN Or(remote, local) ELSE remote
    OBVIOUS
  <2>2. command = [c_type |-> type, server_ip |-> Or(ip, DEFAULT_IP),
                   local_path |-> FormatPath(l), remote_path |-> FormatPath(r)]
    BY <1>1, <1>6, <1>8, <2>1 DEF ArgParser, CreateCommandStruct
  <2>3. ASSUME NEW flag \in Flags, NEW default
        PROVE  Or(GetPathArg(argv, flag), default) = GivenOr(flag, default)
    BY <1>2 DEF Or, GivenOr
  <2>4. Or(ip, DEFAULT_IP) = GivenOr(SERVER_FLAG, DEFAULT_IP)
    BY <1>1, <1>3, <2>3
  <2>5. r = GivenOr(REMOTE_FLAG, ValueOf(required))
    <3>1. CASE type = "WRITE"
      <4>1. local = ValueOf(required)
        BY <1>1, <1>2, <1>3, <1>8, <3>1
      <4>2. QED
        BY <1>1, <1>3, <2>1, <2>3, <3>1, <4>1
    <3>2. CASE type # "WRITE"
      BY <1>1, <1>2, <1>3, <1>8, <2>1, <3>2 DEF GivenOr
    <3>3. QED
      BY <3>1, <3>2
  <2>6. type \in {"WRITE", "GET"} => l = GivenOr(LOCAL_FLAG, ValueOf(required))
    <3>1. CASE type = "WRITE"
      BY <1>1, <1>2, <1>3, <1>8, <2>1, <3>1 DEF GivenOr
    <3>2. CASE type = "GET"
      <4>1. remote = ValueOf(required)
        BY <1>1, <1>2, <1>3, <1>8, <3>2
      <4>2. l = Or(local, remote)
        BY <2>1, <3>2
      <4>3. QED
        BY <1>1, <1>3, <2>3, <4>1, <4>2
    <3>3. QED
      BY <3>1, <3>2
  <2>7. QED
    BY <1>8, <2>2, <2>4, <2>5, <2>6
<1>9. QED
  BY <1>7, <1>8

-----------------------------------------------------------------------------
(* Requests *)

(***************************************************************************)
(* The path of a command is a text without a NUL, in a folder.             *)
(***************************************************************************)
IsPath(p) ==
  /\ p \in Seq(Symbols) /\ Len(p) >= 2 /\ p[1] = "data" /\ p[2] = Slash
  /\ \A i \in 1 .. Len(p) : p[i] # NUL

LEMMA FormattedPath ==
  ASSUME NEW args \in Invocations, NEW p \in {FormatPath(a) : a \in ToSet(args)}
  PROVE  IsPath(p)
<1>1. PICK a \in ToSet(args) : p = FormatPath(a)
  OBVIOUS
<1>2. a \in Seq(Symbols) /\ \A j \in 1 .. Len(a) : a[j] # NUL
  <2>1. \E i \in DOMAIN args : a = args[i]
    BY DEF ToSet
  <2>2. DOMAIN args = 1 .. Len(args)
    BY InvocationAssumption
  <2>3. QED
    BY <2>1, <2>2, ArgumentFacts
<1>3. PICK d : d = <<"data", Slash>>
  OBVIOUS
<1>4. d \in Seq(Symbols) /\ Len(d) = 2 /\ d[1] = "data" /\ d[2] = Slash
  <2> HIDE DEF Slash
  <2>1. QED
    BY <1>3, SymbolFacts
<1>5. p = d \o a
  BY <1>1, <1>3 DEF FormatPath
<1>6. /\ p \in Seq(Symbols) /\ Len(p) = Len(d) + Len(a)
      /\ \A i \in 1 .. Len(d) : p[i] = d[i]
      /\ \A i \in 1 .. Len(a) : p[Len(d) + i] = a[i]
  <2>1. a \in Seq(Symbols) /\ d \in Seq(Symbols)
    BY <1>2, <1>4
  <2>2. QED
    BY <1>5, <2>1, Joins
<1>7. PICK n \in Nat : n = Len(a)
  BY <1>2
<1>8. /\ Len(p) = 2 + n /\ p[1] = "data" /\ p[2] = Slash
      /\ \A i \in 1 .. n : p[2 + i] # NUL
  <2>1. 1 \in 1 .. 2 /\ 2 \in 1 .. 2
    OBVIOUS
  <2>2. QED
    BY <1>2, <1>4, <1>6, <1>7, <2>1
<1>9. "data" # NUL /\ Slash # NUL
  BY DEF NUL, Slash
<1>10. \A i \in 1 .. 2 + n : p[i] # NUL
  <2>1. ASSUME NEW i \in 1 .. 2 + n PROVE p[i] # NUL
    <3>1. CASE i = 1 \/ i = 2
      BY <1>8, <1>9, <3>1
    <3>2. CASE i > 2
      <4>1. i - 2 \in 1 .. n /\ 2 + (i - 2) = i
        BY <3>2
      <4>2. QED
        BY <1>8, <4>1
    <3>3. QED
      BY <3>1, <3>2
  <2>2. QED
    BY <2>1
<1>11. QED
  BY <1>6, <1>7, <1>8, <1>10 DEF IsPath

(***************************************************************************)
(* Up to its first comma a path is still one, and it ends at a delimiter.  *)
(***************************************************************************)
LEMMA CommaFacts ==
  ASSUME NEW p, IsPath(p)
  PROVE  \E e \in 3 .. Len(p) + 1 :
           /\ CharAt(p, e) \in {Comma, NUL} /\ \A j \in 1 .. e - 1 : Plain(p[j])
           /\ UpToComma(p) = SubSeq(p, 1, e - 1) /\ IsPath(UpToComma(p))
<1>1. PICK n \in Nat : n = Len(p)
  BY DEF IsPath
<1>2. /\ p \in Seq(Symbols) /\ n >= 2 /\ p[1] = "data" /\ p[2] = Slash
      /\ \A i \in 1 .. n : p[i] # NUL
  BY <1>1 DEF IsPath
<1>3. "data" # Comma /\ Slash # Comma
  BY DEF Comma, Slash
<1>4. PICK S : S = {i \in 1 .. n : p[i] = Comma}
  OBVIOUS
<1>5. \A i \in S : i \in 3 .. n /\ p[i] = Comma
  <2>1. \A i \in 1 .. n : i = 1 \/ i = 2 \/ i \in 3 .. n
    OBVIOUS
  <2>2. QED
    BY <1>2, <1>3, <1>4, <2>1
<1>6. PICK c : c = SelectInSeq(p, LAMBDA s : s = Comma)
  OBVIOUS
<1>7. c = IF S # {} THEN Min(S) ELSE 0
  BY <1>1, <1>4, <1>6 DEF SelectInSeq
<1>8. PICK e \in 3 .. n + 1 :
        /\ e = n + 1 \/ (e <= n /\ p[e] = Comma)
        /\ \A j \in 1 .. e - 1 : p[j] # Comma
        /\ c = IF e = n + 1 THEN 0 ELSE e
  <2>1. CASE S = {}
    <3>1. n + 1 \in 3 .. n + 1 /\ \A j \in 1 .. (n + 1) - 1 : j \in 1 .. n
      BY <1>2
    <3>2. QED
      BY <1>4, <1>7, <2>1, <3>1
  <2>2. CASE S # {}
    <3>1. S \in SUBSET Nat
      BY <1>4
    <3>2. PICK x \in S : \A y \in S : x <= y
      BY <2>2, <3>1, LowestExists
    <3>3. c \in S /\ \A y \in S : c <= y
      BY <1>7, <2>2, <3>2 DEF Min
    <3>4. c \in 3 .. n /\ p[c] = Comma
      BY <1>5, <3>3
    <3>5. \A j \in 1 .. c - 1 : j \in 1 .. n /\ j \notin S
      BY <3>3, <3>4
    <3>6. \A j \in 1 .. c - 1 : p[j] # Comma
      BY <1>4, <3>5
    <3>7. c \in 3 .. n + 1 /\ c <= n /\ c # n + 1
      BY <3>4
    <3>8. QED
      BY <3>4, <3>6, <3>7
  <2>3. QED
    BY <2>1, <2>2
<1>9. CharAt(p, e) \in {Comma, NUL}
  <2>1. CASE e = n + 1
    <3>1. e \notin 1 .. n
      BY <2>1
    <3>2. QED
      BY <1>1, <3>1 DEF CharAt
  <2>2. CASE e # n + 1
    <3>1. e \in 1 .. n /\ p[e] = Comma
      BY <1>8, <2>2
    <3>2. QED
      BY <1>1, <3>1 DEF CharAt
  <2>3. QED
    BY <2>1, <2>2
<1>10. \A j \in 1 .. e - 1 : Plain(p[j])
  <2>1. \A j \in 1 .. e - 1 : j \in 1 .. n
    BY <1>8
  <2>2. QED
    BY <1>2, <1>8, <2>1 DEF Plain
<1>11. PICK q : q = SubSeq(p, 1, e - 1)
  OBVIOUS
<1>12. q \in Seq(Symbols) /\ Len(q) = e - 1 /\ \A i \in 1 .. e - 1 : q[i] = p[i]
  <2>1. /\ 1 \in Int /\ e - 1 \in Int /\ 1 <= e - 1 /\ (e - 1) - 1 + 1 = e - 1
        /\ \A i \in 1 .. e - 1 : i \in 1 .. n /\ 1 + i - 1 = i
    BY <1>8
  <2>2. \A i \in 1 .. e - 1 : p[i] \in Symbols
    BY <1>1, <1>2, <2>1
  <2>3. /\ SubSeq(p, 1, e - 1) \in Seq(Symbols)
        /\ Len(SubSeq(p, 1, e - 1)) = IF 1 <= e - 1 THEN (e - 1) - 1 + 1 ELSE 0
        /\ \A i \in 1 .. (e - 1) - 1 + 1 : SubSeq(p, 1, e - 1)[i] = p[1 + i - 1]
    BY <2>1, <2>2, SubSeqProperties
  <2>4. QED
    BY <1>11, <2>1, <2>3
<1>13. UpToComma(p) = q
  <2>1. CASE e = n + 1
    <3>1. Len(q) = n /\ \A i \in 1 .. n : q[i] = p[i]
      BY <1>12, <2>1
    <3>2. q = p
      BY <1>1, <1>2, <1>12, <3>1
    <3>3. QED
      BY <1>6, <1>8, <2>1, <3>2 DEF UpToComma
  <2>2. CASE e # n + 1
    <3>1. c = e /\ c # 0
      BY <1>8, <2>2
    <3>2. UpToComma(p) = IF c = 0 THEN p ELSE SubSeq(p, 1, c - 1)
      BY <1>6 DEF UpToComma
    <3>3. QED
      BY <1>11, <3>1, <3>2
  <2>3. QED
    BY <2>1, <2>2
<1>14. IsPath(q)
  <2>1. 1 \in 1 .. e - 1 /\ 2 \in 1 .. e - 1 /\ e - 1 >= 2 /\ \A i \in 1 .. e - 1 : i \in 1 .. n
    BY <1>8
  <2>2. QED
    BY <1>2, <1>12, <2>1 DEF IsPath
<1>15. QED
  BY <1>1, <1>9, <1>10, <1>11, <1>13, <1>14

(***************************************************************************)
(* The numeral of a length is made of digits.                              *)
(***************************************************************************)
LEMMA LengthFacts ==
  ASSUME NEW n \in Lengths
  PROVE  /\ n \in Nat /\ n < 10^MaxDigits
         /\ Numeral(n) \in Seq(Symbols) /\ Len(Numeral(n)) >= 1
         /\ Len(Numeral(n)) = DigitCount(n)
         /\ \A i \in 1 .. Len(Numeral(n)) : Plain(Numeral(n)[i])
<1>1. n \in Nat /\ n < 10^MaxDigits
  <2>1. 10^MaxDigits = 1000000000
    BY DEF MaxDigits
  <2>2. QED
    BY <2>1 DEF Lengths
<1>2. PICK s : s = Numeral(n)
  OBVIOUS
<1>3. s \in Seq(ToSet(Digits)) /\ Len(s) = DigitCount(n) /\ Len(s) \in 1 .. 9
  BY <1>1, <1>2, NumeralDigits
<1>4. \A d \in ToSet(Digits) : d \in Symbols /\ Plain(d)
  <2>1. \A d \in ToSet(Digits) : \E k \in 1 .. 10 : d = Digits[k]
    BY DEF ToSet, Digits
  <2>2. QED
    BY <2>1, PlainDigits, SymbolFacts
<1>5. \A i \in 1 .. Len(s) : s[i] \in Symbols /\ Plain(s[i])
  <2> HIDE DEF Plain
  <2>1. \A i \in 1 .. Len(s) : s[i] \in ToSet(Digits)
    BY <1>3
  <2>2. QED
    BY <1>4, <2>1
<1>6. s = [i \in 1 .. Len(s) |-> s[i]] /\ Len(s) \in Nat
  BY <1>3
<1>7. s \in Seq(Symbols)
  BY <1>5, <1>6, IsASeq
<1>8. QED
  BY <1>1, <1>2, <1>3, <1>5, <1>7

(***************************************************************************)
(* A text with a word, the numeral of a length and a rest between commas:  *)
(* how long it is, and which fields are found in it.                       *)
(***************************************************************************)
ReadAs(t, word, n, rest, e) ==
  LET fields == Fields(t, Comma)
  IN /\ t \in Seq(Symbols) /\ Len(t) = DigitCount(n) + Len(rest) + 3
     /\ Len(fields) \in Nat /\ Len(fields) >= 3
     /\ fields[1] = <<word>> /\ StrToL(fields[2]) = n /\ fields[3] = SubSeq(rest, 1, e - 1)

LEMMA LineRead ==
  ASSUME NEW word \in Symbols, Plain(word), NEW n \in Lengths,
         NEW rest \in Seq(Symbols), Len(rest) >= 1,
         NEW e \in 2 .. Len(rest) + 1, CharAt(rest, e) \in {Comma, NUL},
         \A j \in 1 .. e - 1 : Plain(rest[j]),
         NEW t, t = <<word, Comma>> \o Numeral(n) \o <<Comma>> \o rest
  PROVE  ReadAs(t, word, n, rest, e)
<1>1. PICK num : num = Numeral(n)
  OBVIOUS
<1>2. /\ n \in Nat /\ n < 10^MaxDigits /\ num \in Seq(Symbols) /\ Len(num) >= 1
      /\ Len(num) = DigitCount(n) /\ \A i \in 1 .. Len(num) : Plain(num[i])
  BY <1>1, LengthFacts
<1>3. Comma \in Symbols
  BY SymbolFacts
<1>4. Laid(Symbols, t, word, num, rest)
  <2>1. num \in Seq(Symbols)
    BY <1>2
  <2>2. t = <<word, Comma>> \o num \o <<Comma>> \o rest
    BY <1>1
  <2>3. Laid(Symbols, <<word, Comma>> \o num \o <<Comma>> \o rest, word, num, rest)
    BY ONLY <1>3, <2>1, word \in Symbols, rest \in Seq(Symbols), Serialized
  <2>4. QED
    BY <2>2, <2>3
<1>5. PlainLine(Symbols, t, word, num, rest)
  <2>1. 1 \in 1 .. e - 1
    OBVIOUS
  <2>2. Plain(rest[1])
    BY <2>1
  <2>3. QED
    BY <1>2, <1>4, <2>2 DEF PlainLine
<1>6. PICK fields : fields = Fields(t, Comma)
  OBVIOUS
<1>7. /\ Len(fields) \in Nat /\ Len(fields) >= 3
      /\ fields[1] = <<word>> /\ fields[2] = num /\ fields[3] = SubSeq(rest, 1, e - 1)
  <2>1. CharAt(rest, e) \in {Comma, NUL} /\ \A j \in 1 .. e - 1 : Plain(rest[j])
    OBVIOUS
  <2>2. e \in 2 .. Len(rest) + 1
    OBVIOUS
  <2>3. FieldsAre(Fields(t, Comma), word, num, rest, e)
    BY ONLY <1>5, <2>1, <2>2, LineFields
  <2>4. QED
    BY <1>6, <2>3 DEF FieldsAre
<1>8. StrToL(num) = n
  BY <1>1, <1>2, NumeralReadBack
<1>9. t \in Seq(Symbols) /\ Len(t) = DigitCount(n) + Len(rest) + 3
  BY <1>2, <1>4 DEF Laid
<1>10. QED
  BY <1>6, <1>7, <1>8, <1>9 DEF ReadAs

(***************************************************************************)
(* What the server makes of a request: the same, with its path up to the   *)
(* first comma.                                                            *)
(***************************************************************************)
IsRequest(r) ==
  /\ r.command \in Types /\ IsPath(r.remote_path) /\ r.data_len \in Lengths
  /\ r = [command |-> r.command, remote_path |-> r.remote_path, data_len |-> r.data_len]

LEMMA RequestRead ==
  ASSUME NEW r, IsRequest(r), NEW t, t = SerializeRequest(r)
  PROVE  /\ t \in Seq(Symbols)
         /\ Len(t) = DigitCount(r.data_len) + Len(r.remote_path) + 3
         /\ DeSerializeRequest(t) = [r EXCEPT !.remote_path = UpToComma(@)]
<1>1. PICK word, n, p : word = r.command /\ n = r.data_len /\ p = r.remote_path
  OBVIOUS
<1>2. /\ word \in Types /\ n \in Lengths /\ IsPath(p)
      /\ r = [command |-> word, remote_path |-> p, data_len |-> n]
  BY <1>1 DEF IsRequest
<1>3. p \in Seq(Symbols) /\ Len(p) >= 1
  BY <1>2 DEF IsPath
<1>4. word \in Symbols /\ Plain(word) /\ StrToCommandType(<<word>>) = word /\ word # UNKNOWN
  BY <1>2, CommandNames, SymbolFacts DEF Types, Plain
<1>5. PICK e \in 3 .. Len(p) + 1 :
        /\ CharAt(p, e) \in {Comma, NUL} /\ \A j \in 1 .. e - 1 : Plain(p[j])
        /\ UpToComma(p) = SubSeq(p, 1, e - 1) /\ IsPath(UpToComma(p))
  BY <1>2, CommaFacts
<1>6. e \in 2 .. Len(p) + 1
  BY <1>3, <1>5
<1>7. t = <<word, Comma>> \o Numeral(n) \o <<Comma>> \o p
  BY <1>1 DEF SerializeRequest
<1>8. PICK fields : fields = Fields(t, Comma)
  OBVIOUS
<1>9. /\ t \in Seq(Symbols) /\ Len(t) = DigitCount(n) + Len(p) + 3
      /\ Len(fields) \in Nat /\ Len(fields) >= 3
      /\ fields[1] = <<word>> /\ StrToL(fields[2]) = n /\ fields[3] = SubSeq(p, 1, e - 1)
  <2>1. n \in Lengths /\ word \in Symbols /\ Plain(word)
    BY <1>2, <1>4
  <2>2. p \in Seq(Symbols) /\ Len(p) >= 1 /\ e \in 2 .. Len(p) + 1
    BY <1>3, <1>6
  <2>3. CharAt(p, e) \in {Comma, NUL} /\ \A j \in 1 .. e - 1 : Plain(p[j])
    BY <1>5
  <2>4. ReadAs(t, word, n, p, e)
    BY ONLY <1>7, <2>1, <2>2, <2>3, LineRead
  <2>5. QED
    BY <1>8, <2>4 DEF ReadAs
<1>10. PICK q : q = UpToComma(p)
  OBVIOUS
<1>11. fields[3] = q /\ q # <<>>
  <2>1. IsPath(q)
    BY <1>5, <1>10
  <2>2. q \in Seq(Symbols) /\ Len(q) >= 2
    BY <2>1 DEF IsPath
  <2>3. q # <<>>
    BY ONLY <2>2
  <2>4. q = SubSeq(p, 1, e - 1)
    BY <1>5, <1>10
  <2>5. fields[3] = SubSeq(p, 1, e - 1)
    BY <1>9
  <2>6. QED
    BY ONLY <2>3, <2>4, <2>5
<1>12. ~(n < 0) /\ ~(Len(fields) < 3)
  BY <1>2, <1>9, LengthFacts
<1>13. DeSerializeRequest(t) = CreateRequestFromParts(word, q, n)
  BY <1>4, <1>8, <1>9, <1>11, <1>12 DEF DeSerializeRequest, RequestOf
<1>14. DeSerializeRequest(t) = [command |-> word, remote_path |-> q, data_len |-> n]
  BY <1>4, <1>11, <1>12, <1>13 DEF CreateRequestFromParts
<1>15. [r EXCEPT !.remote_path = UpToComma(@)]
         = [command |-> word, remote_path |-> q, data_len |-> n]
  BY <1>2, <1>10
<1>16. QED
  BY <1>1, <1>9, <1>14, <1>15

(***************************************************************************)
(* What the client makes of a response: the same.                          *)
(***************************************************************************)
Messages == {<<"OK">>, Failure, <<"NULL">>}
IsResponse(r) ==
  /\ r.status \in BOOLEAN /\ r.data_len \in Lengths /\ r.message \in Messages
  /\ r = [status |-> r.status, data_len |-> r.data_len, message |-> r.message]

LEMMA MessageFacts ==
  ASSUME NEW m \in Messages
  PROVE  m \in Seq(Symbols) /\ Len(m) = 1 /\ Plain(m[1]) /\ m # <<>> /\ SubSeq(m, 1, 1) = m
<1>1. m \in Seq(Symbols)
  BY SymbolFacts DEF Messages
<1>2. PICK word \in {"OK", "unable", "NULL"} : m = <<word>>
  BY DEF Messages, Failure
<1>3. Len(m) = 1 /\ m[1] = word
  BY <1>2
<1>4. Plain(word)
  BY <1>2 DEF Plain, Comma, NUL
<1>5. SubSeq(m, 1, 1) = m
  <2>1. /\ 1 \in 1 .. Len(m) + 1 /\ 1 + Len(m) <= Len(m) + 1 /\ 1 + Len(m) - 1 = 1
        /\ \A i \in 1 .. Len(m) : m[1 + i - 1] = m[i]
    <3>1. Len(m) = 1
      BY <1>3
    <3>2. \A i \in 1 .. 1 : 1 + i - 1 = i
      OBVIOUS
    <3>3. QED
      BY <3>1, <3>2
  <2>2. SubSeq(m, 1, 1 + Len(m) - 1) = m
    BY <1>1, <2>1, PartIs
  <2>3. QED
    BY <2>1, <2>2
<1>6. m # <<>>
  BY <1>3
<1>7. QED
  BY <1>1, <1>3, <1>4, <1>5, <1>6

LEMMA ResponseRead ==
  ASSUME NEW r, IsResponse(r), NEW t, t = SerializeResponse(r)
  PROVE  /\ t \in Seq(Symbols)
         /\ Len(t) = DigitCount(r.data_len) + Len(r.message) + 3
         /\ DeSerializeResponse(t) = r
<1>1. PICK n, m, word : n = r.data_len /\ m = r.message /\ word = IF r.status THEN "1" ELSE "0"
  OBVIOUS
<1>2. /\ n \in Lengths /\ m \in Messages /\ r.status \in BOOLEAN
      /\ r = [status |-> r.status, data_len |-> n, message |-> m]
  BY <1>1 DEF IsResponse
<1>3. m \in Seq(Symbols) /\ Len(m) = 1 /\ Plain(m[1]) /\ m # <<>> /\ SubSeq(m, 1, 1) = m
  BY <1>2, MessageFacts
<1>4. word \in Symbols /\ Plain(word) /\ word \in {"0", "1"}
  <2>1. word = Digits[2] \/ word = Digits[1]
    BY <1>1 DEF Digits
  <2> HIDE DEF Plain
  <2>2. 1 \in 1 .. 10 /\ 2 \in 1 .. 10
    OBVIOUS
  <2>3. word \in Symbols /\ Plain(word)
    BY <2>1, <2>2, PlainDigits, SymbolFacts
  <2>4. QED
    BY <1>1, <2>3
<1>5. t = <<word, Comma>> \o Numeral(n) \o <<Comma>> \o m
  BY <1>1 DEF SerializeResponse
<1>6. PICK fields : fields = Fields(t, Comma)
  OBVIOUS
<1>7. /\ t \in Seq(Symbols) /\ Len(t) = DigitCount(n) + Len(m) + 3
      /\ Len(fields) \in Nat /\ Len(fields) >= 3
      /\ fields[1] = <<word>> /\ StrToL(fields[2]) = n /\ fields[3] = SubSeq(m, 1, 2 - 1)
  <2>1. n \in Lengths /\ word \in Symbols /\ Plain(word)
    BY <1>2, <1>4
  <2>2. m \in Seq(Symbols) /\ Len(m) >= 1 /\ 2 \in 2 .. Len(m) + 1
    BY <1>3
  <2>3. CharAt(m, 2) \in {Comma, NUL}
    BY <1>3 DEF CharAt
  <2>4. \A j \in 1 .. 2 - 1 : Plain(m[j])
    <3>1. \A j \in 1 .. 2 - 1 : j = 1
      OBVIOUS
    <3>2. QED
      BY <1>3, <3>1
  <2>5. ReadAs(t, word, n, m, 2)
    BY ONLY <1>5, <2>1, <2>2, <2>3, <2>4, LineRead
  <2>6. QED
    BY <1>6, <2>5 DEF ReadAs
<1>8. fields[3] = m /\ 2 - 1 = 1
  BY <1>3, <1>7
<1>9. ~(n < 0) /\ ~(Len(fields) < 3)
  BY <1>2, <1>7, LengthFacts
<1>10. fields[1] \in {<<"0">>, <<"1">>} /\ (fields[1] = <<"1">>) = r.status
  BY <1>1, <1>2, <1>4, <1>7
<1>11. DeSerializeResponse(t) = CreateResponse(r.status, m, n)
  BY <1>6, <1>7, <1>8, <1>9, <1>10 DEF DeSerializeResponse
<1>12. DeSerializeResponse(t) = [status |-> r.status, data_len |-> n, message |-> m]
  BY <1>3, <1>9, <1>11 DEF CreateResponse
<1>13. QED
  BY <1>1, <1>2, <1>7, <1>12

-----------------------------------------------------------------------------
(* The invariant *)

(***************************************************************************)
(* What the invariant says of a request that was sent, and of a response   *)
(* that was built.                                                         *)
(***************************************************************************)
LEMMA CommandFacts ==
  ASSUME CommandInv, command # NoCommand
  PROVE  /\ pc # "arguments" /\ command = ArgParser(argv)
         /\ command.c_type \in Types /\ IsPath(command.remote_path)
<1>1. argv \in Invocations /\ pc # "arguments" /\ command = ArgParser(argv)
  BY DEF CommandInv
<1>2. /\ command.c_type \in Types
      /\ command.remote_path \in {FormatPath(a) : a \in ToSet(argv)}
  BY <1>1, ParsedFacts
<1>3. QED
  BY <1>1, <1>2, FormattedPath

LEMMA SentFacts ==
  ASSUME CommandInv, Sent
  PROVE  IsRequest(request) /\ request # NoRequest
<1>1. command # NoCommand
  BY DEF Sent
<1>2. command.c_type \in Types /\ IsPath(command.remote_path)
  BY <1>1, CommandFacts
<1>3. /\ request.command = command.c_type /\ request.remote_path = command.remote_path
      /\ request.data_len \in Lengths
      /\ request = [command |-> request.command, remote_path |-> request.remote_path,
                    data_len |-> request.data_len]
  BY DEF Sent
<1>4. IsRequest(request)
  BY <1>2, <1>3 DEF IsRequest
<1>5. request.command # UNKNOWN
  BY <1>2, <1>3, CommandNames DEF Types
<1>6. QED
  BY <1>4, <1>5 DEF NoRequest

LEMMA BuiltFacts ==
  ASSUME Built
  PROVE  IsResponse(response)
  BY DEF Built, IsResponse, Messages

(***************************************************************************)
(* The answers of the handlers are responses.                              *)
(***************************************************************************)
LEMMA AnswerFacts ==
  ASSUME NEW type, NEW r \in Answers(type)
  PROVE  IsResponse(r)
<1>1. \A size \in Sizes \cap Nat : size \in Lengths
  <2>1. 10^MaxDigits \in Nat
    BY DEF MaxDigits
  <2>2. \A size \in Sizes : size < 10^MaxDigits
    BY InvocationAssumption
  <2>3. QED
    BY <2>1, <2>2 DEF Lengths
<1>2. 0 \in Lengths
  BY DEF Lengths, MaxDigits
<1>3. ASSUME NEW success \in BOOLEAN, NEW message \in {<<>>, <<"OK">>, Failure}, NEW n \in Lengths
      PROVE  IsResponse(CreateResponse(success, message, n))
  <2>1. ~(n < 0)
    BY LengthFacts
  <2>2. PICK m : m = IF message = <<>> THEN <<"NULL">> ELSE message
    OBVIOUS
  <2>3. m \in Messages
    BY <2>2 DEF Messages
  <2>4. CreateResponse(success, message, n) = [status |-> success, data_len |-> n, message |-> m]
    BY <2>1, <2>2 DEF CreateResponse
  <2>5. QED
    BY <2>3, <2>4 DEF IsResponse
<1>4. CASE type = "WRITE"
  BY <1>2, <1>3, <1>4 DEF Answers
<1>5. CASE type = "GET"
  <2>1. \/ \E size \in Sizes \cap Nat : r = CreateResponse(TRUE, <<"OK">>, size)
        \/ r = CreateResponse(FALSE, Failure, 0)
    BY <1>5 DEF Answers
  <2>2. QED
    BY <1>1, <1>2, <1>3, <2>1
<1>6. CASE type = "RM"
  BY <1>2, <1>3, <1>6 DEF Answers
<1>7. CASE type \notin {"WRITE", "GET", "RM"}
  BY <1>2, <1>3, <1>7 DEF Answers
<1>8. QED
  BY <1>4, <1>5, <1>6, <1>7

LEMMA InvocationStart == Init => InvocationInv
<1> SUFFICES ASSUME Init PROVE InvocationInv
  OBVIOUS
<1>1. CommandInv
  BY DEF Init, CommandInv
<1>2. RequestInv
  BY DEF Init, RequestInv
<1>3. ResponseInv
  BY DEF Init, ResponseInv, ResponseArrives
<1>4. LineInv
  BY DEF Init, LineInv
<1>5. QED
  BY <1>1, <1>2, <1>3, <1>4 DEF InvocationInv

(***************************************************************************)
(* The client's steps up to its request.                                   *)
(***************************************************************************)
LEMMA ParseStep ==
  ASSUME InvocationInv, ParseArguments
  PROVE  InvocationInv'
<1>1. /\ pc = "arguments" /\ argv' = argv /\ command' = ArgParser(argv)
      /\ pc' = IF command' = NoCommand THEN "exited" ELSE "request"
      /\ UNCHANGED <<request, line, received, response, shown>>
  BY DEF ParseArguments
<1>2. command = NoCommand /\ response = NoResponse /\ shown = NoResponse /\ argv \in Invocations
  BY <1>1 DEF InvocationInv, CommandInv, ResponseInv
<1>3. request = NoRequest /\ received = NoRequest
  BY <1>2 DEF InvocationInv, RequestInv, Sent
<1>4. CommandInv'
  BY <1>1, <1>2 DEF CommandInv
<1>5. RequestInv'
  BY <1>1, <1>3 DEF RequestInv
<1>6. ResponseInv'
  BY <1>1, <1>2 DEF ResponseInv, ResponseArrives
<1>7. LineInv'
  BY <1>1 DEF InvocationInv, LineInv
<1>8. QED
  BY <1>4, <1>5, <1>6, <1>7 DEF InvocationInv

LEMMA SendStep ==
  ASSUME InvocationInv, SendRequest
  PROVE  InvocationInv'
<1>1. PICK size \in IF command.c_type = "WRITE" THEN Sizes \cap Nat ELSE {0} :
        request' = [command |-> command.c_type, remote_path |-> command.remote_path,
                    data_len |-> size]
  BY DEF SendRequest
<1>2. /\ pc = "request" /\ pc' = "server" /\ line' = SerializeRequest(request')
      /\ UNCHANGED <<argv, command, received, response, shown>>
  BY DEF SendRequest
<1>3. size \in Lengths
  <2>1. 10^MaxDigits = 1000000000
    BY DEF MaxDigits
  <2>2. size \in Nat /\ size < 10^MaxDigits
    BY <1>1, <2>1, InvocationAssumption
  <2>3. QED
    BY <2>1, <2>2 DEF Lengths
<1>4. CommandInv /\ command # NoCommand
  BY <1>2 DEF InvocationInv, CommandInv
<1>5. CommandInv'
  BY <1>2, <1>4 DEF CommandInv
<1>6. Sent'
  BY <1>1, <1>2, <1>3, <1>4 DEF Sent
<1>7. received = NoRequest
  BY <1>2 DEF InvocationInv, RequestInv
<1>8. RequestInv'
  BY <1>2, <1>6, <1>7 DEF RequestInv
<1>9. ResponseInv'
  BY <1>2 DEF InvocationInv, ResponseInv, ResponseArrives, Built
<1>10. LineInv'
  <2>1. IsRequest(request)'
    <3>1. command.c_type \in Types /\ IsPath(command.remote_path)
      BY <1>4, CommandFacts
    <3>2. QED
      BY <1>1, <1>3, <3>1 DEF IsRequest
  <2>2. PICK r, t : r = request' /\ t = line'
    OBVIOUS
  <2>3. IsRequest(r) /\ t = SerializeRequest(r)
    BY <1>2, <2>1, <2>2
  <2>4. t \in Seq(Symbols)
    BY <2>3, RequestRead
  <2>5. QED
    BY <1>2, <2>2, <2>4 DEF LineInv
<1>11. QED
  BY <1>5, <1>8, <1>9, <1>10 DEF InvocationInv

LEMMA ExitStep ==
  ASSUME InvocationInv, ExitOnRequest
  PROVE  InvocationInv'
<1>1. /\ pc = "request" /\ pc' = "exited"
      /\ UNCHANGED <<argv, command, request, line, received, response, shown>>
  BY DEF ExitOnRequest
<1>2. CommandInv' /\ RequestInv' /\ LineInv'
  BY <1>1 DEF InvocationInv, CommandInv, RequestInv, LineInv, Sent, Arrived
<1>3. ResponseInv'
  BY <1>1 DEF InvocationInv, ResponseInv, ResponseArrives, Built
<1>4. QED
  BY <1>2, <1>3 DEF InvocationInv

(***************************************************************************)
(* The server's steps.                                                     *)
(***************************************************************************)
LEMMA ReceiveStep ==
  ASSUME InvocationInv, ReceiveRequest
  PROVE  InvocationInv'
<1>1. /\ pc = "server" /\ pc' = "answer" /\ received' = DeSerializeRequest(line)
      /\ UNCHANGED <<argv, command, request, line, response, shown>>
  BY DEF ReceiveRequest
<1>2. CommandInv /\ Sent /\ line = SerializeRequest(request)
  BY <1>1 DEF InvocationInv, RequestInv
<1>3. IsRequest(request)
  BY <1>2, SentFacts
<1>4. DeSerializeRequest(line) = [request EXCEPT !.remote_path = UpToComma(@)]
  <2>1. PICK r, t : r = request /\ t = line
    OBVIOUS
  <2>2. IsRequest(r) /\ t = SerializeRequest(r)
    BY <1>2, <1>3, <2>1
  <2>3. DeSerializeRequest(t) = [r EXCEPT !.remote_path = UpToComma(@)]
    BY <2>2, RequestRead
  <2>4. QED
    BY <2>1, <2>3
<1>5. Arrived' /\ Sent'
  BY <1>1, <1>2, <1>4 DEF Arrived, Sent
<1>6. RequestInv'
  BY <1>1, <1>5 DEF RequestInv
<1>7. CommandInv' /\ LineInv'
  BY <1>1 DEF InvocationInv, CommandInv, LineInv
<1>8. ResponseInv'
  BY <1>1 DEF InvocationInv, ResponseInv, ResponseArrives, Built
<1>9. QED
  BY <1>6, <1>7, <1>8 DEF InvocationInv

LEMMA RespondStep ==
  ASSUME InvocationInv, Respond
  PROVE  InvocationInv'
<1>1. /\ pc = "answer" /\ pc' = "client" /\ response' \in Answers(received.command)
      /\ line' = SerializeResponse(response')
      /\ UNCHANGED <<argv, command, request, received, shown>>
  BY DEF Respond
<1>2. PICK r, t : r = response' /\ t = line'
  OBVIOUS
<1>3. IsResponse(r) /\ t = SerializeResponse(r)
  <2>1. r \in Answers(received.command)
    BY <1>1, <1>2
  <2>2. QED
    BY <1>1, <1>2, <2>1, AnswerFacts
<1>4. t \in Seq(Symbols)
  BY <1>3, ResponseRead
<1>5. LineInv'
  BY <1>1, <1>2, <1>4 DEF LineInv
<1>6. Built'
  BY <1>2, <1>3 DEF IsResponse, Built, Messages
<1>7. response = NoResponse /\ shown = NoResponse
  BY <1>1 DEF InvocationInv, ResponseInv
<1>8. ResponseInv'
  BY <1>1, <1>6, <1>7 DEF ResponseInv, ResponseArrives
<1>9. CommandInv' /\ RequestInv'
  BY <1>1 DEF InvocationInv, CommandInv, RequestInv, Sent, Arrived
<1>10. QED
  BY <1>5, <1>8, <1>9 DEF InvocationInv

(***************************************************************************)
(* The client's last step.                                                 *)
(***************************************************************************)
LEMMA ShowStep ==
  ASSUME InvocationInv, ReceiveResponse
  PROVE  InvocationInv'
<1>1. /\ pc = "client" /\ pc' = "exited" /\ shown' = DeSerializeResponse(line)
      /\ UNCHANGED <<argv, command, request, line, received, response>>
  BY DEF ReceiveResponse
<1>2. Built /\ line = SerializeResponse(response)
  BY <1>1 DEF InvocationInv, ResponseInv
<1>3. DeSerializeResponse(line) = response
  <2>1. PICK r, t : r = response /\ t = line
    OBVIOUS
  <2>2. IsResponse(r) /\ t = SerializeResponse(r)
    BY <1>2, <2>1, BuiltFacts
  <2>3. DeSerializeResponse(t) = r
    BY <2>2, ResponseRead
  <2>4. QED
    BY <2>1, <2>3
<1>4. shown' = response /\ Built'
  BY <1>1, <1>2, <1>3 DEF Built
<1>5. ResponseInv'
  BY <1>1, <1>4 DEF ResponseInv, ResponseArrives
<1>6. CommandInv' /\ RequestInv' /\ LineInv'
  BY <1>1 DEF InvocationInv, CommandInv, RequestInv, LineInv, Sent, Arrived
<1>7. QED
  BY <1>5, <1>6 DEF InvocationInv

LEMMA InvocationStutter ==
  ASSUME InvocationInv, UNCHANGED vars
  PROVE  InvocationInv'
<1>1. UNCHANGED <<pc, argv, command, request, line, received, response, shown>>
  BY DEF vars
<1>2. CommandInv' /\ LineInv'
  BY <1>1 DEF InvocationInv, CommandInv, LineInv
<1>3. RequestInv'
  BY <1>1 DEF InvocationInv, RequestInv, Sent, Arrived
<1>4. ResponseInv'
  BY <1>1 DEF InvocationInv, ResponseInv, ResponseArrives, Built
<1>5. QED
  BY <1>2, <1>3, <1>4 DEF InvocationInv

(***************************************************************************)
(* What each variable is made from, at every moment: the invariant behind  *)
(* the theorems that follow.                                               *)
(***************************************************************************)
THEOREM ValuesAreTraced == Spec => []InvocationInv
<1>1. InvocationInv /\ [Next]_vars => InvocationInv'
  BY ParseStep, SendStep, ExitStep, ReceiveStep, RespondStep, ShowStep, InvocationStutter
     DEF Next, Over
<1>2. QED
  BY <1>1, InvocationStart, PTL DEF Spec

-----------------------------------------------------------------------------
(* What follows from it *)

(***************************************************************************)
(* The variables hold what the code's variables can hold; the paths of a   *)
(* command are arguments, in the folder of all files                       *)
(* (arg_parser.c:98-113, command.c:71-72).                                 *)
(***************************************************************************)
THEOREM TypesHold == Spec => []TypeOK
<1>1. InvocationInv => TypeOK
  <2>1. SUFFICES ASSUME InvocationInv PROVE TypeOK
    OBVIOUS
  <2>2. argv \in Invocations /\ argv \in Seq(Seq(Symbols))
    BY <2>1, ArgumentFacts DEF InvocationInv, CommandInv
  <2>3. \/ command = NoCommand
        \/ /\ command.c_type \in Types
           /\ command.server_ip \in Arguments \cup {DEFAULT_IP}
           /\ command.remote_path \in {FormatPath(a) : a \in Arguments}
           /\ command.local_path \in {FormatPath(a) : a \in Arguments \cup {<<>>}}
    <3>1. command = NoCommand \/ command = ArgParser(argv)
      BY <2>1 DEF InvocationInv, CommandInv
    <3>2. QED
      BY <2>2, <3>1, ParsedFacts DEF Arguments
  <2>4. \A r \in {request, received} : r # NoRequest => r.command \in Types /\ r.data_len \in Nat
    <3>1. Sent => request.command \in Types /\ request.data_len \in Nat
      BY <2>1, SentFacts, LengthFacts DEF InvocationInv, IsRequest
    <3>2. Sent /\ Arrived => received.command = request.command /\ received.data_len = request.data_len
      <4>1. SUFFICES ASSUME Sent, Arrived
                     PROVE  received.command = request.command /\ received.data_len = request.data_len
        OBVIOUS
      <4>2. PICK p : p = UpToComma(request.remote_path)
        OBVIOUS
      <4>3. received = [request EXCEPT !.remote_path = p]
        BY <4>1, <4>2 DEF Arrived
      <4>4. request = [command |-> command.c_type, remote_path |-> command.remote_path,
                       data_len |-> request.data_len]
        BY <4>1 DEF Sent
      <4>5. QED
        BY <4>3, <4>4
    <3>3. QED
      BY <2>1, <3>1, <3>2 DEF InvocationInv, RequestInv
  <2>5. \A r \in {response, shown} : r.status \in BOOLEAN /\ r.data_len \in Nat
    <3>1. NoResponse.status \in BOOLEAN /\ NoResponse.data_len \in Nat
      BY DEF NoResponse
    <3>2. Built => response.status \in BOOLEAN /\ response.data_len \in Nat
      BY LengthFacts DEF Built
    <3>3. QED
      BY <2>1, <3>1, <3>2 DEF InvocationInv, ResponseInv
  <2>6. pc \in {"arguments", "request", "server", "answer", "client", "exited"}
    BY <2>1 DEF InvocationInv, LineInv
  <2>7. QED
    BY <2>1, <2>2, <2>3, <2>4, <2>5, <2>6 DEF TypeOK, InvocationInv, LineInv
<1>2. QED
  BY <1>1, ValuesAreTraced, PTL

(***************************************************************************)
(* Well-formed arguments mean what the usage text says, whatever their     *)
(* order and number (arg_parser.c:26-28).                                  *)
(***************************************************************************)
THEOREM ArgumentsAreParsedByUsage == Spec => []ParsedByUsage
<1>1. InvocationInv => ParsedByUsage
  <2>1. SUFFICES ASSUME InvocationInv, pc # "arguments", WellFormed,
                        NEW type, NEW required, type = GetCommandType(argv),
                        required = IF type = "WRITE" THEN LOCAL_FLAG ELSE REMOTE_FLAG
                 PROVE  IF ~Given(required) THEN command = NoCommand
                        ELSE /\ command.c_type = type
                             /\ command.server_ip = GivenOr(SERVER_FLAG, DEFAULT_IP)
                             /\ command.remote_path
                                  = FormatPath(GivenOr(REMOTE_FLAG, ValueOf(required)))
                             /\ type \in {"WRITE", "GET"} =>
                                  command.local_path
                                    = FormatPath(GivenOr(LOCAL_FLAG, ValueOf(required)))
    BY DEF ParsedByUsage
  <2>2. argv \in Invocations /\ command = ArgParser(argv)
    BY <2>1 DEF InvocationInv, CommandInv
  <2>3. QED
    BY <2>1, <2>2, UsageFacts
<1>2. QED
  BY <1>1, ValuesAreTraced, PTL

(***************************************************************************)
(* The server reads the command and the length the client sent, and its    *)
(* path up to the first comma, whatever the path and the length of at most *)
(* MaxDigits digits (protocol.c:19, protocol.c:121-145).                   *)
(***************************************************************************)
THEOREM RequestsArrive == Spec => []RequestArrives
<1>1. InvocationInv => RequestArrives
  BY DEF InvocationInv, RequestInv, RequestArrives, Arrived
<1>2. QED
  BY <1>1, ValuesAreTraced, PTL

(***************************************************************************)
(* The client reads the response the server built                          *)
(* (protocol.c:166-167, protocol.c:253).                                   *)
(***************************************************************************)
THEOREM ResponsesArrive == Spec => []ResponseArrives
<1>1. InvocationInv => ResponseArrives
  BY DEF InvocationInv, ResponseInv
<1>2. QED
  BY <1>1, ValuesAreTraced, PTL

(***************************************************************************)
(* Directory and basename of the file the server is asked for are its      *)
(* path, however many slashes and commas it has (utils.c:105-137).         *)
(***************************************************************************)
THEOREM PathsAreRejoined == Spec => []SplitRejoins
<1>1. InvocationInv => SplitRejoins
  <2>1. SUFFICES ASSUME InvocationInv, received # NoRequest, NEW path, path = received.remote_path
                 PROVE  /\ ExtractDirectory(path) \o <<Slash>> \o ExtractBasename(path) = path
                        /\ Slash \notin ToSet(ExtractBasename(path))
    BY DEF SplitRejoins
  <2>2. Sent /\ Arrived /\ IsRequest(request)
    BY <2>1, SentFacts DEF InvocationInv, RequestInv
  <2>3. PICK p : p = request.remote_path
    OBVIOUS
  <2>4. IsPath(p) /\ IsPath(UpToComma(p))
    <3>1. IsPath(p)
      BY <2>2, <2>3 DEF IsRequest
    <3>2. QED
      BY <3>1, CommaFacts
  <2>5. path = UpToComma(p)
    BY <2>1, <2>2, <2>3 DEF Arrived, IsRequest
  <2>6. path \in Seq(Symbols) /\ \E i \in 1 .. Len(path) : path[i] = Slash
    <3>1. path \in Seq(Symbols) /\ Len(path) >= 2 /\ path[2] = Slash
      BY <2>4, <2>5 DEF IsPath
    <3>2. 2 \in 1 .. Len(path)
      BY <3>1
    <3>3. QED
      BY <3>1, <3>2
  <2>7. Slash \in Symbols
    BY SymbolFacts
  <2>8. QED
    BY <2>6, <2>7, SplitAndRejoined
<1>2. QED
  BY <1>1, ValuesAreTraced, PTL
=============================================================================
