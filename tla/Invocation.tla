------------------------------ MODULE Invocation ------------------------------
(***************************************************************************)
(* The values of one run of the client program: from its arguments         *)
(* (client/arg_parser.c, command.c) to the request the server reads, and   *)
(* from the server's answer to the response the client reads.  Everything  *)
(* arrives whole here, and no other thread parses; Session and             *)
(* RequestParser say what happens otherwise.                               *)
(***************************************************************************)
EXTENDS Protocol, Paths

CONSTANTS
  Invocations,  \* the arguments after the program's name: sequences of texts
  Sizes         \* what getFileSize may return: -1 for a file it cannot open

\* C's NULL, which getPathArg returns for a flag that is not there.
Null == <<"(null)">>

\* No argument is NULL, and none has a NUL in it.
ASSUME InvocationAssumption ==
  /\ Invocations \subseteq Seq(Seq(STRING))
  /\ \A args \in Invocations : \A i \in DOMAIN args : args[i] # Null /\ NUL \notin ToSet(args[i])
  /\ Sizes \subseteq Nat \cup {0 - 1}
  /\ \A size \in Sizes : size < 10^MaxDigits

VARIABLES
  pc,        \* where the exchange is
  argv,      \* the arguments
  command,   \* what argParser returned
  request,   \* what createRequest returned
  line,      \* the text on its way
  received,  \* what the server's deSerializeRequest returned
  response,  \* what the server's createResponse returned
  shown      \* what the client's deSerializeResponse returned

vars == <<pc, argv, command, request, line, received, response, shown>>

NoCommand == [c_type |-> UNKNOWN, server_ip |-> <<>>, local_path |-> <<>>, remote_path |-> <<>>]

Init ==
  /\ pc = "arguments"
  /\ argv \in Invocations
  /\ command = NoCommand
  /\ request = NoRequest
  /\ line = <<>>
  /\ received = NoRequest
  /\ response = NoResponse
  /\ shown = NoResponse

-----------------------------------------------------------------------------
(* arg_parser.c *)

Dash == "-"
REMOTE_FLAG == <<Dash, Dash, "remote">>
LOCAL_FLAG == <<Dash, Dash, "local">>
SERVER_FLAG == <<Dash, Dash, "server">>
Flags == {REMOTE_FLAG, LOCAL_FLAG, SERVER_FLAG}
DEFAULT_IP == <<"127.0.0.1">>

GetCommandType(args) == IF args = <<>> THEN UNKNOWN ELSE StrToCommandType(args[1])

\* Faulty variant: the search begins one argument too late.
PlacesButFirst(args, flag) == {i \in 3 .. Len(args) : args[i] = flag}

Places(args, flag) == {i \in DOMAIN args : args[i] = flag}
ValueAt(args, flag) == Min(Places(args, flag)) + 1

\* The flag is last, or another flag follows: the program exits.
Misused(args, flag) ==
  /\ Places(args, flag) # {}
  /\ ValueAt(args, flag) <= Len(args) => CharAt(args[ValueAt(args, flag)], 1) = Dash

GetPathArg(args, flag) ==
  IF Places(args, flag) = {} THEN Null ELSE args[ValueAt(args, flag)]

\* Faulty variant: only the remote path is looked for.
LacksRemote(args, type) == GetPathArg(args, REMOTE_FLAG) = Null

LacksPath(args, type) ==
  GetPathArg(args, IF type = "WRITE" THEN LOCAL_FLAG ELSE REMOTE_FLAG) = Null

Exits(args) ==
  \/ GetCommandType(args) = UNKNOWN
  \/ \E flag \in Flags : Misused(args, flag)
  \/ LacksPath(args, GetCommandType(args))

Or(value, default) == IF value = Null THEN default ELSE value

CreateCommandStruct(type, ip_address, local, remote) ==
  [c_type |-> type, server_ip |-> ip_address,
   local_path |-> FormatPath(local), remote_path |-> FormatPath(remote)]

(***************************************************************************)
(* NoCommand when the program exits.  Each path is the default of the      *)
(* other, where one may be left out; RM and LS have no local path.         *)
(***************************************************************************)
ArgParser(args) ==
  LET type == GetCommandType(args)
      local == GetPathArg(args, LOCAL_FLAG)
      remote == GetPathArg(args, REMOTE_FLAG)
  IN IF Exits(args) THEN NoCommand
     ELSE CreateCommandStruct(type, Or(GetPathArg(args, SERVER_FLAG), DEFAULT_IP),
            CASE type = "WRITE" -> local [] type = "GET" -> Or(local, remote) [] OTHER -> <<>>,
            IF type = "WRITE" THEN Or(remote, local) ELSE remote)

ParseArguments ==
  /\ pc = "arguments"
  /\ command' = ArgParser(argv)
  /\ pc' = IF command' = NoCommand THEN "exited" ELSE "request"
  /\ UNCHANGED <<argv, request, line, received, response, shown>>

-----------------------------------------------------------------------------
(* client.c and protocol.c *)

\* Only an upload has data, and only a file that can be opened is uploaded.
SendRequest ==
  /\ pc = "request"
  /\ \E size \in IF command.c_type = "WRITE" THEN Sizes \cap Nat ELSE {0} :
       request' = [command |-> command.c_type, remote_path |-> command.remote_path,
                   data_len |-> size]
  /\ line' = SerializeRequest(request')
  /\ pc' = "server"
  /\ UNCHANGED <<argv, command, received, response, shown>>

ExitOnRequest ==
  /\ pc = "request"
  /\ command.c_type = "WRITE"
  /\ Sizes \ Nat # {}
  /\ pc' = "exited"
  /\ UNCHANGED <<argv, command, request, line, received, response, shown>>

ReceiveRequest ==
  /\ pc = "server"
  /\ received' = DeSerializeRequest(line)
  /\ pc' = "answer"
  /\ UNCHANGED <<argv, command, request, line, response, shown>>

(***************************************************************************)
(* The messages and lengths of the handlers: a WRITE has no message, only  *)
(* a GET has a length.                                                     *)
(***************************************************************************)
Failure == <<"unable">>
Answers(type) ==
  CASE type = "WRITE" -> {CreateResponse(success, <<>>, 0) : success \in BOOLEAN}
    [] type = "GET" -> {CreateResponse(TRUE, <<"OK">>, size) : size \in Sizes \cap Nat}
                         \cup {CreateResponse(FALSE, Failure, 0)}
    [] type = "RM" -> {CreateResponse(TRUE, <<"OK">>, 0), CreateResponse(FALSE, Failure, 0)}
    [] OTHER -> {CreateResponse(FALSE, Failure, 0)}

Respond ==
  /\ pc = "answer"
  /\ response' \in Answers(received.command)
  /\ line' = SerializeResponse(response')
  /\ pc' = "client"
  /\ UNCHANGED <<argv, command, request, received, shown>>

ReceiveResponse ==
  /\ pc = "client"
  /\ shown' = DeSerializeResponse(line)
  /\ pc' = "exited"
  /\ UNCHANGED <<argv, command, request, line, received, response>>

Over == pc = "exited" /\ UNCHANGED vars

Next ==
  \/ ParseArguments \/ SendRequest \/ ExitOnRequest
  \/ ReceiveRequest \/ Respond \/ ReceiveResponse
  \/ Over

Spec == Init /\ [][Next]_vars

-----------------------------------------------------------------------------
Arguments == ToSet(argv)
Types == ToSet(COMMAND_STRINGS)
Symbols ==
  ToSet(COMMAND_STRINGS) \cup ToSet(Digits) \cup ToSet(Failure)
    \cup {Comma, Slash, "data", "OK", "NULL"}
    \cup UNION {ToSet(arg) : arg \in UNION {ToSet(args) : args \in Invocations}}

(***************************************************************************)
(* The variables hold what the code's variables can hold; the paths of a   *)
(* command are arguments, in the folder of all files                       *)
(* (arg_parser.c:98-113, command.c:71-72).                                 *)
(***************************************************************************)
TypeOK ==
  /\ pc \in {"arguments", "request", "server", "answer", "client", "exited"}
  /\ argv \in Seq(Seq(Symbols))
  /\ \/ command = NoCommand
     \/ /\ command.c_type \in Types
        /\ command.server_ip \in Arguments \cup {DEFAULT_IP}
        /\ command.remote_path \in {FormatPath(a) : a \in Arguments}
        /\ command.local_path \in {FormatPath(a) : a \in Arguments \cup {<<>>}}
  /\ \A r \in {request, received} : r # NoRequest => r.command \in Types /\ r.data_len \in Nat
  /\ \A r \in {response, shown} : r.status \in BOOLEAN /\ r.data_len \in Nat
  /\ line \in Seq(Symbols)

(***************************************************************************)
(* Arguments as the usage text wants them: a command, then flags, each     *)
(* with a value and none twice, in any order.                              *)
(***************************************************************************)
FlagPlaces == {i \in DOMAIN argv : i % 2 = 0}
WellFormed ==
  /\ Len(argv) % 2 = 1
  /\ GetCommandType(argv) # UNKNOWN
  /\ \A i \in FlagPlaces :
       /\ argv[i] \in Flags /\ CharAt(argv[i + 1], 1) # Dash
       /\ \A j \in FlagPlaces : argv[i] = argv[j] => i = j
ValueOf(flag) == argv[(CHOOSE i \in FlagPlaces : argv[i] = flag) + 1]
Given(flag) == \E i \in FlagPlaces : argv[i] = flag
GivenOr(flag, default) == IF Given(flag) THEN ValueOf(flag) ELSE default

(***************************************************************************)
(* Well-formed arguments mean what the usage text says, whatever their     *)
(* order: arg_parser.c:26-28, "required for WRITE, optional for GET",      *)
(* "required for GET/RM/LS, optional for WRITE".                           *)
(***************************************************************************)
ParsedByUsage ==
  pc # "arguments" /\ WellFormed =>
    LET type == GetCommandType(argv)
        required == IF type = "WRITE" THEN LOCAL_FLAG ELSE REMOTE_FLAG
    IN IF ~Given(required) THEN command = NoCommand
       ELSE /\ command.c_type = type
            /\ command.server_ip = GivenOr(SERVER_FLAG, DEFAULT_IP)
            /\ command.remote_path = FormatPath(GivenOr(REMOTE_FLAG, ValueOf(required)))
            /\ type \in {"WRITE", "GET"} =>
                 command.local_path = FormatPath(GivenOr(LOCAL_FLAG, ValueOf(required)))

UpToComma(path) ==
  LET comma == SelectInSeq(path, LAMBDA s : s = Comma)
  IN IF comma = 0 THEN path ELSE SubSeq(path, 1, comma - 1)

(***************************************************************************)
(* The server reads the command and the length the client sent, and its    *)
(* path up to the first comma: a name with a comma in it is another file's *)
(* name at the server, but never a request that is refused                 *)
(* (protocol.c:19, protocol.c:121-145).                                    *)
(***************************************************************************)
RequestArrives ==
  pc \in {"answer", "client"} => received = [request EXCEPT !.remote_path = UpToComma(@)]

(***************************************************************************)
(* The client reads the response the server built: no message is so empty  *)
(* that its field gets lost (protocol.c:166-167, protocol.c:253).          *)
(***************************************************************************)
ResponseArrives == pc = "exited" /\ response # NoResponse => shown = response

RequestSpace(req) == 1 + Len(req.remote_path) + CountedDigits(req.data_len) + 3
ResponseSpace(res) == Len(res.message) + CountedDigits(res.data_len) + 4

(***************************************************************************)
(* A serialised request or response fits with its NUL in the space that is *)
(* allocated for it: protocol.c:96, "+3 for the null terminator and        *)
(* commas", protocol.c:199, "+4 for the bool status, null terminator and   *)
(* commas".                                                                *)
(***************************************************************************)
SpaceSuffices ==
  /\ pc = "server" => Len(line) + 1 <= RequestSpace(request)
  /\ pc = "client" => Len(line) + 1 <= ResponseSpace(response)

(***************************************************************************)
(* Directory and basename of the file are its path: no file is saved under *)
(* a name that another file of another directory has (utils.c:105-137).    *)
(***************************************************************************)
SplitRejoins ==
  LET path == received.remote_path
  IN received # NoRequest =>
       /\ ExtractDirectory(path) \o <<Slash>> \o ExtractBasename(path) = path
       /\ Slash \notin ToSet(ExtractBasename(path))
=============================================================================
