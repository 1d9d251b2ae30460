--------------------------- MODULE SessionInvariant ---------------------------
(***************************************************************************)
(* The inductive invariants behind the properties of Session: which bytes  *)
(* are on their way to each end, and what of a file has been stored,       *)
(* downloaded or lost.                                                     *)
(***************************************************************************)
EXTENDS Session

(***************************************************************************)
(* s is what follows the first n elements of t, or the beginning of that.  *)
(***************************************************************************)
Follows(s, n, t) ==
  /\ n + Len(s) <= Len(t)
  /\ \A i \in 1 .. Len(s) : s[i] = t[n + i]

\* The bytes of the whole request, and of the whole answer to a GET.
Header == SerializeRequest(command.command, DataLen, command.path)
Payload == IF Asks("WRITE") /\ Buildable THEN local ELSE <<>>
Upload == Header \o Payload
Download == SerializeResponse(TRUE, Len(files[command.path])) \o files[command.path]

ClientLabels == {"start", "upload", "response", "download", "exit", "exited", "killed", "broken"}
ServerLabels == {"receive", "handle", "store", "send", "close", "closed", "killed", "broken"}

Silent == pc["server"] \in {"receive", "handle", "store"}  \* the server sent nothing
Expects == pc["client"] \in {"upload", "response"}         \* the client read nothing
Parsed == got.command # "none"

(***************************************************************************)
(* An end that has left reads nothing any more.                            *)
(***************************************************************************)
StatusInv ==
  \A e \in Ends : /\ Running(e) <=> status[e] = "open"
                  /\ ~Running(e) => stream[e] = <<>>

(***************************************************************************)
(* The client sends what it announced; a local file that is uploaded does  *)
(* not change.                                                             *)
(***************************************************************************)
ClientInv ==
  /\ pc["client"] \in ClientLabels
  /\ Asks("WRITE") => local \in Contents \cup {Absent}
  /\ At("client", "start") =>
       pos["client"] = 0 /\ (At("server", "receive") \/ ~Running("server"))
         /\ ~Parsed /\ stream["client"] = <<>>
  /\ At("client", "start") => stream["server"] = <<>>
  /\ Expects => Buildable
  /\ At("client", "upload") => Asks("WRITE")
  /\ pos["client"] <= Len(Payload)
  /\ At("client", "download") => Asks("GET") /\ local \in Seq(Units)

(***************************************************************************)
(* What is on its way to a server that has not read yet.                   *)
(***************************************************************************)
ArrivingInv ==
  At("server", "receive") =>
    /\ ~Parsed
    /\ Expects => stream["server"] # <<>>
    /\ stream["server"] # <<>> =>
         /\ Buildable
         /\ Len(stream["server"]) = Len(Header) + pos["client"]
         /\ Follows(stream["server"], 0, Upload)

(***************************************************************************)
(* Until the server has answered, the client has nothing to read; then the *)
(* first it reads is the answer.                                           *)
(***************************************************************************)
AnswerInv ==
  /\ Silent => /\ stream["client"] = <<>>
               /\ pc["client"] \notin {"download", "exit"}
               /\ outcome \in {"none", "failed"}
  /\ Expects /\ stream["client"] # <<>> =>
       stream["client"][1] \in [success : BOOLEAN, data_len : Nat]
  /\ At("server", "send") => ~At("client", "upload")
  /\ At("server", "send") /\ Expects => stream["client"] # <<>>

ServerInv ==
  /\ pc["server"] \in ServerLabels
  /\ Parsed => got.command = command.command
  /\ Parsed => ~At("client", "start")
  /\ At("server", "store") => got.command = "WRITE"
  /\ At("server", "send") => got.command = "GET"
  /\ pc["server"] \in {"store", "send"} => got.path \in DOMAIN files
  /\ At("server", "send") => pos["server"] <= Len(files[got.path])
  /\ Silent => pos["server"] = 0

\* For every network.
SessionInv == TypeOK /\ StatusInv /\ ClientInv /\ ArrivingInv /\ AnswerInv /\ ServerInv

-----------------------------------------------------------------------------
(***************************************************************************)
(* No name holds a comma: strtok would end the path there.                 *)
(***************************************************************************)
PlainNames == Pieces \cap Separators = {}

(***************************************************************************)
(* A request whose header arrived in one piece names its path, unless a    *)
(* part of the upload was taken for the end of the path: that is lost.     *)
(***************************************************************************)
Stored == IF At("server", "store") THEN files[got.path] ELSE <<>>
LostUp == pos["client"] - Len(Stored) - Len(stream["server"])

RequestInv ==
  /\ Parsed /\ (network = "whole" \/ ~Asks("WRITE")) => got.path = command.path
  /\ ~Asks("WRITE") /\ ~At("server", "receive") => stream["server"] = <<>>
  /\ got.command = "WRITE" /\ Silent =>
       /\ Buildable
       /\ got.data_len = DataLen
       /\ LostUp >= 0
       /\ LostUp = 0 => got.path = command.path
       /\ Follows(Stored, LostUp, local)
       /\ Follows(stream["server"], LostUp + Len(Stored), local)
       /\ At("server", "store") => left["server"] = DataLen - Len(Stored)

(***************************************************************************)
(* What the command has done at the server when it reports success.        *)
(***************************************************************************)
Done ==
  LET p == command.path IN
    CASE Asks("WRITE") -> p \in DOMAIN files /\ files[p] = local
      [] Asks("RM") -> p \notin DOMAIN files
      [] Asks("GET") -> p \in DOMAIN files
      [] OTHER -> FALSE

LostDown == pos["server"] - Len(local) - Len(stream["client"])

ResponseInv ==
  /\ Expects /\ stream["client"] # <<>> =>
       IF stream["client"][1].success THEN Done ELSE stream["client"][1].data_len = 0
  /\ Asks("GET") /\ At("client", "response") /\ stream["client"] # <<>> =>
       /\ status["server"] # "reset"
       /\ Len(stream["client"]) >= 2
       /\ stream["client"][1].success =>
            /\ got.path = command.path /\ Parsed
            /\ Follows(stream["client"], 0, Download)
            /\ Len(stream["client"]) = 2 + pos["server"]
  /\ At("client", "download") =>
       /\ got.path = command.path /\ Parsed
       /\ status["server"] # "reset"
       /\ command.path \in DOMAIN files
       /\ left["client"] = Len(files[command.path]) - Len(local)
       /\ LostDown >= 0
       /\ Follows(local, LostDown, files[command.path])
       /\ Follows(stream["client"], LostDown + Len(local), files[command.path])

\* What was true of the server's files when the client learned of it stays so.
OutcomeInv ==
  /\ outcome = "success" => Done
  /\ outcome = "success" /\ Asks("GET") => files[command.path] = <<>>
  /\ outcome = "received" => command.path \in DOMAIN files /\ files[command.path] = local
  /\ outcome = "received" => Asks("GET")
  /\ outcome # "none" => pc["client"] \notin {"start", "upload", "response", "download"}

\* For a network that delivers a header in one piece.
TruthInv == network # "split" => RequestInv /\ ResponseInv /\ OutcomeInv
=============================================================================
