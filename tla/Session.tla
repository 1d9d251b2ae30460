------------------------------- MODULE Session -------------------------------
(***************************************************************************)
(* One connection: client/client.c at one end, the worker thread of        *)
(* server/thread_manager.c at the other, and between them two byte streams *)
(* that keep the order of what is sent and nothing else.                   *)
(*                                                                         *)
(* A request is serialised as "command,data_len,path", a response as       *)
(* "status,data_len,message", and nothing marks their end.  Here a         *)
(* serialised header is one unit for its first two fields followed by the  *)
(* pieces of its third; a file is a sequence of chunks.  Locks, versions   *)
(* and failing disks are RequestHandlers' subject.                         *)
(***************************************************************************)
EXTENDS Integers, SequencesExt

CONSTANTS
  Paths,       \* the remote paths: sequences of pieces of a name
  Pieces,
  Chunks,      \* what one fread delivers
  Contents,    \* the files: sequences of chunks
  Separators,  \* the chunks that start with a comma or a null byte
  Message,     \* the message of a response
  Networks,    \* how headers may arrive: "whole", "joined", "split"
  Window,      \* bound on the units on their way to one end
  Absent       \* the contents of a file that does not exist

ASSUME SessionAssumption ==
  /\ Paths \subseteq Seq(Pieces)
  /\ Contents \subseteq Seq(Chunks)
  /\ Separators \subseteq Chunks
  /\ Networks \subseteq {"whole", "joined", "split"}
  /\ Window \in Nat /\ Window >= 2
  /\ \A p \in Paths : Len(p) \in 1 .. Window - 1
  /\ Absent \notin Contents

Commands == {"WRITE", "GET", "RM", "LS"}
Ends == {"client", "server"}
Peer(e) == IF e = "client" THEN "server" ELSE "client"

VARIABLES
  pc,        \* where each end is
  command,   \* what the user asked for: the command and the remote path
  network,   \* how the first bytes arrive at a recv that expects a header
  stream,    \* the bytes on their way to each end
  status,    \* how each end has left: "open", "closed" or "reset"
  local,     \* the client's local file
  files,     \* the server's files
  got,       \* the request the worker parsed
  pos,       \* chunks this end has sent of its file
  left,      \* bytes (in chunks) this end still expects
  outcome    \* what the client program did at its end

vars == <<pc, command, network, stream, status, local, files, got, pos, left, outcome>>

NoRequest == [command |-> "none", data_len |-> 0, path |-> <<>>]
NoResponse == [success |-> FALSE, data_len |-> 0 - 1]

Init ==
  /\ pc = [client |-> "start", server |-> "receive"]
  /\ command \in [command : Commands, path : Paths]
  /\ network \in Networks
  /\ stream = [e \in Ends |-> <<>>]
  /\ status = [e \in Ends |-> "open"]
  /\ local \in Contents \cup {Absent}
  /\ \E present \in SUBSET Paths : files \in [present -> Contents]
  /\ got = NoRequest
  /\ pos = [e \in Ends |-> 0]
  /\ left = [e \in Ends |-> 0]
  /\ outcome = "none"

-----------------------------------------------------------------------------
(* Headers *)

SerializeRequest(cmd, len, path) == <<[command |-> cmd, data_len |-> len]>> \o path
SerializeResponse(success, len) == <<[success |-> success, data_len |-> len], Message>>

(***************************************************************************)
(* The third field of a request that strtok finds: up to the next comma or *)
(* the end of the string, whatever the bytes were meant for.               *)
(***************************************************************************)
\* Faulty variant: strtok splits at the slash too.
ThirdFieldShort(bytes) == <<bytes[1]>>

ThirdField(bytes) ==
  LET IsEnd(u) == u \in Separators
      end == SelectInSeq(bytes, IsEnd)
  IN IF end = 0 THEN bytes ELSE SubSeq(bytes, 1, end - 1)

DeSerializeRequest(bytes) ==
  IF Len(bytes) < 2 THEN NoRequest
  ELSE [command |-> bytes[1].command, data_len |-> bytes[1].data_len,
        path |-> ThirdField(Tail(bytes))]

DeSerializeResponse(bytes) == IF Len(bytes) < 2 THEN NoResponse ELSE bytes[1]

-----------------------------------------------------------------------------
(* Sockets *)

(***************************************************************************)
(* send: a full window blocks it; a peer that closed throws the bytes away *)
(* and answers with a reset; after a reset it fails, and no caller of the  *)
(* code does anything about that.                                          *)
(***************************************************************************)
Send(e, bytes) ==
  \/ /\ status[Peer(e)] = "open"
     /\ Len(stream[Peer(e)]) + Len(bytes) <= Window
     /\ stream' = [stream EXCEPT ![Peer(e)] = @ \o bytes]
     /\ UNCHANGED status
  \/ /\ status[Peer(e)] = "closed"
     /\ status' = [status EXCEPT ![Peer(e)] = "reset"]
     /\ UNCHANGED stream
  \/ status[Peer(e)] = "reset" /\ UNCHANGED <<stream, status>>

Take(e, n) == stream' = [stream EXCEPT ![e] = SubSeq(@, n + 1, Len(@))]

(***************************************************************************)
(* How many units the recv of a header may return.                         *)
(***************************************************************************)
Arrives(e, n, header) ==
  /\ n \in 1 .. Len(stream[e])
  /\ network = "whole" => n <= header
  /\ network # "split" => n >= header \/ n = Len(stream[e])

\* recv returns 0 or -1.
Over(e) == stream[e] = <<>> /\ status[Peer(e)] # "open"
Closed(e) == stream[e] = <<>> /\ status[Peer(e)] = "closed"
Reset(e) == stream[e] = <<>> /\ status[Peer(e)] = "reset"

(***************************************************************************)
(* close, or the exit of the process.  Bytes nobody read turn it into a    *)
(* reset, and what this end had sent may be cut short.                     *)
(***************************************************************************)
Leave(e) ==
  IF stream[e] = <<>>
    THEN status' = [status EXCEPT ![e] = "closed"] /\ UNCHANGED stream
    ELSE /\ status' = [status EXCEPT ![e] = "reset"]
         /\ \E rest \in Prefixes(stream[Peer(e)]) :
              stream' = [stream EXCEPT ![e] = <<>>, ![Peer(e)] = rest]

At(e, label) == pc[e] = label
Goto(e, label) == pc' = [pc EXCEPT ![e] = label]

-----------------------------------------------------------------------------
(* The client *)

Asks(c) == command.command = c
FileSize(contents) == IF contents = Absent THEN 0 - 1 ELSE Len(contents)
DataLen == IF Asks("WRITE") THEN FileSize(local) ELSE 0

\* Faulty variant: the size of the local file is not checked.
BuildableAlways == TRUE

\* createRequest refuses to upload a file it cannot open.
Buildable == DataLen >= 0

StartFails ==
  /\ At("client", "start")
  /\ ~Buildable
  /\ Leave("client")
  /\ outcome' = "failed"
  /\ Goto("client", "exited")
  /\ UNCHANGED <<command, network, local, files, got, pos, left>>

SendRequest ==
  /\ At("client", "start")
  /\ Buildable
  /\ Send("client", SerializeRequest(command.command, DataLen, command.path))
  /\ Goto("client", IF Asks("WRITE") THEN "upload" ELSE "response")
  /\ UNCHANGED <<command, network, local, files, got, pos, left, outcome>>

MoreToUpload(e) == e = "client" /\ At(e, "upload") /\ pos[e] < Len(local)

UploadChunk ==
  /\ MoreToUpload("client")
  /\ Send("client", <<local[pos["client"] + 1]>>)
  /\ pos' = [pos EXCEPT !["client"] = @ + 1]
  /\ UNCHANGED <<pc, command, network, local, files, got, left, outcome>>

\* Faulty variant: the last fread is not sent.
UploadDoneEarly ==
  /\ At("client", "upload")
  /\ pos["client"] + 1 >= Len(local)
  /\ Goto("client", "response")
  /\ UNCHANGED <<command, network, stream, status, local, files, got, pos, left, outcome>>

UploadDone ==
  /\ At("client", "upload")
  /\ pos["client"] = Len(local)
  /\ Goto("client", "response")
  /\ UNCHANGED <<command, network, stream, status, local, files, got, pos, left, outcome>>

(***************************************************************************)
(* One recv is taken for the response, and what came with it is dropped.   *)
(***************************************************************************)
Response(n) == DeSerializeResponse(SubSeq(stream["client"], 1, n))
IsDownload(response) == Asks("GET") /\ response.data_len > 0

\* displayServerResponse; LS displays nothing.
Shown(response) ==
  IF Asks("LS") THEN "none" ELSE IF response.success THEN "success" ELSE "error"

(***************************************************************************)
(* Reading the response, and then the end of the process: the recv and the *)
(* close meet in one step because nothing of the connection matters between*)
(* them but what else has arrived.                                         *)
(***************************************************************************)
ReceiveResponse ==
  /\ At("client", "response")
  /\ \E n \in 1 .. Window :
       /\ Arrives("client", n, 2)
       /\ Take("client", n)
       /\ IF Response(n) = NoResponse
            THEN outcome' = "failed" /\ Goto("client", "exit") /\ UNCHANGED <<local, left>>
            ELSE IF IsDownload(Response(n))
              THEN \/ /\ local' = <<>>
                      /\ left' = [left EXCEPT !["client"] = Response(n).data_len]
                      /\ Goto("client", "download")
                      /\ UNCHANGED outcome
                   \/ Goto("client", "exit") /\ UNCHANGED <<local, left, outcome>>
              ELSE /\ outcome' = Shown(Response(n))
                   /\ Goto("client", "exit")
                   /\ UNCHANGED <<local, left>>
  /\ UNCHANGED <<command, network, status, files, got, pos>>

NoResponseArrives ==
  /\ At("client", "response")
  /\ Over("client")
  /\ outcome' = "failed"
  /\ Goto("client", "exit")
  /\ UNCHANGED <<command, network, stream, status, local, files, got, pos, left>>

DownloadChunks ==
  /\ At("client", "download")
  /\ left["client"] > 0
  /\ \E n \in 1 .. Len(stream["client"]) :
       /\ Take("client", n)
       /\ local' = local \o SubSeq(stream["client"], 1, n)
       /\ left' = [left EXCEPT !["client"] = @ - n]
  /\ UNCHANGED <<pc, command, network, status, files, got, pos, outcome>>

(***************************************************************************)
(* The server closed: recv returns 0 again and again.                      *)
(***************************************************************************)
DownloadNothing ==
  /\ At("client", "download")
  /\ left["client"] > 0
  /\ Closed("client")
  /\ UNCHANGED vars

\* Faulty variant: the loop ends one chunk early.
EnoughEarly(e) == left[e] <= 1

Enough(e) == left[e] <= 0

DownloadDone ==
  /\ At("client", "download")
  /\ Enough("client") \/ Reset("client")
  /\ outcome' = "received"
  /\ Goto("client", "exit")
  /\ UNCHANGED <<command, network, stream, status, local, files, got, pos, left>>

Exit ==
  /\ At("client", "exit")
  /\ Leave("client")
  /\ Goto("client", "exited")
  /\ UNCHANGED <<command, network, local, files, got, pos, left, outcome>>

-----------------------------------------------------------------------------
(* The worker *)

(***************************************************************************)
(* receiveRequest: one recv is taken for the request.                      *)
(***************************************************************************)
HeaderLen == Len(command.path) + 1

ReceiveRequest ==
  /\ At("server", "receive")
  /\ \E n \in 1 .. Window :
       /\ Arrives("server", n, HeaderLen)
       /\ Take("server", n)
       /\ got' = DeSerializeRequest(SubSeq(stream["server"], 1, n))
  /\ Goto("server", "handle")
  /\ UNCHANGED <<command, network, status, local, files, pos, left, outcome>>

NothingArrives ==
  /\ At("server", "receive")
  /\ Over("server")
  /\ Goto("server", "handle")
  /\ UNCHANGED <<command, network, stream, status, local, files, got, pos, left, outcome>>

Respond(success, len, next) ==
  /\ Send("server", SerializeResponse(success, len))
  /\ Goto("server", next)

Exists == got.path \in DOMAIN files

\* No request, no file or no handler.
Refuse ==
  /\ At("server", "handle")
  /\ got.command \in {"none", "LS"} \/ (got.command \in {"GET", "RM"} /\ ~Exists)
  /\ Respond(FALSE, 0, "close")
  /\ UNCHANGED <<command, network, local, files, got, pos, left, outcome>>

\* handleWriteRequest: fopen may fail, whether or not the file exists.
RefuseWrite ==
  /\ At("server", "handle")
  /\ got.command = "WRITE"
  /\ Respond(FALSE, 0, "close")
  /\ UNCHANGED <<command, network, local, files, got, pos, left, outcome>>

Put(path, contents) ==
  files' = [p \in DOMAIN files \cup {path} |-> IF p = path THEN contents ELSE files[p]]

OpenTarget ==
  /\ At("server", "handle")
  /\ got.command = "WRITE"
  /\ Put(got.path, <<>>)
  /\ left' = [left EXCEPT !["server"] = got.data_len]
  /\ Goto("server", "store")
  /\ UNCHANGED <<command, network, stream, status, local, got, pos, outcome>>

(***************************************************************************)
(* recv takes as much as its buffer holds, not as much as remains.         *)
(***************************************************************************)
StoreChunks ==
  /\ At("server", "store")
  /\ left["server"] > 0
  /\ \E n \in 1 .. Len(stream["server"]) :
       /\ Take("server", n)
       /\ Put(got.path, files[got.path] \o SubSeq(stream["server"], 1, n))
       /\ left' = [left EXCEPT !["server"] = @ - n]
  /\ UNCHANGED <<pc, command, network, status, local, got, pos, outcome>>

StoreNothing ==
  /\ At("server", "store")
  /\ left["server"] > 0
  /\ Closed("server")
  /\ UNCHANGED vars

StoreDone ==
  /\ At("server", "store")
  /\ Enough("server") \/ Reset("server")
  /\ Respond(TRUE, 0, "close")
  /\ UNCHANGED <<command, network, local, files, got, pos, left, outcome>>

AnnounceFile ==
  /\ At("server", "handle")
  /\ got.command = "GET" /\ Exists
  /\ Respond(TRUE, Len(files[got.path]), "send")
  /\ UNCHANGED <<command, network, local, files, got, pos, left, outcome>>

MoreToSend(e) == e = "server" /\ At(e, "send") /\ pos[e] < Len(files[got.path])

SendChunk ==
  /\ MoreToSend("server")
  /\ Send("server", <<files[got.path][pos["server"] + 1]>>)
  /\ pos' = [pos EXCEPT !["server"] = @ + 1]
  /\ UNCHANGED <<pc, command, network, local, files, got, left, outcome>>

SendDone ==
  /\ At("server", "send")
  /\ pos["server"] = Len(files[got.path])
  /\ Goto("server", "close")
  /\ UNCHANGED <<command, network, stream, status, local, files, got, pos, left, outcome>>

RemoveFile ==
  /\ At("server", "handle")
  /\ got.command = "RM" /\ Exists
  /\ files' = [p \in DOMAIN files \ {got.path} |-> files[p]]
  /\ Respond(TRUE, 0, "close")
  /\ UNCHANGED <<command, network, local, got, pos, left, outcome>>

Close ==
  /\ At("server", "close")
  /\ Leave("server")
  /\ Goto("server", "closed")
  /\ UNCHANGED <<command, network, local, files, got, pos, left, outcome>>

-----------------------------------------------------------------------------
(* Processes that die *)

Running(e) == pc[e] \notin {"exited", "closed", "killed", "broken"}

(***************************************************************************)
(* SIGPIPE: a send after the other end's reset ends the process.  Only the *)
(* loops that send a file can meet one: until an end has sent something    *)
(* the other end leaves nothing unread.                                    *)
(***************************************************************************)
BrokenPipe(e) ==
  /\ MoreToUpload(e) \/ MoreToSend(e)
  /\ status[Peer(e)] = "reset"
  /\ Leave(e)
  /\ Goto(e, "broken")
  /\ UNCHANGED <<command, network, local, files, got, pos, left, outcome>>

(***************************************************************************)
(* The user interrupts the client, or the server's process is killed.      *)
(***************************************************************************)
Kill(e) ==
  /\ Running(e)
  /\ Leave(e)
  /\ Goto(e, "killed")
  /\ UNCHANGED <<command, network, local, files, got, pos, left, outcome>>

-----------------------------------------------------------------------------
ClientStep ==
  \/ StartFails \/ SendRequest \/ UploadChunk \/ UploadDone
  \/ ReceiveResponse \/ NoResponseArrives
  \/ DownloadChunks \/ DownloadNothing \/ DownloadDone
  \/ Exit \/ BrokenPipe("client")

ServerStep ==
  \/ ReceiveRequest \/ NothingArrives \/ Refuse \/ RefuseWrite
  \/ OpenTarget \/ StoreChunks \/ StoreNothing \/ StoreDone
  \/ AnnounceFile \/ SendChunk \/ SendDone \/ RemoveFile
  \/ Close \/ BrokenPipe("server")

Next == ClientStep \/ ServerStep \/ \E e \in Ends : Kill(e)

Spec == Init /\ [][Next]_vars

(***************************************************************************)
(* Both ends are running programs, and TCP delivers what was sent.  Nobody *)
(* need be killed.                                                         *)
(***************************************************************************)
FairSpec == Spec /\ WF_vars(ClientStep) /\ WF_vars(ServerStep)

-----------------------------------------------------------------------------
Labels == {"start", "upload", "response", "download", "exit", "exited",
           "receive", "handle", "store", "send", "close", "closed", "killed", "broken"}
Units == [command : Commands, data_len : Nat] \cup [success : BOOLEAN, data_len : Nat]
           \cup Pieces \cup Chunks \cup {Message}

TypeOK ==
  /\ pc \in [Ends -> Labels]
  /\ command \in [command : Commands, path : Paths]
  /\ network \in Networks
  /\ stream \in [Ends -> Seq(Units)]
  /\ \A e \in Ends : Len(stream[e]) <= Window
  /\ status \in [Ends -> {"open", "closed", "reset"}]
  /\ local = Absent \/ local \in Seq(Units)
  /\ DOMAIN files \subseteq Seq(Units) /\ files \in [DOMAIN files -> Seq(Units)]
  /\ got \in [command : Commands \cup {"none"}, data_len : Nat, path : Seq(Units)]
  /\ pos \in [Ends -> Nat]
  /\ left \in [Ends -> Int]
  /\ outcome \in {"none", "success", "error", "failed", "received"}

(***************************************************************************)
(* What the client reports is what happened at the other end, as long as a *)
(* header arrives in one piece, and whoever is killed: a WRITE that shows  *)
(* success has stored the local file (client.c:161-165), an RM that shows  *)
(* success has removed the file, a GET that ends its receive loop has      *)
(* exactly the server's file (client.c:96), and one that shows success     *)
(* without a download was for an empty file (client.c:92-95).              *)
(***************************************************************************)
OutcomeTruthful ==
  network # "split" =>
    LET p == command.path IN
      /\ outcome = "success" =>
           CASE Asks("WRITE") -> p \in DOMAIN files /\ files[p] = local
             [] Asks("RM") -> p \notin DOMAIN files
             [] Asks("GET") -> p \in DOMAIN files /\ files[p] = <<>>
      /\ outcome = "received" => p \in DOMAIN files /\ files[p] = local

(***************************************************************************)
(* A request touches the file it names and no other, when each header is   *)
(* received as it was sent (thread_manager.c:29, protocol.c:129-130).      *)
(***************************************************************************)
OnlyItsPath ==
  [][network = "whole" =>
       \A p \in (DOMAIN files \cup DOMAIN files') \ {command.path} :
         p \in DOMAIN files /\ p \in DOMAIN files' /\ files'[p] = files[p]]_vars

Unharmed == \A e \in Ends : ~At(e, "killed")
Ended == \A e \in Ends : ~Running(e)

(***************************************************************************)
(* The two ends agree on how many bytes follow a header: when headers      *)
(* arrive as they were sent and nobody is killed, neither end waits for    *)
(* ever for what the other does not send, refused uploads included.        *)
(***************************************************************************)
WholeSessionEnds == network = "whole" /\ []Unharmed => <>Ended

(***************************************************************************)
(* protocol.h:25 and 31 say that data_len is "how much data to expect AFTER*)
(* this request" and "AFTER this response": so the two ends agree on it,   *)
(* and the connection ends, however TCP delivers the bytes.                *)
(***************************************************************************)
SessionEnds == []Unharmed => <>Ended
=============================================================================
