------------------------- MODULE InvocationInvariant -------------------------
(***************************************************************************)
(* The inductive invariant behind the properties of Invocation: what each  *)
(* variable is made from.                                                  *)
(***************************************************************************)
EXTENDS Invocation

Lengths == 0 .. 10^MaxDigits - 1

\* A command is what argParser makes of the arguments.
CommandInv ==
  /\ argv \in Invocations
  /\ command = IF pc = "arguments" THEN NoCommand ELSE ArgParser(argv)
  /\ pc \in {"request", "server", "answer", "client"} => command # NoCommand

\* A request is made from a command, and travels as its serialisation.
Sent ==
  /\ command # NoCommand
  /\ request.data_len \in Lengths
  /\ request = [command |-> command.c_type, remote_path |-> command.remote_path,
                data_len |-> request.data_len]

Arrived == received = [request EXCEPT !.remote_path = UpToComma(@)]

RequestInv ==
  /\ request = NoRequest \/ Sent
  /\ received = NoRequest \/ (Sent /\ Arrived)
  /\ pc \in {"arguments", "request", "server"} => received = NoRequest
  /\ pc \in {"server", "answer", "client"} => Sent
  /\ pc = "server" => line = SerializeRequest(request)
  /\ pc \in {"answer", "client"} => Arrived

\* A response is one of the handlers', and travels as its serialisation.
Built ==
  /\ response.status \in BOOLEAN
  /\ response.data_len \in Lengths
  /\ response.message \in {<<"OK">>, Failure, <<"NULL">>}
  /\ response = [status |-> response.status, data_len |-> response.data_len,
                 message |-> response.message]

ResponseInv ==
  /\ response = NoResponse \/ Built
  /\ shown \in {NoResponse, response}
  /\ pc \in {"arguments", "request", "server", "answer"} => response = NoResponse
  /\ pc = "client" => Built /\ line = SerializeResponse(response)
  /\ ResponseArrives

\* Wherever the exchange is, what travels is a text.
LineInv ==
  /\ pc \in {"arguments", "request", "server", "answer", "client", "exited"}
  /\ line \in Seq(Symbols)

InvocationInv == CommandInv /\ RequestInv /\ ResponseInv /\ LineInv
=============================================================================
