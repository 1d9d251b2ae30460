--------------------------- MODULE MCRequestParser ---------------------------
(***************************************************************************)
(* A small instance of RequestParser: uploads of a file and of one below   *)
(* it, into a folder that is new, a removal and a download of the first.   *)
(***************************************************************************)
EXTENDS DirectoryInvariant

Upload(p, size) == [command |-> "WRITE", remote_path |-> FormatPath(p), data_len |-> size]
Removal(p) == [command |-> "RM", remote_path |-> FormatPath(p), data_len |-> 0]
Download(p) == [command |-> "GET", remote_path |-> FormatPath(p), data_len |-> 0]

SomeRequests == {Upload(<<"f">>, 12), Upload(<<"f", Slash, "g">>, 1), Removal(<<"f">>),
                 Download(<<"f">>)}

\* The hypothesis of DirectoriesAreMade.
ASSUME PathsAreTidy == TidyPaths

\* The hypothesis of UndisturbedParsesAgree.
ASSUME PathsArePlain == PlainPaths
=============================================================================
