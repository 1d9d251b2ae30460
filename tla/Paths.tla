-------------------------------- MODULE Paths --------------------------------
(***************************************************************************)
(* The path helpers of utils.c and command.c.  A text is a sequence of     *)
(* symbols: a word, a digit, or one of the separators "," and "/".         *)
(***************************************************************************)
EXTENDS Naturals, Sequences, FiniteSetsExt

Slash == "/"

\* strrchr(path, '/'); 0 when there is none.
LastSlash(path) == Max({0} \cup {i \in 1 .. Len(path) : path[i] = Slash})

\* Everything before the last slash; nothing when there is no slash.
ExtractDirectory(path) ==
  IF LastSlash(path) = 0 THEN <<>> ELSE SubSeq(path, 1, LastSlash(path) - 1)

\* Faulty variant: the slash itself is kept.
ExtractBasenameWithSlash(path) ==
  IF LastSlash(path) = 0 THEN path ELSE SubSeq(path, LastSlash(path), Len(path))

\* Everything after the last slash; the whole path when there is none.
ExtractBasename(path) == SubSeq(path, LastSlash(path) + 1, Len(path))

\* A folder below a directory: strcat of "/" and the name.
Below(directory, name) == directory \o <<Slash, name>>

VersionFolder(path) == Below(ExtractDirectory(path), ".versions")

\* PATH_FORMAT "data/%s": the folder of client and server that holds all files.
FormatPath(str) == <<"data", Slash>> \o str

\* The directories on the way to a directory, itself included.
Ancestors(directory) ==
  {SubSeq(directory, 1, i - 1) :
     i \in {j \in 2 .. Len(directory) + 1 : j = Len(directory) + 1 \/ directory[j] = Slash}}
=============================================================================
