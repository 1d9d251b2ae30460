------------------------------ MODULE MCSession ------------------------------
(***************************************************************************)
(* A small instance of Session: remote paths "d/f" and "d/g", files with a *)
(* chunk that starts with a comma and one that does not.                   *)
(***************************************************************************)
EXTENDS Session

CONSTANTS d, f, g, x, comma

TwoPaths == {<<d, f>>, <<d, g>>}
Names == {d, f, g}
TwoChunks == {x, comma}
SomeContents == {<<>>, <<x>>, <<x, comma>>, <<comma, x>>}
=============================================================================
