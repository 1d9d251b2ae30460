-------------------------- MODULE MCRequestHandlers --------------------------
(***************************************************************************)
(* Small instances of RequestHandlers.  short and long stand for remote    *)
(* paths whose basenames are, for instance, "ab" and "abc".                *)
(***************************************************************************)
EXTENDS RequestHandlers, TLC

CONSTANTS short, long, x1, x2, y1

TwoPaths == {short, long}
OnePath == {short}
AllChunks == {x1, x2, y1}
OneContents == {<<x1>>}
TwoContents == {<<x1, x2>>, <<y1>>}

\* The clock advances between two saves, or stands still.
Advancing == {1}
Repeating == {0}

Alone == {<<short, short>>}
Prefixed == {<<short, short>>, <<long, long>>, <<long, short>>}

Symmetry == Permutations(Workers)
=============================================================================
