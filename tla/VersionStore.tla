---------------------------- MODULE VersionStore ----------------------------
(***************************************************************************)
(* What the server promises about files and their history: a write         *)
(* replaces a file in one step and adds what it replaced to the file's     *)
(* history; a file goes, and its history shrinks, only while that file is  *)
(* being deleted.  Only a server that dies, and with it every connection,  *)
(* may in the middle of a write or of a copy leave a beginning of what it  *)
(* was writing, and then no less history.                                  *)
(***************************************************************************)
EXTENDS Naturals, Sequences

CONSTANTS
  Paths,      \* the remote paths
  Contents,   \* what clients upload: sequences
  Clients     \* the connections

VARIABLES
  current,    \* the files that exist, and their contents
  history,    \* per path, the older versions: <<name, contents>> pairs
  deleting,   \* the paths a client is deleting
  serving     \* the connections that are being served

storeVars == <<current, history, deleting, serving>>

Exists(p) == p \in DOMAIN current
Beginnings(c) == {SubSeq(c, 1, n) : n \in 0 .. Len(c)}

Init ==
  /\ \E present \in SUBSET Paths : current \in [present -> Contents]
  /\ \A p \in Paths : history[p] # {} => Exists(p)
  /\ deleting = {}
  /\ serving = {}

(***************************************************************************)
(* The history of p gains one version, with contents from C.               *)
(***************************************************************************)
Gains(p, C) ==
  \E v \in history'[p] :
    /\ v \notin history[p]
    /\ v[2] \in C
    /\ history'[p] = history[p] \cup {v}

Keeps(p) == history'[p] = history[p]

(***************************************************************************)
(* p's contents become one of C; if p had contents they are now in its     *)
(* history.                                                                *)
(***************************************************************************)
Replaces(p, C) ==
  /\ p \in DOMAIN current'
  /\ current'[p] \in C
  /\ IF Exists(p) THEN Gains(p, {current[p]}) ELSE Keeps(p)

SameFile(p) ==
  /\ p \in DOMAIN current' <=> Exists(p)
  /\ Exists(p) => current'[p] = current[p]

Untouched(p) == SameFile(p) /\ Keeps(p)

(***************************************************************************)
(* The operations on one path.  Snapshot is a write that saved the current *)
(* version and then could not open the file.                               *)
(***************************************************************************)
Write(p) == p \notin deleting /\ \E c \in Contents : Replaces(p, {c})
Snapshot(p) == Exists(p) /\ SameFile(p) /\ Gains(p, {current[p]})
Delete(p) == p \in deleting /\ Exists(p) /\ p \notin DOMAIN current' /\ Keeps(p)
Forget(p) == p \in deleting /\ ~Exists(p) /\ SameFile(p)
               /\ history'[p] \subseteq history[p]

(***************************************************************************)
(* What the death of the server may do to a path.                          *)
(***************************************************************************)
Torn(p) ==
  \/ Untouched(p)
  \/ Exists(p) /\ SameFile(p) /\ Gains(p, Beginnings(current[p]))
  \/ \E c \in Contents : Replaces(p, Beginnings(c))

Dies ==
  /\ \A p \in Paths : Torn(p)
  /\ deleting' = {}
  /\ serving # {} /\ serving' = {}

OthersUntouched(p) == \A q \in Paths \ {p} : Untouched(q)

Next ==
  \/ \E p \in Paths :
       /\ Write(p) \/ Snapshot(p) \/ Delete(p) \/ Forget(p)
       /\ OthersUntouched(p)
       /\ serving # {}
       /\ UNCHANGED <<deleting, serving>>
  \/ \E p \in Paths :
       /\ deleting' \in {deleting \cup {p}, deleting \ {p}}
       /\ UNCHANGED <<current, history, serving>>
  \/ \E c \in Clients :
       /\ serving' \in {serving \cup {c}, serving \ {c}}
       /\ UNCHANGED <<current, history, deleting>>
  \/ Dies

Spec == Init /\ [][Next]_storeVars
=============================================================================
