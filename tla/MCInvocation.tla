----------------------------- MODULE MCInvocation -----------------------------
(***************************************************************************)
(* All short sequences of arguments, and the complete ones in every order. *)
(***************************************************************************)
EXTENDS InvocationInvariant

Names == {<<"f">>, <<"d", Slash, "f">>, <<"f", Comma, "g">>}
Words == Flags \cup Names \cup {<<>>, <<Dash, "x">>}
CommandWords == {<<"WRITE">>, <<"GET">>, <<"2">>, <<"LS">>, <<"write">>}

ShortTails == UNION {[1 .. n -> Words] : n \in 0 .. 3}
Pair(flag, value) == <<flag, value>>
Values == {<<"f">>, <<"d", Slash, "f">>}
CompleteTails ==
  {Pair(a[1], v[1]) \o Pair(a[2], v[2]) :
     a \in {s \in [1 .. 2 -> Flags] : s[1] # s[2]}, v \in [1 .. 2 -> Names]}
  \cup
  {Pair(a[1], v[1]) \o Pair(a[2], v[2]) \o Pair(a[3], v[3]) :
     a \in {s \in [1 .. 3 -> Flags] : Cardinality(ToSet(s)) = 3}, v \in [1 .. 3 -> Values]}

SomeInvocations ==
  {<<>>} \cup {<<c>> \o tail : c \in CommandWords, tail \in ShortTails \cup CompleteTails}
SomeSizes == {0 - 1, 0, 1, 9, 10, 12, 100}
=============================================================================
