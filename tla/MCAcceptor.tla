----------------------------- MODULE MCAcceptor -----------------------------
(***************************************************************************)
(* A small instance of Acceptor: a connection and two files take every     *)
(* descriptor, and heap blocks are used again.                             *)
(***************************************************************************)
EXTENDS Acceptor

ThreeClients == 1 .. 3
ThreeDescriptors == 1 .. 3
FourBlocks == 1 .. 4
=============================================================================
