------------------------------ MODULE MCConsole ------------------------------
(***************************************************************************)
(* Console for TLC.                                                        *)
(***************************************************************************)
EXTENDS Console, TLC

Symmetry == Permutations(Docs)
=============================================================================
