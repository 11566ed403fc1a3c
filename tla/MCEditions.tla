----------------------------- MODULE MCEditions -----------------------------
(***************************************************************************)
(* Editions for TLC.  The laws are interchangeable.                        *)
(***************************************************************************)
EXTENDS Editions, TLC

Symmetry == Permutations(Laws)
=============================================================================
