---------------------------- MODULE MCCrossRefs ----------------------------
(***************************************************************************)
(* CrossRefs for TLC.  Officials, nodes and records are interchangeable.   *)
(***************************************************************************)
EXTENDS CrossRefs, TLC

\* Every conflict is about the one recipient.
MCRecipientOf == [c \in Conflicts |-> CHOOSE r \in Recipients : TRUE]

Symmetry == Permutations(Nodes) \cup Permutations(Officials) \cup Permutations(Records)
=============================================================================
