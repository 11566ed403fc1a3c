----------------------------- MODULE MCPinStore -----------------------------
(***************************************************************************)
(* PinStore for TLC.  Wayback holds captures of one text only, so a pin of *)
(* the other text can be archived by no call and a repair has a spare.     *)
(***************************************************************************)
EXTENDS PinStore, TLC

CONSTANT d1

MCShows == [c \in Captures |-> d1]

Symmetry == Permutations(Versions) \cup Permutations(Citations)
              \cup Permutations(Captures) \cup Permutations(Operators)
=============================================================================
