---------------------------- MODULE PinRegister -----------------------------
(***************************************************************************)
(* What data/sources promises its readers, with no files, no calls in      *)
(* progress and no Wayback: a register that only grows, one consistent     *)
(* record at a time, and whose records change in three fields only.        *)
(***************************************************************************)
EXTENDS Registry

VARIABLE pins

Init == pins = [i \in {} |-> None]

\* A new pin takes the next id and leaves every other record as it is.
Mint ==
  \E i \in Ids :
    /\ \A j \in DOMAIN pins : j < i
    /\ i = 1 \/ i - 1 \in DOMAIN pins
    /\ DOMAIN pins' = DOMAIN pins \cup {i}
    /\ pins' = With(pins, i, pins'[i])
    /\ pins'[i].merged_into = None

\* Record i changes in its archive, its note or its merge, and keeps an
\* archive copy once it has one.
Amend ==
  \E i \in DOMAIN pins :
    /\ DOMAIN pins' = DOMAIN pins
    /\ pins' = With(pins, i, pins'[i])
    /\ Facts(pins'[i]) = Facts(pins[i])
    /\ pins[i].archive # None => pins'[i].archive # None

\* Every record, old or new, satisfies the rules of the load path, and its
\* archive copy reproduces it.
Next == (Mint \/ Amend) /\ Sound(pins')

Spec == Init /\ [][Next]_pins
=============================================================================
