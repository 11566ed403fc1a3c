------------------------------ MODULE Archiving ------------------------------
(***************************************************************************)
(* What archive() and the search of repair_archive promise the callers     *)
(* that attach what they return: an answer given once, and a capture only  *)
(* if Wayback serves it, at that moment and at its own timestamp, with     *)
(* bytes that reproduce the pin's drift value.                             *)
(***************************************************************************)
EXTENDS Naturals

CONSTANTS
  Times,     \* the timestamps of captures, in order
  Bytes,     \* what a capture of the url may hold
  Right,     \* the bytes that read as the pin's drift value
  Page,      \* a capture that holds no document: a redirect, an error page
  Failures,  \* the ways to attach nothing
  None

\* ArchiveCopy and ArchiveFailure, by what a caller can tell apart.
Copies == [capture : Times]
Refusals == [reason : Failures]

ASSUME ArchivingAssumption ==
  /\ Times \subseteq Nat
  /\ Right \subseteq Bytes
  /\ Page \notin Bytes
  /\ None \notin Bytes \cup {Page} \cup Times \cup Copies \cup Refusals

VARIABLES
  taken,   \* what each capture holds, None where there is none
  served,  \* the captures Wayback serves at their own timestamps
  answer   \* what the caller gets

Documents == {t \in Times : taken[t] \in Bytes}

Init ==
  /\ taken \in [Times -> Bytes \cup {Page, None}]
  /\ served \in SUBSET Documents
  /\ answer = None

\* Wayback, whoever asked it to: a capture is taken, later than the others,
\* one is served at last, one is served no more.
Take(t, b) ==
  /\ taken[t] = None
  /\ \A u \in Times : u > t => taken[u] = None
  /\ taken' = [taken EXCEPT ![t] = b]
  /\ UNCHANGED <<served, answer>>

Serve(t) ==
  /\ t \in Documents
  /\ served' = served \cup {t}
  /\ UNCHANGED <<taken, answer>>

Unserve(t) ==
  /\ served' = served \ {t}
  /\ UNCHANGED <<taken, answer>>

Wayback ==
  \/ \E t \in Times, b \in Bytes \cup {Page} : Take(t, b)
  \/ \E t \in Times : Serve(t) \/ Unserve(t)

Attach(t) ==
  /\ answer = None
  /\ t \in served
  /\ taken[t] \in Right
  /\ answer' = [capture |-> t]
  /\ UNCHANGED <<taken, served>>

Refuse(f) ==
  /\ answer = None
  /\ answer' = [reason |-> f]
  /\ UNCHANGED <<taken, served>>

Next ==
  \/ Wayback
  \/ \E t \in Times : Attach(t)
  \/ \E f \in Failures : Refuse(f)

Spec == Init /\ [][Next]_<<taken, served, answer>>
=============================================================================
