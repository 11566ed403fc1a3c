----------------------------- MODULE DriftCheck -----------------------------
(***************************************************************************)
(* The drift check, `pin check`: check and check_all of                    *)
(* registers_crosswalk/pin.py.                                             *)
(*                                                                         *)
(* Every target is re-fetched and what its fetcher reads from it compared  *)
(* with the pin; a second address is read where the first fails, and an    *)
(* amendment history where the fetcher has one.  The targets that could    *)
(* not be reached are checked once more after one wait.  The publishers    *)
(* may change a document between any two fetches: each fetch may find any  *)
(* text.                                                                   *)
(***************************************************************************)
EXTENDS Integers, FiniteSets

CONSTANTS N, None

Pins == 1 .. N   \* the targets, in id order

\* What the fetchers' optional hooks make of a pin: FIXED_BYTES, a key that is
\* missing, an address no key fits, a fallback_url, an amended_since.
Kinds == {"plain", "fallback", "history", "fixed", "keyless", "unkeyable"}

\* What a body that carries the document's marks states: the pinned drift
\* value, another, or none at all.
Texts == {"pinned", "other", "unstated"}

Statuses == {"ok", "fixed", "drift", "amended", "key_missing", "fetch_failed",
             "error"}

ASSUME DriftCheckAssumption ==
  /\ N \in Nat
  /\ None \notin Texts \cup Statuses \cup {"amendment"}

VARIABLES
  kind,     \* what each pin's fetcher knows
  pass,     \* 1, or 2 once the failures are checked again
  todo,     \* the pins this pass has still to check
  pc,       \* where the check is
  reports,  \* DriftReport.status by pin, None before its first check
  read,     \* history: what the last check of a pin read last
  broken,   \* history: whether a fetch of it raised something else than OSError
  failed    \* history: the passes in which a pin was not reached

driftVars == <<kind, pass, todo, pc, reports, read, broken, failed>>

DriftInit ==
  /\ kind \in [Pins -> Kinds]
  /\ pass = 1
  /\ todo = Pins
  /\ pc = "next"
  /\ reports = [p \in Pins |-> None]
  /\ read = [p \in Pins |-> None]
  /\ broken = [p \in Pins |-> FALSE]
  /\ failed = [p \in Pins |-> {}]

(***************************************************************************)
(* check: one attempt at one pin.  The pins are taken in id order.         *)
(***************************************************************************)
First(p) == p \in todo /\ \A q \in todo : p <= q

Report(p, status) ==
  /\ reports' = [reports EXCEPT ![p] = status]
  /\ failed' = [failed EXCEPT ![p] =
                  @ \cup IF status = "fetch_failed" THEN {pass} ELSE {}]
  /\ todo' = todo \ {p}
  /\ pc' = "next"

GoOn(place) == pc' = place /\ UNCHANGED <<reports, failed, todo>>

Reads(p, t) == read' = [read EXCEPT ![p] = t] /\ UNCHANGED broken

Begin(p) ==
  /\ pc = "next" /\ First(p)
  /\ read' = [read EXCEPT ![p] = None]
  /\ broken' = [broken EXCEPT ![p] = FALSE]
  /\ CASE kind[p] = "fixed" -> Report(p, "fixed")
       [] kind[p] = "keyless" -> Report(p, "key_missing")
       [] kind[p] = "unkeyable" -> Report(p, "error")
       [] OTHER -> GoOn("pinned")
  /\ UNCHANGED <<kind, pass>>

\* Mutant: a body the fetcher cannot parse differs from the pin.
CompareUnparsed(p) ==
  \/ Reads(p, "unstated") /\ Report(p, "drift")
  \/ Reads(p, "other") /\ Report(p, "drift")
  \/ Reads(p, "pinned") /\ IF kind[p] = "history" THEN GoOn("history") ELSE Report(p, "ok")

\* The body carries the document's marks: it is parsed, and compared.
Compare(p) ==
  \/ Reads(p, "unstated") /\ Report(p, "error")
  \/ Reads(p, "other") /\ Report(p, "drift")
  \/ Reads(p, "pinned") /\ IF kind[p] = "history" THEN GoOn("history") ELSE Report(p, "ok")

\* A fetch raises, and not an OSError: a body cut short, or one that does not
\* inflate.
Raises(p) ==
  /\ Report(p, "error")
  /\ broken' = [broken EXCEPT ![p] = TRUE]
  /\ UNCHANGED read

Unreached(p) == Report(p, "fetch_failed") /\ UNCHANGED <<read, broken>>

\* The pinned address answers 5xx, or serves something else than the document.
Refused(p) ==
  \/ kind[p] = "fallback" /\ GoOn("fallback") /\ UNCHANGED <<read, broken>>
  \/ kind[p] # "fallback" /\ Unreached(p)

FetchPinned(p) ==
  /\ pc = "pinned" /\ First(p)
  /\ Compare(p) \/ Refused(p) \/ Unreached(p) \/ Raises(p)
  /\ UNCHANGED <<kind, pass>>

FetchFallback(p) ==
  /\ pc = "fallback" /\ First(p)
  /\ Compare(p) \/ Unreached(p) \/ Raises(p)
  /\ UNCHANGED <<kind, pass>>

\* amended_since, once the text has been found to be the pinned one.
FetchHistory(p) ==
  /\ pc = "history" /\ First(p)
  /\ \/ Reads(p, "pinned") /\ Report(p, "ok")
     \/ Reads(p, "amendment") /\ Report(p, "amended")
     \/ Reads(p, "unstated") /\ Report(p, "error")
     \/ Unreached(p)
     \/ Raises(p)
  /\ UNCHANGED <<kind, pass>>

(***************************************************************************)
(* check_all.                                                              *)
(***************************************************************************)
Failed == {p \in Pins : reports[p] = "fetch_failed"}

\* Mutant: the first that failed stands for the rest.
RetryFailedFirst ==
  /\ pc = "next" /\ todo = {}
  /\ pass = 1 /\ Failed # {}
  /\ pass' = 2
  /\ todo' = {p \in Failed : \A q \in Failed : p <= q}
  /\ UNCHANGED <<kind, pc, reports, read, broken, failed>>

RetryFailed ==
  /\ pc = "next" /\ todo = {}
  /\ pass = 1 /\ Failed # {}
  /\ pass' = 2
  /\ todo' = Failed
  /\ UNCHANGED <<kind, pc, reports, read, broken, failed>>

DriftEnds ==
  /\ pc = "next" /\ todo = {}
  /\ pass = 2 \/ Failed = {}
  /\ pc' = "done"
  /\ UNCHANGED <<kind, pass, todo, reports, read, broken, failed>>

\* The process ends before it has printed any report.
Dies ==
  /\ pc \notin {"done", "dead"}
  /\ pc' = "dead"
  /\ UNCHANGED <<kind, pass, todo, reports, read, broken, failed>>

DriftStep ==
  \/ \E p \in Pins : Begin(p) \/ FetchPinned(p) \/ FetchFallback(p) \/ FetchHistory(p)
  \/ RetryFailed \/ DriftEnds

(***************************************************************************)
(* The exit code: 2, the environment, before 3, the transport, before 1,   *)
(* the documents.                                                          *)
(***************************************************************************)
ExitCodes ==
  [ok |-> 0, fixed |-> 0, drift |-> 1, amended |-> 1, error |-> 1,
   key_missing |-> 2, fetch_failed |-> 3]

ExitRank == <<1, 3, 2>>   \* of the codes 1, 2 and 3

\* Mutant: the largest code.
ExitCodeNumeric ==
  LET codes == {ExitCodes[reports[p]] : p \in Pins}
  IN CHOOSE c \in codes : \A d \in codes : d <= c

ExitCode ==
  LET codes == {ExitCodes[reports[p]] : p \in Pins} \ {0}
  IN IF codes = {} THEN 0
     ELSE CHOOSE c \in codes : \A d \in codes : ExitRank[d] <= ExitRank[c]
=============================================================================
