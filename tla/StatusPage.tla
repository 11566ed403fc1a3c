------------------------------ MODULE StatusPage ------------------------------
(***************************************************************************)
(* The status page that a run of the drift check publishes: the band and   *)
(* the rows of registers_crosswalk/status.py, and the job of               *)
(* .github/workflows/status-page.yml around them.                          *)
(*                                                                         *)
(* The page counts the reports of this run, and for the capture pins,      *)
(* which the drift check does not fetch, the verdicts that an earlier run  *)
(* of the weekly archive check left as an artifact.                        *)
(***************************************************************************)
EXTENDS DriftCheck

VARIABLES
  unchecked,  \* pins the page shows and the run did not check: superseded
  archive,    \* the artifact: each pin's verdicts, one for an attached copy;
              \* None before it is fetched, where there is none, or where it
              \* cannot be read
  page,       \* the band at the head of the page, None before it is built
  code        \* the exit code of the check, which the run ends with

vars == <<kind, pass, todo, pc, reports, read, broken, failed,
          unchecked, archive, page, code>>

CaptureVerdicts == {"ok", "lost", "missing", "unchecked", "not_checkable"}

Counted == {"ok", "lost", "missing"}

CaptureRank == <<"ok", "not_checkable", "unchecked", "missing", "lost">>

Init ==
  /\ DriftInit
  /\ unchecked \in 0 .. 1
  /\ archive = None /\ page = None /\ code = None

(***************************************************************************)
(* The capture pins' verdicts.                                             *)
(***************************************************************************)
Fixed == {p \in Pins : reports[p] = "fixed"}

\* Mutant: the pins that were reached.
FetchedReached == {p \in Pins : reports[p] \notin {"fixed", "key_missing", "fetch_failed"}}

Fetched == Pins \ Fixed

\* A capture pin's strongest verdict; the entries of other pins are not read.
Held == IF archive = None THEN {} ELSE {p \in Fixed : archive[p] # {}}

CaptureVerdict(p) ==
  LET rank == CHOOSE k \in DOMAIN CaptureRank :
                /\ CaptureRank[k] \in archive[p]
                /\ \A j \in DOMAIN CaptureRank : CaptureRank[j] \in archive[p] => j <= k
  IN CaptureRank[rank]

\* The pill of a pin's row: a tone.
Pill(p) ==
  LET says == IF p \in Held THEN CaptureVerdict(p) ELSE reports[p]
  IN CASE says = "ok" -> "ok"
       [] says \in {"drift", "amended", "lost", "missing"} -> "drift"
       [] OTHER -> "grey"

(***************************************************************************)
(* The band.                                                               *)
(***************************************************************************)
Settled == {p \in Held : CaptureVerdict(p) \in Counted}

Good == {p \in Fetched : reports[p] = "ok"}
          \cup {p \in Settled : CaptureVerdict(p) = "ok"}

\* What its 1:1 is said of: every pinned document, those fetched, those checked.
Scope ==
  CASE archive = None /\ Fixed # {} -> "fetched"
    [] archive # None /\ Fixed # Settled -> "checked"
    [] OTHER -> "pinned"

Unchecked == [tone |-> "grey", scope |-> "none", good |-> 0, of |-> 0]

Band ==
  LET counted == Cardinality(Fetched \cup Settled)
      good == Cardinality(Good)
      of == IF Scope = "pinned" THEN N + unchecked ELSE counted
  IN CASE counted = 0 -> Unchecked
       [] counted > 0 /\ good = counted ->
            [tone |-> "ok", scope |-> Scope, good |-> good, of |-> good]
       [] OTHER -> [tone |-> "drift", scope |-> Scope, good |-> good, of |-> of]

(***************************************************************************)
(* The job: the check's code is kept, the artifact fetched, the page built *)
(* from what the check printed, and the run ends with the code.            *)
(***************************************************************************)
CheckEnds ==
  /\ pc \in {"done", "dead"} /\ code = None
  /\ code' = IF pc = "done" THEN ExitCode ELSE 1
  /\ UNCHANGED <<driftVars, unchecked, archive, page>>

Download ==
  /\ code # None /\ page = None /\ archive = None
  /\ archive' \in [Pins -> {v \in SUBSET CaptureVerdicts : Cardinality(v) <= 2}]
  /\ UNCHANGED <<driftVars, unchecked, page, code>>

\* Mutant: a page of a printed check only.
BuildFromReports ==
  /\ code # None /\ page = None /\ pc = "done"
  /\ page' = Band
  /\ UNCHANGED <<driftVars, unchecked, archive, code>>

Build ==
  /\ code # None /\ page = None
  /\ page' = IF pc = "done" THEN Band ELSE Unchecked
  /\ UNCHANGED <<driftVars, unchecked, archive, code>>

Next ==
  \/ (DriftStep \/ Dies) /\ UNCHANGED <<unchecked, archive, page, code>>
  \/ CheckEnds \/ Download \/ Build

\* Fetches time out, the wait before the second pass ends, and the job runs
\* its steps; nothing is assumed of the artifact.
Fairness == /\ WF_vars(DriftStep /\ UNCHANGED <<unchecked, archive, page, code>>)
            /\ WF_vars(CheckEnds) /\ WF_vars(Build)

Spec == Init /\ [][Next]_vars /\ Fairness

(***************************************************************************)
(* Properties of the check.                                                *)
(***************************************************************************)
\* A check is at one place, in one of two passes, and each pin has one of the
\* seven statuses of DriftReport (check_all).
TypeOK ==
  /\ kind \in [Pins -> Kinds]
  /\ pass \in {1, 2}
  /\ todo \subseteq Pins
  /\ pc \in {"next", "pinned", "fallback", "history", "done", "dead"}
  /\ reports \in [Pins -> Statuses \cup {None}]
  /\ read \in [Pins -> Texts \cup {"amendment", None}]
  /\ broken \in [Pins -> BOOLEAN]
  /\ failed \in [Pins -> SUBSET {1, 2}]
  /\ code \in {0, 1, 2, 3, None}
  /\ unchecked \in {0, 1}
  /\ archive # None => archive \in [Pins -> SUBSET CaptureVerdicts]

\* "A transport failure is NOT drift", nor is drift reported as a failure to
\* reach the document: an answer about the document is what this check read
\* last, at whichever address, and none stands where nothing was read (check).
AnswersAreRead ==
  \A p \in Pins :
    pc \in {"next", "done"} \/ ~First(p) =>
      CASE reports[p] = "ok" -> read[p] = "pinned"
        [] reports[p] = "drift" -> read[p] = "other"
        [] reports[p] = "amended" -> read[p] = "amendment"
        [] reports[p] = "error" ->
             kind[p] = "unkeyable" \/ broken[p] \/ read[p] = "unstated"
        [] reports[p] = "fetch_failed" ->
             read[p] \in {None, IF kind[p] = "history" THEN "pinned" ELSE None}
        [] OTHER -> read[p] = None

\* "A FETCH_FAILED line always means two failures at least 30 seconds apart"
\* (check_all).
FailuresAreConfirmed ==
  pc = "done" => \A p \in Pins : reports[p] = "fetch_failed" => failed[p] = {1, 2}

\* An answer about the document is never asked for again: a second pass over
\* a document that has moved on would replace it (check_all).
AnswersStand ==
  [][\A p \in Pins : reports[p] \notin {None, "fetch_failed"} =>
       reports'[p] = reports[p]]_vars

\* "Fix the environment first, then the transport, and only then read the
\* drift answers": 0 says that every pin is as pinned, 1 that every document
\* was reached, 3 that every key was there (_EXIT_CODES, _EXIT_RANK).
ExitCodeIsSound ==
  code # None /\ pc = "done" =>
    \A p \in Pins :
      /\ code = 0 => reports[p] \in {"ok", "fixed"}
      /\ code = 1 => reports[p] \notin {"key_missing", "fetch_failed"}
      /\ code = 3 => reports[p] # "key_missing"

(***************************************************************************)
(* Properties of the page.                                                 *)
(***************************************************************************)
\* "There is no path by which a stale or assumed OK reaches the page": a green
\* band is of pins this run read as pinned and captures the archive check
\* found whole, and of all the pins it checked where it says "all pinned".
GreenIsEarned ==
  page # None /\ page.tone = "ok" =>
    /\ page.good > 0
    /\ \A p \in Pins :
         \/ reports[p] = "ok" /\ read[p] = "pinned"
         \/ /\ reports[p] = "fixed"
            /\ archive # None => archive[p] \cap {"lost", "missing"} = {}
            /\ page.scope = "pinned" => archive # None /\ "ok" \in archive[p]

\* "The band counts that report, so the row has to show it": over the rows a
\* band with a verdict counts the green pills, and no red one hangs under a
\* band that is not (_band, _check_cell).
BandCountsTheRows ==
  page # None /\ pc = "done" =>
    /\ page.good = Cardinality({p \in Pins : Pill(p) = "ok"})
    /\ (\E p \in Pins : Pill(p) = "drift") => page.tone = "drift"
    /\ page.tone = "drift" => page.good < page.of

\* Every run of the job publishes a page, one whose check died too.
Publishes == <>(page # None)

\* "The published page and this run's red/green always agree": "a red page
\* under a green check" is the outcome the job is written against.
PageAgreesWithTheRun ==
  page # None /\ page.tone = "drift" => code # 0

\* "Whatever the fetch callable raises is a transport problem, whatever the
\* parse raises is a content problem": an ERROR says "the fetch worked" (check).
ErrorsAreAboutTheDocument ==
  \A p \in Pins : reports[p] = "error" => ~broken[p]
=============================================================================
