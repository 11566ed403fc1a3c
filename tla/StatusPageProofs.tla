--------------------------- MODULE StatusPageProofs ---------------------------
(***************************************************************************)
(* Proofs about DriftCheck and StatusPage, for any number of pins: what    *)
(* each report and the exit code mean, what the band of the page says and  *)
(* how far it agrees with the run, and that every run is finite.           *)
(***************************************************************************)
EXTENDS StatusPage, TLAPS, FiniteSetTheorems

Asking == {"pinned", "fallback", "history"}

\* What has been read of the pin being asked for.
AskedFor ==
  pc \in Asking => \A p \in Pins : First(p) =>
    IF pc = "history" THEN kind[p] = "history" /\ read[p] = "pinned" ELSE read[p] = None

\* A pin still to do has no report in the first pass and a failure in the
\* second; the passes in which a failed pin was not reached are known.
Passes ==
  \A p \in Pins :
    /\ p \in todo => reports[p] = IF pass = 1 THEN None ELSE "fetch_failed"
    /\ p \notin todo => reports[p] # None
    /\ pass = 1 => failed[p] = IF reports[p] = "fetch_failed" THEN {1} ELSE {}
    /\ pass = 2 /\ reports[p] = "fetch_failed" =>
         failed[p] = IF p \in todo THEN {1} ELSE {1, 2}

Ended == pc = "done" => todo = {} /\ (pass = 2 \/ Failed = {})

\* The code and the page are those of the reports, which stand by then.
Published ==
  /\ code # None => pc \in {"done", "dead"}
  /\ code # None /\ pc = "done" => code = ExitCode
  /\ page # None => code # None
  /\ page # None => page = IF pc = "done" THEN Band ELSE Unchecked

IInv ==
  /\ TypeOK
  /\ AskedFor
  /\ AnswersAreRead
  /\ Passes
  /\ Ended
  /\ Published

\* Nothing of StatusPage happens in a step of the check.
Same == UNCHANGED <<unchecked, archive, page, code>>

LEMMA InitHolds == Init => IInv
  BY DriftCheckAssumption DEF Init, DriftInit, IInv, TypeOK, AskedFor, Asking, AnswersAreRead,
     Passes, Ended, Published, Statuses, Texts, Kinds

\* The pin being asked for is one.
LEMMA OneFirst ==
  ASSUME NEW p \in Pins, NEW q \in Pins, First(p), First(q)
  PROVE  p = q
  BY DriftCheckAssumption DEF First, Pins

(***************************************************************************)
(* A report ends an attempt.                                               *)
(***************************************************************************)
\* What a report has to be, given what was read, for AnswersAreRead.
Fits(p, status, r, b) ==
  CASE status = "ok" -> r = "pinned"
    [] status = "drift" -> r = "other"
    [] status = "amended" -> r = "amendment"
    [] status = "error" -> kind[p] = "unkeyable" \/ b \/ r = "unstated"
    [] status = "fetch_failed" -> r \in {None, IF kind[p] = "history" THEN "pinned" ELSE None}
    [] OTHER -> r = None

LEMMA ReportHolds ==
  ASSUME IInv, NEW p \in Pins, First(p), pc \in {"next"} \cup Asking,
         NEW status \in Statuses, Report(p, status), Same,
         NEW r \in Texts \cup {"amendment", None}, NEW b \in BOOLEAN,
         Fits(p, status, r, b),
         read' = [read EXCEPT ![p] = r], broken' = [broken EXCEPT ![p] = b],
         kind' = kind, pass' = pass
  PROVE  IInv'
<1> USE DEF IInv
<1>1. p \in todo /\ pc' = "next" /\ code = None /\ page = None
  BY DEF First, Report, Published, Asking
<1>2. /\ reports' = [reports EXCEPT ![p] = status]
      /\ failed' = [failed EXCEPT ![p] =
                      @ \cup IF status = "fetch_failed" THEN {pass} ELSE {}]
      /\ todo' = todo \ {p}
  BY DEF Report
<1>3. TypeOK'
  BY <1>1, <1>2 DEF TypeOK, Same
<1>4. AskedFor'
  BY <1>1 DEF AskedFor, Asking
<1>5. AnswersAreRead'
  <2>1. SUFFICES ASSUME NEW q \in Pins
                 PROVE  Fits(q, reports[q], read[q], broken[q])'
    BY DEF AnswersAreRead, Fits
  <2>2. CASE q = p
    BY <1>2, <2>2 DEF Fits, TypeOK
  <2>3. CASE q # p
    <3>1. ~First(q)
      BY <2>3, OneFirst
    <3>2. Fits(q, reports[q], read[q], broken[q])
      BY <3>1 DEF AnswersAreRead, Fits
    <3> QED
      BY <1>2, <2>3, <3>2 DEF Fits, TypeOK
  <2> QED
    BY <2>2, <2>3
<1>6. Passes'
  <2>1. SUFFICES ASSUME NEW q \in Pins
                 PROVE  (/\ q \in todo => reports[q] = IF pass = 1 THEN None ELSE "fetch_failed"
                         /\ q \notin todo => reports[q] # None
                         /\ pass = 1 => failed[q] = IF reports[q] = "fetch_failed" THEN {1} ELSE {}
                         /\ pass = 2 /\ reports[q] = "fetch_failed" =>
                              failed[q] = IF q \in todo THEN {1} ELSE {1, 2})'
    BY DEF Passes
  <2>2. CASE q = p
    <3>1. status # None
      BY DriftCheckAssumption
    <3>2. failed[p] = IF pass = 1 THEN {} ELSE {1}
      BY <1>1, DriftCheckAssumption DEF Passes, TypeOK, Statuses
    <3> QED
      BY <1>1, <1>2, <2>2, <3>1, <3>2 DEF TypeOK
  <2>3. CASE q # p
    BY <1>2, <2>3 DEF Passes, TypeOK
  <2> QED
    BY <2>2, <2>3
<1>7. Ended' /\ Published'
  BY <1>1 DEF Ended, Published, Same
<1> QED
  BY <1>3, <1>4, <1>5, <1>6, <1>7

\* An attempt that has not ended goes on to its next fetch.
LEMMA GoOnHolds ==
  ASSUME IInv, NEW p \in Pins, First(p), pc \in {"next"} \cup Asking,
         NEW place \in Asking, GoOn(place), Same,
         NEW r \in Texts \cup {"amendment", None}, NEW b \in BOOLEAN,
         IF place = "history" THEN kind[p] = "history" /\ r = "pinned" ELSE r = None,
         read' = [read EXCEPT ![p] = r], broken' = [broken EXCEPT ![p] = b],
         kind' = kind, pass' = pass
  PROVE  IInv'
<1> USE DEF IInv
<1>1. /\ pc' = place /\ reports' = reports /\ failed' = failed /\ todo' = todo
      /\ code = None /\ page = None
  BY DEF GoOn, Published, Asking
<1>2. TypeOK'
  BY <1>1 DEF TypeOK, Same, Asking
<1>3. AskedFor'
  <2>1. \A q \in Pins : First(q)' => q = p
    BY <1>1, OneFirst DEF First
  <2> QED
    BY <1>1, <2>1 DEF AskedFor, TypeOK
<1>4. AnswersAreRead'
  <2>1. SUFFICES ASSUME NEW q \in Pins, ~First(q)
                 PROVE  Fits(q, reports[q], read[q], broken[q])'
    BY <1>1 DEF AnswersAreRead, Fits, Asking, First
  <2>2. Fits(q, reports[q], read[q], broken[q])
    BY <2>1 DEF AnswersAreRead, Fits
  <2> QED
    BY <1>1, <2>1, <2>2 DEF Fits, TypeOK
<1>5. Passes' /\ Ended' /\ Published'
  BY <1>1 DEF Passes, Ended, Published, Same, Asking
<1> QED
  BY <1>2, <1>3, <1>4, <1>5

(***************************************************************************)
(* The steps of check.                                                     *)
(***************************************************************************)
LEMMA BeginHolds ==
  ASSUME IInv, NEW p \in Pins, Begin(p), Same
  PROVE  IInv'
<1>1. /\ First(p) /\ pc = "next" /\ kind' = kind /\ pass' = pass
      /\ read' = [read EXCEPT ![p] = None] /\ broken' = [broken EXCEPT ![p] = FALSE]
      /\ kind[p] \in Kinds
  BY DEF Begin, IInv, TypeOK
<1>2. CASE kind[p] = "fixed"
  <2>1. Report(p, "fixed") /\ Fits(p, "fixed", None, FALSE)
    BY <1>2 DEF Begin, Fits
  <2> QED
    BY <1>1, <2>1, ReportHolds DEF Statuses
<1>3. CASE kind[p] = "keyless"
  <2>1. Report(p, "key_missing") /\ Fits(p, "key_missing", None, FALSE)
    BY <1>3 DEF Begin, Fits
  <2> QED
    BY <1>1, <2>1, ReportHolds DEF Statuses
<1>4. CASE kind[p] = "unkeyable"
  <2>1. Report(p, "error") /\ Fits(p, "error", None, FALSE)
    BY <1>4 DEF Begin, Fits
  <2> QED
    BY <1>1, <2>1, ReportHolds DEF Statuses
<1>5. CASE kind[p] \notin {"fixed", "keyless", "unkeyable"}
  <2>1. GoOn("pinned")
    BY <1>5 DEF Begin
  <2> QED
    BY <1>1, <2>1, GoOnHolds DEF Asking
<1> QED
  BY <1>2, <1>3, <1>4, <1>5

\* What all fetches share: a body is compared, the fetch raises, or the
\* document is not reached.
LEMMA CompareHolds ==
  ASSUME IInv, NEW p \in Pins, First(p), pc \in {"next"} \cup Asking, Compare(p), Same,
         kind' = kind, pass' = pass
  PROVE  IInv'
<1>1. broken' = [broken EXCEPT ![p] = broken[p]] /\ broken[p] \in BOOLEAN
  BY DEF Compare, Reads, IInv, TypeOK
<1>2. CASE Reads(p, "unstated") /\ Report(p, "error")
  <2>1. Fits(p, "error", "unstated", broken[p])
    BY DEF Fits
  <2> QED
    BY <1>1, <1>2, <2>1, ReportHolds DEF Statuses, Reads, Texts
<1>3. CASE Reads(p, "other") /\ Report(p, "drift")
  <2>1. Fits(p, "drift", "other", broken[p])
    BY DEF Fits
  <2> QED
    BY <1>1, <1>3, <2>1, ReportHolds DEF Statuses, Reads, Texts
<1>4. CASE Reads(p, "pinned") /\ kind[p] = "history" /\ GoOn("history")
  BY <1>1, <1>4, GoOnHolds DEF Asking, Reads, Texts
<1>5. CASE Reads(p, "pinned") /\ Report(p, "ok")
  <2>1. Fits(p, "ok", "pinned", broken[p])
    BY DEF Fits
  <2> QED
    BY <1>1, <1>5, <2>1, ReportHolds DEF Statuses, Reads, Texts
<1> QED
  BY <1>2, <1>3, <1>4, <1>5 DEF Compare

LEMMA RaisesHolds ==
  ASSUME IInv, NEW p \in Pins, First(p), pc \in {"next"} \cup Asking, Raises(p), Same,
         kind' = kind, pass' = pass
  PROVE  IInv'
<1>1. read' = [read EXCEPT ![p] = read[p]] /\ read[p] \in Texts \cup {"amendment", None}
  BY DEF Raises, IInv, TypeOK
<1>2. Fits(p, "error", read[p], TRUE)
  BY DEF Fits
<1> QED
  BY <1>1, <1>2, ReportHolds DEF Raises, Statuses

LEMMA UnreachedHolds ==
  ASSUME IInv, NEW p \in Pins, First(p), pc \in Asking, Unreached(p), Same,
         kind' = kind, pass' = pass
  PROVE  IInv'
<1>1. /\ read' = [read EXCEPT ![p] = read[p]] /\ read[p] \in Texts \cup {"amendment", None}
      /\ broken' = [broken EXCEPT ![p] = broken[p]] /\ broken[p] \in BOOLEAN
  BY DEF Unreached, IInv, TypeOK
<1>2. Fits(p, "fetch_failed", read[p], broken[p])
  BY DEF Fits, IInv, AskedFor
<1> QED
  BY <1>1, <1>2, ReportHolds DEF Unreached, Statuses

LEMMA FetchHolds ==
  ASSUME IInv, NEW p \in Pins, FetchPinned(p) \/ FetchFallback(p) \/ FetchHistory(p), Same
  PROVE  IInv'
<1>1. First(p) /\ pc \in Asking /\ kind' = kind /\ pass' = pass
  BY DEF FetchPinned, FetchFallback, FetchHistory, Asking
<1>2. CASE kind[p] = "fallback" /\ GoOn("fallback") /\ UNCHANGED <<read, broken>> /\ pc = "pinned"
  <2>1. /\ read' = [read EXCEPT ![p] = read[p]] /\ read[p] = None
        /\ broken' = [broken EXCEPT ![p] = broken[p]] /\ broken[p] \in BOOLEAN
    BY <1>1, <1>2 DEF IInv, TypeOK, AskedFor
  <2> QED
    BY <1>1, <1>2, <2>1, GoOnHolds DEF Asking
<1>3. CASE Compare(p)
  BY <1>1, <1>3, CompareHolds
<1>4. CASE Unreached(p)
  BY <1>1, <1>4, UnreachedHolds
<1>5. CASE Raises(p)
  BY <1>1, <1>5, RaisesHolds
<1>6. CASE FetchHistory(p) /\ ~Unreached(p) /\ ~Raises(p)
  <2>1. /\ broken' = [broken EXCEPT ![p] = broken[p]] /\ broken[p] \in BOOLEAN
        /\ Same
    BY <1>6 DEF FetchHistory, Reads, IInv, TypeOK
  <2>2. CASE Reads(p, "pinned") /\ Report(p, "ok")
    <3>1. Fits(p, "ok", "pinned", broken[p])
      BY DEF Fits
    <3> QED
      BY <1>1, <2>1, <2>2, <3>1, ReportHolds DEF Statuses, Reads, Texts
  <2>3. CASE Reads(p, "amendment") /\ Report(p, "amended")
    <3>1. Fits(p, "amended", "amendment", broken[p])
      BY DEF Fits
    <3> QED
      BY <1>1, <2>1, <2>3, <3>1, ReportHolds DEF Statuses, Reads
  <2>4. CASE Reads(p, "unstated") /\ Report(p, "error")
    <3>1. Fits(p, "error", "unstated", broken[p])
      BY DEF Fits
    <3> QED
      BY <1>1, <2>1, <2>4, <3>1, ReportHolds DEF Statuses, Reads, Texts
  <2> QED
    BY <1>6, <2>2, <2>3, <2>4 DEF FetchHistory
<1> QED
  BY <1>2, <1>3, <1>4, <1>5, <1>6 DEF FetchPinned, FetchFallback, Refused

(***************************************************************************)
(* The steps of check_all and of the job.                                  *)
(***************************************************************************)
LEMMA PassHolds ==
  ASSUME IInv, RetryFailed \/ DriftEnds \/ Dies, Same
  PROVE  IInv'
<1> USE DEF IInv
<1>1. CASE RetryFailed
  <2>1. TypeOK' /\ AskedFor' /\ Ended' /\ Published' /\ AnswersAreRead'
    BY <1>1 DEF RetryFailed, Failed, TypeOK, AskedFor, Asking, Ended, Published, Same,
       AnswersAreRead
  <2>2. Passes'
    BY <1>1, DriftCheckAssumption DEF RetryFailed, Failed, Passes
  <2> QED
    BY <2>1, <2>2
<1>2. CASE DriftEnds
  BY <1>2 DEF DriftEnds, Failed, TypeOK, AskedFor, Asking, Ended, Published, Same,
     AnswersAreRead, Passes, First
<1>3. CASE Dies
  <2>1. AnswersAreRead'
    BY <1>3 DEF Dies, AnswersAreRead, First
  <2> QED
    BY <1>3, <2>1 DEF Dies, TypeOK, AskedFor, Asking, Ended, Published, Same, Passes
<1> QED
  BY <1>1, <1>2, <1>3

\* Codes have a highest rank.
LEMMA CodesHaveAHighest ==
  ASSUME NEW S \in SUBSET {1, 2, 3}, S # {}
  PROVE  \E c \in S : \A d \in S : ExitRank[d] <= ExitRank[c]
<1>1. ExitRank[1] = 1 /\ ExitRank[2] = 3 /\ ExitRank[3] = 2
  BY DEF ExitRank
<1>2. CASE 2 \in S
  <2>1. \A d \in S : ExitRank[d] <= ExitRank[2]
    BY <1>1
  <2> QED
    BY <1>2, <2>1
<1>3. CASE 2 \notin S /\ 3 \in S
  <2>1. \A d \in S : ExitRank[d] <= ExitRank[3]
    BY <1>1, <1>3
  <2> QED
    BY <1>3, <2>1
<1>4. CASE S = {1}
  <2>1. \A d \in S : ExitRank[d] <= ExitRank[1]
    BY <1>1, <1>4
  <2> QED
    BY <1>4, <2>1
<1> QED
  BY <1>2, <1>3, <1>4

\* What the exit code says, whatever the reports are.
LEMMA ExitCodeMeans ==
  ASSUME reports \in [Pins -> Statuses]
  PROVE  /\ ExitCode \in {0, 1, 2, 3}
         /\ \A p \in Pins :
              /\ ExitCode = 0 => reports[p] \in {"ok", "fixed"}
              /\ ExitCode = 1 => reports[p] \notin {"key_missing", "fetch_failed"}
              /\ ExitCode = 3 => reports[p] # "key_missing"
<1> DEFINE codes == {ExitCodes[reports[p]] : p \in Pins} \ {0}
<1>1. \A s \in Statuses : ExitCodes[s] \in {0, 1, 2, 3}
  BY DEF Statuses, ExitCodes
<1>2. codes \in SUBSET {1, 2, 3}
  BY <1>1
<1>3. CASE codes = {}
  <2>1. ExitCode = 0
    BY <1>3 DEF ExitCode
  <2>2. \A p \in Pins : ExitCodes[reports[p]] = 0
    BY <1>3
  <2> QED
    BY <2>1, <2>2 DEF ExitCodes, Statuses
<1>4. CASE codes # {}
  <2> DEFINE Highest(c) == c \in codes /\ \A d \in codes : ExitRank[d] <= ExitRank[c]
  <2>1. ExitCode = CHOOSE c \in codes : \A d \in codes : ExitRank[d] <= ExitRank[c]
    BY <1>4 DEF ExitCode
  <2>2. \E c \in codes : \A d \in codes : ExitRank[d] <= ExitRank[c]
    <3> HIDE DEF codes
    <3> QED
      BY <1>2, <1>4, CodesHaveAHighest
  <2>3. ExitCode \in codes /\ \A d \in codes : ExitRank[d] <= ExitRank[ExitCode]
    <3> HIDE DEF codes
    <3> QED
      BY <2>1, <2>2
  <2>4. ASSUME NEW p \in Pins, ExitCodes[reports[p]] # 0
        PROVE  ExitRank[ExitCodes[reports[p]]] <= ExitRank[ExitCode]
    BY <2>3, <2>4
  <2>5. ExitRank[1] = 1 /\ ExitRank[2] = 3 /\ ExitRank[3] = 2
    BY DEF ExitRank
  <2>6. ExitCode \in {1, 2, 3}
    BY <1>2, <2>3
  <2>7. ASSUME NEW p \in Pins, reports[p] = "key_missing" PROVE ExitCode = 2
    BY <2>4, <2>5, <2>6, <2>7 DEF ExitCodes
  <2>8. ASSUME NEW p \in Pins, reports[p] = "fetch_failed" PROVE ExitCode # 1
    BY <2>4, <2>5, <2>6, <2>8 DEF ExitCodes
  <2> QED
    BY <2>6, <2>7, <2>8
<1> QED
  BY <1>3, <1>4

\* The check has ended with a report of every pin.
LEMMA EndedWithReports ==
  ASSUME IInv, pc = "done"
  PROVE  reports \in [Pins -> Statuses]
  BY DEF IInv, TypeOK, Ended, Passes

LEMMA BandIsOfTheReports ==
  ASSUME reports' = reports, archive' = archive, unchecked' = unchecked
  PROVE  Band' = Band /\ ExitCode' = ExitCode
<1>1. ExitCode' = ExitCode
  BY DEF ExitCode
<1>2. Fixed' = Fixed
  BY DEF Fixed
<1>3. Fetched' = Fetched /\ Held' = Held
  BY <1>2 DEF Fetched, Held
<1>4. \A p : CaptureVerdict(p)' = CaptureVerdict(p)
  BY DEF CaptureVerdict
<1>5. Settled' = Settled
  BY <1>3, <1>4 DEF Settled
<1>6. Good' = Good /\ Scope' = Scope
  BY <1>2, <1>3, <1>4, <1>5 DEF Good, Scope
<1> QED
  BY <1>1, <1>3, <1>5, <1>6 DEF Band

LEMMA JobHolds ==
  ASSUME IInv, CheckEnds \/ Download \/ Build
  PROVE  IInv'
<1> USE DEF IInv
<1>1. reports' = reports /\ unchecked' = unchecked /\ UNCHANGED driftVars
  BY DEF CheckEnds, Download, Build, driftVars
<1>2. AskedFor' /\ AnswersAreRead' /\ Passes' /\ Ended'
  BY <1>1 DEF driftVars, AskedFor, AnswersAreRead, Passes, Ended, First, Failed
<1>3. TypeOK'
  <2>1. code' \in {0, 1, 2, 3, None}
    BY EndedWithReports, ExitCodeMeans DEF CheckEnds, Download, Build, TypeOK
  <2> QED
    BY <1>1, <2>1 DEF driftVars, CheckEnds, Download, Build, TypeOK
<1>4. Published'
  <2>1. CASE CheckEnds
    BY <1>1, <2>1, BandIsOfTheReports DEF CheckEnds, driftVars, Published
  <2>2. CASE Download
    <3>1. ExitCode' = ExitCode
      BY <1>1 DEF ExitCode
    <3> QED
      BY <1>1, <2>2, <3>1 DEF Download, driftVars, Published
  <2>3. CASE Build
    <3>1. Band' = Band /\ ExitCode' = ExitCode
      BY <1>1, <2>3, BandIsOfTheReports DEF Build
    <3> QED
      BY <1>1, <2>3, <3>1 DEF Build, driftVars, Published, Unchecked
  <2> QED
    BY <2>1, <2>2, <2>3
<1> QED
  BY <1>2, <1>3, <1>4

LEMMA StepHolds == IInv /\ [Next]_vars => IInv'
<1> SUFFICES ASSUME IInv, [Next]_vars PROVE IInv'
  OBVIOUS
<1>1. CASE (DriftStep \/ Dies) /\ Same
  BY <1>1, BeginHolds, FetchHolds, PassHolds DEF DriftStep
<1>2. CASE CheckEnds \/ Download \/ Build
  BY <1>2, JobHolds
<1>3. CASE UNCHANGED vars
  <2>1. Band' = Band /\ ExitCode' = ExitCode
    BY <1>3, BandIsOfTheReports DEF vars
  <2> QED
    BY <1>3, <2>1 DEF vars, IInv, TypeOK, AskedFor, AnswersAreRead, Passes, Ended, Published,
       First, Failed, Unchecked
<1> QED
  BY <1>1, <1>2, <1>3 DEF Next, Same

THEOREM Invariance == Spec => []IInv
  BY InitHolds, StepHolds, PTL DEF Spec

\* Every variable keeps its type, in any run of the check and its job.
THEOREM TypeCorrect == Spec => []TypeOK
<1>1. IInv => TypeOK
  BY DEF IInv
<1> QED
  BY <1>1, Invariance, PTL

\* A report is of what the check of its pin read last (check).
THEOREM ReportsAreRead == Spec => []AnswersAreRead
<1>1. IInv => AnswersAreRead
  BY DEF IInv
<1> QED
  BY <1>1, Invariance, PTL

\* A pin reported as not reached was not reached in either pass (check_all).
THEOREM FailuresAreTwo == Spec => []FailuresAreConfirmed
<1>1. IInv => FailuresAreConfirmed
  BY DEF IInv, TypeOK, Passes, Ended, Failed, FailuresAreConfirmed
<1> QED
  BY <1>1, Invariance, PTL

\* The exit code says what its documentation says of every pin (_EXIT_CODES).
THEOREM CodeIsSound == Spec => []ExitCodeIsSound
<1>1. IInv => ExitCodeIsSound
  BY EndedWithReports, ExitCodeMeans DEF IInv, Published, ExitCodeIsSound
<1> QED
  BY <1>1, Invariance, PTL

LEMMA AnswersStandHolds ==
  ASSUME IInv, Next, NEW p \in Pins, reports[p] \notin {None, "fetch_failed"}
  PROVE  reports'[p] = reports[p]
<1>1. p \notin todo
  BY DEF IInv, Passes
<1>2. ASSUME NEW q \in Pins, NEW status \in Statuses, First(q), Report(q, status)
      PROVE  reports'[p] = reports[p]
  BY <1>1, <1>2 DEF First, Report, IInv, TypeOK
<1>3. ASSUME NEW q \in Pins, Begin(q) \/ FetchPinned(q) \/ FetchFallback(q) \/ FetchHistory(q)
      PROVE  \/ reports' = reports
             \/ First(q) /\ \E status \in Statuses : Report(q, status)
  BY <1>3 DEF Begin, FetchPinned, FetchFallback, FetchHistory, Compare, Refused, Unreached,
     Raises, GoOn, Statuses
<1>4. CASE \E q \in Pins : Begin(q) \/ FetchPinned(q) \/ FetchFallback(q) \/ FetchHistory(q)
  BY <1>2, <1>3, <1>4
<1>5. CASE RetryFailed \/ DriftEnds \/ Dies \/ CheckEnds \/ Download \/ Build
  BY <1>5 DEF RetryFailed, DriftEnds, Dies, CheckEnds, Download, Build, driftVars
<1> QED
  BY <1>4, <1>5 DEF Next, DriftStep

\* No answer about a document is replaced within a run (check_all).
THEOREM AnswersAreKept == Spec => AnswersStand
<1>1. IInv /\ [Next]_vars =>
        [\A p \in Pins : reports[p] \notin {None, "fetch_failed"} =>
           reports'[p] = reports[p]]_vars
  BY AnswersStandHolds
<1> QED
  BY <1>1, Invariance, PTL DEF Spec, AnswersStand

(***************************************************************************)
(* The page.                                                               *)
(***************************************************************************)
LEMMA VerdictIsTheStrongest ==
  ASSUME IInv, NEW p \in Held
  PROVE  /\ CaptureVerdict(p) \in archive[p]
         /\ archive[p] \cap {"lost", "missing"} # {} => CaptureVerdict(p) \in {"lost", "missing"}
<1> DEFINE A == archive[p]
           Strongest(k) == /\ k \in DOMAIN CaptureRank
                           /\ CaptureRank[k] \in A
                           /\ \A j \in DOMAIN CaptureRank : CaptureRank[j] \in A => j <= k
<1>1. A # {} /\ A \subseteq CaptureVerdicts
  BY DEF Held, IInv, TypeOK, Fixed
<1>2. /\ DOMAIN CaptureRank = 1 .. 5
      /\ CaptureRank[1] = "ok" /\ CaptureRank[2] = "not_checkable"
      /\ CaptureRank[3] = "unchecked" /\ CaptureRank[4] = "missing"
      /\ CaptureRank[5] = "lost"
  BY DEF CaptureRank
<1>3. \E k : Strongest(k)
  <2> SUFFICES \E k \in 1 .. 5 : Strongest(k)
    OBVIOUS
  <2>1. CASE "lost" \in A
    <3>1. Strongest(5)
      BY <1>2, <2>1
    <3> QED
      BY <3>1
  <2>2. CASE "missing" \in A /\ "lost" \notin A
    <3>1. Strongest(4)
      BY <1>2, <2>2
    <3> QED
      BY <3>1
  <2>3. CASE "unchecked" \in A /\ A \cap {"missing", "lost"} = {}
    <3>1. Strongest(3)
      BY <1>2, <2>3
    <3> QED
      BY <3>1
  <2>4. CASE "not_checkable" \in A /\ A \cap {"unchecked", "missing", "lost"} = {}
    <3>1. Strongest(2)
      BY <1>2, <2>4
    <3> QED
      BY <3>1
  <2>5. CASE A = {"ok"}
    <3>1. Strongest(1)
      BY <1>2, <2>5
    <3> QED
      BY <3>1
  <2> QED
    BY <1>1, <2>1, <2>2, <2>3, <2>4, <2>5 DEF CaptureVerdicts
<1>4. PICK k : Strongest(k) /\ CaptureVerdict(p) = CaptureRank[k]
  <2>1. CaptureVerdict(p) = CaptureRank[CHOOSE k : Strongest(k)]
    BY DEF CaptureVerdict
  <2> HIDE DEF Strongest
  <2> QED
    BY <1>3, <2>1
<1>5. A \cap {"lost", "missing"} # {} => k >= 4
  BY <1>2, <1>4
<1> QED
  BY <1>2, <1>4, <1>5

LEMMA Counts ==
  ASSUME IInv
  PROVE  LET all == Fetched \cup Settled
         IN /\ Good \subseteq all /\ all \subseteq Pins
            /\ Cardinality(all) \in Nat /\ Cardinality(all) <= N
            /\ Cardinality(Good) \in Nat /\ Cardinality(Good) <= Cardinality(all)
            /\ Cardinality(all) = 0 <=> all = {}
            /\ Cardinality(Good) = Cardinality(all) <=> Good = all
<1>1. Good \subseteq Fetched \cup Settled /\ Fetched \cup Settled \subseteq Pins
  BY DEF Good, Fetched, Settled, Held, Fixed
<1>2. IsFiniteSet(Pins) /\ Cardinality(Pins) = N
  BY DriftCheckAssumption, FS_Interval DEF Pins
<1>3. /\ IsFiniteSet(Fetched \cup Settled)
      /\ Cardinality(Fetched \cup Settled) <= N
  BY <1>1, <1>2, FS_Subset
<1> QED
  BY <1>1, <1>3, FS_Subset, FS_CardinalityType, FS_EmptySet

\* A page of a check that ended is its band.
LEMMA PageIsTheBand ==
  ASSUME IInv, page # None, pc = "done"
  PROVE  page = Band
  BY DEF IInv, Published

\* A green band is earned by every pin it is said of (_band).
THEOREM GreenIsTrue == Spec => []GreenIsEarned
<1>1. ASSUME IInv, page # None, page.tone = "ok" PROVE GreenIsEarned
  <2>1. page = Band /\ pc = "done"
    BY <1>1 DEF IInv, Published, Unchecked
  <2>2. /\ Cardinality(Fetched \cup Settled) # 0
        /\ Cardinality(Good) = Cardinality(Fetched \cup Settled)
        /\ page.good = Cardinality(Good) /\ page.scope = Scope
    BY <1>1, <2>1, Counts DEF Band, Unchecked
  <2>3. page.good > 0 /\ Good = Fetched \cup Settled
    BY <1>1, <2>2, Counts
  <2>4. ASSUME NEW p \in Pins
        PROVE  \/ reports[p] = "ok" /\ read[p] = "pinned"
               \/ /\ reports[p] = "fixed"
                  /\ archive # None => archive[p] \cap {"lost", "missing"} = {}
                  /\ page.scope = "pinned" => archive # None /\ "ok" \in archive[p]
    <3>1. CASE p \in Fetched
      <4>1. reports[p] = "ok"
        BY <2>3, <3>1 DEF Good, Settled, Held, Fetched
      <4> QED
        BY <1>1, <2>1, <4>1 DEF IInv, AnswersAreRead
    <3>2. CASE p \in Fixed
      <4>1. p \in Settled => p \in Held /\ CaptureVerdict(p) = "ok"
        BY <2>3, <3>2 DEF Good, Settled, Fetched
      <4>2. archive # None => archive[p] \cap {"lost", "missing"} = {}
        <5> SUFFICES ASSUME archive # None, archive[p] \cap {"lost", "missing"} # {}
                     PROVE  FALSE
          OBVIOUS
        <5>1. p \in Held
          BY <3>2 DEF Held
        <5>2. CaptureVerdict(p) \in {"lost", "missing"}
          BY <1>1, <5>1, VerdictIsTheStrongest
        <5> QED
          BY <4>1, <5>1, <5>2 DEF Settled, Counted
      <4>3. page.scope = "pinned" => archive # None /\ "ok" \in archive[p]
        <5> SUFFICES ASSUME page.scope = "pinned"
                     PROVE  archive # None /\ "ok" \in archive[p]
          OBVIOUS
        <5>1. archive # None /\ p \in Settled
          BY <2>2, <3>2 DEF Scope
        <5> QED
          BY <1>1, <4>1, <5>1, VerdictIsTheStrongest
      <4> QED
        BY <3>2, <4>2, <4>3 DEF Fixed
    <3> QED
      BY <3>1, <3>2 DEF Fetched
  <2> QED
    BY <2>3, <2>4 DEF GreenIsEarned
<1>2. IInv => GreenIsEarned
  BY <1>1 DEF GreenIsEarned
<1> QED
  BY <1>2, Invariance, PTL

\* The pills of the rows and the band agree (_band, _check_cell).
LEMMA PillsAreCounted ==
  ASSUME IInv
  PROVE  /\ {p \in Pins : Pill(p) = "ok"} = Good
         /\ \A p \in Pins : Pill(p) = "drift" => p \in (Fetched \cup Settled) \ Good
<1>1. ASSUME NEW p \in Pins
      PROVE  /\ Pill(p) = "ok" <=> p \in Good
             /\ Pill(p) = "drift" => p \in (Fetched \cup Settled) \ Good
  <2>1. CASE p \in Held
    <3>1. p \notin Fetched /\ reports[p] = "fixed"
      BY <2>1 DEF Held, Fetched, Fixed
    <3>2. /\ Pill(p) = "ok" <=> CaptureVerdict(p) = "ok"
          /\ Pill(p) = "drift" =>
               CaptureVerdict(p) \in {"drift", "amended", "lost", "missing"}
      BY <2>1 DEF Pill
    <3>3. CaptureVerdict(p) \in CaptureVerdicts
      BY <2>1, VerdictIsTheStrongest DEF IInv, TypeOK, Held, Fixed
    <3> QED
      BY <2>1, <3>1, <3>2, <3>3 DEF Good, Settled, Counted, CaptureVerdicts
  <2>2. CASE p \notin Held
    <3>1. p \notin Settled
      BY <2>2 DEF Settled
    <3>2. Pill(p) = "ok" <=> reports[p] = "ok"
      BY <2>2 DEF Pill
    <3>3. Pill(p) = "drift" => reports[p] \in {"drift", "amended", "lost", "missing"}
      BY <2>2 DEF Pill
    <3> QED
      BY <3>1, <3>2, <3>3 DEF Good, Fetched, Fixed
  <2> QED
    BY <2>1, <2>2
<1>2. Good \subseteq Pins
  BY DEF Good, Fetched, Settled, Held, Fixed
<1> QED
  BY <1>1, <1>2

\* The band counts what the rows show (_band, _check_cell).
THEOREM RowsAreCounted == Spec => []BandCountsTheRows
<1>1. ASSUME IInv, page # None, pc = "done" PROVE BandCountsTheRows
  <2> DEFINE all == Fetched \cup Settled
  <2>1. page = Band
    BY <1>1, PageIsTheBand
  <2>2. /\ Good \subseteq all /\ all \subseteq Pins
        /\ Cardinality(all) \in Nat /\ Cardinality(all) <= N
        /\ Cardinality(Good) \in Nat /\ Cardinality(Good) <= Cardinality(all)
        /\ Cardinality(all) = 0 <=> all = {}
        /\ Cardinality(Good) = Cardinality(all) <=> Good = all
    BY <1>1, Counts
  <2>3. page.good = Cardinality(Good)
    BY <2>1, <2>2 DEF Band, Unchecked
  <2>4. page.tone = "drift" <=> Cardinality(all) > 0 /\ Cardinality(Good) # Cardinality(all)
    BY <2>1, <2>2 DEF Band, Unchecked
  <2>5. ASSUME NEW p \in Pins, Pill(p) = "drift" PROVE page.tone = "drift"
    BY <1>1, <2>2, <2>4, <2>5, PillsAreCounted
  <2>6. page.tone = "drift" => page.good < page.of
    <3> SUFFICES ASSUME page.tone = "drift" PROVE page.good < page.of
      OBVIOUS
    <3>1. page.of \in {N + unchecked, Cardinality(all)}
      BY <2>1, <2>2, <2>4 DEF Band
    <3>2. unchecked \in {0, 1} /\ N \in Nat
      BY <1>1, DriftCheckAssumption DEF IInv, TypeOK
    <3> QED
      BY <2>2, <2>3, <2>4, <3>1, <3>2
  <2> QED
    BY <1>1, <2>3, <2>5, <2>6, PillsAreCounted DEF BandCountsTheRows
<1>2. IInv => BandCountsTheRows
  BY <1>1 DEF BandCountsTheRows
<1> QED
  BY <1>2, Invariance, PTL

(***************************************************************************)
(* Every run is finite.  That a page is published also needs the fairness  *)
(* of the job and is left to TLC; proved here is that each step brings the *)
(* end closer, by a measure that cannot shrink for ever.                   *)
(***************************************************************************)
\* The two passes of the check, the end of the check, the artifact, the page.
Stage ==
  CASE page # None -> 0
    [] page = None /\ code # None -> IF archive = None THEN 2 ELSE 1
    [] page = None /\ code = None /\ pc \in {"done", "dead"} -> 3
    [] OTHER -> IF pass = 2 THEN 4 ELSE 5

\* The pins that a pass has still to check.
Turns == Cardinality(todo)

\* The addresses that may still be read of the pin being checked.
Moves == CASE pc = "next" -> 3
           [] pc = "pinned" -> 2
           [] pc = "fallback" -> 1
           [] OTHER -> 0

\* The measure, in lexicographic order, is smaller after the step.
Closer ==
  \/ Stage' < Stage
  \/ /\ Stage' = Stage
     /\ \/ Turns' < Turns
        \/ Turns' = Turns /\ Moves' < Moves

LEMMA TodoIsFinite ==
  ASSUME IInv
  PROVE  IsFiniteSet(todo) /\ Cardinality(todo) \in Nat
<1>1. IsFiniteSet(Pins)
  BY DriftCheckAssumption, FS_Interval DEF Pins
<1>2. IsFiniteSet(todo)
  BY <1>1, FS_Subset DEF IInv, TypeOK
<1> QED BY <1>2, FS_CardinalityType

LEMMA MeasureIsNatural ==
  ASSUME IInv
  PROVE  Stage \in Nat /\ Turns \in Nat /\ Moves \in Nat
BY TodoIsFinite DEF Stage, Turns, Moves

\* While the check runs, neither its code nor the page is there.
LEMMA Running ==
  ASSUME IInv, pc \notin {"done", "dead"}
  PROVE  code = None /\ page = None /\ Stage = (IF pass = 2 THEN 4 ELSE 5)
<1>1. code = None /\ page = None
  BY DEF IInv, Published
<1> QED BY <1>1 DEF Stage

LEMMA StillRunning ==
  ASSUME IInv, pc \notin {"done", "dead"}, pc' \notin {"done", "dead"}, Same,
         pass' = pass
  PROVE  Stage' = Stage
<1>1. code' = None /\ page' = None
  BY Running DEF Same
<1> QED BY <1>1, Running DEF Stage

LEMMA ReportIsCloser ==
  ASSUME IInv, pc \notin {"done", "dead"}, Same, pass' = pass,
         NEW p, First(p), NEW status, Report(p, status)
  PROVE  Closer
<1>1. todo' = todo \ {p} /\ p \in todo /\ pc' = "next"
  BY DEF Report, First
<1>2. Turns' < Turns
  BY <1>1, TodoIsFinite, FS_RemoveElement DEF Turns
<1>3. Stage' = Stage
  BY <1>1, StillRunning
<1> QED BY <1>2, <1>3 DEF Closer

LEMMA GoOnIsCloser ==
  ASSUME IInv, Same, pass' = pass, NEW there, GoOn(there),
         \/ pc = "next" /\ there = "pinned"
         \/ pc = "pinned" /\ there \in {"fallback", "history"}
         \/ pc = "fallback" /\ there = "history"
  PROVE  Closer
<1>1. pc' = there /\ Turns' = Turns
  BY DEF GoOn, Turns
<1>2. Stage' = Stage
  BY <1>1, StillRunning
<1>3. Moves' < Moves
  BY <1>1 DEF Moves
<1> QED BY <1>1, <1>2, <1>3 DEF Closer

\* An attempt at a pin goes on, or reports it.
LEMMA AttemptIsCloser ==
  ASSUME IInv, Same, NEW p \in Pins,
         Begin(p) \/ FetchPinned(p) \/ FetchFallback(p) \/ FetchHistory(p)
  PROVE  Closer
<1>1. First(p) /\ pass' = pass /\ pc \notin {"done", "dead"}
  BY DEF Begin, FetchPinned, FetchFallback, FetchHistory
<1>2. CASE \E status : Report(p, status)
  BY <1>1, <1>2, ReportIsCloser
<1>3. Begin(p) => (\E status : Report(p, status)) \/ (pc = "next" /\ GoOn("pinned"))
  BY DEF Begin
<1>4. Compare(p) => (\E status : Report(p, status)) \/ GoOn("history")
  BY DEF Compare
<1>5. Refused(p) => (\E status : Report(p, status)) \/ GoOn("fallback")
  BY DEF Refused, Unreached
<1>6. Unreached(p) \/ Raises(p) => \E status : Report(p, status)
  BY DEF Unreached, Raises
<1>7. FetchPinned(p) =>
        \/ \E status : Report(p, status)
        \/ pc = "pinned" /\ (GoOn("history") \/ GoOn("fallback"))
  BY <1>4, <1>5, <1>6 DEF FetchPinned
<1>8. FetchFallback(p) =>
        \/ \E status : Report(p, status)
        \/ pc = "fallback" /\ GoOn("history")
  BY <1>4, <1>6 DEF FetchFallback
<1>9. FetchHistory(p) => \E status : Report(p, status)
  BY <1>6 DEF FetchHistory
<1> QED BY <1>1, <1>2, <1>3, <1>7, <1>8, <1>9, GoOnIsCloser

LEMMA PassIsCloser ==
  ASSUME IInv, Same, RetryFailed \/ DriftEnds \/ Dies
  PROVE  Closer
<1>1. pc \notin {"done", "dead"}
  BY DEF RetryFailed, DriftEnds, Dies
<1>2. code' = None /\ page' = None
  BY <1>1, Running DEF Same
<1>3. CASE RetryFailed
  <2>1. pass = 1 /\ pass' = 2 /\ pc' = pc
    BY <1>3 DEF RetryFailed
  <2> QED BY <1>1, <1>2, <2>1, Running DEF Closer, Stage
<1>4. CASE pc' \in {"done", "dead"}
  <2>1. Stage' = 3
    BY <1>2, <1>4 DEF Stage
  <2> QED BY <1>1, <2>1, Running DEF Closer
<1> QED BY <1>3, <1>4 DEF DriftEnds, Dies

LEMMA JobIsCloser ==
  ASSUME IInv, CheckEnds \/ Download \/ Build, vars' # vars
  PROVE  Closer
<1>1. CASE CheckEnds
  <2>1. page = None /\ page' = None /\ code = None /\ pc \in {"done", "dead"}
    BY <1>1 DEF CheckEnds, IInv, Published
  <2>2. code' # None
    BY <1>1, <2>1 DEF CheckEnds, vars, driftVars
  <2>3. Stage = 3 /\ Stage' \in {1, 2}
    BY <2>1, <2>2 DEF Stage
  <2> QED BY <2>3 DEF Closer
<1>2. CASE Download
  <2>1. /\ page = None /\ page' = None /\ code # None /\ code' = code
        /\ archive = None /\ archive' # None
    BY <1>2 DEF Download, vars, driftVars
  <2>2. Stage = 2 /\ Stage' = 1
    BY <2>1 DEF Stage
  <2> QED BY <2>2 DEF Closer
<1>3. CASE Build
  <2>1. page = None /\ page' # None /\ code # None
    BY <1>3 DEF Build, vars, driftVars
  <2>2. Stage \in {1, 2} /\ Stage' = 0
    BY <2>1 DEF Stage
  <2> QED BY <2>2 DEF Closer
<1> QED BY <1>1, <1>2, <1>3

\* Every step of the drift check and of the job around it brings the page
\* closer, and it cannot come closer for ever: a pin that cannot be reached is
\* checked in two passes and no more, whatever fallbacks and histories its
\* fetcher has (check, check_all, status-page.yml).
THEOREM EveryRunIsFinite ==
  Spec => [](Stage \in Nat /\ Turns \in Nat /\ Moves \in Nat) /\ [][Closer]_vars
<1>1. IInv => Stage \in Nat /\ Turns \in Nat /\ Moves \in Nat
  BY MeasureIsNatural
<1>2. IInv /\ [Next]_vars => [Closer]_vars
  <2> SUFFICES ASSUME IInv, Next, vars' # vars PROVE Closer
    BY Zenon
  <2>1. CASE (DriftStep \/ Dies) /\ Same
    BY <2>1, AttemptIsCloser, PassIsCloser DEF DriftStep
  <2> QED BY <2>1, JobIsCloser, Zenon DEF Next, Same
<1> QED
  BY <1>1, <1>2, InitHolds, StepHolds, PTL DEF Spec

(***************************************************************************)
(* The page and the run.  That they always agree is what the code says of  *)
(* them and what a run refutes; this is how far it holds.                  *)
(***************************************************************************)
\* A pin whose copies the archive check found lost or missing.
Hurt(p) ==
  /\ reports[p] = "fixed"
  /\ archive # None /\ archive[p] \cap {"lost", "missing"} # {}

PageDiffersOnlyByCopies ==
  page # None =>
    /\ page.tone = "ok" => code = 0
    /\ page.tone = "drift" /\ code = 0 => \E p \in Pins : Hurt(p)

LEMMA AllWellIsZero ==
  ASSUME \A p \in Pins : reports[p] \in {"ok", "fixed"}
  PROVE  ExitCode = 0
<1>1. \A p \in Pins : ExitCodes[reports[p]] = 0
  BY DEF ExitCodes
<1>2. {ExitCodes[reports[p]] : p \in Pins} \ {0} = {}
  BY <1>1
<1> QED BY <1>2 DEF ExitCode

\* A green page is never over a red run, and a red one is over a green run only
\* where the archive check, whose verdicts the exit code does not count, found a
\* copy lost or missing (_band, status-page.yml).
THEOREM PageAgreesButForCopies == Spec => []PageDiffersOnlyByCopies
<1>1. ASSUME IInv, page # None, page.tone \in {"ok", "drift"}
      PROVE  /\ pc = "done" /\ page = Band
             /\ code = ExitCode /\ reports \in [Pins -> Statuses]
  BY <1>1, EndedWithReports DEF IInv, Published, Unchecked
<1>2. ASSUME IInv, page # None, page.tone = "ok" PROVE code = 0
  <2>1. Good = Fetched \cup Settled
    BY <1>1, <1>2, Counts DEF Band, Unchecked
  <2>2. \A p \in Fetched : reports[p] = "ok"
    BY <2>1 DEF Good, Settled, Held, Fetched
  <2>3. \A p \in Pins : reports[p] \in {"ok", "fixed"}
    BY <2>2 DEF Fetched, Fixed
  <2> QED BY <1>1, <1>2, <2>3, AllWellIsZero
<1>3. ASSUME IInv, page # None, page.tone = "drift", code = 0
      PROVE  \E p \in Pins : Hurt(p)
  <2>1. Good # Fetched \cup Settled /\ Good \subseteq Fetched \cup Settled
    BY <1>1, <1>3, Counts DEF Band, Unchecked
  <2>2. \A p \in Pins : reports[p] \in {"ok", "fixed"}
    BY <1>1, <1>3, ExitCodeMeans
  <2>3. Fetched \subseteq Good
    BY <2>2 DEF Good, Fetched, Fixed
  <2>4. PICK p \in Settled : p \notin Good
    BY <2>1, <2>3
  <2>5. p \in Held /\ CaptureVerdict(p) \in {"lost", "missing"}
    BY <2>4 DEF Settled, Good, Counted
  <2>6. archive[p] \cap {"lost", "missing"} # {}
    BY <1>3, <2>5, VerdictIsTheStrongest
  <2> QED BY <2>5, <2>6 DEF Held, Fixed, Hurt
<1>4. IInv => PageDiffersOnlyByCopies
  BY <1>2, <1>3 DEF PageDiffersOnlyByCopies
<1> QED
  BY <1>4, Invariance, PTL
=============================================================================
