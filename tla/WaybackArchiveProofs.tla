------------------------- MODULE WaybackArchiveProofs -------------------------
(***************************************************************************)
(* Proofs about WaybackArchive: that a call returns what Archiving says,   *)
(* that no capture is overlooked or refused without evidence, that the     *)
(* requests for a new one are bounded, and that every call is finite.      *)
(***************************************************************************)
EXTENDS WaybackArchive, TLAPS

\* A call has no answer until it is done.
Open == pc # "done" => answer = None

\* The search begins with nothing listed.
Fresh == pc = "list" => listing = {} /\ unmet = {} /\ rejected = {}

\* The captures that a search should find.
Wanted == {t \in listing \ unmet : taken[t] \in Right}

\* While the listing is read, what should be found is still to try, and has no
\* rejected digest.
Searching ==
  pc = "reuse" =>
    /\ \A t \in Wanted : \E e \in todo : e.time = t
    /\ \A e \in todo : e.digest # None => e.digest = taken[e.time]
    /\ rejected \cap Right = {}

\* A call that goes on was not told that its new capture is wrong.
Unrefuted == pc # "done" => \A k \in DOMAIN seen : seen[k] # "mismatch"

\* Only an archive call with usable keys, or none, asks for a capture, once for
\* each failure its budgets have forgiven.
Saving ==
  /\ mode = "repair" => pc \in {"list", "reuse", "done"} /\ posts = 0
  /\ keys = "malformed" => pc \in {"list", "reuse", "save", "done"} /\ posts = 0
  /\ pc = "save" => posts = failures + limits

(***************************************************************************)
(* The pieces the steps share.                                             *)
(***************************************************************************)
\* What a fetch says is so of the capture.
LEMMA CheckMeans ==
  ASSUME NEW t, NEW said \in CheckCapture(t)
  PROVE  /\ said \in Results
         /\ said = "ok" => t \in served /\ taken[t] \in Right
         /\ said = "mismatch" => t \in served /\ taken[t] \notin Right
<1>1. CASE t \notin served
  BY <1>1 DEF CheckCapture, Results
<1>2. CASE t \in served /\ taken[t] \in Right
  BY <1>2 DEF CheckCapture, Results
<1>3. CASE t \in served /\ taken[t] \notin Right
  BY <1>3 DEF CheckCapture, Results
<1> QED
  BY <1>1, <1>2, <1>3

\* No capture changes; there are only more of them.
LEMMA CapturesStay ==
  ASSUME TypeOK, Wayback
  PROVE  /\ taken' \in [Times -> Bytes \cup {Page, None}]
         /\ Documents \subseteq Documents'
         /\ \A t \in Documents : taken'[t] = taken[t]
         /\ served' \subseteq Documents'
         /\ answer' = answer
<1>1. ASSUME NEW t \in Times, NEW b \in Bytes \cup {Page}, Take(t, b)
      PROVE  /\ taken' \in [Times -> Bytes \cup {Page, None}]
             /\ Documents \subseteq Documents'
             /\ \A u \in Documents : taken'[u] = taken[u]
             /\ served' \subseteq Documents'
             /\ answer' = answer
  <2>1. taken' = [taken EXCEPT ![t] = b] /\ taken[t] = None
    BY <1>1 DEF Take
  <2>2. taken \in [Times -> Bytes \cup {Page, None}] /\ served \subseteq Documents
    BY DEF TypeOK
  <2>3. t \notin Documents
    BY <2>1, ArchivingAssumption DEF Documents
  <2>4. \A u \in Documents : u \in Times /\ taken'[u] = taken[u] /\ taken[u] \in Bytes
    BY <2>1, <2>2, <2>3 DEF Documents
  <2> QED
    BY <1>1, <2>1, <2>2, <2>4 DEF Documents, Take
<1>2. ASSUME UNCHANGED <<taken, answer>>, served' \subseteq Documents
      PROVE  /\ taken' \in [Times -> Bytes \cup {Page, None}]
             /\ Documents \subseteq Documents'
             /\ \A u \in Documents : taken'[u] = taken[u]
             /\ served' \subseteq Documents'
             /\ answer' = answer
  BY <1>2 DEF TypeOK, Documents
<1>3. ASSUME NEW t \in Times, Serve(t) \/ Unserve(t)
      PROVE  UNCHANGED <<taken, answer>> /\ served' \subseteq Documents
  BY <1>3 DEF Serve, Unserve, TypeOK
<1> QED
  BY <1>1, <1>2, <1>3 DEF Wayback

LEMMA AskAgainTyped ==
  ASSUME TypeOK, AskAgain
  PROVE  /\ failures' \in 0 .. Waits /\ limits' \in 0 .. LimitTries - 1
         /\ failures' + limits' = failures + limits + 1
         /\ pc' = pc /\ answer' = answer
BY WaybackArchiveAssumption DEF TypeOK, AskAgain

LEMMA ZeroTyped == 0 \in 0 .. Waits /\ 0 \in 0 .. LimitTries - 1
BY WaybackArchiveAssumption

\* What a step of the call may answer, and that it leaves Wayback alone.
Answering ==
  \/ answer' = answer
  \/ \E t \in Times :
       /\ t \in served /\ taken[t] \in Right
       /\ pc' = "done" /\ answer' = [capture |-> t]
  \/ \E f \in Failures : pc' = "done" /\ answer' = [reason |-> f]

\* What the steps leave in the budgets and as the answer.
LEMMA ProceedIs ==
  ASSUME NEW there, Proceed(there)
  PROVE  /\ pc' = there /\ answer' = answer
         /\ failures' \in 0 .. Waits /\ limits' \in 0 .. LimitTries - 1
         /\ failures' = 0 /\ limits' = 0
BY ZeroTyped DEF Proceed

LEMMA AttachedIs ==
  ASSUME TypeOK, NEW t, "ok" \in CheckCapture(t), Attached(t)
  PROVE  /\ pc' = "done" /\ answer' = [capture |-> t]
         /\ t \in Times /\ t \in served /\ taken[t] \in Right
         /\ failures' \in 0 .. Waits /\ limits' \in 0 .. LimitTries - 1
<1>1. t \in served /\ taken[t] \in Right
  BY CheckMeans
<1>2. t \in Times
  BY <1>1 DEF TypeOK, Documents
<1> QED
  BY <1>1, <1>2, ZeroTyped DEF Attached, Return

LEMMA RefusedIs ==
  ASSUME NEW f, Refused(f)
  PROVE  /\ pc' = "done" /\ answer' = [reason |-> f]
         /\ failures' \in 0 .. Waits /\ limits' \in 0 .. LimitTries - 1
BY ZeroTyped DEF Refused, Return

LEMMA Reasons ==
  {"none_found", "save_failed", "mismatch", "not_served_yet", "unchecked"}
    \subseteq Failures
BY WaybackArchiveAssumption

\* TypeOK, of the variables that the request in hand does not change.
Budgeted ==
  /\ failures' \in 0 .. Waits
  /\ limits' \in 0 .. LimitTries - 1
  /\ answer' \in Copies \cup Refusals \cup {None}
  /\ pc' \in {"list", "reuse", "save", "poll", "status", "verify", "done"}

LEMMA NothingFoundTyped ==
  ASSUME TypeOK, NothingFound
  PROVE  Budgeted /\ Answering
<1>1. CASE Proceed("save")
  <2>1. answer \in Copies \cup Refusals \cup {None}
    BY DEF TypeOK
  <2> QED
    BY <1>1, <2>1, ProceedIs DEF Budgeted, Answering
<1>2. CASE Refused("none_found")
  BY <1>2, RefusedIs, Reasons DEF Budgeted, Answering, Refusals
<1> QED
  BY <1>1, <1>2 DEF NothingFound

LEMMA AgainOrRefused ==
  ASSUME TypeOK, NEW f \in Failures, AskAgain \/ Refused(f)
  PROVE  Budgeted /\ Answering
<1>1. CASE AskAgain
  <2>1. /\ answer \in Copies \cup Refusals \cup {None}
        /\ pc \in {"list", "reuse", "save", "poll", "status", "verify", "done"}
    BY DEF TypeOK
  <2> QED
    BY <1>1, <2>1, AskAgainTyped DEF Budgeted, Answering
<1>2. CASE Refused(f)
  BY <1>2, RefusedIs DEF Budgeted, Answering, Refusals
<1> QED
  BY <1>1, <1>2

LEMMA OkIsAttached ==
  ASSUME TypeOK, NEW t, "ok" \in CheckCapture(t), Attached(t)
  PROVE  Budgeted /\ Answering
BY AttachedIs DEF Budgeted, Answering, Copies

LEMMA ProceedTyped ==
  ASSUME TypeOK, NEW there \in {"reuse", "save", "poll", "status", "verify"},
         Proceed(there)
  PROVE  Budgeted /\ Answering
<1>1. answer \in Copies \cup Refusals \cup {None}
  BY DEF TypeOK
<1> QED
  BY <1>1, ProceedIs DEF Budgeted, Answering

(***************************************************************************)
(* Types, and that every step answers as Archiving says.                   *)
(***************************************************************************)
LEMMA ListAnswersTyped ==
  ASSUME TypeOK, Fresh, NEW named \in SUBSET Times, NEW blank \in SUBSET named,
         ListAnswers(named, blank)
  PROVE  TypeOK' /\ Answering
<1>1. Budgeted /\ Answering
  BY ProceedTyped DEF ListAnswers
<1>2. \A t \in named : t \in Times /\ taken[t] \in Bytes
  BY DEF ListAnswers, Documents
<1>3. todo' \subseteq [time : listing', digest : Bytes \cup {None}]
  BY <1>2 DEF ListAnswers
<1>4. Documents' = Documents
  BY DEF ListAnswers, Documents, world
<1>5. unmet = {}
  BY DEF ListAnswers, Fresh
<1> QED
  BY <1>1, <1>3, <1>4, <1>5
  DEF ListAnswers, Budgeted, TypeOK, world, chosen, save

\* Steps that leave the search as it is.
LEMMA SavingTyped ==
  ASSUME TypeOK, Budgeted, UNCHANGED <<world, chosen, search>>,
         posts' \in Nat, waited' \in Nat, target' \in Times \cup {None},
         seen' \in Seq(Results)
  PROVE  TypeOK'
<1>1. Documents' = Documents
  BY DEF Documents, world
<1> QED
  BY <1>1 DEF TypeOK, Budgeted, world, chosen, search

LEMMA Counts ==
  ASSUME TypeOK
  PROVE  /\ posts \in Nat /\ waited \in Nat /\ tried \in Nat
         /\ target \in Times \cup {None} /\ seen \in Seq(Results)
BY WaybackArchiveAssumption DEF TypeOK

LEMMA TryCaptureTyped ==
  ASSUME TypeOK, NEW e \in todo, NEW said \in Results, TryCapture(e, said)
  PROVE  TypeOK' /\ Answering
<1>1. Budgeted /\ Answering
  BY ProceedTyped, OkIsAttached DEF TryCapture
<1>2. e.time \in listing /\ e.digest \in Bytes \cup {None}
  BY DEF TypeOK
<1>3. rejected' \subseteq Bytes /\ unmet' \subseteq listing
  BY <1>2 DEF TryCapture, TypeOK
<1>4. todo' \subseteq todo
  BY DEF TryCapture, Untried
<1>5. tried' \in 0 .. ReuseTries
  BY WaybackArchiveAssumption DEF TryCapture, TypeOK
<1>6. Documents' = Documents
  BY DEF TryCapture, Documents, world
<1> QED
  BY <1>1, <1>3, <1>4, <1>5, <1>6
  DEF TryCapture, TypeOK, Budgeted, world, chosen, save

LEMMA VerifyTyped ==
  ASSUME TypeOK, NEW said \in Results, Verify(said)
  PROVE  TypeOK' /\ Answering
<1>1. Budgeted /\ Answering
  <2>1. CASE said = "ok" /\ Attached(target)
    BY <2>1, OkIsAttached DEF Verify
  <2>2. CASE Proceed("verify")
    BY <2>2, ProceedTyped
  <2>3. CASE \E f \in Failures : Refused(f)
    BY <2>3, AgainOrRefused
  <2> QED
    BY <2>1, <2>2, <2>3, Reasons DEF Verify
<1>2. seen' \in Seq(Results)
  BY Counts DEF Verify
<1> QED
  BY <1>1, <1>2, Counts, SavingTyped DEF Verify

LEMMA StepTyped == ASSUME TypeOK, Fresh, Step PROVE TypeOK' /\ Answering
<1>1. CASE ListFails
  <2>1. Budgeted /\ Answering
    BY <1>1, Reasons, AgainOrRefused, NothingFoundTyped DEF ListFails
  <2> QED
    BY <1>1, <2>1, Counts, SavingTyped DEF ListFails, save
<1>2. CASE SearchEnds
  BY <1>2, NothingFoundTyped, Counts, SavingTyped DEF SearchEnds, save
<1>3. CASE SaveMalformed
  BY <1>3, AgainOrRefused, Reasons, Counts, SavingTyped DEF SaveMalformed, save
<1>4. CASE SaveStarts
  BY <1>4, ProceedTyped, Counts, SavingTyped DEF SaveStarts
<1>5. CASE SaveFails
  BY <1>5, AgainOrRefused, Reasons, Counts, SavingTyped DEF SaveFails
<1>6. CASE \E t \in Times : SaveAnswers(t)
  BY <1>6, ProceedTyped, Counts, SavingTyped DEF SaveAnswers
<1>7. CASE \E t \in Times : JobSucceeds(t)
  BY <1>7, ProceedTyped, Counts, SavingTyped DEF JobSucceeds
<1>8. CASE Poll
  BY <1>8, ProceedTyped, Counts, SavingTyped DEF Poll
<1>9. CASE PollEnds
  BY <1>9, AgainOrRefused, Reasons, Counts, SavingTyped DEF PollEnds, save
<1>10. CASE JobPending
  BY <1>10, ProceedTyped, Counts, SavingTyped DEF JobPending, save
<1>11. CASE JobFails
  BY <1>11, AgainOrRefused, Reasons, Counts, SavingTyped DEF JobFails, save
<1> QED
  BY <1>1, <1>2, <1>3, <1>4, <1>5, <1>6, <1>7, <1>8, <1>9, <1>10, <1>11,
     ListAnswersTyped, TryCaptureTyped, VerifyTyped DEF Step

LEMMA NextTyped == ASSUME TypeOK, Fresh, [CallNext]_vars PROVE TypeOK'
<1>1. CASE World
  <2>1. /\ taken' \in [Times -> Bytes \cup {Page, None}]
        /\ Documents \subseteq Documents' /\ served' \subseteq Documents'
        /\ answer' = answer
    BY <1>1, CapturesStay DEF World
  <2> QED
    BY <1>1, <2>1 DEF World, TypeOK, chosen, request, search, save
<1>2. CASE UNCHANGED vars
  BY <1>2 DEF vars, TypeOK, Documents
<1> QED
  BY <1>1, <1>2, StepTyped DEF CallNext

LEMMA InitTyped == CallInit => TypeOK
<1> SUFFICES ASSUME CallInit PROVE TypeOK
  OBVIOUS
<1>1. /\ taken \in [Times -> Bytes \cup {Page, None}]
      /\ served \subseteq Documents /\ answer = None
  BY DEF CallInit, Init
<1>2. <<>> \in Seq(Results)
  OBVIOUS
<1> QED
  BY <1>1, <1>2, WaybackArchiveAssumption DEF CallInit, TypeOK

\* What is left when a step does not reach the listing.
LEMMA FromList ==
  ASSUME [CallNext]_vars, pc' = "list"
  PROVE  pc = "list" /\ UNCHANGED <<listing, unmet, rejected>>
<1>1. CASE Step
  BY <1>1 DEF Step, ListAnswers, ListFails, TryCapture, SearchEnds, SaveMalformed,
     SaveStarts, SaveAnswers, SaveFails, Poll, PollEnds, JobPending, JobSucceeds,
     JobFails, Verify, AskAgain, Proceed, Attached, Refused, Return, NothingFound,
     search
<1>2. CASE World \/ UNCHANGED vars
  BY <1>2 DEF World, vars, search
<1> QED
  BY <1>1, <1>2 DEF CallNext

LEMMA NextFresh == ASSUME Fresh, [CallNext]_vars PROVE Fresh'
BY FromList DEF Fresh

\* THEOREM: every variable of a call to Wayback keeps its type: no request is
\* repeated past its budgets and no more captures are tried than _REUSE_TRIES.
THEOREM TypeCorrect == CallSpec => []TypeOK
<1>1. CallInit => TypeOK /\ Fresh
  BY InitTyped DEF CallInit, Fresh
<1>2. (TypeOK /\ Fresh) /\ [CallNext]_vars => (TypeOK /\ Fresh)'
  BY NextTyped, NextFresh
<1> QED
  BY <1>1, <1>2, PTL DEF CallSpec

(***************************************************************************)
(* The answer.                                                             *)
(***************************************************************************)
\* A step is one of a call that has not ended.
LEMMA NotDone == ASSUME CallNext PROVE pc # "done"
BY DEF CallNext, Step, World, ListAnswers, ListFails, TryCapture, SearchEnds,
   SaveMalformed, SaveStarts, SaveAnswers, SaveFails, Poll, PollEnds, JobPending,
   JobSucceeds, JobFails, Verify

LEMMA StepLeavesTheWorld == ASSUME Step PROVE UNCHANGED <<taken, served>>
BY DEF Step, world, ListAnswers, ListFails, TryCapture, SearchEnds,
   SaveMalformed, SaveStarts, SaveAnswers, SaveFails, Poll, PollEnds, JobPending,
   JobSucceeds, JobFails, Verify

LEMMA NextOpen ==
  ASSUME TypeOK, Fresh, Open, [CallNext]_vars
  PROVE  Open'
<1>1. CASE Step
  <2>1. answer = None
    BY <1>1, NotDone DEF Open, CallNext
  <2>2. Answering
    BY <1>1, StepTyped
  <2> QED
    BY <2>1, <2>2 DEF Answering, Open
<1>2. CASE World
  BY <1>2, CapturesStay DEF World, Open
<1> QED
  BY <1>1, <1>2 DEF CallNext, vars, Open

LEMMA StepImplements ==
  ASSUME TypeOK, Fresh, Open, [CallNext]_vars
  PROVE  [Next]_<<taken, served, answer>>
<1>1. CASE Step
  <2>1. answer = None /\ UNCHANGED <<taken, served>>
    BY <1>1, NotDone, StepLeavesTheWorld DEF Open, CallNext
  <2>2. CASE answer' = answer
    BY <2>1, <2>2
  <2>3. CASE \E t \in Times : /\ t \in served /\ taken[t] \in Right
                              /\ answer' = [capture |-> t]
    <3>1. \E t \in Times : Attach(t)
      BY <2>1, <2>3 DEF Attach
    <3> QED
      BY <3>1 DEF Next
  <2>4. CASE \E f \in Failures : answer' = [reason |-> f]
    <3>1. \E f \in Failures : Refuse(f)
      BY <2>1, <2>4 DEF Refuse
    <3> QED
      BY <3>1 DEF Next
  <2> QED
    BY <1>1, <2>2, <2>3, <2>4, StepTyped DEF Answering
<1>2. CASE World
  BY <1>2 DEF World, Next
<1>3. CASE UNCHANGED vars
  BY <1>3 DEF vars
<1> QED
  BY <1>1, <1>2, <1>3 DEF CallNext

\* THEOREM: what a call returns is what Archiving promises: a capture that
\* Wayback serves when it is checked and that reproduces the pin, once.
THEOREM Implementation == CallSpec => ImplementsArchiving
<1>1. CallInit => Init /\ TypeOK /\ Fresh /\ Open
  BY InitTyped DEF CallInit, Init, Fresh, Open
<1>2. (TypeOK /\ Fresh /\ Open) /\ [CallNext]_vars => (TypeOK /\ Fresh /\ Open)'
  BY NextTyped, NextFresh, NextOpen
<1>3. (TypeOK /\ Fresh /\ Open) /\ [CallNext]_vars => [Next]_<<taken, served, answer>>
  BY StepImplements
<1> QED
  BY <1>1, <1>2, <1>3, PTL DEF CallSpec, ImplementsArchiving, Spec

(***************************************************************************)
(* The evidence of a refusal.                                              *)
(***************************************************************************)
Verdicts == {[reason |-> "mismatch"], [reason |-> "not_served_yet"]}

LEMMA NoVerdicts ==
  /\ None \notin Verdicts
  /\ \A t : [capture |-> t] \notin Verdicts
  /\ [reason |-> "none_found"] \notin Verdicts
  /\ [reason |-> "save_failed"] \notin Verdicts
<1>1. Verdicts \subseteq Refusals
  BY Reasons DEF Verdicts, Refusals
<1>2. None \notin Verdicts
  BY <1>1, ArchivingAssumption
<1>3. ASSUME NEW t PROVE [capture |-> t] \notin Verdicts
  <2>1. DOMAIN [capture |-> t] = {"capture"}
    OBVIOUS
  <2>2. \A v \in Verdicts : DOMAIN v = {"reason"}
    BY DEF Verdicts
  <2> QED
    BY <2>1, <2>2
<1>4. ASSUME NEW f, f \notin {"mismatch", "not_served_yet"}
      PROVE  [reason |-> f] \notin Verdicts
  <2>1. [reason |-> f].reason = f /\ \A v \in Verdicts : v.reason # f
    BY <1>4 DEF Verdicts
  <2> QED
    BY <2>1
<1> QED
  BY <1>2, <1>3, <1>4

\* Only the fetch-back gives a verdict on a new capture.
LEMMA OnlyVerifyRefuses ==
  ASSUME TypeOK, Open, Step, \A said \in Results : ~Verify(said)
  PROVE  seen' = seen /\ answer' \notin Verdicts
<1>1. answer = None
  BY NotDone DEF Open, CallNext
<1>2. \/ answer' = answer \/ \E t : answer' = [capture |-> t]
      \/ answer' = [reason |-> "none_found"]
      \/ answer' = [reason |-> "save_failed"]
  BY DEF Step, ListAnswers, ListFails, TryCapture, SearchEnds, SaveMalformed,
     SaveStarts, SaveAnswers, SaveFails, Poll, PollEnds, JobPending, JobSucceeds,
     JobFails, AskAgain, Proceed, Attached, Refused, Return, NothingFound
<1>3. seen' = seen
  BY DEF Step, ListAnswers, ListFails, TryCapture, SearchEnds, SaveMalformed,
     SaveStarts, SaveAnswers, SaveFails, Poll, PollEnds, JobPending, JobSucceeds,
     JobFails, save
<1> QED
  BY <1>1, <1>2, <1>3, NoVerdicts

LEMMA VerifyRefuses ==
  ASSUME TypeOK, Open, Unrefuted, NEW said \in Results, Verify(said)
  PROVE  Unrefuted' /\ RefusedOnEvidence'
<1>1. answer = None /\ said \in CheckCapture(target) /\ pc = "verify"
  BY DEF Verify, Open
<1>2. /\ seen \in Seq(Results) /\ seen' = Append(seen, said)
      /\ \A k \in DOMAIN seen : seen[k] # "mismatch"
  BY <1>1, Counts DEF Verify, Unrefuted
<1>3. said # "mismatch" => \A k \in DOMAIN seen' : seen'[k] # "mismatch"
  BY <1>2
<1>4. UNCHANGED <<taken, target>>
  BY DEF Verify, world
<1>5. CASE said = "ok"
  <2>1. pc' = "done" /\ answer' = [capture |-> target]
    BY <1>5 DEF Verify, Attached, Return
  <2>2. answer' \notin Verdicts
    BY <2>1, NoVerdicts
  <2> QED
    BY <2>1, <2>2 DEF Unrefuted, RefusedOnEvidence, Verdicts
<1>6. CASE said = "mismatch"
  <2>1. pc' = "done" /\ answer' = [reason |-> "mismatch"]
    BY <1>6 DEF Verify, Refused, Return
  <2>2. answer'.reason = "mismatch" /\ [reason |-> "not_served_yet"].reason = "not_served_yet"
    BY <2>1
  <2>3. taken'[target'] \notin Right
    BY <1>1, <1>4, <1>6, CheckMeans
  <2> QED
    BY <2>1, <2>2, <2>3 DEF Unrefuted, RefusedOnEvidence
<1>7. CASE said \in {"not_served", "unreachable"}
  <2>1. CASE Proceed("verify")
    <3>1. answer' \notin Verdicts
      BY <1>1, <2>1, ProceedIs, NoVerdicts
    <3> QED
      BY <1>3, <1>7, <3>1 DEF Unrefuted, RefusedOnEvidence, Verdicts
  <2>2. CASE /\ Len(seen') = VerifyTries
             /\ Refused(IF said = "not_served" THEN "not_served_yet" ELSE "unchecked")
    <3>1. /\ pc' = "done"
          /\ \/ answer' = [reason |-> "not_served_yet"]
             \/ answer' = [reason |-> "unchecked"]
      BY <2>2 DEF Refused, Return
    <3>2. answer' # [reason |-> "mismatch"]
      <4>1. answer'.reason # "mismatch"
        BY <3>1
      <4> QED
        BY <4>1
    <3> QED
      BY <1>3, <1>7, <2>2, <3>1, <3>2 DEF Unrefuted, RefusedOnEvidence
  <2> QED
    BY <1>7, <2>1, <2>2 DEF Verify
<1> QED
  BY <1>5, <1>6, <1>7 DEF Results

LEMMA NextOnEvidence ==
  ASSUME TypeOK, Open, Unrefuted, RefusedOnEvidence, [CallNext]_vars
  PROVE  Unrefuted' /\ RefusedOnEvidence'
<1>1. CASE Step
  <2>1. CASE \E said \in Results : Verify(said)
    BY <2>1, VerifyRefuses
  <2>2. CASE \A said \in Results : ~Verify(said)
    <3>1. seen' = seen /\ answer' \notin Verdicts /\ pc # "done"
      BY <1>1, <2>2, OnlyVerifyRefuses, NotDone DEF CallNext
    <3> QED
      BY <3>1 DEF Unrefuted, RefusedOnEvidence, Verdicts
  <2> QED
    BY <2>1, <2>2
<1>2. CASE World
  <2>1. answer = None /\ answer' = answer /\ seen' = seen /\ pc' = pc
    BY <1>2, CapturesStay DEF World, Open, save
  <2>2. answer' \notin Verdicts
    BY <2>1, NoVerdicts
  <2> QED
    BY <2>1, <2>2 DEF Unrefuted, RefusedOnEvidence, Verdicts
<1>3. CASE UNCHANGED vars
  BY <1>3 DEF vars, Unrefuted, RefusedOnEvidence
<1> QED
  BY <1>1, <1>2, <1>3 DEF CallNext

\* THEOREM: a new capture is refused as wrong on bytes that are wrong, and as
\* not served yet after VerifyTries fetches that found nothing wrong.
THEOREM RefusalsHaveEvidence == CallSpec => []RefusedOnEvidence
<1> DEFINE Known == TypeOK /\ Fresh /\ Open /\ Unrefuted /\ RefusedOnEvidence
<1>1. CallInit => Known
  <2> SUFFICES ASSUME CallInit PROVE Known
    OBVIOUS
  <2>1. answer = None /\ seen = <<>> /\ pc = "list"
    BY DEF CallInit, Init
  <2>2. answer \notin Verdicts
    BY <2>1, NoVerdicts
  <2> QED
    BY <2>1, <2>2, InitTyped
    DEF CallInit, Fresh, Open, Unrefuted, RefusedOnEvidence, Verdicts
<1>2. Known /\ [CallNext]_vars => Known'
  BY NextTyped, NextFresh, NextOpen, NextOnEvidence
<1>3. Known => RefusedOnEvidence
  OBVIOUS
<1> QED
  BY <1>1, <1>2, <1>3, PTL DEF CallSpec

(***************************************************************************)
(* The number of saves.                                                    *)
(***************************************************************************)
Searches == {"list", "reuse"}

Saves ==
  /\ pc \in Searches => posts = 0
  /\ Saving
  /\ SavesAreBounded

LEMMA BudgetTypes ==
  ASSUME TypeOK
  PROVE  /\ failures \in Nat /\ limits \in Nat /\ posts \in Nat
         /\ failures <= Waits /\ limits + 1 <= LimitTries
         /\ Waits \in Nat /\ LimitTries \in Nat
BY WaybackArchiveAssumption DEF TypeOK

\* A step that posts nothing and does not begin to save.
LEMMA NoPost ==
  ASSUME TypeOK', Saves, UNCHANGED <<mode, keys, posts>>,
         pc' \in Searches => pc \in Searches,
         pc' = "save" => pc = "save" /\ UNCHANGED <<failures, limits>>,
         pc' \in {"poll", "status", "verify"} => pc \in {"poll", "status", "verify"}
  PROVE  Saves'
<1>1. pc' \in {"list", "reuse", "save", "poll", "status", "verify", "done"}
  BY DEF TypeOK
<1> QED
  BY <1>1 DEF Saves, Saving, SavesAreBounded, Searches

LEMMA NextSaves ==
  ASSUME TypeOK, TypeOK', Saves, [CallNext]_vars
  PROVE  Saves'
<1> USE DEF Searches
<1>1. ASSUME pc \in Searches, UNCHANGED <<mode, keys, posts>>, NothingFound PROVE Saves'
  BY <1>1, BudgetTypes DEF NothingFound, Proceed, Refused, Return, Saves, Saving, SavesAreBounded
<1>2. CASE \E named \in SUBSET Times : \E blank \in SUBSET named : ListAnswers(named, blank)
  BY <1>2, NoPost DEF ListAnswers, Proceed, chosen, save
<1>3. CASE ListFails
  <2>1. CASE AskAgain
    BY <1>3, <2>1, NoPost DEF ListFails, AskAgain, chosen, save
  <2> QED
    BY <1>1, <1>3, <2>1 DEF ListFails, chosen, save
<1>4. ASSUME NEW e \in todo, NEW said \in Results, TryCapture(e, said) PROVE Saves'
  BY <1>4, NoPost DEF TryCapture, Attached, Return, Proceed, chosen, save
<1>5. CASE SearchEnds
  BY <1>1, <1>5 DEF SearchEnds, chosen, save
<1>6. CASE SaveMalformed
  BY <1>6, NoPost DEF SaveMalformed, Refused, Return, chosen, save
<1>7. ASSUME pc = "save", pc' \in {"poll", "verify", "done"}, posts' = posts + 1,
             UNCHANGED <<mode, keys>>, keys # "malformed"
      PROVE  Saves'
  BY <1>7, BudgetTypes DEF Saves, Saving, SavesAreBounded
<1>8. CASE SaveStarts
  BY <1>7, <1>8 DEF SaveStarts, Proceed, chosen
<1>9. CASE \E t \in Times : SaveAnswers(t)
  BY <1>7, <1>9 DEF SaveAnswers, Proceed, chosen
<1>10. CASE SaveFails
  <2>1. CASE AskAgain
    BY <1>10, <2>1, AskAgainTyped, BudgetTypes
    DEF SaveFails, chosen, Saves, Saving, SavesAreBounded
  <2>2. CASE Refused("save_failed")
    BY <1>7, <1>10, <2>2 DEF SaveFails, Refused, Return, chosen
  <2> QED
    BY <1>10, <2>1, <2>2 DEF SaveFails
<1>11. CASE Poll \/ PollEnds \/ JobPending \/ JobFails
  BY <1>11, NoPost DEF Poll, PollEnds, JobPending, JobFails, AskAgain, Proceed,
     Refused, Return, chosen, save
<1>12. CASE \E t \in Times : JobSucceeds(t)
  BY <1>12, NoPost DEF JobSucceeds, Proceed, chosen
<1>13. ASSUME NEW said \in Results, Verify(said) PROVE Saves'
  BY <1>13, NoPost DEF Verify, Attached, Refused, Return, Proceed, chosen
<1>14. CASE World
  BY <1>14, NoPost DEF World, chosen, request, save
<1>15. CASE UNCHANGED vars
  BY <1>15, NoPost DEF vars
<1> QED
  BY <1>2, <1>3, <1>4, <1>5, <1>6, <1>8, <1>9, <1>10, <1>11, <1>12, <1>13, <1>14,
     <1>15 DEF CallNext, Step

\* THEOREM: a call asks for a new capture at most once more than its retry
\* budgets forgive, and not at all to repair or with half a pair of keys.
THEOREM FewSaves == CallSpec => []SavesAreBounded
<1> DEFINE Known == TypeOK /\ Fresh /\ Saves
<1>1. CallInit => Known
  <2>1. CallInit => Saves
    BY WaybackArchiveAssumption DEF CallInit, Saves, Saving, SavesAreBounded, Searches
  <2> QED
    BY <2>1, InitTyped DEF CallInit, Fresh
<1>2. Known /\ [CallNext]_vars => Known'
  BY NextTyped, NextFresh, NextSaves
<1>3. Known => SavesAreBounded
  BY DEF Saves
<1> QED
  BY <1>1, <1>2, <1>3, PTL DEF CallSpec

(***************************************************************************)
(* The search.                                                             *)
(***************************************************************************)
LEMMA ListAnswersSearches ==
  ASSUME TypeOK, Fresh, NEW named \in SUBSET Times, NEW blank \in SUBSET named,
         ListAnswers(named, blank)
  PROVE  Searching' /\ NothingIsOverlooked'
<1>1. /\ pc = "list" /\ pc' = "reuse" /\ UNCHANGED <<taken, unmet, rejected>>
      /\ listing' = named
      /\ todo' = {[time |-> t, digest |-> IF t \in blank THEN None ELSE taken[t]] :
                    t \in named}
  BY DEF ListAnswers, Proceed, world
<1>2. rejected' = {}
  BY <1>1 DEF Fresh
<1>3. ASSUME NEW t \in named PROVE \E e \in todo' : e.time = t
  <2> DEFINE e == [time |-> t, digest |-> IF t \in blank THEN None ELSE taken[t]]
  <2>1. e \in todo'
    BY <1>1
  <2>2. e.time = t
    OBVIOUS
  <2> QED
    BY <2>1, <2>2
<1>4. \A t \in Wanted' : t \in named
  BY <1>1 DEF Wanted
<1>5. \A e \in todo' : e.digest # None => e.digest = taken'[e.time]
  BY <1>1
<1> QED
  BY <1>1, <1>2, <1>3, <1>4, <1>5 DEF Searching, NothingIsOverlooked

LEMMA TryCaptureSearches ==
  ASSUME TypeOK, Saves, Searching, NEW e \in todo, NEW said \in Results,
         TryCapture(e, said)
  PROVE  Searching' /\ NothingIsOverlooked'
<1>1. /\ pc = "reuse" /\ Newest(e) /\ said \in CheckCapture(e.time)
      /\ UNCHANGED <<taken, listing, posts>>
      /\ posts = 0
  BY DEF TryCapture, world, save, Saves, Searches
<1>2. /\ \A t \in Wanted : \E f \in todo : f.time = t
      /\ \A f \in todo : f.digest # None => f.digest = taken[f.time]
      /\ rejected \cap Right = {}
  BY <1>1 DEF Searching
<1>3. Wanted' \subseteq Wanted
  BY <1>1 DEF TryCapture, Wanted
<1>4. CASE said = "ok"
  <2>1. pc' = "done" /\ answer' = [capture |-> e.time] /\ e.time \in Times
    BY <1>1, <1>4, AttachedIs DEF TryCapture
  <2>2. answer' \in Copies /\ answer'.capture = e.time
    BY <2>1 DEF Copies
  <2>3. ASSUME NEW t \in Wanted' PROVE e.time >= t
    <3>1. PICK f \in todo : f.time = t
      BY <1>2, <1>3
    <3>2. t <= e.time
      BY <1>1, <3>1 DEF Newest
    <3>3. f.time \in Times /\ e.time \in Times
      BY <2>1 DEF TypeOK, Documents
    <3> QED
      BY <3>1, <3>2, <3>3, ArchivingAssumption
  <2> QED
    BY <1>1, <2>1, <2>2, <2>3 DEF Searching, NothingIsOverlooked, Wanted
<1>5. CASE said # "ok"
  <2>1. pc' = "reuse"
    BY <1>5 DEF TryCapture, Proceed
  <2>2. rejected' \cap Right = {}
    <3>1. CASE said = "mismatch" /\ e.digest # None
      <4>1. e.digest = taken[e.time] /\ taken[e.time] \notin Right
        BY <1>1, <1>2, <3>1, CheckMeans
      <4> QED
        BY <1>2, <3>1, <4>1 DEF TryCapture
    <3>2. CASE ~(said = "mismatch" /\ e.digest # None)
      BY <1>2, <3>2 DEF TryCapture
    <3> QED
      BY <3>1, <3>2
  <2>3. todo' \subseteq todo
    BY DEF TryCapture, Untried
  <2>4. ASSUME NEW t \in Wanted' PROVE \E f \in todo' : f.time = t
    <3>1. PICK f \in todo : f.time = t
      BY <1>2, <1>3
    <3>2. taken[t] \in Right /\ t \notin unmet'
      BY <1>1 DEF Wanted
    <3>3. f # e
      <4>1. CASE said = "mismatch"
        BY <1>1, <3>1, <3>2, <4>1, CheckMeans
      <4>2. CASE said \in {"not_served", "unreachable"}
        BY <3>1, <3>2, <4>2 DEF TryCapture
      <4> QED
        BY <1>5, <4>1, <4>2 DEF Results
    <3>4. f.digest = None \/ f.digest \notin rejected'
      BY <1>2, <2>2, <3>1, <3>2
    <3>5. f \in todo'
      BY <3>3, <3>4 DEF TryCapture, Untried
    <3> QED
      BY <3>1, <3>5
  <2> QED
    BY <1>1, <1>2, <2>1, <2>2, <2>3, <2>4 DEF Searching, NothingIsOverlooked
<1> QED
  BY <1>4, <1>5

\* The search ends with nothing left to find, or with its tries used up.
Sought == Wanted = {} \/ tried = ReuseTries

LEMMA SoughtIsEnough ==
  ASSUME Sought', pc' # "reuse"
  PROVE  Searching' /\ NothingIsOverlooked'
BY DEF Sought, Searching, NothingIsOverlooked, Wanted

LEMMA SearchStays ==
  ASSUME UNCHANGED <<taken, listing, unmet, tried>>, Sought
  PROVE  Sought'
BY DEF Sought, Wanted

\* A call that has gone on to save found nothing in its search.
LEMMA WasSought ==
  ASSUME Open, NothingIsOverlooked, pc \notin {"list", "reuse", "done"}
  PROVE  Sought
<1>1. answer \notin Copies
  BY ArchivingAssumption DEF Open
<1> QED
  BY <1>1 DEF NothingIsOverlooked, Sought, Wanted

LEMMA NextSearches ==
  ASSUME TypeOK, Fresh, Open, Saves, Searching, NothingIsOverlooked,
         [CallNext]_vars
  PROVE  Searching' /\ NothingIsOverlooked'
<1>1. CASE ListFails
  <2>1. UNCHANGED <<taken, listing, unmet, tried>> /\ listing = {}
    BY <1>1 DEF ListFails, world, search, Fresh
  <2>2. Sought'
    BY <2>1 DEF Sought, Wanted
  <2>3. pc' # "reuse"
    BY <1>1 DEF ListFails, AskAgain, NothingFound, Proceed, Refused, Return
  <2> QED
    BY <2>2, <2>3, SoughtIsEnough
<1>2. CASE SearchEnds
  <2>1. UNCHANGED <<taken, listing, unmet, tried>> /\ pc = "reuse"
    BY <1>2 DEF SearchEnds, world, search
  <2>2. Sought
    <3>1. CASE todo = {}
      BY <2>1, <3>1 DEF Searching, Sought
    <3>2. CASE tried >= ReuseTries
      BY <3>2, WaybackArchiveAssumption DEF TypeOK, Sought
    <3> QED
      BY <1>2, <3>1, <3>2 DEF SearchEnds
  <2>3. pc' # "reuse"
    BY <1>2 DEF SearchEnds, NothingFound, Proceed, Refused, Return
  <2> QED
    BY <2>1, <2>2, <2>3, SearchStays, SoughtIsEnough
<1>3. ASSUME pc \notin {"list", "reuse", "done"}, pc' # "reuse",
             UNCHANGED <<taken, search>>
      PROVE  Searching' /\ NothingIsOverlooked'
  BY <1>3, WasSought, SearchStays, SoughtIsEnough DEF search
<1>4. CASE SaveMalformed \/ SaveStarts \/ SaveFails
  BY <1>3, <1>4 DEF SaveMalformed, SaveStarts, SaveFails, AskAgain, Proceed,
     Refused, Return, world
<1>5. CASE \E t \in Times : SaveAnswers(t) \/ JobSucceeds(t)
  BY <1>3, <1>5 DEF SaveAnswers, JobSucceeds, Proceed, world
<1>6. CASE Poll \/ PollEnds \/ JobPending \/ JobFails
  BY <1>3, <1>6 DEF Poll, PollEnds, JobPending, JobFails, AskAgain, Proceed,
     Refused, Return, world
<1>7. ASSUME NEW said \in Results, Verify(said)
      PROVE  Searching' /\ NothingIsOverlooked'
  BY <1>3, <1>7 DEF Verify, Attached, Refused, Return, Proceed, world
<1>8. CASE World
  <2>1. /\ pc' = pc /\ UNCHANGED <<listing, todo, rejected, tried, unmet, posts>>
        /\ answer' = answer
        /\ \A t \in Documents : taken'[t] = taken[t]
    BY <1>8, CapturesStay DEF World, search, save
  <2>2. /\ \A t \in listing : taken'[t] = taken[t]
        /\ \A e \in todo : taken'[e.time] = taken[e.time]
    BY <2>1 DEF TypeOK
  <2>3. Wanted' = Wanted
    BY <2>1, <2>2 DEF Wanted
  <2>4. Searching'
    BY <2>1, <2>2, <2>3 DEF Searching
  <2>5. NothingIsOverlooked'
    BY <2>1, <2>2 DEF NothingIsOverlooked
  <2> QED
    BY <2>4, <2>5
<1>9. CASE UNCHANGED vars
  BY <1>9 DEF vars, Searching, NothingIsOverlooked, Wanted
<1> QED
  BY <1>1, <1>2, <1>4, <1>5, <1>6, <1>7, <1>8, <1>9, ListAnswersSearches,
     TryCaptureSearches DEF CallNext, Step

\* THEOREM: a capture that was listed, served and right is reused, or one newer
\* than it, unless the search had tried its fill: no rejected digest hides it.
THEOREM NothingRightIsPassedOver == CallSpec => []NothingIsOverlooked
<1> DEFINE Known == /\ TypeOK /\ Fresh /\ Open /\ Saves
                    /\ Searching /\ NothingIsOverlooked
<1>1. CallInit => Known
  <2>1. CallInit => Saves
    BY WaybackArchiveAssumption DEF CallInit, Saves, Saving, SavesAreBounded, Searches
  <2> QED
    BY <2>1, InitTyped
    DEF CallInit, Init, Fresh, Open, Searching, NothingIsOverlooked
<1>2. Known /\ [CallNext]_vars => Known'
  BY NextTyped, NextFresh, NextOpen, NextSaves, NextSearches
<1>3. Known => NothingIsOverlooked
  OBVIOUS
<1> QED
  BY <1>1, <1>2, <1>3, PTL DEF CallSpec

(***************************************************************************)
(* Every call is finite.  That a call ends also needs the fairness of its  *)
(* steps and is left to TLC; proved here is that each step of its own      *)
(* brings the end closer, by a measure that cannot shrink for ever, while  *)
(* Wayback does what it likes.                                             *)
(***************************************************************************)
\* The listing, its search, the request for a save, its job, the fetch-back.
Phase == CASE pc = "list" -> 5
           [] pc = "reuse" -> 4
           [] pc = "save" -> 3
           [] pc \in {"poll", "status"} -> 2
           [] pc = "verify" -> 1
           [] OTHER -> 0

\* What is still to come in a phase: captures to try, polls, or fetches.
Turns == CASE pc = "reuse" -> ReuseTries - tried
           [] pc \in {"poll", "status"} -> Polls - waited
           [] pc = "verify" -> VerifyTries - Len(seen)
           [] OTHER -> 0

\* A poll has slept and has its status still to ask.
Moves == IF pc = "status" THEN 1 ELSE 0

\* The failures that the budgets of the request in hand still forgive.
Tries == Waits + LimitTries - (failures + limits)

\* The measure, in lexicographic order, is smaller after the step.
Closer ==
  \/ Phase' < Phase
  \/ /\ Phase' = Phase
     /\ \/ Turns' < Turns
        \/ /\ Turns' = Turns
           /\ \/ Moves' < Moves
              \/ Moves' = Moves /\ Tries' < Tries

\* All of a call but Wayback itself.
call == <<answer, chosen, pc, request, search, save>>

\* Polls and fetches are counted, and a capture is fetched back only once there
\* is one.
Counted ==
  /\ waited <= Polls /\ Len(seen) <= VerifyTries
  /\ pc \notin {"verify", "done"} => seen = <<>>
  /\ pc = "verify" => Len(seen) < VerifyTries

LEMMA Bounds ==
  /\ Waits \in Nat /\ ReuseTries \in Nat /\ Polls \in Nat
  /\ LimitTries \in Nat \ {0} /\ VerifyTries \in Nat \ {0}
BY WaybackArchiveAssumption

\* The measure is made of natural numbers.
LEMMA MeasureIsNatural ==
  ASSUME TypeOK, Counted
  PROVE  Phase \in Nat /\ Turns \in Nat /\ Moves \in Nat /\ Tries \in Nat
<1>1. waited \in Nat /\ Len(seen) \in Nat
  BY Counts
<1>2. Turns \in Nat
  BY <1>1, Bounds DEF Turns, Counted, TypeOK
<1>3. Tries \in Nat
  BY Bounds DEF Tries, TypeOK
<1> QED BY <1>2, <1>3 DEF Phase, Moves

\* A later part of the call begins, or it ends.
LEMMA LaterPart ==
  ASSUME \/ pc # "done" /\ pc' = "done"
         \/ pc = "list" /\ pc' \in {"reuse", "save"}
         \/ pc = "reuse" /\ pc' = "save"
         \/ pc = "save" /\ pc' \in {"poll", "verify"}
         \/ pc = "status" /\ pc' = "verify",
         TypeOK
  PROVE  Closer
BY DEF Closer, Phase, TypeOK

\* A request is asked again.
LEMMA AgainIsCloser ==
  ASSUME TypeOK, AskAgain, UNCHANGED <<tried, waited, seen>>
  PROVE  Closer
<1>1. Phase' = Phase /\ Turns' = Turns /\ Moves' = Moves
  BY AskAgainTyped DEF Phase, Turns, Moves
<1>2. Tries' < Tries
  BY AskAgainTyped, Bounds DEF Tries, TypeOK
<1> QED BY <1>1, <1>2 DEF Closer

LEMMA AppendIsLonger ==
  ASSUME NEW s \in Seq(Results), NEW r \in Results
  PROVE  Len(Append(s, r)) = Len(s) + 1 /\ Len(s) \in Nat
OBVIOUS

LEMMA SearchIsCloser ==
  ASSUME TypeOK,
         \/ \E named \in SUBSET Times : \E blank \in SUBSET named :
              ListAnswers(named, blank)
         \/ ListFails \/ SearchEnds
         \/ \E e \in todo, said \in Results : TryCapture(e, said)
  PROVE  Closer
<1>1. ASSUME NEW named, NEW blank, ListAnswers(named, blank) PROVE Closer
  BY <1>1, LaterPart DEF ListAnswers, Proceed
<1>2. ASSUME NothingFound, pc \in {"list", "reuse"} PROVE Closer
  BY <1>2, LaterPart DEF NothingFound, Proceed, Refused, Return
<1>3. CASE ListFails
  BY <1>2, <1>3, AgainIsCloser DEF ListFails, search, save
<1>4. ASSUME NEW e, NEW said, TryCapture(e, said) PROVE Closer
  <2>1. pc = "reuse" /\ tried' = tried + 1
    BY <1>4 DEF TryCapture
  <2>2. pc' \in {"reuse", "done"}
    BY <1>4 DEF TryCapture, Attached, Return, Proceed
  <2>3. CASE pc' = "reuse"
    <3>1. Phase' = Phase /\ Turns' < Turns
      BY <2>1, <2>3, Counts, Bounds DEF Phase, Turns
    <3> QED BY <3>1 DEF Closer
  <2> QED BY <2>1, <2>2, <2>3, LaterPart
<1> QED BY <1>1, <1>2, <1>3, <1>4 DEF SearchEnds

LEMMA SaveIsCloser ==
  ASSUME TypeOK, \/ SaveMalformed \/ SaveStarts \/ SaveFails
                 \/ \E t \in Times : SaveAnswers(t)
  PROVE  Closer
<1>1. CASE SaveMalformed
  BY <1>1, LaterPart DEF SaveMalformed, Refused, Return
<1>2. CASE SaveStarts \/ \E t \in Times : SaveAnswers(t)
  BY <1>2, LaterPart DEF SaveStarts, SaveAnswers, Proceed
<1>3. CASE SaveFails
  <2>1. CASE AskAgain
    BY <1>3, <2>1, AgainIsCloser DEF SaveFails, search
  <2>2. CASE Refused("save_failed")
    BY <1>3, <2>2, LaterPart DEF SaveFails, Refused, Return
  <2> QED BY <1>3, <2>1, <2>2 DEF SaveFails
<1> QED BY <1>1, <1>2, <1>3

LEMMA JobIsCloser ==
  ASSUME TypeOK, \/ Poll \/ PollEnds \/ JobPending \/ JobFails
                 \/ \E t \in Times : JobSucceeds(t)
  PROVE  Closer
<1>1. CASE Poll
  <2>1. /\ pc = "poll" /\ pc' = "status" /\ waited' = waited + 1
    BY <1>1 DEF Poll, Proceed
  <2>2. Phase' = Phase /\ Turns' < Turns
    BY <2>1, Counts, Bounds DEF Phase, Turns
  <2> QED BY <2>2 DEF Closer
<1>2. CASE JobPending
  <2>1. pc = "status" /\ pc' = "poll" /\ waited' = waited
    BY <1>2 DEF JobPending, Proceed, save
  <2>2. Phase' = Phase /\ Turns' = Turns /\ Moves' < Moves
    BY <2>1 DEF Phase, Turns, Moves
  <2> QED BY <2>2 DEF Closer
<1>3. CASE PollEnds
  BY <1>3, LaterPart DEF PollEnds, Refused, Return
<1>4. CASE \E t \in Times : JobSucceeds(t)
  BY <1>4, LaterPart DEF JobSucceeds, Proceed
<1>5. CASE JobFails
  <2>1. CASE AskAgain
    BY <1>5, <2>1, AgainIsCloser DEF JobFails, search, save
  <2>2. CASE Refused("save_failed")
    BY <1>5, <2>2, LaterPart DEF JobFails, Refused, Return
  <2> QED BY <1>5, <2>1, <2>2 DEF JobFails
<1> QED BY <1>1, <1>2, <1>3, <1>4, <1>5

\* A fetch-back ends the call, or leaves one fetch fewer.
LEMMA VerifyIs ==
  ASSUME TypeOK, NEW said \in Results, Verify(said)
  PROVE  /\ pc = "verify" /\ waited' = waited /\ Len(seen') = Len(seen) + 1
         /\ \/ pc' = "done"
            \/ pc' = "verify" /\ Len(seen') < VerifyTries
<1>1. seen' = Append(seen, said) /\ pc = "verify" /\ waited' = waited
  BY DEF Verify
<1>2. Len(seen') = Len(seen) + 1
  BY <1>1, Counts, AppendIsLonger
<1>3. \/ pc' = "done"
      \/ pc' = "verify" /\ Len(seen') < VerifyTries
  BY DEF Verify, Attached, Refused, Return, Proceed
<1> QED BY <1>1, <1>2, <1>3

LEMMA VerifyIsCloser ==
  ASSUME TypeOK, NEW said \in Results, Verify(said)
  PROVE  Closer
<1>1. CASE pc' = "done"
  BY <1>1, VerifyIs, LaterPart
<1>2. CASE pc' = "verify"
  <2>1. Phase' = Phase
    BY <1>2, VerifyIs DEF Phase
  <2>2. Turns' < Turns
    BY <1>2, VerifyIs, Counts, Bounds DEF Turns
  <2> QED BY <2>1, <2>2 DEF Closer
<1> QED BY <1>1, <1>2, VerifyIs

LEMMA StepIsCloser == ASSUME TypeOK, Step PROVE Closer
BY SearchIsCloser, SaveIsCloser, JobIsCloser, VerifyIsCloser, Zenon DEF Step

LEMMA InitCounted == CallInit => Counted
BY Bounds DEF CallInit, Counted

LEMMA NextCounted ==
  ASSUME TypeOK, TypeOK', Counted, [CallNext]_vars
  PROVE  Counted'
<1>1. CASE \E said \in Results : Verify(said)
  BY <1>1, VerifyIs, Counts, Bounds DEF Counted
<1>2. CASE Poll
  BY <1>2, Counts, Bounds DEF Poll, Proceed, Counted
<1>3. ASSUME seen' = seen, waited' = waited,
             \/ pc' = pc \/ pc' = "done"
             \/ pc' = "verify" /\ seen = <<>>
             \/ pc \notin {"verify", "done"}
      PROVE  Counted'
  <2>1. Len(<<>>) = 0
    OBVIOUS
  <2> QED BY <1>3, <2>1, Bounds DEF Counted
<1>4. CASE Step /\ ~Poll /\ \A said \in Results : ~Verify(said)
  <2>1. seen' = seen /\ waited' = waited
    BY <1>4 DEF Step, ListAnswers, ListFails, TryCapture, SearchEnds, SaveMalformed,
       SaveStarts, SaveAnswers, SaveFails, PollEnds, JobPending, JobSucceeds,
       JobFails, save
  <2>2. pc \notin {"verify", "done"}
    BY <1>4 DEF Step, ListAnswers, ListFails, TryCapture, SearchEnds, SaveMalformed,
       SaveStarts, SaveAnswers, SaveFails, PollEnds, JobPending, JobSucceeds,
       JobFails
  <2> QED BY <1>3, <2>1, <2>2
<1>5. CASE World \/ UNCHANGED vars
  BY <1>3, <1>5 DEF World, save, vars
<1> QED BY <1>1, <1>2, <1>4, <1>5 DEF CallNext, Step

\* Whatever Wayback takes, serves, withdraws and answers, every step of a call
\* brings its end closer, and it cannot come closer for ever: no sequence of
\* 5xx, 429, pending jobs and captures not served keeps it asking (_retrying,
\* _existing_capture, _spn2_capture, _verified_new_capture).
THEOREM EveryCallIsFinite ==
  CallSpec =>
    /\ [](Phase \in Nat /\ Turns \in Nat /\ Moves \in Nat /\ Tries \in Nat)
    /\ [][Closer]_call
<1>1. CallInit => TypeOK /\ Fresh /\ Counted
  BY InitTyped, InitCounted DEF CallInit, Fresh
<1>2. (TypeOK /\ Fresh /\ Counted) /\ [CallNext]_vars
        => (TypeOK /\ Fresh /\ Counted)'
  BY NextTyped, NextFresh, NextCounted
<1>3. TypeOK /\ Fresh /\ Counted =>
        Phase \in Nat /\ Turns \in Nat /\ Moves \in Nat /\ Tries \in Nat
  BY MeasureIsNatural
<1>4. (TypeOK /\ Fresh /\ Counted) /\ [CallNext]_vars => [Closer]_call
  <2> SUFFICES ASSUME TypeOK, [CallNext]_vars PROVE [Closer]_call
    OBVIOUS
  <2>1. CASE Step
    BY <2>1, StepIsCloser
  <2>2. CASE World
    <3>1. answer' = answer
      BY <2>2, CapturesStay DEF World
    <3> QED BY <2>2, <3>1 DEF World, call
  <2>3. CASE UNCHANGED vars
    BY <2>3 DEF vars, call, chosen, request, search, save
  <2> QED BY <2>1, <2>2, <2>3 DEF CallNext
<1> QED
  BY <1>1, <1>2, <1>3, <1>4, PTL DEF CallSpec
=============================================================================
