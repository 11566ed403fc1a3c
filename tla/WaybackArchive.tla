--------------------------- MODULE WaybackArchive ---------------------------
(***************************************************************************)
(* One call to Wayback for a capture of a pin: archive(), and the search   *)
(* alone that repair_archive makes, of registers_crosswalk/pin.py.         *)
(*                                                                         *)
(* The existing captures are searched first, newest first; then Save Page  *)
(* Now is asked for a new one, through a job that is polled or in a single *)
(* anonymous request; and what it says it took is fetched back before it   *)
(* is believed.  Meanwhile Wayback takes captures, begins to serve them    *)
(* late and stops serving them, and any request may fail.                  *)
(***************************************************************************)
EXTENDS Archiving, Sequences

CONSTANTS
  Waits,        \* retries of a 5xx: Len(_ARCHIVE_RETRY_WAITS)
  LimitTries,   \* _RATE_LIMIT_TRIES
  ReuseTries,   \* _REUSE_TRIES
  Polls,        \* polls that fit the timeout of a save job
  VerifyTries   \* Len(_NEW_CAPTURE_WAITS)

ASSUME WaybackArchiveAssumption ==
  /\ {Waits, ReuseTries, Polls} \subseteq Nat
  /\ {LimitTries, VerifyTries} \subseteq Nat \ {0}
  /\ Failures = {"none_found", "save_failed", "mismatch", "not_served_yet",
                 "unchecked"}

VARIABLES
  mode,      \* "archive", or "repair": search only
  keys,      \* the Wayback keys: "both", "none" or "malformed"
  pc,        \* where the call is
  failures,  \* _retrying: 5xx answers to the request being made
  limits,    \* _retrying: 429 answers to it
  listing,   \* history: the captures the listing named as documents
  todo,      \* those still to try: [time, digest]
  rejected,  \* rejected_digests
  tried,     \* captures tried
  unmet,     \* history: those not served or not reached when tried
  posts,     \* history: requests for a new capture
  waited,    \* polls made
  target,    \* the timestamp Save Page Now reported
  seen       \* what each fetch of it said

world == <<taken, served>>
chosen == <<mode, keys>>
request == <<failures, limits>>
search == <<listing, todo, rejected, tried, unmet>>
save == <<posts, waited, target, seen>>

vars == <<taken, served, answer, mode, keys, pc, failures, limits, listing,
          todo, rejected, tried, unmet, posts, waited, target, seen>>

CallInit ==
  /\ Init
  /\ mode \in {"archive", "repair"}
  /\ keys \in {"both", "none", "malformed"}
  /\ pc = "list"
  /\ failures = 0 /\ limits = 0
  /\ listing = {} /\ todo = {} /\ rejected = {} /\ tried = 0 /\ unmet = {}
  /\ posts = 0 /\ waited = 0 /\ target = None /\ seen = <<>>

(***************************************************************************)
(* Pieces the steps share.                                                 *)
(***************************************************************************)
\* Mutant of AskAgain: each kind of failure forgives the other.
AskAgainForgiving ==
  /\ \/ failures < Waits /\ failures' = failures + 1 /\ limits' = 0
     \/ limits + 1 < LimitTries /\ limits' = limits + 1 /\ failures' = 0
  /\ UNCHANGED <<pc, answer>>

\* _retrying: a 5xx and a 429 are asked again, each within its own budget.
AskAgain ==
  /\ \/ failures < Waits /\ failures' = failures + 1 /\ UNCHANGED limits
     \/ limits + 1 < LimitTries /\ limits' = limits + 1 /\ UNCHANGED failures
  /\ UNCHANGED <<pc, answer>>

\* A request is over, answered or given up: the next has budgets of its own.
Proceed(there) ==
  /\ pc' = there
  /\ failures' = 0 /\ limits' = 0
  /\ UNCHANGED answer

Return(a) ==
  /\ pc' = "done"
  /\ answer' = a
  /\ failures' = 0 /\ limits' = 0

Attached(t) == Return([capture |-> t])
Refused(f) == Return([reason |-> f])

\* CaptureVerdict, whose "unreadable" is a mismatch to this call, or no answer.
Results == {"ok", "mismatch", "not_served", "unreachable"}

\* What a fetch of the capture at timestamp t may say: _check_capture, or no
\* answer.  A capture without a document is a 404, or another HTTP error.
CheckCapture(t) ==
  {"unreachable"} \cup
    (CASE t \notin served -> {"not_served"}
       [] t \in served /\ taken[t] \in Right -> {"ok"}
       [] OTHER -> {"mismatch"})

(***************************************************************************)
(* _existing_capture.                                                      *)
(***************************************************************************)
NothingFound ==
  \/ mode = "archive" /\ Proceed("save")
  \/ mode = "repair" /\ Refused("none_found")

\* The index may lag behind the captures, and an entry may have no digest.
\* Bytes stand for their digest.
ListAnswers(named, blank) ==
  /\ pc = "list"
  /\ named \subseteq Documents /\ blank \subseteq named
  /\ listing' = named
  /\ todo' = {[time |-> t, digest |-> IF t \in blank THEN None ELSE taken[t]] :
                t \in named}
  /\ Proceed("reuse")
  /\ UNCHANGED <<world, chosen, save, rejected, tried, unmet>>

\* The request fails, or is answered by no listing: "a broken optimisation".
ListFails ==
  /\ pc = "list"
  /\ AskAgain \/ NothingFound
  /\ UNCHANGED <<world, chosen, search, save>>

Untried(entries, digests) ==
  {e \in entries : e.digest = None \/ e.digest \notin digests}

\* The listing is read from its newest entry.
Newest(e) == e \in todo /\ \A f \in todo : f.time <= e.time

\* Mutant of TryCapture: the digest of a capture that was not served is
\* rejected too.
TryCaptureRejecting(e, said) ==
  /\ pc = "reuse" /\ Newest(e) /\ tried < ReuseTries
  /\ said \in CheckCapture(e.time)
  /\ rejected' = rejected \cup {e.digest}
  /\ unmet' = unmet \cup
       (IF said \in {"not_served", "unreachable"} THEN {e.time} ELSE {})
  /\ IF said = "ok" THEN Attached(e.time) ELSE Proceed("reuse")
  /\ tried' = tried + 1
  /\ todo' = Untried(todo \ {e}, rejected')
  /\ UNCHANGED <<world, chosen, listing, save>>

TryCapture(e, said) ==
  /\ pc = "reuse" /\ Newest(e) /\ tried < ReuseTries
  /\ said \in CheckCapture(e.time)
  /\ rejected' = rejected \cup
       (IF said = "mismatch" /\ e.digest # None THEN {e.digest} ELSE {})
  /\ unmet' = unmet \cup
       (IF said \in {"not_served", "unreachable"} THEN {e.time} ELSE {})
  /\ IF said = "ok" THEN Attached(e.time) ELSE Proceed("reuse")
  /\ tried' = tried + 1
  /\ todo' = Untried(todo \ {e}, rejected')
  /\ UNCHANGED <<world, chosen, listing, save>>

SearchEnds ==
  /\ pc = "reuse" /\ (todo = {} \/ tried >= ReuseTries)
  /\ NothingFound
  /\ UNCHANGED <<world, chosen, search, save>>

(***************************************************************************)
(* _new_capture: the SPN2 job with keys, the anonymous save without.       *)
(***************************************************************************)
SaveMalformed ==
  /\ pc = "save" /\ keys = "malformed"
  /\ Refused("save_failed")
  /\ UNCHANGED <<world, chosen, search, save>>

SaveStarts ==
  /\ pc = "save" /\ keys = "both"
  /\ posts' = posts + 1
  /\ Proceed("poll")
  /\ UNCHANGED <<world, chosen, search, waited, target, seen>>

\* Content-Location names a capture.
SaveAnswers(t) ==
  /\ pc = "save" /\ keys = "none"
  /\ posts' = posts + 1
  /\ target' = t
  /\ Proceed("verify")
  /\ UNCHANGED <<world, chosen, search, waited, seen>>

\* The request fails, is refused, or names no capture with a timestamp.
SaveFails ==
  /\ pc = "save" /\ keys # "malformed"
  /\ posts' = posts + 1
  /\ AskAgain \/ Refused("save_failed")
  /\ UNCHANGED <<world, chosen, search, waited, target, seen>>

\* Mutant of Poll: a poll is not counted.
PollUncounted ==
  /\ pc = "poll" /\ waited < Polls
  /\ Proceed("status")
  /\ UNCHANGED <<world, chosen, search, save>>

Poll ==
  /\ pc = "poll" /\ waited < Polls
  /\ waited' = waited + 1
  /\ Proceed("status")
  /\ UNCHANGED <<world, chosen, search, posts, target, seen>>

PollEnds ==
  /\ pc = "poll" /\ waited >= Polls
  /\ Refused("save_failed")
  /\ UNCHANGED <<world, chosen, search, save>>

JobPending ==
  /\ pc = "status"
  /\ Proceed("poll")
  /\ UNCHANGED <<world, chosen, search, save>>

\* Mutant of JobSucceeds: the word of Save Page Now is taken for a check.
JobSucceedsUnchecked(t) ==
  /\ pc = "status"
  /\ target' = t
  /\ Attached(t)
  /\ UNCHANGED <<world, chosen, search, posts, waited, seen>>

\* The job's timestamp is Save Page Now's word: of the capture it took, of an
\* older one, or of one that Wayback will never serve.
JobSucceeds(t) ==
  /\ pc = "status"
  /\ target' = t
  /\ Proceed("verify")
  /\ UNCHANGED <<world, chosen, search, posts, waited, seen>>

JobFails ==
  /\ pc = "status"
  /\ AskAgain \/ Refused("save_failed")
  /\ UNCHANGED <<world, chosen, search, save>>

(***************************************************************************)
(* _verified_new_capture.                                                  *)
(***************************************************************************)
\* Mutant of Verify: a capture that is not served is refused like a wrong one.
VerifyHasty(said) ==
  /\ pc = "verify"
  /\ said \in CheckCapture(target)
  /\ seen' = Append(seen, said)
  /\ IF said = "ok" THEN Attached(target)
     ELSE Refused(IF said = "unreachable" THEN "unchecked" ELSE "mismatch")
  /\ UNCHANGED <<world, chosen, search, posts, waited, target>>

Verify(said) ==
  /\ pc = "verify"
  /\ said \in CheckCapture(target)
  /\ seen' = Append(seen, said)
  /\ \/ said = "ok" /\ Attached(target)
     \/ said = "mismatch" /\ Refused("mismatch")
     \/ /\ said \in {"not_served", "unreachable"}
        /\ \/ Len(seen') < VerifyTries /\ Proceed("verify")
           \/ /\ Len(seen') = VerifyTries
              /\ Refused(IF said = "not_served" THEN "not_served_yet"
                         ELSE "unchecked")
  /\ UNCHANGED <<world, chosen, search, posts, waited, target>>

(***************************************************************************)
(* Behaviours.                                                             *)
(***************************************************************************)
Step ==
  \/ \E named \in SUBSET Times : \E blank \in SUBSET named :
       ListAnswers(named, blank)
  \/ ListFails
  \/ \E said \in Results : Verify(said) \/ \E e \in todo : TryCapture(e, said)
  \/ SearchEnds
  \/ SaveMalformed \/ SaveStarts \/ SaveFails
  \/ \E t \in Times : SaveAnswers(t) \/ JobSucceeds(t)
  \/ Poll \/ PollEnds \/ JobPending \/ JobFails

World ==
  /\ pc # "done" /\ Wayback
  /\ UNCHANGED <<chosen, pc, request, search, save>>

CallNext == Step \/ World

\* Requests time out and sleeps end; of Wayback nothing is assumed.
CallSpec == CallInit /\ [][CallNext]_vars /\ WF_vars(Step)

(***************************************************************************)
(* Properties.                                                             *)
(***************************************************************************)
TypeOK ==
  /\ taken \in [Times -> Bytes \cup {Page, None}]
  /\ served \subseteq Documents
  /\ answer \in Copies \cup Refusals \cup {None}
  /\ mode \in {"archive", "repair"}
  /\ keys \in {"both", "none", "malformed"}
  /\ pc \in {"list", "reuse", "save", "poll", "status", "verify", "done"}
  /\ failures \in 0 .. Waits
  /\ limits \in 0 .. LimitTries - 1
  /\ listing \subseteq Documents
  /\ todo \subseteq [time : listing, digest : Bytes \cup {None}]
  /\ rejected \subseteq Bytes
  /\ tried \in 0 .. ReuseTries
  /\ unmet \subseteq listing
  /\ {posts, waited} \subseteq Nat
  /\ target \in Times \cup {None}
  /\ seen \in Seq(Results)

\* What the call returns is what Archiving promises: a capture that Wayback
\* serves at the moment it is checked, reused or new, and that reproduces the
\* pin; PinStore's Reproducing stands for it.
ImplementsArchiving == Spec

\* The newest capture that reproduces the pin is the one reused, and no new
\* one is asked for: a listed capture that does is passed over only if it was
\* not served or not reached when tried, or the search had tried its fill.
\* A rejected digest never hides one (_existing_capture).
NothingIsOverlooked ==
  pc \notin {"list", "reuse"} =>
    \A t \in listing \ unmet :
      taken[t] \in Right =>
        \/ posts = 0 /\ answer \in Copies /\ answer.capture >= t
        \/ tried = ReuseTries

\* A refused capture is one whose bytes do not reproduce the pin; one called
\* "not served yet", which the caller is told to ask for again, was asked for
\* VerifyTries times and never found wrong (_verified_new_capture).
RefusedOnEvidence ==
  /\ answer = [reason |-> "mismatch"] => taken[target] \notin Right
  /\ answer = [reason |-> "not_served_yet"] =>
       /\ Len(seen) = VerifyTries
       /\ \A k \in DOMAIN seen : seen[k] # "mismatch"

\* One call asks for a new capture as often as its two retry budgets allow
\* for one request: never again once a job is accepted, never to repair.
SavesAreBounded ==
  posts <= (IF mode = "repair" \/ keys = "malformed" THEN 0
            ELSE Waits + LimitTries)

\* Every call ends, whatever Wayback answers and does.
Terminates == <>(pc = "done")
=============================================================================
