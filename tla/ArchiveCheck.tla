---------------------------- MODULE ArchiveCheck ----------------------------
(***************************************************************************)
(* The weekly archive check, `pin check --archives`: check_archives of     *)
(* registers_crosswalk/pin.py.                                             *)
(*                                                                         *)
(* Every capture attached to a pin is asked for at its timestamp, in up to *)
(* Samples rounds some minutes apart, inside one budget of time and at     *)
(* most one request per Gap.  Wayback may answer anything, or nothing, and *)
(* may answer differently from one round to the next.  What the samples do *)
(* not decide, the CDX listing does.                                       *)
(***************************************************************************)
EXTENDS Integers, Sequences

CONSTANTS
  N,             \* the number of entries: attached copies, in order
  Samples,       \* _ARCHIVE_SAMPLES
  Stop,          \* _ARCHIVE_UNREACHABLE_STOP
  Gap,           \* _ARCHIVE_GAP
  RoundWait,     \* _ARCHIVE_ROUND_WAIT
  RoundWaitMax,  \* _ARCHIVE_ROUND_WAIT_MAX
  Budget,        \* _ARCHIVE_BUDGET
  Slow,          \* the longest a request takes: its timeout
  RetryAfters,   \* the waits a 429 asks for
  ListingWaits,  \* _ARCHIVE_RETRY_WAITS: before each retry of a listing
  LimitTries,    \* _RATE_LIMIT_TRIES: requests answered 429 before giving up
  None

ASSUME ArchiveCheckAssumption ==
  /\ {N, Slow} \subseteq Nat
  /\ {Samples, Stop, Gap, RoundWait, RoundWaitMax, Budget, LimitTries}
       \subseteq Nat \ {0}
  /\ RetryAfters \subseteq Nat \ {0}
  /\ ListingWaits \in Seq(Nat)
  /\ None \notin {"ok", "lost", "missing", "unchecked", "not_checkable"}

Entries == 1 .. N

\* AttachedStatus, less the one that is no sample, not_checkable.
Answers == {"ok", "not_served", "mismatch", "unreadable", "unreachable"}

\* ArchiveStatus.
Statuses == {"ok", "lost", "missing", "unchecked", "not_checkable"}

VARIABLES
  pc,          \* where the run is
  stop,        \* whether --stop-on-429 was given
  clock,       \* seconds since the run began
  asked,       \* _Paced._asked: whether a request has been made
  rested,      \* _Paced._rested: seconds slept since the last request
  last,        \* history: when the last request ended
  limited,     \* history: whether a 429 has been heard
  round,       \* rounds begun
  queue,       \* the pending entries in the order they will be asked
  left,        \* entries of the queue this round has still to reach
  unanswered,  \* unanswered_in_a_row
  retry,       \* the longest wait a 429 of this round asked for, 0 for none
  samples,     \* each entry's answers so far
  report,      \* each entry's verdict, None while pending
  failed       \* failures of the listing being read: <<5xx or refused, 429>>

vars == <<pc, stop, clock, asked, rested, last, limited, round, queue, left,
          unanswered, retry, samples, report, failed>>

paced == <<clock, asked, rested, last>>
rounds == <<round, queue, left, unanswered, retry>>

Pending == {e \in Entries : report[e] = None}

\* max() and min() of two.
Later(a, b) == IF a > b THEN a ELSE b
Sooner(a, b) == IF a < b THEN a ELSE b

(***************************************************************************)
(* What the answers so far say.                                            *)
(***************************************************************************)
Said(e, a) == \E k \in DOMAIN samples[e] : samples[e][k] = a

AnsweredTwice(e) ==
  \E j, k \in DOMAIN samples[e] :
    j # k /\ samples[e][j] # "unreachable" /\ samples[e][k] # "unreachable"

\* Mutant of VerdictFromSamples: one answer, or none, is enough for a listing.
VerdictFromAnySamples(e) ==
  CASE Said(e, "mismatch") -> "lost"
    [] Said(e, "unreadable") /\ ~Said(e, "mismatch") -> "unchecked"
    [] OTHER -> None

\* _verdict_from_samples: None where the listing decides.
VerdictFromSamples(e) ==
  CASE Said(e, "mismatch") -> "lost"
    [] ~Said(e, "mismatch") /\ (Said(e, "unreadable") \/ ~AnsweredTwice(e))
         -> "unchecked"
    [] OTHER -> None

\* Mutant of CutShortReport: an entry that was never tried is left out.
CutShortTried ==
  [e \in Entries |->
     IF e \notin Pending \/ samples[e] = <<>> THEN report[e]
     ELSE IF Said(e, "mismatch") THEN "lost" ELSE "unchecked"]

\* Mutant of CutShortReport: the budget explains every entry it left pending.
CutShortUnchecked ==
  [e \in Entries |-> IF e \notin Pending THEN report[e] ELSE "unchecked"]

\* cut_short: what is pending when the run ends early.
CutShortReport ==
  [e \in Entries |->
     IF e \notin Pending THEN report[e]
     ELSE IF Said(e, "mismatch") THEN "lost" ELSE "unchecked"]

(***************************************************************************)
(* _Paced.                                                                 *)
(***************************************************************************)
\* Mutant of Fits: the deadline is looked at before a wait, not at its end.
FitsSoFar(seconds) == clock <= Budget /\ seconds \in Nat

Fits(seconds) == clock + seconds <= Budget

Sleep(seconds) ==
  /\ clock' = clock + seconds
  /\ rested' = rested + seconds
  /\ UNCHANGED <<asked, last>>

\* Mutant of Request: the rest taken before it still counts after it.
RequestUnreset(d) ==
  /\ clock' = clock + d
  /\ asked' = TRUE
  /\ rested' = rested
  /\ last' = clock + d

\* A request that takes d seconds.
Request(d) ==
  /\ clock' = clock + d
  /\ asked' = TRUE
  /\ rested' = 0
  /\ last' = clock + d

\* A request that takes d seconds, and then a wait.
RequestThenSleep(d, seconds) ==
  /\ clock' = clock + d + seconds
  /\ asked' = TRUE
  /\ rested' = seconds
  /\ last' = clock + d

\* ready: what is left of the gap is slept, and the budget looked at again.
Owed == IF asked /\ rested < Gap THEN Gap - rested ELSE 0

OutOfBudget ==
  /\ pc' = "done"
  /\ report' = CutShortReport
  /\ UNCHANGED <<stop, rounds, samples, failed>>

Ready(there) ==
  \/ /\ Fits(Owed)
     /\ Sleep(Owed)
     /\ pc' = there
     /\ UNCHANGED <<stop, limited, rounds, samples, report, failed>>
  \/ ~Fits(Owed) /\ OutOfBudget /\ UNCHANGED <<paced, limited>>

\* The copies there is nothing to ask about are settled first; the others are
\* numbered in the order of the records.
Init ==
  /\ pc = "rounds"
  /\ stop \in BOOLEAN
  /\ clock = 0 /\ asked = FALSE /\ rested = 0 /\ last = 0
  /\ limited = FALSE
  /\ \E k \in 0 .. N :
       /\ report = [e \in Entries |-> IF e <= k THEN None ELSE "not_checkable"]
       /\ queue = [e \in 1 .. k |-> e]
  /\ round = 0 /\ left = 0 /\ unanswered = 0 /\ retry = 0
  /\ samples = [e \in Entries |-> <<>>]
  /\ failed = <<0, 0>>

(***************************************************************************)
(* The rounds.                                                             *)
(***************************************************************************)
\* Mutant of BeginRound: one round too many.
BeginRoundOneMore ==
  /\ pc = "rounds"
  /\ round <= Samples /\ queue # <<>>
  /\ Fits(RoundWait) /\ Sleep(RoundWait)
  /\ pc' = "sample"
  /\ round' = round + 1 /\ left' = Len(queue)
  /\ unanswered' = 0 /\ retry' = 0
  /\ UNCHANGED <<stop, limited, queue, samples, report, failed>>

BeginRound ==
  /\ pc = "rounds"
  /\ round < Samples /\ queue # <<>>
  /\ LET wait == IF round = 0 THEN 0
                 ELSE Sooner(RoundWaitMax, Later(RoundWait, retry))
     IN \/ /\ Fits(wait)
           /\ Sleep(wait)
           /\ pc' = "sample"
           /\ round' = round + 1
           /\ left' = Len(queue)
           /\ unanswered' = 0
           /\ retry' = 0
           /\ UNCHANGED <<stop, limited, queue, samples, report, failed>>
        \/ ~Fits(wait) /\ OutOfBudget /\ UNCHANGED <<paced, limited>>

SampleReady ==
  /\ pc = "sample" /\ left > 0 /\ unanswered < Stop
  /\ Ready("ask")

\* Mutant of EndRound: every round begins at the front of the list.
EndRoundUnrotated ==
  /\ pc = "sample" /\ (left = 0 \/ unanswered >= Stop)
  /\ pc' = "rounds"
  /\ queue' = SelectSeq([e \in Entries |-> e], LAMBDA e : report[e] = None)
  /\ UNCHANGED <<stop, paced, limited, round, left, unanswered, retry, samples,
                 report, failed>>

\* Mutant of EndRound: a round waits for the entries an outage kept it from.
EndRoundWhenAllAsked ==
  /\ pc = "sample" /\ left = 0
  /\ pc' = "rounds"
  /\ UNCHANGED <<stop, paced, limited, rounds, samples, report, failed>>

\* A round is over when every pending entry was asked, or Stop requests in a
\* row had no answer; the next starts with the entries it did not reach.
EndRound ==
  /\ pc = "sample" /\ (left = 0 \/ unanswered >= Stop)
  /\ pc' = "rounds"
  /\ UNCHANGED <<stop, paced, limited, rounds, samples, report, failed>>

\* Another entry's answer: the entry is settled if it is good and goes to the
\* back of the queue if it is not.
Ask(a, d) ==
  /\ pc = "ask"
  /\ LET e == Head(queue)
     IN /\ samples' = [samples EXCEPT ![e] = Append(@, a)]
        /\ report' = [report EXCEPT ![e] = IF a = "ok" THEN "ok" ELSE None]
        /\ queue' = IF a = "ok" THEN Tail(queue) ELSE Append(Tail(queue), e)
  /\ left' = left - 1
  /\ unanswered' = IF a = "unreachable" THEN unanswered + 1 ELSE 0
  /\ Request(d)
  /\ pc' = "sample"
  /\ UNCHANGED <<stop, limited, round, retry, failed>>

\* The request is answered 429: waited out in the end, or the end of the run.
AskLimited(seconds, d) ==
  /\ pc = "ask"
  /\ LET e == Head(queue)
     IN /\ samples' = [samples EXCEPT ![e] = Append(@, "unreachable")]
        /\ queue' = Append(Tail(queue), e)
  /\ left' = left - 1
  /\ unanswered' = unanswered + 1
  /\ retry' = Later(retry, seconds)
  /\ Request(d)
  /\ limited' = TRUE
  /\ \/ ~stop /\ pc' = "sample" /\ UNCHANGED report
     \/ stop /\ pc' = "done" /\ report' = CutShortReport
  /\ UNCHANGED <<stop, round, failed>>

(***************************************************************************)
(* The verdicts.                                                           *)
(***************************************************************************)
SettleBySamples ==
  /\ pc = "rounds"
  /\ round = Samples \/ queue = <<>>
  /\ report' = [e \in Entries |->
                  IF e \in Pending THEN VerdictFromSamples(e) ELSE report[e]]
  /\ pc' = "patience"
  /\ UNCHANGED <<stop, paced, limited, rounds, samples, failed>>

\* The last round heard a 429, and the listing is Wayback too.
WaitForListings ==
  /\ pc = "patience"
  /\ LET wait == IF Pending = {} THEN 0 ELSE Sooner(RoundWaitMax, retry)
     IN \/ /\ Fits(wait) \/ wait = 0
           /\ Sleep(wait)
           /\ pc' = "listing"
           /\ UNCHANGED <<stop, limited, rounds, samples, report, failed>>
        \/ /\ wait > 0 /\ ~Fits(wait)
           /\ OutOfBudget
           /\ UNCHANGED <<paced, limited>>

\* The listings are read in the order of the entries.
Turn(e) == e \in Pending /\ \A f \in Pending : e <= f

ListingReady ==
  /\ pc = "listing" /\ Pending # {}
  /\ Ready("list")

Settle(e, verdict) ==
  /\ report' = [report EXCEPT ![e] = verdict]
  /\ failed' = <<0, 0>>
  /\ pc' = "listing"
  /\ UNCHANGED <<stop, rounds, samples>>

\* _verdict_from_listing: a listing that holds no document at the entry's
\* timestamp, one that does, and a reply that is none or cannot be read.
List(e, verdict, d) ==
  /\ pc = "list" /\ Turn(e)
  /\ Request(d)
  /\ Settle(e, verdict)
  /\ UNCHANGED limited

\* _retrying: the request failed, for the n-th time, in a way worth a retry
\* after some seconds as long as n < tries.
Retrying(e, d, n, tries, seconds) ==
  \/ /\ n < tries /\ clock + d + Later(seconds, Gap) <= Budget
     /\ RequestThenSleep(d, Later(seconds, Gap))
     /\ pc' = "listing"
     /\ UNCHANGED <<stop, rounds, samples, report>>
  \/ /\ n < tries /\ clock + d + Later(seconds, Gap) > Budget
     /\ Request(d)
     /\ pc' = "done" /\ report' = CutShortReport
     /\ UNCHANGED <<stop, rounds, samples>>
  \/ /\ n >= tries
     /\ Request(d)
     /\ report' = [report EXCEPT ![e] = "unchecked"]
     /\ pc' = "listing"
     /\ UNCHANGED <<stop, rounds, samples>>

\* A 5xx, or a connection never made.
ListFails(e, d) ==
  /\ pc = "list" /\ Turn(e)
  /\ LET n == failed[1] + 1
     IN /\ Retrying(e, d, n, Len(ListingWaits) + 1,
                    IF n <= Len(ListingWaits) THEN ListingWaits[n] ELSE 0)
        /\ failed' = IF n > Len(ListingWaits) THEN <<0, 0>>
                     ELSE [failed EXCEPT ![1] = n]
  /\ UNCHANGED limited

ListLimited(e, seconds, d) ==
  /\ pc = "list" /\ Turn(e)
  /\ limited' = TRUE
  /\ \/ /\ stop
        /\ Request(d)
        /\ pc' = "done" /\ report' = CutShortReport
        /\ UNCHANGED <<stop, rounds, samples, failed>>
     \/ /\ ~stop
        /\ LET n == failed[2] + 1
           IN /\ Retrying(e, d, n, LimitTries, seconds)
              /\ failed' = IF n >= LimitTries THEN <<0, 0>>
                           ELSE [failed EXCEPT ![2] = n]

Finish ==
  /\ pc = "listing" /\ Pending = {}
  /\ pc' = "done"
  /\ UNCHANGED <<stop, paced, limited, rounds, samples, report, failed>>

Next ==
  \/ BeginRound \/ SampleReady \/ EndRound
  \/ \E a \in Answers, d \in 0 .. Slow : Ask(a, d)
  \/ \E s \in RetryAfters, d \in 0 .. Slow : AskLimited(s, d)
  \/ SettleBySamples \/ WaitForListings \/ ListingReady
  \/ \E e \in Entries, d \in 0 .. Slow :
       \/ \E verdict \in {"missing", "unchecked"} : List(e, verdict, d)
       \/ ListFails(e, d)
       \/ \E s \in RetryAfters : ListLimited(e, s, d)
  \/ Finish

\* Requests time out and sleeps end, so the run is never stuck in a step.
Spec == Init /\ [][Next]_vars /\ WF_vars(Next)

(***************************************************************************)
(* Properties.                                                             *)
(***************************************************************************)
TypeOK ==
  /\ pc \in {"rounds", "sample", "ask", "patience", "listing", "list", "done"}
  /\ {stop, asked, limited} \subseteq BOOLEAN
  /\ {clock, rested, last, unanswered, retry} \subseteq Nat
  /\ round \in 0 .. Samples
  /\ left \in 0 .. N
  /\ queue \in Seq(Entries)
  /\ samples \in [Entries -> Seq(Answers)]
  /\ report \in [Entries -> Statuses \cup {None}]
  /\ failed \in Nat \X Nat

\* "Every Wayback request waits at least this long after the one before", a
\* retry of a listing and the first request of a round included, and none
\* begins past the budget (_Paced).
RequestsArePaced ==
  pc \in {"ask", "list"} =>
    /\ asked => clock - last >= Gap
    /\ clock <= Budget

\* No wait ends past the budget, so the run ends on its own verdicts within
\* one request of it, before the job's own timeout (_ARCHIVE_BUDGET).
EndsInsideTheBudget == clock <= Budget + Slow

\* However the run ends, it reports on every entry; and with --stop-on-429 it
\* ends at the first 429, on a capture or on a listing, with nothing asked
\* after it (check_archives returns the reports that exist, and would drop an
\* entry left pending).
EveryEntryIsReported ==
  /\ pc = "done" => Pending = {}
  /\ stop /\ limited => pc = "done"

\* An entry is LOST exactly when Wayback served its capture with other
\* content, and never with the right one: neither a budget, a 429 nor an
\* unreadable answer hides it (_verdict_from_samples, cut_short).
MismatchIsNeverHidden ==
  \A e \in Entries :
    report[e] # None =>
      (report[e] = "lost" <=> Said(e, "mismatch") /\ ~Said(e, "ok"))

\* A capture is called MISSING on two answers at least, all of which say that
\* it is not served (_verdict_from_samples).
MissingRestsOnTwoAnswers ==
  \A e \in Entries :
    report[e] = "missing" =>
      /\ AnsweredTwice(e)
      /\ \A k \in DOMAIN samples[e] :
           samples[e][k] \in {"not_served", "unreachable"}

\* "failures at the front of the list can't keep the rest from being asked":
\* no pending entry is ever two samples ahead of another (check_archives).
RoundsAreFair ==
  \A e, f \in Pending : Len(samples[e]) <= Len(samples[f]) + 1

\* Every run ends.
Terminates == <>(pc = "done")
=============================================================================
