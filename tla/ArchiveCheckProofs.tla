-------------------------- MODULE ArchiveCheckProofs --------------------------
(***************************************************************************)
(* Proofs about ArchiveCheck: the pacing and the budget, the soundness of  *)
(* the verdicts, the fairness of the rounds, and that every run is finite. *)
(***************************************************************************)
EXTENDS ArchiveCheck, FiniteSetTheorems, TLAPS

Places == {"rounds", "sample", "ask", "patience", "listing", "list", "done"}

\* TypeOK, with what types the queue: it is never longer than the entries,
\* a round has no more left than is queued, and something when it asks.
Typed ==
  /\ TypeOK
  /\ Len(queue) <= N
  /\ pc \in {"sample", "ask"} => left <= Len(queue)
  /\ pc = "ask" => left > 0

\* What has passed since the last request was rested, and a request is about
\* to be made after a gap of rest, inside the budget.
Paced ==
  /\ asked => clock = last + rested
  /\ pc \in {"ask", "list"} /\ asked => rested >= Gap
  /\ pc \in {"ask", "list"} => clock <= Budget
  /\ clock <= Budget + Slow

Rounds == {"rounds", "sample", "ask"}
Listings == {"patience", "listing", "list"}

\* How many samples each entry has.
Lengths == [e \in Entries |-> Len(samples[e])]

\* A queue holds an entry once, and those with a sample less in front.
Ordered(q, lengths) ==
  /\ \A j, k \in 1 .. Len(q) : q[j] = q[k] => j = k
  /\ \A j, k \in 1 .. Len(q) :
       j < k => lengths[q[j]] <= lengths[q[k]] /\ lengths[q[k]] <= lengths[q[j]] + 1

\* The queue of the rounds is what is pending, in that order.
Rotation ==
  pc \in Rounds =>
    /\ Ordered(queue, Lengths)
    /\ \A k \in 1 .. Len(queue) : queue[k] \in Pending
    /\ \A e \in Pending : \E k \in 1 .. Len(queue) : queue[k] = e

\* Where an entry stands.  One that is pending has had no good answer and, once
\* the listings are read, two answers and none but "not served".
Standing(e) ==
  /\ report[e] = None =>
       /\ ~Said(e, "ok")
       /\ pc \in Listings =>
            ~Said(e, "mismatch") /\ ~Said(e, "unreadable") /\ AnsweredTwice(e)
  /\ report[e] # None =>
       (report[e] = "lost" <=> Said(e, "mismatch") /\ ~Said(e, "ok"))
  /\ report[e] = "missing" =>
       /\ AnsweredTwice(e)
       /\ \A k \in DOMAIN samples[e] :
            samples[e][k] \in {"not_served", "unreachable"}

Standings == \A e \in Entries : Standing(e)

\* What makes the verdicts and the rounds inductive.
IInv == Typed /\ Rotation /\ Standings /\ RoundsAreFair

(***************************************************************************)
(* Sequences and waits.                                                    *)
(***************************************************************************)
LEMMA TailOf ==
  ASSUME NEW q \in Seq(Entries), q # <<>>
  PROVE  /\ Len(q) \in Nat /\ Len(q) > 0
         /\ Head(q) = q[1] /\ q[1] \in Entries
         /\ Tail(q) \in Seq(Entries)
         /\ Len(Tail(q)) = Len(q) - 1
         /\ \A k \in 1 .. Len(q) - 1 : Tail(q)[k] = q[k + 1]
  OBVIOUS

LEMMA RotatedIs ==
  ASSUME NEW q \in Seq(Entries), q # <<>>
  PROVE  LET r == Append(Tail(q), Head(q))
         IN /\ r \in Seq(Entries)
            /\ Len(r) = Len(q)
            /\ \A k \in 1 .. Len(q) - 1 : r[k] = q[k + 1]
            /\ r[Len(q)] = q[1]
<1>1. Append(Tail(q), Head(q)) \in Seq(Entries)
  BY TailOf
<1>2. Len(Append(Tail(q), Head(q))) = Len(q)
  BY TailOf
<1>3. ASSUME NEW k \in 1 .. Len(q) - 1 PROVE Append(Tail(q), Head(q))[k] = q[k + 1]
  BY TailOf
<1>4. Append(Tail(q), Head(q))[Len(q)] = q[1]
  BY TailOf
<1> QED
  BY <1>1, <1>2, <1>3, <1>4

\* A sequence of one more answer.
LEMMA Appended ==
  ASSUME NEW s \in Seq(Answers), NEW a \in Answers
  PROVE  /\ Append(s, a) \in Seq(Answers)
         /\ Len(Append(s, a)) = Len(s) + 1
         /\ DOMAIN Append(s, a) = 1 .. Len(s) + 1
         /\ \A k \in 1 .. Len(s) : Append(s, a)[k] = s[k]
         /\ Append(s, a)[Len(s) + 1] = a
  OBVIOUS

LEMMA Waits ==
  ASSUME TypeOK
  PROVE  /\ Owed \in Nat
         /\ asked => rested + Owed >= Gap
         /\ \A a, b \in Nat : Later(a, b) \in Nat /\ Sooner(a, b) \in Nat
<1>1. rested \in Nat /\ Gap \in Nat
  BY ArchiveCheckAssumption DEF TypeOK
<1>2. Owed \in Nat /\ (asked => rested + Owed >= Gap)
  BY <1>1 DEF Owed
<1>3. \A a, b \in Nat : Later(a, b) \in Nat /\ Sooner(a, b) \in Nat
  BY DEF Later, Sooner
<1> QED
  BY <1>2, <1>3

LEMMA CutShortIsTyped ==
  ASSUME TypeOK
  PROVE  /\ CutShortReport \in [Entries -> Statuses \cup {None}]
         /\ \A e \in Entries : CutShortReport[e] # None
BY ArchiveCheckAssumption DEF TypeOK, CutShortReport, Pending, Statuses

LEMMA VerdictIsTyped ==
  ASSUME NEW e \in Entries
  PROVE  /\ VerdictFromSamples(e) \in {"lost", "unchecked", None}
         /\ VerdictFromSamples(e) = "lost" <=> Said(e, "mismatch")
         /\ VerdictFromSamples(e) = None =>
              ~Said(e, "mismatch") /\ ~Said(e, "unreadable") /\ AnsweredTwice(e)
<1>1. CASE Said(e, "mismatch")
  BY <1>1, ArchiveCheckAssumption DEF VerdictFromSamples
<1>2. CASE ~Said(e, "mismatch") /\ (Said(e, "unreadable") \/ ~AnsweredTwice(e))
  BY <1>2, ArchiveCheckAssumption DEF VerdictFromSamples
<1>3. CASE ~Said(e, "mismatch") /\ ~Said(e, "unreadable") /\ AnsweredTwice(e)
  BY <1>3, ArchiveCheckAssumption DEF VerdictFromSamples
<1> QED
  BY <1>1, <1>2, <1>3

(***************************************************************************)
(* Type correctness.                                                       *)
(***************************************************************************)
\* The flags are set, and stop is not touched.
Flags == {stop, asked, limited} \subseteq BOOLEAN

LEMMA SizesAreNat ==
  /\ N \in Nat /\ Slow \in Nat /\ Samples \in Nat /\ Gap \in Nat
  /\ RoundWait \in Nat /\ RoundWaitMax \in Nat /\ Budget \in Nat
BY ArchiveCheckAssumption

\* The parts of Typed besides the flags.
LEMMA TypedIs ==
  Typed <=>
    /\ Flags
    /\ pc \in Places
    /\ clock \in Nat /\ rested \in Nat /\ last \in Nat
    /\ unanswered \in Nat /\ retry \in Nat
    /\ round \in 0 .. Samples
    /\ left \in 0 .. N
    /\ queue \in Seq(Entries)
    /\ samples \in [Entries -> Seq(Answers)]
    /\ report \in [Entries -> Statuses \cup {None}]
    /\ failed \in Nat \X Nat
    /\ Len(queue) <= N
    /\ pc \in {"sample", "ask"} => left <= Len(queue)
    /\ pc = "ask" => left > 0
BY DEF Typed, TypeOK, Flags, Places

LEMMA TypedNext ==
  ASSUME Flags', pc' \in Places,
         clock' \in Nat, rested' \in Nat, last' \in Nat,
         unanswered' \in Nat, retry' \in Nat,
         round' \in 0 .. Samples, left' \in 0 .. N, queue' \in Seq(Entries),
         samples' \in [Entries -> Seq(Answers)],
         report' \in [Entries -> Statuses \cup {None}],
         failed' \in Nat \X Nat, Len(queue') <= N,
         pc' \in {"sample", "ask"} => left' <= Len(queue'),
         pc' = "ask" => left' > 0
  PROVE  Typed'
BY DEF Typed, TypeOK, Flags, Places

LEMMA RequestFlags ==
  ASSUME Flags, stop' = stop, asked' = TRUE, limited' = limited \/ limited' = TRUE
  PROVE  Flags'
BY Zenon DEF Flags

LEMMA RestFlags ==
  ASSUME Flags, UNCHANGED <<stop, asked, limited>>
  PROVE  Flags'
BY Zenon DEF Flags

LEMMA InitTyped == Init => Typed
<1> SUFFICES ASSUME Init PROVE Typed
  OBVIOUS
<1>1. PICK k \in 0 .. N :
        /\ report = [e \in Entries |-> IF e <= k THEN None ELSE "not_checkable"]
        /\ queue = [e \in 1 .. k |-> e]
  BY DEF Init
<1>2. queue \in Seq(Entries) /\ Len(queue) <= N
  BY <1>1, ArchiveCheckAssumption DEF Entries
<1>3. report \in [Entries -> Statuses \cup {None}]
  BY <1>1 DEF Statuses
<1>4. samples \in [Entries -> Seq(Answers)]
  <2>1. <<>> \in Seq(Answers)
    OBVIOUS
  <2> QED
    BY <2>1 DEF Init
<1>5. Flags
  BY Zenon DEF Init, Flags
<1>6. pc = "rounds" /\ clock = 0 /\ rested = 0 /\ last = 0 /\ round = 0
      /\ left = 0 /\ unanswered = 0 /\ retry = 0 /\ failed = <<0, 0>>
  BY Zenon DEF Init
<1>7. round \in 0 .. Samples /\ left \in 0 .. N
  BY <1>6, SizesAreNat
<1> QED
  BY <1>2, <1>3, <1>4, <1>5, <1>6, <1>7, TypedIs DEF Places

LEMMA CutShortTyped ==
  ASSUME Typed, OutOfBudget, UNCHANGED <<paced, limited>>
  PROVE  Typed'
<1>1. Flags'
  BY RestFlags, TypedIs DEF OutOfBudget, paced
<1>2. report' \in [Entries -> Statuses \cup {None}]
  BY CutShortIsTyped DEF OutOfBudget, Typed
<1> QED
  BY <1>1, <1>2, TypedIs, TypedNext DEF OutOfBudget, rounds, paced, Places

LEMMA SleepTyped ==
  ASSUME Typed, NEW wait \in Nat, Sleep(wait)
  PROVE  clock' \in Nat /\ rested' \in Nat /\ last' \in Nat
BY TypedIs DEF Sleep

LEMMA ReadyTyped ==
  ASSUME Typed, NEW there \in {"ask", "list"}, Ready(there),
         there = "ask" => pc = "sample" /\ left > 0
  PROVE  Typed'
<1>1. CASE /\ Sleep(Owed) /\ pc' = there
           /\ UNCHANGED <<stop, limited, rounds, samples, report, failed>>
  <2>1. clock' \in Nat /\ rested' \in Nat /\ last' \in Nat
    BY <1>1, Waits, SleepTyped DEF Typed
  <2>2. Flags'
    BY <1>1, RestFlags, TypedIs DEF Sleep
  <2> QED
    BY <1>1, <2>1, <2>2, TypedIs, TypedNext DEF rounds, Places
<1> QED
  BY <1>1, CutShortTyped DEF Ready

LEMMA BeginRoundTyped == ASSUME Typed, BeginRound PROVE Typed'
<1> DEFINE wait == IF round = 0 THEN 0 ELSE Sooner(RoundWaitMax, Later(RoundWait, retry))
<1>1. wait \in Nat
  BY SizesAreNat, TypedIs DEF Sooner, Later
<1>2. CASE /\ Sleep(wait) /\ pc' = "sample" /\ round' = round + 1
           /\ left' = Len(queue) /\ unanswered' = 0 /\ retry' = 0
           /\ UNCHANGED <<stop, limited, queue, samples, report, failed>>
  <2>1. round' \in 0 .. Samples
    <3>1. round < Samples /\ round' = round + 1
      BY <1>2, Zenon DEF BeginRound
    <3>2. round \in 0 .. Samples
      BY TypedIs
    <3> QED
      BY <3>1, <3>2, SizesAreNat
  <2>2. Len(queue) \in 0 .. N
    BY SizesAreNat, TypedIs
  <2> HIDE DEF wait
  <2>3. clock' \in Nat /\ rested' \in Nat /\ last' \in Nat
    BY <1>1, <1>2, SleepTyped
  <2>4. Flags'
    BY <1>2, RestFlags, TypedIs DEF Sleep
  <2> QED
    BY <1>2, <2>1, <2>2, <2>3, <2>4, TypedIs, TypedNext DEF Places
<1> QED
  BY <1>2, CutShortTyped DEF BeginRound

LEMMA AskStarts ==
  ASSUME Typed, pc = "ask"
  PROVE  /\ queue \in Seq(Entries) /\ queue # <<>>
         /\ left - 1 \in 0 .. N
         /\ left - 1 <= Len(queue) - 1
         /\ Len(queue) - 1 <= N
<1>1. /\ queue \in Seq(Entries) /\ left \in 0 .. N /\ N \in Nat
      /\ left > 0 /\ left <= Len(queue) /\ Len(queue) <= N
  BY SizesAreNat, TypedIs
<1>2. Len(queue) \in Nat
  BY <1>1
<1>3. queue # <<>>
  BY <1>1, <1>2
<1> QED
  BY <1>1, <1>2, <1>3

LEMMA RequestTyped ==
  ASSUME Typed, NEW d \in 0 .. Slow, Request(d)
  PROVE  clock' \in Nat /\ rested' \in Nat /\ last' \in Nat
<1>1. clock' = clock + d /\ rested' = 0 /\ last' = clock + d
  BY Zenon DEF Request
<1>2. clock \in Nat
  BY TypedIs
<1> QED
  BY <1>1, <1>2, SizesAreNat

LEMMA AskTyped ==
  ASSUME Typed, NEW a \in Answers, NEW d \in 0 .. Slow, Ask(a, d)
  PROVE  Typed'
<1>1. pc = "ask" /\ pc' = "sample"
  BY DEF Ask
<1> DEFINE e == Head(queue)
<1>2. e \in Entries /\ queue \in Seq(Entries) /\ queue # <<>>
  BY <1>1, AskStarts, TailOf
<1>3. samples' \in [Entries -> Seq(Answers)]
  BY <1>2, Appended, TypedIs DEF Ask
<1>4. report' \in [Entries -> Statuses \cup {None}]
  BY <1>2, TypedIs DEF Ask, Statuses
<1>5. /\ queue' \in Seq(Entries)
      /\ Len(queue') \in {Len(queue), Len(queue) - 1}
  BY <1>2, TailOf, RotatedIs DEF Ask
<1>6. left' \in 0 .. N /\ left' <= Len(queue') /\ Len(queue') <= N
  <2>1. left' = left - 1 /\ Len(queue) \in Nat
    BY <1>2 DEF Ask
  <2>2. Len(queue) <= N /\ N \in Nat /\ left \in 0 .. N
    BY SizesAreNat, TypedIs
  <2> QED
    BY <1>1, <1>5, <2>1, <2>2, AskStarts
<1>7. clock' \in Nat /\ rested' \in Nat /\ last' \in Nat
  BY RequestTyped DEF Ask
<1>8. unanswered' \in Nat /\ retry' \in Nat
  BY TypedIs DEF Ask
<1>9. Flags'
  BY RequestFlags, TypedIs DEF Ask, Request
<1>10. round' \in 0 .. Samples /\ failed' \in Nat \X Nat
  BY TypedIs DEF Ask
<1> QED
  BY <1>1, <1>3, <1>4, <1>5, <1>6, <1>7, <1>8, <1>9, <1>10, TypedIs, TypedNext DEF Places

LEMMA AskLimitedTyped ==
  ASSUME Typed, NEW s \in RetryAfters, NEW d \in 0 .. Slow, AskLimited(s, d)
  PROVE  Typed'
<1>1. pc = "ask" /\ pc' \in {"sample", "done"} /\ s \in Nat
  BY ArchiveCheckAssumption DEF AskLimited
<1>2. Head(queue) \in Entries /\ queue \in Seq(Entries) /\ queue # <<>>
  BY <1>1, AskStarts, TailOf
<1>3. samples' \in [Entries -> Seq(Answers)]
  <2>1. "unreachable" \in Answers
    BY DEF Answers
  <2> QED
    BY <1>2, <2>1, Appended, TypedIs DEF AskLimited
<1>4. report' \in [Entries -> Statuses \cup {None}]
  BY CutShortIsTyped, TypedIs DEF AskLimited, Typed
<1>5. queue' \in Seq(Entries) /\ Len(queue') = Len(queue)
  BY <1>2, RotatedIs DEF AskLimited
<1>6. left' \in 0 .. N /\ left' <= Len(queue') /\ Len(queue') <= N
  <2>1. left' = left - 1 /\ Len(queue) \in Nat
    BY <1>2 DEF AskLimited
  <2>2. Len(queue) <= N /\ N \in Nat /\ left \in 0 .. N
    BY SizesAreNat, TypedIs
  <2> QED
    BY <1>1, <1>5, <2>1, <2>2, AskStarts
<1>7. clock' \in Nat /\ rested' \in Nat /\ last' \in Nat
  BY RequestTyped DEF AskLimited
<1>8. unanswered' \in Nat /\ retry' \in Nat
  <2>1. unanswered' = unanswered + 1 /\ retry' = Later(retry, s)
    BY Zenon DEF AskLimited
  <2>2. unanswered \in Nat /\ retry \in Nat
    BY TypedIs
  <2> QED
    BY <1>1, <2>1, <2>2 DEF Later
<1>9. Flags'
  BY RequestFlags, TypedIs DEF AskLimited, Request
<1>10. round' \in 0 .. Samples /\ failed' \in Nat \X Nat
  BY TypedIs DEF AskLimited
<1> QED
  BY <1>1, <1>3, <1>4, <1>5, <1>6, <1>7, <1>8, <1>9, <1>10, TypedIs, TypedNext DEF Places

LEMMA EndRoundTyped == ASSUME Typed, EndRound PROVE Typed'
<1>1. Flags'
  BY RestFlags, TypedIs DEF EndRound, paced
<1> QED
  BY <1>1, TypedIs, TypedNext DEF EndRound, paced, rounds, Places

LEMMA SettleBySamplesTyped == ASSUME Typed, SettleBySamples PROVE Typed'
<1>1. Flags'
  BY RestFlags, TypedIs DEF SettleBySamples, paced
<1>2. report' \in [Entries -> Statuses \cup {None}]
  BY VerdictIsTyped, TypedIs DEF SettleBySamples, Statuses
<1> QED
  BY <1>1, <1>2, TypedIs, TypedNext DEF SettleBySamples, paced, rounds, Places

LEMMA WaitForListingsTyped == ASSUME Typed, WaitForListings PROVE Typed'
<1> DEFINE wait == IF Pending = {} THEN 0 ELSE Sooner(RoundWaitMax, retry)
<1>1. wait \in Nat
  BY SizesAreNat, TypedIs DEF Sooner
<1>2. CASE /\ Sleep(wait) /\ pc' = "listing"
           /\ UNCHANGED <<stop, limited, rounds, samples, report, failed>>
  <2> HIDE DEF wait
  <2>1. clock' \in Nat /\ rested' \in Nat /\ last' \in Nat
    BY <1>1, <1>2, SleepTyped
  <2>2. Flags'
    BY <1>2, RestFlags, TypedIs DEF Sleep
  <2> QED
    BY <1>2, <2>1, <2>2, TypedIs, TypedNext DEF rounds, Places
<1> QED
  BY <1>2, CutShortTyped DEF WaitForListings

LEMMA ListTyped ==
  ASSUME Typed, NEW e \in Entries, NEW verdict \in {"missing", "unchecked"},
         NEW d \in 0 .. Slow, List(e, verdict, d)
  PROVE  Typed'
<1>1. clock' \in Nat /\ rested' \in Nat /\ last' \in Nat
  BY RequestTyped DEF List
<1>2. Flags'
  BY RequestFlags, TypedIs DEF List, Settle, Request
<1>3. report' \in [Entries -> Statuses \cup {None}]
  BY TypedIs DEF List, Settle, Statuses
<1> QED
  BY <1>1, <1>2, <1>3, TypedIs, TypedNext DEF List, Settle, rounds, Places

LEMMA RetryingTyped ==
  ASSUME Typed, NEW e \in Entries, NEW d \in 0 .. Slow, NEW n, NEW tries,
         NEW seconds \in Nat, Retrying(e, d, n, tries, seconds),
         limited' = limited \/ limited' = TRUE, failed' \in Nat \X Nat
  PROVE  Typed'
<1>1. Later(seconds, Gap) \in Nat
  BY SizesAreNat DEF Later
<1>2. clock' \in Nat /\ rested' \in Nat /\ last' \in Nat
  <2>1. CASE RequestThenSleep(d, Later(seconds, Gap))
    <3>1. /\ clock' = clock + d + Later(seconds, Gap)
          /\ rested' = Later(seconds, Gap)
          /\ last' = clock + d
      BY <2>1, Zenon DEF RequestThenSleep
    <3>2. clock \in Nat /\ d \in Nat
      BY SizesAreNat, TypedIs
    <3> QED
      BY <1>1, <3>1, <3>2
  <2>2. CASE Request(d)
    BY <2>2, RequestTyped
  <2> QED
    BY <2>1, <2>2, Zenon DEF Retrying
<1>3. Flags'
  <2>1. asked' = TRUE /\ stop' = stop
    BY Zenon DEF Retrying, Request, RequestThenSleep
  <2> QED
    BY <2>1, RequestFlags, TypedIs
<1>4. report' \in [Entries -> Statuses \cup {None}]
  <2>1. \/ report' = report \/ report' = CutShortReport
        \/ report' = [report EXCEPT ![e] = "unchecked"]
    BY Zenon DEF Retrying
  <2> QED
    BY <2>1, CutShortIsTyped, TypedIs DEF Typed, Statuses
<1>5. pc' \in {"listing", "done"} /\ UNCHANGED <<stop, rounds, samples>>
  BY Zenon DEF Retrying
<1> QED
  BY <1>2, <1>3, <1>4, <1>5, TypedIs, TypedNext DEF rounds, Places

LEMMA ListFailsTyped ==
  ASSUME Typed, NEW e \in Entries, NEW d \in 0 .. Slow, ListFails(e, d)
  PROVE  Typed'
<1> DEFINE n == failed[1] + 1
           tries == Len(ListingWaits) + 1
           seconds == IF n <= Len(ListingWaits) THEN ListingWaits[n] ELSE 0
<1>1. n \in Nat \ {0} /\ failed \in Nat \X Nat
  BY TypedIs
<1>2. ListingWaits \in Seq(Nat)
  BY ArchiveCheckAssumption
<1>3. seconds \in Nat
  BY <1>1, <1>2
<1>4. failed' \in Nat \X Nat
  <2>1. failed' = IF n > Len(ListingWaits) THEN <<0, 0>>
                  ELSE [failed EXCEPT ![1] = n]
    BY DEF ListFails
  <2> QED
    BY <1>1, <2>1
<1>5. limited' = limited /\ Retrying(e, d, n, tries, seconds)
  BY Zenon DEF ListFails
<1> HIDE DEF n, tries, seconds
<1> QED
  BY <1>3, <1>4, <1>5, RetryingTyped

LEMMA ListLimitedTyped ==
  ASSUME Typed, NEW e \in Entries, NEW s \in RetryAfters, NEW d \in 0 .. Slow,
         ListLimited(e, s, d)
  PROVE  Typed'
<1>1. s \in Nat /\ failed \in Nat \X Nat
  BY ArchiveCheckAssumption, TypedIs
<1>2. CASE /\ Request(d)
           /\ pc' = "done" /\ report' = CutShortReport
           /\ UNCHANGED <<stop, rounds, samples, failed>>
  <2>1. clock' \in Nat /\ rested' \in Nat /\ last' \in Nat
    BY <1>2, RequestTyped
  <2>2. Flags'
    BY <1>2, RequestFlags, TypedIs DEF ListLimited, Request
  <2>3. report' \in [Entries -> Statuses \cup {None}]
    BY <1>2, CutShortIsTyped DEF Typed
  <2> QED
    BY <1>2, <2>1, <2>2, <2>3, TypedIs, TypedNext DEF rounds, Places
<1>3. CASE LET n == failed[2] + 1
           IN /\ Retrying(e, d, n, LimitTries, s)
              /\ failed' = IF n >= LimitTries THEN <<0, 0>>
                           ELSE [failed EXCEPT ![2] = n]
  <2>1. failed' \in Nat \X Nat
    <3>1. \/ failed' = <<0, 0>>
          \/ failed' = [failed EXCEPT ![2] = failed[2] + 1]
      BY <1>3, Zenon
    <3> QED
      BY <1>1, <3>1
  <2>2. limited' = TRUE /\ Retrying(e, d, failed[2] + 1, LimitTries, s)
    BY <1>3, Zenon DEF ListLimited
  <2> QED
    BY <1>1, <2>1, <2>2, RetryingTyped
<1> QED
  BY <1>2, <1>3, Zenon DEF ListLimited

LEMMA FinishTyped == ASSUME Typed, Finish PROVE Typed'
<1>1. Flags'
  BY RestFlags, TypedIs DEF Finish, paced
<1> QED
  BY <1>1, TypedIs, TypedNext DEF Finish, paced, rounds, Places

\* The kinds of step.
LEMMA Steps ==
  ASSUME [Next]_vars
  PROVE  \/ BeginRound \/ SampleReady \/ EndRound
         \/ \E a \in Answers, d \in 0 .. Slow : Ask(a, d)
         \/ \E s \in RetryAfters, d \in 0 .. Slow : AskLimited(s, d)
         \/ SettleBySamples \/ WaitForListings \/ ListingReady
         \/ \E e \in Entries, verdict \in {"missing", "unchecked"}, d \in 0 .. Slow :
              List(e, verdict, d)
         \/ \E e \in Entries, d \in 0 .. Slow : ListFails(e, d)
         \/ \E e \in Entries, s \in RetryAfters, d \in 0 .. Slow :
              ListLimited(e, s, d)
         \/ Finish \/ UNCHANGED vars
BY DEF Next

LEMMA StutterTyped == ASSUME Typed, UNCHANGED vars PROVE Typed'
<1>1. Flags'
  BY RestFlags, TypedIs DEF vars
<1> QED
  BY <1>1, TypedIs, TypedNext DEF vars

LEMMA NextTyped == ASSUME Typed, [Next]_vars PROVE Typed'
<1>1. CASE SampleReady
  BY <1>1, ReadyTyped, Zenon DEF SampleReady
<1>2. CASE ListingReady
  BY <1>2, ReadyTyped, Zenon DEF ListingReady
<1> QED
  BY <1>1, <1>2, Steps, BeginRoundTyped, EndRoundTyped, AskTyped, AskLimitedTyped,
     SettleBySamplesTyped, WaitForListingsTyped, ListTyped, ListFailsTyped,
     ListLimitedTyped, FinishTyped, StutterTyped, Zenon

\* THEOREM: every variable of the weekly archive check keeps its type.
THEOREM TypeCorrect == Spec => []TypeOK
<1>1. Init => Typed
  BY InitTyped
<1>2. Typed /\ [Next]_vars => Typed'
  BY NextTyped
<1>3. Typed => TypeOK
  BY DEF Typed
<1> QED
  BY <1>1, <1>2, <1>3, PTL DEF Spec

(***************************************************************************)
(* The pacing.                                                             *)
(***************************************************************************)
LEMMA PacedTypes ==
  ASSUME Typed
  PROVE  /\ clock \in Nat /\ rested \in Nat /\ last \in Nat
         /\ Gap \in Nat /\ Budget \in Nat /\ Slow \in Nat
BY SizesAreNat, TypedIs

LEMMA RestPaced ==
  ASSUME Typed, Paced, NEW wait \in Nat, Sleep(wait), Fits(wait) \/ wait = 0,
         pc' \notin {"ask", "list"}
  PROVE  Paced'
<1>1. clock' = clock + wait /\ rested' = rested + wait /\ last' = last
  BY Zenon DEF Sleep
<1>2. asked' = asked
  BY Zenon DEF Sleep
<1>3. asked => clock = last + rested
  BY DEF Paced
<1>4. asked' => clock' = last' + rested'
  BY <1>1, <1>2, <1>3, PacedTypes
<1>5. clock' <= Budget + Slow
  BY <1>1, PacedTypes DEF Paced, Fits
<1> QED
  BY <1>4, <1>5, Zenon DEF Paced

LEMMA ReadyPaced ==
  ASSUME Typed, Paced, NEW there, Ready(there), pc \notin {"ask", "list"}
  PROVE  Paced'
<1>1. CASE /\ Fits(Owed) /\ Sleep(Owed)
  <2>1. clock' = clock + Owed /\ rested' = rested + Owed /\ last' = last
    BY <1>1, Zenon DEF Sleep
  <2>2. asked' = asked
    BY <1>1, Zenon DEF Sleep
  <2>3. Owed \in Nat /\ (asked => rested + Owed >= Gap)
    BY Waits DEF Typed
  <2>4. asked => clock = last + rested
    BY DEF Paced
  <2>5. asked' => clock' = last' + rested' /\ rested' >= Gap
    BY <2>1, <2>2, <2>3, <2>4, PacedTypes
  <2>6. clock' <= Budget /\ clock' <= Budget + Slow
    BY <1>1, <2>1, <2>3, PacedTypes DEF Fits
  <2> QED
    BY <2>5, <2>6, Zenon DEF Paced
<1>2. CASE OutOfBudget /\ UNCHANGED <<paced, limited>>
  <2>1. pc' = "done" /\ UNCHANGED <<clock, asked, rested, last>>
    BY <1>2, Zenon DEF OutOfBudget, paced
  <2>2. pc' \notin {"ask", "list"}
    BY <2>1
  <2> QED
    BY <2>1, <2>2, Zenon DEF Paced
<1> QED
  BY <1>1, <1>2, Zenon DEF Ready

LEMMA RequestPaced ==
  ASSUME Typed, Paced, pc \in {"ask", "list"}, pc' \notin {"ask", "list"},
         NEW d \in 0 .. Slow, Request(d)
  PROVE  Paced'
<1>1. clock' = clock + d /\ rested' = 0 /\ last' = clock + d
  BY Zenon DEF Request
<1>2. clock <= Budget
  BY DEF Paced
<1>3. clock' = last' + rested' /\ clock' <= Budget + Slow
  BY <1>1, <1>2, PacedTypes
<1> QED
  BY <1>3, Zenon DEF Paced

LEMMA StillPaced ==
  ASSUME Paced, UNCHANGED paced, pc' \in {"ask", "list"} => pc' = pc
  PROVE  Paced'
BY Zenon DEF Paced, paced

LEMMA RetryingPaced ==
  ASSUME Typed, Paced, pc = "list", NEW e \in Entries, NEW d \in 0 .. Slow,
         NEW n, NEW tries, NEW seconds \in Nat, Retrying(e, d, n, tries, seconds)
  PROVE  Paced'
<1>1. pc' \notin {"ask", "list"}
  <2>1. pc' = "listing" \/ pc' = "done"
    BY Zenon DEF Retrying
  <2> QED
    BY <2>1
<1>2. CASE /\ clock + d + Later(seconds, Gap) <= Budget
           /\ RequestThenSleep(d, Later(seconds, Gap))
  <2>1. Later(seconds, Gap) \in Nat
    BY SizesAreNat DEF Later
  <2>2. /\ clock' = clock + d + Later(seconds, Gap)
        /\ rested' = Later(seconds, Gap)
        /\ last' = clock + d
    BY <1>2, Zenon DEF RequestThenSleep
  <2>3. clock' = last' + rested' /\ clock' <= Budget + Slow
    BY <1>2, <2>1, <2>2, PacedTypes
  <2> QED
    BY <1>1, <2>3, Zenon DEF Paced
<1>3. CASE Request(d)
  BY <1>1, <1>3, RequestPaced
<1> QED
  BY <1>2, <1>3, Zenon DEF Retrying

LEMMA NextPaced == ASSUME Typed, Paced, [Next]_vars PROVE Paced'
<1>1. CASE BeginRound
  <2> DEFINE wait == IF round = 0 THEN 0
                     ELSE Sooner(RoundWaitMax, Later(RoundWait, retry))
  <2>1. wait \in Nat
    BY SizesAreNat, TypedIs DEF Sooner, Later
  <2>2. CASE Fits(wait) /\ Sleep(wait) /\ pc' = "sample"
    <3> HIDE DEF wait
    <3> QED
      BY <2>1, <2>2, RestPaced
  <2>3. CASE OutOfBudget /\ UNCHANGED <<paced, limited>>
    BY <2>3, StillPaced DEF OutOfBudget
  <2> QED
    BY <1>1, <2>2, <2>3, Zenon DEF BeginRound
<1>2. CASE SampleReady
  BY <1>2, ReadyPaced DEF SampleReady
<1>3. CASE EndRound
  BY <1>3, StillPaced DEF EndRound
<1>4. ASSUME NEW a \in Answers, NEW d \in 0 .. Slow, Ask(a, d) PROVE Paced'
  <2>1. Request(d) /\ pc = "ask" /\ pc' = "sample"
    BY <1>4, Zenon DEF Ask
  <2> QED
    BY <2>1, RequestPaced
<1>5. ASSUME NEW s \in RetryAfters, NEW d \in 0 .. Slow, AskLimited(s, d)
      PROVE  Paced'
  <2>1. Request(d) /\ pc = "ask" /\ (pc' = "sample" \/ pc' = "done")
    BY <1>5, Zenon DEF AskLimited
  <2> QED
    BY <2>1, RequestPaced
<1>6. CASE SettleBySamples
  BY <1>6, StillPaced DEF SettleBySamples
<1>7. CASE WaitForListings
  <2> DEFINE wait == IF Pending = {} THEN 0 ELSE Sooner(RoundWaitMax, retry)
  <2>1. wait \in Nat
    BY SizesAreNat, TypedIs DEF Sooner
  <2>2. CASE (Fits(wait) \/ wait = 0) /\ Sleep(wait) /\ pc' = "listing"
    <3> HIDE DEF wait
    <3> QED
      BY <2>1, <2>2, RestPaced
  <2>3. CASE OutOfBudget /\ UNCHANGED <<paced, limited>>
    BY <2>3, StillPaced DEF OutOfBudget
  <2> QED
    BY <1>7, <2>2, <2>3, Zenon DEF WaitForListings
<1>8. CASE ListingReady
  BY <1>8, ReadyPaced DEF ListingReady
<1>9. ASSUME NEW e \in Entries, NEW v \in {"missing", "unchecked"},
             NEW d \in 0 .. Slow, List(e, v, d)
      PROVE  Paced'
  <2>1. Request(d) /\ pc = "list" /\ pc' = "listing"
    BY <1>9, Zenon DEF List, Settle
  <2> QED
    BY <2>1, RequestPaced
<1>10. ASSUME NEW e \in Entries, NEW d \in 0 .. Slow, ListFails(e, d)
       PROVE  Paced'
  <2> DEFINE n == failed[1] + 1
             seconds == IF n <= Len(ListingWaits) THEN ListingWaits[n] ELSE 0
  <2>1. seconds \in Nat
    <3>1. failed \in Nat \X Nat
      BY TypedIs
    <3>2. n \in Nat \ {0}
      BY <3>1
    <3>3. ListingWaits \in Seq(Nat)
      BY ArchiveCheckAssumption
    <3> QED
      BY <3>2, <3>3
  <2>2. pc = "list" /\ Retrying(e, d, n, Len(ListingWaits) + 1, seconds)
    BY <1>10, Zenon DEF ListFails
  <2> HIDE DEF n, seconds
  <2> QED
    BY <2>1, <2>2, RetryingPaced
<1>11. ASSUME NEW e \in Entries, NEW s \in RetryAfters, NEW d \in 0 .. Slow,
              ListLimited(e, s, d)
       PROVE  Paced'
  <2>1. s \in Nat /\ pc = "list"
    BY <1>11, ArchiveCheckAssumption DEF ListLimited
  <2>2. CASE Request(d) /\ pc' = "done"
    BY <2>1, <2>2, RequestPaced
  <2>3. CASE Retrying(e, d, failed[2] + 1, LimitTries, s)
    BY <2>1, <2>3, RetryingPaced
  <2> QED
    BY <1>11, <2>2, <2>3, Zenon DEF ListLimited
<1>12. CASE Finish
  BY <1>12, StillPaced DEF Finish
<1>13. CASE UNCHANGED vars
  BY <1>13, StillPaced DEF vars, paced
<1> QED
  BY <1>1, <1>2, <1>3, <1>4, <1>5, <1>6, <1>7, <1>8, <1>9, <1>10, <1>11, <1>12,
     <1>13, Steps, Zenon

LEMMA InitPaced == Init => Paced
<1> SUFFICES ASSUME Init PROVE Paced
  OBVIOUS
<1>1. pc = "rounds" /\ clock = 0 /\ asked = FALSE
  BY Zenon DEF Init
<1>2. pc \notin {"ask", "list"} /\ clock <= Budget + Slow
  BY <1>1, SizesAreNat
<1> QED
  BY <1>1, <1>2, Zenon DEF Paced

LEMMA PacedIsInvariant == Spec => [](Typed /\ Paced)
<1>1. Init => Typed /\ Paced
  BY InitTyped, InitPaced
<1>2. (Typed /\ Paced) /\ [Next]_vars => (Typed /\ Paced)'
  BY NextTyped, NextPaced
<1> QED
  BY <1>1, <1>2, PTL DEF Spec

\* THEOREM: every request to Wayback, the retries of a listing included, is
\* made a gap after the one before it and inside the budget (_Paced).
THEOREM RequestsKeepTheGap == Spec => []RequestsArePaced
<1>1. Typed /\ Paced => RequestsArePaced
  BY PacedTypes DEF Paced, RequestsArePaced
<1> QED
  BY <1>1, PacedIsInvariant, PTL

\* THEOREM: a run is over within one request of its budget, whatever Wayback
\* answers and asks it to wait (_ARCHIVE_BUDGET).
THEOREM TheBudgetHolds == Spec => []EndsInsideTheBudget
<1>1. Typed /\ Paced => EndsInsideTheBudget
  BY DEF Paced, EndsInsideTheBudget
<1> QED
  BY <1>1, PacedIsInvariant, PTL

(***************************************************************************)
(* The end of the run.                                                     *)
(***************************************************************************)
\* What ends a run reports on every entry.
LEMMA CutShortReports ==
  ASSUME Typed, report' = CutShortReport
  PROVE  Pending' = {}
<1>1. \A e \in Entries : report'[e] # None
  BY CutShortIsTyped DEF Typed
<1> QED
  BY <1>1 DEF Pending

\* A run that has not ended is running, and has ended when a 429 is heard with
\* --stop-on-429.
LEMMA Ends ==
  ASSUME Next
  PROVE  /\ pc # "done"
         /\ stop' = stop
         /\ limited' = limited \/ ~stop \/ pc' = "done"
         /\ pc' = "done" => \/ report' = CutShortReport
                            \/ (Pending = {} /\ report' = report)
<1> DEFINE Ended ==
      /\ stop' = stop
      /\ limited' = limited \/ ~stop \/ pc' = "done"
      /\ pc' = "done" => \/ report' = CutShortReport
                         \/ (Pending = {} /\ report' = report)
<1>1. ASSUME OutOfBudget, UNCHANGED <<paced, limited>> PROVE Ended
  BY <1>1, Zenon DEF OutOfBudget
<1>2. ASSUME NEW there \in {"ask", "list"}, Ready(there) PROVE Ended
  <2>1. ASSUME pc' = there, UNCHANGED <<stop, limited>> PROVE Ended
    <3>1. pc' # "done"
      BY <2>1
    <3> QED
      BY <2>1, <3>1, Zenon
  <2> QED
    BY <1>1, <1>2, <2>1, Zenon DEF Ready
<1>3. ASSUME BeginRound PROVE Ended
  <2>1. \/ pc' = "sample" /\ UNCHANGED <<stop, limited>>
        \/ OutOfBudget /\ UNCHANGED <<paced, limited>>
    BY <1>3, Zenon DEF BeginRound
  <2>2. ASSUME pc' = "sample" /\ UNCHANGED <<stop, limited>> PROVE Ended
    <3>1. pc' # "done"
      BY <2>2
    <3> QED
      BY <2>2, <3>1, Zenon
  <2> QED
    BY <1>1, <2>1, <2>2, Zenon
<1>4. ASSUME SampleReady PROVE Ended
  BY <1>2, <1>4 DEF SampleReady
<1>5. ASSUME EndRound \/ SettleBySamples PROVE Ended
  <2>1. (pc' = "rounds" \/ pc' = "patience") /\ UNCHANGED <<stop, limited>>
    BY <1>5, Zenon DEF EndRound, SettleBySamples
  <2>2. pc' # "done"
    BY <2>1
  <2> QED
    BY <2>1, <2>2, Zenon
<1>6. ASSUME NEW a \in Answers, NEW d \in 0 .. Slow, Ask(a, d) PROVE Ended
  <2>1. pc' = "sample" /\ UNCHANGED <<stop, limited>>
    BY <1>6, Zenon DEF Ask
  <2>2. pc' # "done"
    BY <2>1
  <2> QED
    BY <2>1, <2>2, Zenon
<1>7. ASSUME NEW s \in RetryAfters, NEW d \in 0 .. Slow, AskLimited(s, d)
      PROVE  Ended
  <2>1. /\ stop' = stop
        /\ \/ (~stop /\ pc' = "sample")
           \/ (pc' = "done" /\ report' = CutShortReport)
    BY <1>7, Zenon DEF AskLimited
  <2>2. pc' = "sample" => pc' # "done"
    OBVIOUS
  <2> QED
    BY <2>1, <2>2, Zenon
<1>8. ASSUME WaitForListings PROVE Ended
  <2>1. \/ pc' = "listing" /\ UNCHANGED <<stop, limited>>
        \/ OutOfBudget /\ UNCHANGED <<paced, limited>>
    BY <1>8, Zenon DEF WaitForListings
  <2>2. pc' = "listing" => pc' # "done"
    OBVIOUS
  <2> QED
    BY <1>1, <2>1, <2>2, Zenon
<1>9. ASSUME ListingReady PROVE Ended
  BY <1>2, <1>9 DEF ListingReady
<1>10. ASSUME NEW e \in Entries, NEW v \in {"missing", "unchecked"},
              NEW d \in 0 .. Slow, List(e, v, d)
       PROVE  Ended
  <2>1. pc' = "listing" /\ UNCHANGED <<stop, limited>>
    BY <1>10, Zenon DEF List, Settle
  <2>2. pc' # "done"
    BY <2>1
  <2> QED
    BY <2>1, <2>2, Zenon
<1>11. ASSUME NEW e, NEW d, NEW n, NEW tries, NEW seconds,
              Retrying(e, d, n, tries, seconds), limited' = limited \/ ~stop
       PROVE  Ended
  <2>1. /\ stop' = stop
        /\ pc' = "listing" \/ (pc' = "done" /\ report' = CutShortReport)
    BY <1>11, Zenon DEF Retrying
  <2>2. pc' = "listing" => pc' # "done"
    OBVIOUS
  <2> QED
    BY <1>11, <2>1, <2>2, Zenon
<1>12. ASSUME NEW e \in Entries, NEW d \in 0 .. Slow, ListFails(e, d) PROVE Ended
  BY <1>11, <1>12, Zenon DEF ListFails
<1>13. ASSUME NEW e \in Entries, NEW s \in RetryAfters, NEW d \in 0 .. Slow,
              ListLimited(e, s, d)
       PROVE  Ended
  <2>1. ASSUME pc' = "done" /\ report' = CutShortReport /\ stop' = stop PROVE Ended
    BY <2>1, Zenon
  <2>2. ASSUME ~stop /\ Retrying(e, d, failed[2] + 1, LimitTries, s) PROVE Ended
    BY <1>11, <2>2, Zenon
  <2> QED
    BY <1>13, <2>1, <2>2, Zenon DEF ListLimited
<1>14. ASSUME Finish PROVE Ended
  BY <1>14, Zenon DEF Finish
<1>15. Ended
  <2> HIDE DEF Ended
  <2> QED
    BY <1>3, <1>4, <1>5, <1>6, <1>7, <1>8, <1>9, <1>10, <1>12, <1>13, <1>14,
       Steps, Zenon DEF Next
<1>16. pc # "done"
  <2>1. pc \in {"rounds", "sample", "ask", "patience", "listing", "list"}
    BY DEF Next, BeginRound, SampleReady, EndRound, Ask, AskLimited,
       SettleBySamples, WaitForListings, ListingReady, List, ListFails,
       ListLimited, Finish
  <2> QED
    BY <2>1
<1> QED
  BY <1>15, <1>16, Zenon

LEMMA NextReported ==
  ASSUME Typed, EveryEntryIsReported, [Next]_vars
  PROVE  EveryEntryIsReported'
<1>1. CASE Next
  <2>1. ~(stop /\ limited)
    BY <1>1, Ends, Zenon DEF EveryEntryIsReported
  <2>2. stop' /\ limited' => pc' = "done"
    BY <1>1, <2>1, Ends, Zenon
  <2>3. pc' = "done" => Pending' = {}
    <3>1. Pending = {} /\ report' = report => Pending' = {}
      BY DEF Pending
    <3> QED
      BY <1>1, <3>1, Ends, CutShortReports
  <2> QED
    BY <2>2, <2>3, Zenon DEF EveryEntryIsReported
<1>2. CASE UNCHANGED vars
  BY <1>2, Zenon DEF EveryEntryIsReported, vars, Pending
<1> QED
  BY <1>1, <1>2

\* THEOREM: however a run ends it reports on every entry, and with
\* --stop-on-429 it ends at the first 429 (check_archives).
THEOREM NoEntryIsLeftOut == Spec => []EveryEntryIsReported
<1>1. Init => EveryEntryIsReported
  <2> SUFFICES ASSUME Init PROVE EveryEntryIsReported
    OBVIOUS
  <2>1. pc = "rounds" /\ limited = FALSE
    BY Zenon DEF Init
  <2>2. pc # "done"
    BY <2>1
  <2> QED
    BY <2>1, <2>2, Zenon DEF EveryEntryIsReported
<1>2. (Typed /\ EveryEntryIsReported) /\ [Next]_vars
        => (Typed /\ EveryEntryIsReported)'
  BY NextTyped, NextReported
<1> QED
  BY <1>1, <1>2, InitTyped, PTL DEF Spec

(***************************************************************************)
(* The verdicts.                                                           *)
(***************************************************************************)
\* What a step does to the answers and the verdicts: nothing, to cut them
\* short, to ask an entry, to settle by the answers, or to settle by a listing.
Idles ==
  /\ UNCHANGED <<samples, report>>
  /\ pc' \in Listings => pc \in Listings
  /\ pc' \in Rounds => pc \in Rounds /\ queue' = queue

CutsShort == samples' = samples /\ report' = CutShortReport /\ pc' = "done"

Lists ==
  \E e \in Pending, v \in {"missing", "unchecked"} :
    /\ pc = "list" /\ pc' = "listing"
    /\ samples' = samples
    /\ report' = [report EXCEPT ![e] = v]

LEMMA ListedEntry ==
  ASSUME NEW e \in Entries, Turn(e)
  PROVE  e \in Pending
BY DEF Turn

LEMMA RetryingKinds ==
  ASSUME NEW e \in Pending, pc = "list", NEW d, NEW n, NEW tries, NEW seconds,
         Retrying(e, d, n, tries, seconds)
  PROVE  Idles \/ CutsShort \/ Lists
<1>1. CASE pc' = "listing" /\ UNCHANGED <<stop, rounds, samples, report>>
  <2>1. pc \in Listings /\ pc' \notin Rounds
    BY <1>1 DEF Listings, Rounds
  <2> QED
    BY <1>1, <2>1, Zenon DEF Idles
<1>2. CASE /\ pc' = "done" /\ report' = CutShortReport
           /\ UNCHANGED <<stop, rounds, samples>>
  BY <1>2, Zenon DEF CutsShort
<1>3. CASE /\ report' = [report EXCEPT ![e] = "unchecked"] /\ pc' = "listing"
           /\ UNCHANGED <<stop, rounds, samples>>
  BY <1>3 DEF Lists
<1> QED
  BY <1>1, <1>2, <1>3, Zenon DEF Retrying

LEMMA Kinds ==
  ASSUME [Next]_vars
  PROVE  \/ Idles \/ CutsShort
         \/ \E a \in Answers, d \in 0 .. Slow : Ask(a, d)
         \/ \E s \in RetryAfters, d \in 0 .. Slow : AskLimited(s, d)
         \/ SettleBySamples \/ Lists
<1>1. ASSUME OutOfBudget PROVE CutsShort
  BY <1>1, Zenon DEF OutOfBudget, CutsShort
<1>2. CASE BeginRound
  <2>1. pc = "rounds"
    BY <1>2, Zenon DEF BeginRound
  <2>2. CASE pc' = "sample" /\ UNCHANGED <<queue, samples, report>>
    BY <2>1, <2>2 DEF Idles, Rounds, Listings
  <2>3. \/ OutOfBudget
        \/ pc' = "sample" /\ UNCHANGED <<queue, samples, report>>
    BY <1>2, Zenon DEF BeginRound
  <2> QED
    BY <1>1, <2>2, <2>3
<1>3. ASSUME NEW there, Ready(there),
             \/ there = "ask" /\ pc = "sample"
             \/ there = "list" /\ pc = "listing"
      PROVE  Idles \/ CutsShort
  <2>1. \/ OutOfBudget
        \/ pc' = there /\ UNCHANGED <<queue, samples, report>>
    BY <1>3, Zenon DEF Ready, rounds
  <2>2. CASE pc' = there /\ UNCHANGED <<queue, samples, report>>
    BY <1>3, <2>2 DEF Idles, Rounds, Listings
  <2> QED
    BY <1>1, <2>1, <2>2
<1>4. CASE SampleReady
  BY <1>3, <1>4 DEF SampleReady
<1>5. CASE EndRound
  <2>1. /\ pc = "sample" /\ pc' = "rounds"
        /\ UNCHANGED <<queue, samples, report>>
    BY <1>5, Zenon DEF EndRound, rounds
  <2> QED
    BY <2>1 DEF Idles, Rounds, Listings
<1>6. CASE WaitForListings
  <2>1. pc = "patience"
    BY <1>6, Zenon DEF WaitForListings
  <2>2. \/ OutOfBudget
        \/ pc' = "listing" /\ UNCHANGED <<samples, report>>
    <3> DEFINE wait == IF Pending = {} THEN 0 ELSE Sooner(RoundWaitMax, retry)
    <3>1. \/ /\ Fits(wait) \/ wait = 0
             /\ Sleep(wait)
             /\ pc' = "listing"
             /\ UNCHANGED <<stop, limited, rounds, samples, report, failed>>
          \/ /\ wait > 0 /\ ~Fits(wait)
             /\ OutOfBudget
             /\ UNCHANGED <<paced, limited>>
      BY <1>6, Zenon DEF WaitForListings
    <3> QED
      BY <3>1, Zenon
  <2>3. CASE pc' = "listing" /\ UNCHANGED <<samples, report>>
    BY <2>1, <2>3 DEF Idles, Rounds, Listings
  <2> QED
    BY <1>1, <2>2, <2>3
<1>7. CASE ListingReady
  BY <1>3, <1>7 DEF ListingReady
<1>8. ASSUME NEW e \in Entries, NEW v \in {"missing", "unchecked"},
             NEW d \in 0 .. Slow, List(e, v, d)
      PROVE  Lists
  <2>1. pc = "list" /\ Turn(e) /\ pc' = "listing"
    BY <1>8, Zenon DEF List, Settle
  <2>2. samples' = samples /\ report' = [report EXCEPT ![e] = v]
    BY <1>8, Zenon DEF List, Settle
  <2> QED
    BY <2>1, <2>2, ListedEntry DEF Lists
<1>9. ASSUME NEW e \in Entries, NEW d \in 0 .. Slow, ListFails(e, d)
      PROVE  Idles \/ CutsShort \/ Lists
  <2>1. pc = "list" /\ Turn(e)
    BY <1>9, Zenon DEF ListFails
  <2>2. \E n, tries, seconds : Retrying(e, d, n, tries, seconds)
    BY <1>9, Zenon DEF ListFails
  <2> QED
    BY <2>1, <2>2, ListedEntry, RetryingKinds, Zenon
<1>10. ASSUME NEW e \in Entries, NEW s \in RetryAfters, NEW d \in 0 .. Slow,
              ListLimited(e, s, d)
       PROVE  Idles \/ CutsShort \/ Lists
  <2>1. pc = "list" /\ Turn(e)
    BY <1>10, Zenon DEF ListLimited
  <2>2. \/ /\ pc' = "done" /\ report' = CutShortReport
           /\ UNCHANGED samples
        \/ \E n, tries, seconds : Retrying(e, d, n, tries, seconds)
    BY <1>10, Zenon DEF ListLimited
  <2> QED
    BY <2>1, <2>2, ListedEntry, RetryingKinds, Zenon DEF CutsShort
<1>11. CASE Finish
  <2>1. pc' = "done" /\ UNCHANGED <<samples, report>>
    BY <1>11, Zenon DEF Finish
  <2> QED
    BY <2>1 DEF Idles, Rounds, Listings
<1>12. CASE UNCHANGED vars
  BY <1>12, Zenon DEF vars, Idles
<1> QED
  BY <1>2, <1>4, <1>5, <1>6, <1>7, <1>8, <1>9, <1>10, <1>11, <1>12, Steps, Zenon

LEMMA SameAnswers ==
  ASSUME NEW e \in Entries, samples'[e] = samples[e]
  PROVE  /\ \A a : Said(e, a)' <=> Said(e, a)
         /\ AnsweredTwice(e)' <=> AnsweredTwice(e)
BY DEF Said, AnsweredTwice

LEMMA MoreAnswers ==
  ASSUME Typed, NEW e \in Entries, NEW a \in Answers,
         samples'[e] = Append(samples[e], a)
  PROVE  \A b : Said(e, b)' <=> Said(e, b) \/ b = a
<1>1. samples[e] \in Seq(Answers)
  BY TypedIs
<1> DEFINE s == samples[e]
           r == samples'[e]
<1>2. /\ DOMAIN s = 1 .. Len(s) /\ Len(s) \in Nat
      /\ DOMAIN r = 1 .. Len(s) + 1
      /\ \A k \in 1 .. Len(s) : r[k] = s[k]
      /\ r[Len(s) + 1] = a
  BY <1>1, Appended
<1> SUFFICES ASSUME NEW b
             PROVE  (\E k \in DOMAIN r : r[k] = b) <=> (\E k \in DOMAIN s : s[k] = b) \/ b = a
  BY DEF Said
<1> HIDE DEF s, r
<1> QED
  BY <1>2

\* An entry whose answers a step leaves alone, with the verdict it had.
LEMMA StandsStill ==
  ASSUME NEW e \in Entries, Standing(e), samples'[e] = samples[e],
         report'[e] = report[e], pc' \in Listings => pc \in Listings
  PROVE  Standing(e)'
<1>1. \A a : Said(e, a)' <=> Said(e, a)
  BY SameAnswers
<1>2. AnsweredTwice(e)' <=> AnsweredTwice(e)
  BY SameAnswers
<1> QED
  BY <1>1, <1>2, Zenon DEF Standing

LEMMA CutShortStands ==
  ASSUME NEW e \in Entries, Standing(e), report' = CutShortReport,
         pc' = "done", Said(e, "ok")' <=> Said(e, "ok"),
         Said(e, "mismatch")' <=> Said(e, "mismatch"),
         e \notin Pending => samples'[e] = samples[e]
  PROVE  Standing(e)'
<1>0. pc' \notin Listings
  BY DEF Listings
<1>1. CASE e \notin Pending
  <2>1. report'[e] = report[e]
    BY <1>1 DEF CutShortReport
  <2> QED
    BY <1>0, <1>1, <2>1, StandsStill
<1>2. CASE e \in Pending
  <2>1. report'[e] = IF Said(e, "mismatch") THEN "lost" ELSE "unchecked"
    BY <1>2 DEF CutShortReport
  <2>2. ~Said(e, "ok")
    BY <1>2 DEF Pending, Standing
  <2>3. report'[e] # None /\ report'[e] # "missing"
    BY <2>1, ArchiveCheckAssumption
  <2>4. report'[e] = "lost" <=> Said(e, "mismatch")
    BY <2>1
  <2> QED
    BY <2>2, <2>3, <2>4, Zenon DEF Standing
<1> QED
  BY <1>1, <1>2

LEMMA InFront ==
  ASSUME Typed, Rotation, pc = "ask"
  PROVE  /\ Head(queue) \in Pending
         /\ Head(queue) \in Entries
         /\ queue \in Seq(Entries) /\ queue # <<>>
         /\ Head(queue) = queue[1] /\ Len(queue) \in Nat /\ Len(queue) > 0
<1>1. queue \in Seq(Entries) /\ queue # <<>>
  BY AskStarts
<1>2. Head(queue) = queue[1] /\ Len(queue) \in Nat /\ Len(queue) > 0
  BY <1>1, TailOf
<1>3. queue[1] \in Pending
  BY <1>2 DEF Rotation, Rounds
<1> QED
  BY <1>1, <1>2, <1>3 DEF Pending

LEMMA AskStands ==
  ASSUME Typed, Rotation, Standings,
         NEW a \in Answers, NEW d \in 0 .. Slow, Ask(a, d)
  PROVE  Standings'
<1> DEFINE h == Head(queue)
<1>1. pc = "ask" /\ pc' = "sample"
  BY Zenon DEF Ask
<1>2. /\ samples' = [samples EXCEPT ![h] = Append(@, a)]
      /\ report' = [report EXCEPT ![h] = IF a = "ok" THEN "ok" ELSE None]
  BY Zenon DEF Ask
<1>3. h \in Pending /\ h \in Entries /\ Standing(h)
  BY <1>1, InFront DEF Standings
<1>4. pc' \notin Listings
  BY <1>1 DEF Listings
<1>5. ASSUME NEW e \in Entries PROVE Standing(e)'
  <2>1. CASE e = h
    <3>1. samples'[e] = Append(samples[e], a)
      BY <1>2, <2>1, <1>3, TypedIs
    <3>2. \A b : Said(e, b)' <=> Said(e, b) \/ b = a
      BY <3>1, MoreAnswers
    <3>3. ~Said(e, "ok")
      BY <1>3, <2>1 DEF Pending, Standing
    <3>4. report'[e] = IF a = "ok" THEN "ok" ELSE None
      BY <1>2, <1>3, <2>1, TypedIs
    <3>5. /\ report'[e] = None => a # "ok"
          /\ report'[e] # None => a = "ok"
          /\ report'[e] # "missing" /\ report'[e] # "lost"
      BY <3>4, ArchiveCheckAssumption
    <3> QED
      BY <1>4, <3>2, <3>3, <3>5, Zenon DEF Standing
  <2>2. CASE e # h
    <3>1. samples'[e] = samples[e] /\ report'[e] = report[e]
      BY <1>2, <2>2, TypedIs
    <3> QED
      BY <1>4, <3>1, StandsStill DEF Standings
  <2> QED
    BY <2>1, <2>2
<1> QED
  BY <1>5 DEF Standings

LEMMA AskLimitedStands ==
  ASSUME Typed, Rotation, Standings,
         NEW s \in RetryAfters, NEW d \in 0 .. Slow, AskLimited(s, d)
  PROVE  Standings'
<1> DEFINE h == Head(queue)
<1>1. pc = "ask" /\ (pc' = "sample" \/ pc' = "done")
  BY Zenon DEF AskLimited
<1>2. samples' = [samples EXCEPT ![h] = Append(@, "unreachable")]
  BY Zenon DEF AskLimited
<1>3. h \in Pending /\ h \in Entries
  BY <1>1, InFront
<1>4. pc' \notin Listings
  BY <1>1 DEF Listings
<1>5. ASSUME NEW e \in Entries PROVE Standing(e)'
  <2>0. Standing(e)
    BY DEF Standings
  <2>1. CASE e = h
    <3>1. samples'[e] = Append(samples[e], "unreachable") /\ "unreachable" \in Answers
      BY <1>2, <2>1, <1>3, TypedIs DEF Answers
    <3>2. \A b : Said(e, b)' <=> Said(e, b) \/ b = "unreachable"
      BY <3>1, MoreAnswers
    <3>3. Said(e, "ok")' <=> Said(e, "ok")
      BY <3>2
    <3>4. Said(e, "mismatch")' <=> Said(e, "mismatch")
      BY <3>2
    <3>5. report[e] = None /\ ~Said(e, "ok")
      BY <1>3, <2>0, <2>1 DEF Pending, Standing
    <3>6. CASE report' = report
      <4>1. report'[e] = None /\ report'[e] # "missing"
        BY <3>5, <3>6, ArchiveCheckAssumption
      <4> QED
        BY <1>4, <3>3, <3>5, <4>1, Zenon DEF Standing
    <3>7. CASE pc' = "done" /\ report' = CutShortReport
      BY <1>3, <2>0, <2>1, <3>3, <3>4, <3>7, CutShortStands
    <3> QED
      BY <3>6, <3>7, Zenon DEF AskLimited
  <2>2. CASE e # h
    <3>1. samples'[e] = samples[e]
      BY <1>2, <2>2, TypedIs
    <3>2. CASE report' = report
      BY <1>4, <2>0, <3>1, <3>2, StandsStill
    <3>3. CASE pc' = "done" /\ report' = CutShortReport
      <4>1. /\ Said(e, "ok")' <=> Said(e, "ok")
            /\ Said(e, "mismatch")' <=> Said(e, "mismatch")
        BY <3>1, SameAnswers
      <4> QED
        BY <2>0, <3>1, <3>3, <4>1, CutShortStands
    <3> QED
      BY <3>2, <3>3, Zenon DEF AskLimited
  <2> QED
    BY <2>1, <2>2
<1> QED
  BY <1>5 DEF Standings

LEMMA NextStands ==
  ASSUME Typed, Rotation, Standings, [Next]_vars
  PROVE  Standings'
<1>1. CASE Idles
  <2> SUFFICES ASSUME NEW e \in Entries PROVE Standing(e)'
    BY DEF Standings
  <2> QED
    BY <1>1, StandsStill DEF Idles, Standings
<1>2. CASE CutsShort
  <2> SUFFICES ASSUME NEW e \in Entries PROVE Standing(e)'
    BY DEF Standings
  <2>1. Standing(e) /\ samples'[e] = samples[e]
    BY <1>2 DEF CutsShort, Standings
  <2>2. /\ Said(e, "ok")' <=> Said(e, "ok")
        /\ Said(e, "mismatch")' <=> Said(e, "mismatch")
    BY <2>1, SameAnswers
  <2> QED
    BY <1>2, <2>1, <2>2, CutShortStands DEF CutsShort
<1>3. CASE SettleBySamples
  <2> SUFFICES ASSUME NEW e \in Entries PROVE Standing(e)'
    BY DEF Standings
  <2>1. /\ samples' = samples /\ pc' = "patience"
        /\ report' = [f \in Entries |->
                        IF f \in Pending THEN VerdictFromSamples(f) ELSE report[f]]
    BY <1>3, Zenon DEF SettleBySamples
  <2>2. Standing(e) /\ samples'[e] = samples[e]
    BY <2>1 DEF Standings
  <2>3. /\ \A a : Said(e, a)' <=> Said(e, a)
        /\ AnsweredTwice(e)' <=> AnsweredTwice(e)
    BY <2>2, SameAnswers
  <2>4. CASE e \in Pending
    <3>1. report'[e] = VerdictFromSamples(e) /\ report[e] = None
      BY <2>1, <2>4 DEF Pending
    <3>2. ~Said(e, "ok")
      BY <2>2, <3>1 DEF Standing
    <3>3. /\ report'[e] # "missing"
          /\ report'[e] = "lost" <=> Said(e, "mismatch")
          /\ report'[e] = None =>
               ~Said(e, "mismatch") /\ ~Said(e, "unreadable") /\ AnsweredTwice(e)
      BY <3>1, VerdictIsTyped, ArchiveCheckAssumption
    <3> QED
      BY <2>3, <3>2, <3>3, Zenon DEF Standing
  <2>5. CASE e \notin Pending
    <3>1. report'[e] = report[e] /\ report[e] # None
      BY <2>1, <2>5 DEF Pending
    <3> QED
      BY <2>2, <2>3, <3>1, Zenon DEF Standing
  <2> QED
    BY <2>4, <2>5
<1>4. CASE Lists
  <2> SUFFICES ASSUME NEW e \in Entries PROVE Standing(e)'
    BY DEF Standings
  <2>1. PICK f \in Pending, v \in {"missing", "unchecked"} :
          /\ pc = "list" /\ pc' = "listing"
          /\ samples' = samples
          /\ report' = [report EXCEPT ![f] = v]
    BY <1>4 DEF Lists
  <2>2. Standing(e) /\ samples'[e] = samples[e]
    BY <2>1 DEF Standings
  <2>3. pc \in Listings
    BY <2>1 DEF Listings
  <2>4. CASE e # f
    <3>1. report'[e] = report[e]
      BY <2>1, <2>4, TypedIs
    <3> QED
      BY <2>2, <2>3, <3>1, StandsStill
  <2>5. CASE e = f
    <3>1. report'[e] = v /\ report[e] = None
      BY <2>1, <2>5, TypedIs DEF Pending
    <3>2. /\ ~Said(e, "ok") /\ ~Said(e, "mismatch") /\ ~Said(e, "unreadable")
          /\ AnsweredTwice(e)
      BY <2>2, <2>3, <3>1 DEF Standing
    <3>3. \A k \in DOMAIN samples[e] : samples[e][k] \in {"not_served", "unreachable"}
      <4>1. samples[e] \in Seq(Answers)
        BY TypedIs
      <4>2. \A k \in DOMAIN samples[e] :
              samples[e][k] \notin {"ok", "mismatch", "unreadable"}
        BY <3>2 DEF Said
      <4> QED
        BY <4>1, <4>2 DEF Answers
    <3>4. v # "lost" /\ v # None
      BY ArchiveCheckAssumption
    <3>5. /\ \A a : Said(e, a)' <=> Said(e, a)
          /\ AnsweredTwice(e)' <=> AnsweredTwice(e)
      BY <2>2, SameAnswers
    <3> QED
      BY <2>2, <3>1, <3>2, <3>3, <3>4, <3>5, Zenon DEF Standing
  <2> QED
    BY <2>4, <2>5
<1> QED
  BY <1>1, <1>2, <1>3, <1>4, Kinds, AskStands, AskLimitedStands, Zenon

(***************************************************************************)
(* The rotation of the queue.                                              *)
(***************************************************************************)
\* The entry in front has a sample more and goes to the back.
LEMMA RotatedIsOrdered ==
  ASSUME NEW q \in Seq(Entries), q # <<>>,
         NEW L \in [Entries -> Nat], NEW M \in [Entries -> Nat],
         M[q[1]] = L[q[1]] + 1, \A e \in Entries : e # q[1] => M[e] = L[e],
         Ordered(q, L)
  PROVE  Ordered(Append(Tail(q), Head(q)), M)
<1> DEFINE r == Append(Tail(q), Head(q))
           n == Len(q)
<1>1. /\ n \in Nat /\ n > 0 /\ Len(r) = n
      /\ \A k \in 1 .. n - 1 : r[k] = q[k + 1]
      /\ r[n] = q[1]
  BY TailOf, RotatedIs
<1>2. \A k \in 1 .. n : q[k] \in Entries
  OBVIOUS
<1>3. \A j, k \in 1 .. n : q[j] = q[k] => j = k
  BY DEF Ordered
<1>4. \A j, k \in 1 .. n :
        j < k => L[q[j]] <= L[q[k]] /\ L[q[k]] <= L[q[j]] + 1
  BY DEF Ordered
<1>5. \A e \in Entries : L[e] \in Nat /\ M[e] \in Nat
  OBVIOUS
<1> HIDE DEF r, n
<1>6. ASSUME NEW j \in 1 .. n, NEW k \in 1 .. n, r[j] = r[k] PROVE j = k
  <2>1. CASE j = n /\ k # n
    <3>1. r[k] = q[k + 1] /\ k + 1 \in 1 .. n /\ 1 \in 1 .. n /\ k + 1 # 1
      BY <1>1, <2>1
    <3> QED
      BY <1>1, <1>3, <1>6, <2>1, <3>1
  <2>2. CASE k = n /\ j # n
    <3>1. r[j] = q[j + 1] /\ j + 1 \in 1 .. n /\ 1 \in 1 .. n /\ j + 1 # 1
      BY <1>1, <2>2
    <3> QED
      BY <1>1, <1>3, <1>6, <2>2, <3>1
  <2>3. CASE j # n /\ k # n
    <3>1. r[j] = q[j + 1] /\ r[k] = q[k + 1] /\ j + 1 \in 1 .. n /\ k + 1 \in 1 .. n
      BY <1>1, <2>3
    <3>2. j + 1 = k + 1
      BY <1>3, <1>6, <3>1
    <3> QED
      BY <3>2
  <2> QED
    BY <2>1, <2>2, <2>3
<1>7. ASSUME NEW j \in 1 .. n, NEW k \in 1 .. n, j < k
      PROVE  M[r[j]] <= M[r[k]] /\ M[r[k]] <= M[r[j]] + 1
  <2>1. r[j] = q[j + 1] /\ j + 1 \in 1 .. n /\ 1 \in 1 .. n /\ 1 < j + 1
    BY <1>1, <1>7
  <2>2. q[j + 1] # q[1]
    BY <1>3, <2>1
  <2>3. M[r[j]] = L[q[j + 1]]
    BY <1>2, <2>1, <2>2
  <2>4. CASE k = n
    <3>1. M[r[k]] = L[q[1]] + 1
      BY <1>1, <2>4
    <3>2. L[q[1]] <= L[q[j + 1]] /\ L[q[j + 1]] <= L[q[1]] + 1
      BY <1>4, <2>1
    <3>3. L[q[1]] \in Nat /\ L[q[j + 1]] \in Nat
      BY <1>2, <1>5, <2>1
    <3> QED
      BY <2>3, <3>1, <3>2, <3>3
  <2>5. CASE k # n
    <3>1. r[k] = q[k + 1] /\ k + 1 \in 1 .. n /\ 1 < k + 1 /\ j + 1 < k + 1
      BY <1>1, <1>7, <2>5
    <3>2. M[r[k]] = L[q[k + 1]]
      BY <1>2, <1>3, <2>1, <3>1
    <3>3. L[q[j + 1]] <= L[q[k + 1]] /\ L[q[k + 1]] <= L[q[j + 1]] + 1
      BY <1>4, <2>1, <3>1
    <3> QED
      BY <2>3, <3>2, <3>3
  <2> QED
    BY <2>4, <2>5
<1> QED
  BY <1>1, <1>6, <1>7 DEF Ordered, r

\* The entry in front leaves.
LEMMA TailIsOrdered ==
  ASSUME NEW q \in Seq(Entries), q # <<>>,
         NEW L \in [Entries -> Nat], NEW M \in [Entries -> Nat],
         \A e \in Entries : e # q[1] => M[e] = L[e],
         Ordered(q, L)
  PROVE  Ordered(Tail(q), M)
<1> DEFINE r == Tail(q)
           n == Len(q)
<1>1. /\ n \in Nat /\ n > 0 /\ Len(r) = n - 1
      /\ \A k \in 1 .. n - 1 : r[k] = q[k + 1]
  BY TailOf
<1>2. \A k \in 1 .. n : q[k] \in Entries
  OBVIOUS
<1>3. \A j, k \in 1 .. n : q[j] = q[k] => j = k
  BY DEF Ordered
<1>4. \A j, k \in 1 .. n :
        j < k => L[q[j]] <= L[q[k]] /\ L[q[k]] <= L[q[j]] + 1
  BY DEF Ordered
<1> HIDE DEF r, n
<1>5. ASSUME NEW k \in 1 .. n - 1
      PROVE  /\ k + 1 \in 1 .. n /\ r[k] = q[k + 1]
             /\ M[r[k]] = L[q[k + 1]]
  <2>1. k + 1 \in 1 .. n /\ 1 \in 1 .. n /\ k + 1 # 1 /\ r[k] = q[k + 1]
    BY <1>1
  <2> QED
    BY <1>2, <1>3, <2>1
<1>6. ASSUME NEW j \in 1 .. n - 1, NEW k \in 1 .. n - 1, r[j] = r[k] PROVE j = k
  <2>1. j + 1 = k + 1
    BY <1>3, <1>5, <1>6
  <2> QED
    BY <2>1
<1>7. ASSUME NEW j \in 1 .. n - 1, NEW k \in 1 .. n - 1, j < k
      PROVE  M[r[j]] <= M[r[k]] /\ M[r[k]] <= M[r[j]] + 1
  <2>1. j + 1 < k + 1
    BY <1>7
  <2> QED
    BY <1>4, <1>5, <2>1
<1> QED
  BY <1>1, <1>6, <1>7 DEF Ordered, r

LEMMA LengthsAre ==
  ASSUME Typed
  PROVE  Lengths \in [Entries -> Nat]
BY TypedIs DEF Lengths

\* Another sample of the entry in front, which stays or leaves.
LEMMA RotatedRotation ==
  ASSUME Typed, Typed', Rotation, pc = "ask", NEW a \in Answers,
         samples' = [samples EXCEPT ![Head(queue)] = Append(@, a)],
         queue' = Append(Tail(queue), Head(queue)), report' = report
  PROVE  Rotation'
<1> DEFINE h == queue[1]
           n == Len(queue)
<1>1. /\ queue \in Seq(Entries) /\ queue # <<>> /\ Head(queue) = h
      /\ h \in Entries /\ h \in Pending /\ n \in Nat /\ n > 0
  BY InFront
<1>2. Lengths \in [Entries -> Nat] /\ Lengths' \in [Entries -> Nat]
  <2>1. samples' \in [Entries -> Seq(Answers)]
    BY DEF Typed, TypeOK
  <2>2. Lengths' \in [Entries -> Nat]
    BY <2>1 DEF Lengths
  <2> QED
    BY <2>2, LengthsAre
<1>3. Lengths'[h] = Lengths[h] + 1
  BY <1>1, TypedIs, Appended DEF Lengths
<1>4. \A e \in Entries : e # h => Lengths'[e] = Lengths[e]
  BY <1>1, TypedIs DEF Lengths
<1>5. Ordered(queue, Lengths)
  BY DEF Rotation, Rounds
<1>6. Ordered(queue', Lengths')
  BY <1>1, <1>2, <1>3, <1>4, <1>5, RotatedIsOrdered
<1>7. /\ Len(queue') = n
      /\ \A k \in 1 .. n - 1 : queue'[k] = queue[k + 1]
      /\ queue'[n] = h
  BY <1>1, RotatedIs
<1>8. Pending' = Pending
  BY DEF Pending
<1>9. /\ \A k \in 1 .. n : queue[k] \in Pending
      /\ \A e \in Pending : \E k \in 1 .. n : queue[k] = e
  BY DEF Rotation, Rounds
<1> HIDE DEF h, n
<1>10. ASSUME NEW k \in 1 .. n PROVE queue'[k] \in Pending
  <2>1. CASE k = n
    BY <1>1, <1>7, <2>1
  <2>2. CASE k # n
    BY <1>1, <1>7, <1>9, <2>2
  <2> QED
    BY <2>1, <2>2
<1>11. ASSUME NEW e \in Pending PROVE \E k \in 1 .. n : queue'[k] = e
  <2>1. PICK k \in 1 .. n : queue[k] = e
    BY <1>9
  <2>2. CASE k = 1
    BY <1>1, <1>7, <2>1, <2>2 DEF h
  <2>3. CASE k # 1
    <3>1. k - 1 \in 1 .. n - 1 /\ (k - 1) + 1 = k
      BY <2>3, <1>1
    <3>2. queue'[k - 1] = e /\ k - 1 \in 1 .. n
      BY <1>1, <1>7, <2>1, <3>1
    <3> QED
      BY <3>2
  <2> QED
    BY <2>2, <2>3
<1> QED
  BY <1>6, <1>7, <1>8, <1>10, <1>11 DEF Rotation

LEMMA TailRotation ==
  ASSUME Typed, Typed', Rotation, pc = "ask", NEW a \in Answers, NEW v, v # None,
         samples' = [samples EXCEPT ![Head(queue)] = Append(@, a)],
         queue' = Tail(queue), report' = [report EXCEPT ![Head(queue)] = v]
  PROVE  Rotation'
<1> DEFINE h == queue[1]
           n == Len(queue)
<1>1. /\ queue \in Seq(Entries) /\ queue # <<>> /\ Head(queue) = h
      /\ h \in Entries /\ h \in Pending /\ n \in Nat /\ n > 0
  BY InFront
<1>2. Lengths \in [Entries -> Nat] /\ Lengths' \in [Entries -> Nat]
  <2>1. samples' \in [Entries -> Seq(Answers)]
    BY DEF Typed, TypeOK
  <2>2. Lengths' \in [Entries -> Nat]
    BY <2>1 DEF Lengths
  <2> QED
    BY <2>2, LengthsAre
<1>3. \A e \in Entries : e # h => Lengths'[e] = Lengths[e]
  BY <1>1, TypedIs DEF Lengths
<1>4. Ordered(queue, Lengths)
  BY DEF Rotation, Rounds
<1>5. Ordered(queue', Lengths')
  BY <1>1, <1>2, <1>3, <1>4, TailIsOrdered
<1>6. Len(queue') = n - 1 /\ \A k \in 1 .. n - 1 : queue'[k] = queue[k + 1]
  BY <1>1, TailOf
<1>7. Pending' = Pending \ {h}
  BY <1>1, TypedIs DEF Pending
<1>8. /\ \A k \in 1 .. n : queue[k] \in Pending
      /\ \A e \in Pending : \E k \in 1 .. n : queue[k] = e
      /\ \A j, k \in 1 .. n : queue[j] = queue[k] => j = k
  BY <1>4 DEF Rotation, Rounds, Ordered
<1>9. ASSUME NEW k \in 1 .. n - 1 PROVE queue'[k] \in Pending'
  <2>1. k + 1 \in 1 .. n /\ 1 \in 1 .. n /\ k + 1 # 1
    BY <1>1
  <2>2. queue[k + 1] \in Pending /\ queue[k + 1] # queue[1]
    BY <1>8, <2>1
  <2> QED
    BY <1>6, <1>7, <2>2
<1>10. ASSUME NEW e \in Pending' PROVE \E k \in 1 .. n - 1 : queue'[k] = e
  <2>1. PICK k \in 1 .. n : queue[k] = e
    BY <1>7, <1>8
  <2>2. k # 1
    BY <1>7, <2>1
  <2>3. k - 1 \in 1 .. n - 1 /\ (k - 1) + 1 = k
    BY <1>1, <2>2
  <2>4. queue'[k - 1] = e
    BY <1>6, <2>1, <2>3
  <2> QED
    BY <2>3, <2>4
<1> QED
  BY <1>5, <1>6, <1>9, <1>10 DEF Rotation

LEMMA NextRotation ==
  ASSUME Typed, Typed', Rotation, [Next]_vars
  PROVE  Rotation'
<1>1. CASE Idles
  BY <1>1, Zenon DEF Idles, Rotation, Lengths, Pending
<1>2. CASE CutsShort \/ SettleBySamples \/ Lists
  <2>1. pc' = "done" \/ pc' = "patience" \/ pc' = "listing"
    BY <1>2, Zenon DEF CutsShort, SettleBySamples, Lists
  <2>2. pc' \notin Rounds
    BY <2>1 DEF Rounds
  <2> QED
    BY <2>2, Zenon DEF Rotation
<1>3. ASSUME NEW a \in Answers, NEW d \in 0 .. Slow, Ask(a, d) PROVE Rotation'
  <2>1. pc = "ask" /\ samples' = [samples EXCEPT ![Head(queue)] = Append(@, a)]
    BY <1>3, Zenon DEF Ask
  <2>2. /\ report' = [report EXCEPT ![Head(queue)] = IF a = "ok" THEN "ok" ELSE None]
        /\ queue' = IF a = "ok" THEN Tail(queue) ELSE Append(Tail(queue), Head(queue))
    BY <1>3, Zenon DEF Ask
  <2>3. CASE a = "ok"
    <3>1. "ok" # None
      BY ArchiveCheckAssumption
    <3>2. /\ report' = [report EXCEPT ![Head(queue)] = "ok"]
          /\ queue' = Tail(queue)
      BY <2>2, <2>3
    <3> QED
      BY <2>1, <3>1, <3>2, TailRotation
  <2>4. CASE a # "ok"
    <3>1. report[Head(queue)] = None
      BY <2>1, InFront DEF Pending
    <3>2. report' = report
      BY <2>2, <2>4, <3>1, TypedIs
    <3>3. queue' = Append(Tail(queue), Head(queue))
      BY <2>2, <2>4
    <3> QED
      BY <2>1, <3>2, <3>3, RotatedRotation
  <2> QED
    BY <2>3, <2>4
<1>4. ASSUME NEW s \in RetryAfters, NEW d \in 0 .. Slow, AskLimited(s, d)
      PROVE  Rotation'
  <2>1. /\ pc = "ask"
        /\ samples' = [samples EXCEPT ![Head(queue)] = Append(@, "unreachable")]
        /\ queue' = Append(Tail(queue), Head(queue))
    BY <1>4, Zenon DEF AskLimited
  <2>2. CASE report' = report
    <3>1. "unreachable" \in Answers
      BY DEF Answers
    <3> QED
      BY <2>1, <2>2, <3>1, RotatedRotation
  <2>3. CASE pc' = "done"
    <3>1. pc' \notin Rounds
      BY <2>3 DEF Rounds
    <3> QED
      BY <3>1, Zenon DEF Rotation
  <2> QED
    BY <1>4, <2>2, <2>3, Zenon DEF AskLimited
<1> QED
  BY <1>1, <1>2, <1>3, <1>4, Kinds, Zenon

LEMMA InitRotation == Init => Rotation
<1> SUFFICES ASSUME Init PROVE Rotation
  OBVIOUS
<1>1. PICK k \in 0 .. N :
        /\ report = [e \in Entries |-> IF e <= k THEN None ELSE "not_checkable"]
        /\ queue = [e \in 1 .. k |-> e]
  BY DEF Init
<1>2. k \in Nat /\ k <= N /\ N \in Nat
  BY SizesAreNat
<1>3. Len(queue) = k /\ \A j \in 1 .. k : queue[j] = j
  BY <1>1, <1>2
<1>4. \A e \in Entries : Lengths[e] = 0
  BY DEF Init, Lengths
<1>5. \A e \in Entries : e \in Pending <=> e \in 1 .. k
  BY <1>1, <1>2, ArchiveCheckAssumption DEF Pending, Entries
<1>6. 1 .. k \subseteq Entries /\ Pending \subseteq Entries
  BY <1>2 DEF Entries, Pending
<1>7. Ordered(queue, Lengths)
  BY <1>2, <1>3, <1>4, <1>6 DEF Ordered
<1> QED
  BY <1>3, <1>5, <1>6, <1>7 DEF Rotation

LEMMA InitStands == Init => Standings
<1> SUFFICES ASSUME Init, NEW e \in Entries PROVE Standing(e)
  BY DEF Standings
<1>1. samples[e] = <<>> /\ pc = "rounds"
  BY DEF Init
<1>2. pc \notin Listings /\ \A a : ~Said(e, a)
  BY <1>1 DEF Said, Listings
<1>3. report[e] \in {None, "not_checkable"}
  BY DEF Init
<1>4. report[e] # "missing" /\ report[e] # "lost"
  BY <1>3, ArchiveCheckAssumption
<1> QED
  BY <1>2, <1>4, Zenon DEF Standing

\* The rounds are fair as long as the queue turns, and stay so: what is pending
\* afterwards is asked no more.
LEMMA NextFair ==
  ASSUME Typed, Typed', Rotation, Rotation', RoundsAreFair, [Next]_vars
  PROVE  RoundsAreFair'
<1>1. ASSUME samples' = samples, Pending' \subseteq Pending PROVE RoundsAreFair'
  BY <1>1, Zenon DEF RoundsAreFair
<1>2. CASE Idles
  BY <1>1, <1>2 DEF Idles, Pending
<1>3. ASSUME report' = CutShortReport PROVE RoundsAreFair'
  <2>1. Pending' = {}
    BY <1>3, CutShortReports
  <2> QED
    BY <2>1, Zenon DEF RoundsAreFair
<1>4. CASE SettleBySamples
  <2>1. /\ samples' = samples
        /\ report' = [e \in Entries |->
                        IF e \in Pending THEN VerdictFromSamples(e) ELSE report[e]]
    BY <1>4, Zenon DEF SettleBySamples
  <2>2. Pending' \subseteq Pending
    BY <2>1 DEF Pending
  <2> QED
    BY <1>1, <2>1, <2>2
<1>5. CASE Lists
  <2>1. PICK e \in Pending, v \in {"missing", "unchecked"} :
          samples' = samples /\ report' = [report EXCEPT ![e] = v]
    BY <1>5 DEF Lists
  <2>2. v # None
    BY ArchiveCheckAssumption
  <2>3. Pending' \subseteq Pending
    BY <2>1, <2>2, TypedIs DEF Pending
  <2> QED
    BY <1>1, <2>1, <2>3
<1>6. ASSUME pc' = "sample" PROVE RoundsAreFair'
  <2>1. pc' \in Rounds
    BY <1>6 DEF Rounds
  <2> SUFFICES ASSUME NEW e \in Pending', NEW f \in Pending'
               PROVE  Len(samples'[e]) <= Len(samples'[f]) + 1
    BY DEF RoundsAreFair
  <2>2. PICK j \in 1 .. Len(queue') : queue'[j] = e
    BY <2>1 DEF Rotation
  <2>3. PICK k \in 1 .. Len(queue') : queue'[k] = f
    BY <2>1 DEF Rotation
  <2>4. samples' \in [Entries -> Seq(Answers)] /\ queue' \in Seq(Entries)
    BY DEF Typed, TypeOK
  <2>5. /\ e \in Entries /\ f \in Entries
        /\ Lengths'[e] = Len(samples'[e]) /\ Lengths'[f] = Len(samples'[f])
        /\ Len(samples'[e]) \in Nat /\ Len(samples'[f]) \in Nat
    BY <2>4 DEF Lengths, Pending
  <2>6. /\ j < k => Lengths'[e] <= Lengths'[f]
        /\ k < j => Lengths'[e] <= Lengths'[f] + 1
        /\ j = k => e = f
    BY <2>1, <2>2, <2>3 DEF Rotation, Ordered
  <2>7. j < k \/ k < j \/ j = k
    BY <2>4
  <2> QED
    BY <2>5, <2>6, <2>7
<1>7. ASSUME NEW a \in Answers, NEW d \in 0 .. Slow, Ask(a, d) PROVE RoundsAreFair'
  BY <1>6, <1>7, Zenon DEF Ask
<1>8. ASSUME NEW s \in RetryAfters, NEW d \in 0 .. Slow, AskLimited(s, d)
      PROVE  RoundsAreFair'
  BY <1>3, <1>6, <1>8, Zenon DEF AskLimited
<1> QED
  BY <1>2, <1>3, <1>4, <1>5, <1>7, <1>8, Kinds, Zenon DEF CutsShort

(***************************************************************************)
(* The results.                                                            *)
(***************************************************************************)
LEMMA IInvIsInvariant == Spec => []IInv
<1>1. Init => IInv
  <2>1. Init => RoundsAreFair
    <3> SUFFICES ASSUME Init PROVE RoundsAreFair
      OBVIOUS
    <3>1. \A e \in Entries : Len(samples[e]) = 0
      BY DEF Init
    <3> QED
      BY <3>1 DEF RoundsAreFair, Pending
  <2> QED
    BY <2>1, InitTyped, InitRotation, InitStands DEF IInv
<1>2. IInv /\ [Next]_vars => IInv'
  <2> SUFFICES ASSUME IInv, [Next]_vars PROVE IInv'
    OBVIOUS
  <2>1. Typed'
    BY NextTyped DEF IInv
  <2>2. Rotation'
    BY <2>1, NextRotation DEF IInv
  <2>3. Standings'
    BY NextStands DEF IInv
  <2>4. RoundsAreFair'
    BY <2>1, <2>2, NextFair DEF IInv
  <2> QED
    BY <2>1, <2>2, <2>3, <2>4 DEF IInv
<1> QED
  BY <1>1, <1>2, PTL DEF Spec

\* THEOREM: a capture served with other content, and never with the right
\* one, is LOST, and nothing else is (_verdict_from_samples, cut_short).
THEOREM MismatchIsLost == Spec => []MismatchIsNeverHidden
<1>1. IInv => MismatchIsNeverHidden
  BY DEF IInv, Standings, Standing, MismatchIsNeverHidden
<1> QED
  BY <1>1, IInvIsInvariant, PTL

\* THEOREM: a capture is MISSING on two answers at least, all of which say that
\* it is not served (_verdict_from_samples).
THEOREM MissingIsNotServed == Spec => []MissingRestsOnTwoAnswers
<1>1. IInv => MissingRestsOnTwoAnswers
  BY Zenon DEF IInv, Standings, Standing, MissingRestsOnTwoAnswers
<1> QED
  BY <1>1, IInvIsInvariant, PTL

\* THEOREM: no pending entry is ever two samples ahead of another, wherever a
\* round was stopped by an outage (check_archives).
THEOREM TheQueueIsFair == Spec => []RoundsAreFair
<1>1. IInv => RoundsAreFair
  BY DEF IInv
<1> QED
  BY <1>1, IInvIsInvariant, PTL

(***************************************************************************)
(* Every run is finite.  That a run ends also needs the fairness of the    *)
(* steps and is left to TLC; what the budgets and the counters are there   *)
(* for is proved here: each step brings the end closer, by a measure that  *)
(* cannot shrink for ever.                                                 *)
(***************************************************************************)
\* Rounds, then listings, then the end.
Phase == CASE pc \in Rounds -> 3
           [] pc = "patience" -> 2
           [] pc \in {"listing", "list"} -> 1
           [] OTHER -> 0

\* What is still to come in a phase: rounds, or entries without a verdict.
Turns == IF pc \in Rounds THEN Samples - round ELSE Cardinality(Pending)

\* What is still to come in a turn: entries to ask about, or failures to bear.
Tries == IF pc \in Rounds THEN left
         ELSE LimitTries + Len(ListingWaits) - (failed[1] + failed[2])

\* What is still to come in a try.
Moves == CASE pc = "sample" -> 2
           [] pc \in {"ask", "listing"} -> 1
           [] OTHER -> 0

\* The measure, in lexicographic order, is smaller after the step.
Closer ==
  \/ Phase' < Phase
  \/ /\ Phase' = Phase
     /\ \/ Turns' < Turns
        \/ /\ Turns' = Turns
           /\ \/ Tries' < Tries
              \/ Tries' = Tries /\ Moves' < Moves

\* A listing is given up before its failures exceed what they are waited for.
Borne == failed[1] \in 0 .. Len(ListingWaits) /\ failed[2] \in 0 .. LimitTries - 1

LEMMA PendingIsFinite ==
  /\ IsFiniteSet(Pending) /\ Cardinality(Pending) \in Nat
  /\ IsFiniteSet(Pending') /\ Cardinality(Pending') \in Nat
<1>1. IsFiniteSet(Entries)
  BY SizesAreNat, FS_Interval DEF Entries
<1>2. Pending \subseteq Entries /\ Pending' \subseteq Entries
  BY DEF Pending
<1>3. IsFiniteSet(Pending) /\ IsFiniteSet(Pending')
  BY <1>1, <1>2, FS_Subset
<1> QED BY <1>3, FS_CardinalityType

LEMMA SettledIsFewer ==
  ASSUME Typed, NEW e \in Pending, NEW v, v # None,
         report' = [report EXCEPT ![e] = v]
  PROVE  Cardinality(Pending') < Cardinality(Pending)
<1>1. Pending' = Pending \ {e}
  BY TypedIs DEF Pending
<1> QED BY <1>1, PendingIsFinite, FS_RemoveElement

LEMMA BudgetsAreNat == LimitTries \in Nat \ {0} /\ Len(ListingWaits) \in Nat
BY ArchiveCheckAssumption

\* The measure is made of natural numbers.
LEMMA MeasureIsNatural ==
  ASSUME Typed, Borne
  PROVE  Phase \in Nat /\ Turns \in Nat /\ Tries \in Nat /\ Moves \in Nat
<1>1. Phase \in Nat /\ Moves \in Nat
  BY DEF Phase, Moves
<1>2. Turns \in Nat
  BY PendingIsFinite, SizesAreNat, TypedIs DEF Turns
<1>3. Tries \in Nat
  BY BudgetsAreNat, SizesAreNat, TypedIs DEF Tries, Borne
<1> QED BY <1>1, <1>2, <1>3

LEMMA InitBorne == Init => Borne
BY BudgetsAreNat DEF Init, Borne

LEMMA ListFailsBorne ==
  ASSUME Typed, Borne, NEW e \in Entries, NEW d \in 0 .. Slow, ListFails(e, d)
  PROVE  /\ Borne'
         /\ failed[1] + 1 <= Len(ListingWaits) =>
              failed'[1] = failed[1] + 1 /\ failed'[2] = failed[2]
<1>1. failed \in Nat \X Nat
  BY TypedIs
<1>2. failed' = IF failed[1] + 1 > Len(ListingWaits) THEN <<0, 0>>
                ELSE [failed EXCEPT ![1] = failed[1] + 1]
  BY DEF ListFails
<1>3. CASE failed[1] + 1 > Len(ListingWaits)
  BY <1>1, <1>2, <1>3, BudgetsAreNat DEF Borne
<1>4. CASE failed[1] + 1 <= Len(ListingWaits)
  BY <1>1, <1>2, <1>4, BudgetsAreNat DEF Borne
<1> QED BY <1>1, <1>3, <1>4, BudgetsAreNat

LEMMA ListLimitedBorne ==
  ASSUME Typed, Borne, NEW e \in Entries, NEW s \in RetryAfters,
         NEW d \in 0 .. Slow, ListLimited(e, s, d)
  PROVE  /\ Borne'
         /\ pc' # "done" /\ failed[2] + 1 < LimitTries =>
              failed'[1] = failed[1] /\ failed'[2] = failed[2] + 1
<1>1. failed \in Nat \X Nat
  BY TypedIs
<1>2. CASE stop /\ pc' = "done" /\ failed' = failed
  BY <1>2 DEF Borne
<1>3. CASE failed' = IF failed[2] + 1 >= LimitTries THEN <<0, 0>>
                     ELSE [failed EXCEPT ![2] = failed[2] + 1]
  <2>1. CASE failed[2] + 1 >= LimitTries
    BY <1>1, <1>3, <2>1, BudgetsAreNat DEF Borne
  <2>2. CASE failed[2] + 1 < LimitTries
    BY <1>1, <1>3, <2>2, BudgetsAreNat DEF Borne
  <2> QED BY <1>1, <2>1, <2>2, BudgetsAreNat
<1> QED BY <1>2, <1>3, Zenon DEF ListLimited

LEMMA NextBorne == ASSUME Typed, Borne, [Next]_vars PROVE Borne'
<1>1. CASE UNCHANGED failed
  BY <1>1 DEF Borne
<1>2. ASSUME NEW e \in Entries, NEW v, NEW d, List(e, v, d) PROVE Borne'
  BY <1>2, BudgetsAreNat DEF List, Settle, Borne
<1>3. CASE BeginRound \/ SampleReady \/ EndRound \/ SettleBySamples
           \/ WaitForListings \/ ListingReady \/ Finish \/ UNCHANGED vars
  BY <1>1, <1>3, Zenon DEF BeginRound, SampleReady, EndRound, SettleBySamples,
     WaitForListings, ListingReady, Finish, vars, Ready, OutOfBudget
<1>4. CASE \/ \E a \in Answers, d \in 0 .. Slow : Ask(a, d)
           \/ \E s \in RetryAfters, d \in 0 .. Slow : AskLimited(s, d)
  BY <1>1, <1>4, Zenon DEF Ask, AskLimited
<1> QED BY <1>2, <1>3, <1>4, Steps, ListFailsBorne, ListLimitedBorne, Zenon

(***************************************************************************)
(* One step.                                                               *)
(***************************************************************************)
\* The end of the run, or of a phase.
LEMMA PhaseEnds ==
  ASSUME Typed, \/ pc # "done" /\ pc' = "done"
                \/ pc = "rounds" /\ pc' = "patience"
                \/ pc = "patience" /\ pc' = "listing"
  PROVE  Closer
BY TypedIs DEF Closer, Phase, Rounds, Places

LEMMA ReadyIsCloser ==
  ASSUME Typed, NEW there, Ready(there),
         \/ pc = "sample" /\ there = "ask"
         \/ pc = "listing" /\ there = "list"
  PROVE  Closer
<1>1. CASE pc' = "done"
  BY <1>1, PhaseEnds
<1>2. CASE pc' = there /\ UNCHANGED <<rounds, report, failed>>
  <2>1. Phase' = Phase /\ Turns' = Turns /\ Tries' = Tries
    BY <1>2 DEF Phase, Turns, Tries, Rounds, rounds, Pending
  <2>2. Moves' < Moves
    BY <1>2 DEF Moves
  <2> QED BY <2>1, <2>2 DEF Closer
<1> QED BY <1>1, <1>2, Zenon DEF Ready, OutOfBudget

LEMMA RoundsAreCloser ==
  ASSUME Typed,
         \/ BeginRound \/ EndRound
         \/ \E a \in Answers, d \in 0 .. Slow : Ask(a, d)
         \/ \E s \in RetryAfters, d \in 0 .. Slow : AskLimited(s, d)
  PROVE  Closer
<1>1. pc # "done"
  BY DEF BeginRound, EndRound, Ask, AskLimited
<1>2. round \in Nat /\ left \in Nat
  BY TypedIs, SizesAreNat
<1>3. CASE pc' = "done"
  BY <1>1, <1>3, PhaseEnds
<1>4. CASE BeginRound /\ pc' = "sample" /\ round' = round + 1
  BY <1>2, <1>4, SizesAreNat DEF BeginRound, Closer, Phase, Turns, Rounds
<1>5. CASE EndRound
  BY <1>5 DEF EndRound, Closer, Phase, Turns, Tries, Moves, Rounds, rounds
<1>6. CASE pc = "ask" /\ pc' = "sample" /\ left' = left - 1 /\ round' = round
  BY <1>2, <1>6 DEF Closer, Phase, Turns, Tries, Rounds
<1>7. \A a, d : Ask(a, d) =>
        pc = "ask" /\ pc' = "sample" /\ left' = left - 1 /\ round' = round
  BY Zenon DEF Ask
<1>8. \A s, d : AskLimited(s, d) =>
        /\ pc = "ask" /\ left' = left - 1 /\ round' = round
        /\ pc' = "sample" \/ pc' = "done"
  BY Zenon DEF AskLimited
<1>9. BeginRound => pc' = "done" \/ (pc' = "sample" /\ round' = round + 1)
  BY Zenon DEF BeginRound, OutOfBudget
<1> QED BY <1>3, <1>4, <1>5, <1>6, <1>7, <1>8, <1>9

\* A listing settles its entry, or counts its failure.
LEMMA ListingIsCloser ==
  ASSUME Typed, Borne, pc = "list", pc' = "listing",
         \/ Cardinality(Pending') < Cardinality(Pending)
         \/ /\ Pending' = Pending
            /\ failed'[1] + failed'[2] = failed[1] + failed[2] + 1
  PROVE  Closer
<1>1. failed[1] \in Nat /\ failed[2] \in Nat
  BY DEF Borne
<1>2. Phase' = Phase
  BY DEF Phase, Rounds
<1>3. CASE Cardinality(Pending') < Cardinality(Pending)
  BY <1>2, <1>3 DEF Closer, Turns, Rounds
<1>4. CASE /\ Pending' = Pending
           /\ failed'[1] + failed'[2] = failed[1] + failed[2] + 1
  BY <1>1, <1>2, <1>4, BudgetsAreNat DEF Closer, Turns, Tries, Rounds
<1> QED BY <1>3, <1>4

LEMMA ListingsAreCloser ==
  ASSUME Typed, Borne, NEW e \in Entries, NEW d \in 0 .. Slow,
         \/ \E v \in {"missing", "unchecked"} : List(e, v, d)
         \/ ListFails(e, d)
         \/ \E s \in RetryAfters : ListLimited(e, s, d)
  PROVE  Closer
<1>1. pc = "list" /\ e \in Pending
  BY DEF List, ListFails, ListLimited, Turn
<1>2. CASE pc' = "done"
  BY <1>1, <1>2, PhaseEnds
<1>3. ASSUME NEW v \in {"missing", "unchecked"}, pc' = "listing",
             report' = [report EXCEPT ![e] = v]
      PROVE  Closer
  <2>1. v # None
    BY ArchiveCheckAssumption
  <2> QED BY <1>1, <1>3, <2>1, SettledIsFewer, ListingIsCloser
<1>4. ASSUME pc' = "listing", UNCHANGED report,
             \/ failed'[1] = failed[1] + 1 /\ failed'[2] = failed[2]
             \/ failed'[1] = failed[1] /\ failed'[2] = failed[2] + 1
      PROVE  Closer
  <2>1. failed'[1] + failed'[2] = failed[1] + failed[2] + 1
    BY <1>4 DEF Borne
  <2>2. Pending' = Pending
    BY <1>4 DEF Pending
  <2> QED BY <1>1, <1>4, <2>1, <2>2, ListingIsCloser
<1>5. ASSUME NEW n, NEW tries, NEW s, Retrying(e, d, n, tries, s)
      PROVE  \/ pc' = "done"
             \/ pc' = "listing" /\ report' = [report EXCEPT ![e] = "unchecked"]
             \/ pc' = "listing" /\ UNCHANGED report /\ n < tries
  BY <1>5, Zenon DEF Retrying
<1>6. ASSUME NEW v \in {"missing", "unchecked"}, List(e, v, d) PROVE Closer
  BY <1>3, <1>6 DEF List, Settle
<1>7. CASE ListFails(e, d)
  <2> DEFINE n == failed[1] + 1
             tries == Len(ListingWaits) + 1
             seconds == IF n <= Len(ListingWaits) THEN ListingWaits[n] ELSE 0
  <2>1. Retrying(e, d, n, tries, seconds)
    BY <1>7, Zenon DEF ListFails
  <2>2. n < tries => failed'[1] = n /\ failed'[2] = failed[2]
    BY <1>7, ListFailsBorne, BudgetsAreNat DEF Borne
  <2> HIDE DEF tries, seconds
  <2> QED BY <1>2, <1>3, <1>4, <1>5, <2>1, <2>2
<1>8. ASSUME NEW s \in RetryAfters, ListLimited(e, s, d), pc' # "done"
      PROVE  Closer
  <2>1. Retrying(e, d, failed[2] + 1, LimitTries, s)
    BY <1>8, Zenon DEF ListLimited
  <2>2. failed[2] + 1 < LimitTries =>
          failed'[1] = failed[1] /\ failed'[2] = failed[2] + 1
    BY <1>8, ListLimitedBorne
  <2> QED BY <1>3, <1>4, <1>5, <1>8, <2>1, <2>2
<1> QED BY <1>2, <1>6, <1>7, <1>8

LEMMA NextIsCloser == ASSUME Typed, Borne, [Next]_vars PROVE Closer \/ UNCHANGED vars
<1>1. CASE SampleReady
  BY <1>1, ReadyIsCloser DEF SampleReady
<1>2. CASE ListingReady
  BY <1>2, ReadyIsCloser DEF ListingReady
<1>3. CASE SettleBySamples \/ WaitForListings \/ Finish
  BY <1>3, PhaseEnds DEF SettleBySamples, WaitForListings, Finish, OutOfBudget
<1> QED BY <1>1, <1>2, <1>3, RoundsAreCloser, ListingsAreCloser, Steps, Zenon

\* Every step of the weekly archive check brings its end closer, and it cannot
\* come closer for ever: no answer of Wayback, and no sequence of 429s and
\* failures, keeps the job asking (check_archives, _retrying).
THEOREM EveryRunIsFinite ==
  Spec => /\ [](Phase \in Nat /\ Turns \in Nat /\ Tries \in Nat /\ Moves \in Nat)
          /\ [][Closer]_vars
<1>1. Init => Typed /\ Borne
  BY InitTyped, InitBorne
<1>2. (Typed /\ Borne) /\ [Next]_vars => (Typed /\ Borne)'
  BY NextTyped, NextBorne
<1>3. Typed /\ Borne =>
        Phase \in Nat /\ Turns \in Nat /\ Tries \in Nat /\ Moves \in Nat
  BY MeasureIsNatural
<1>4. (Typed /\ Borne) /\ [Next]_vars => [Closer]_vars
  BY NextIsCloser
<1> QED
  BY <1>1, <1>2, <1>3, <1>4, PTL DEF Spec
==============================================================================
