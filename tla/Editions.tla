------------------------------ MODULE Editions ------------------------------
(***************************************************************************)
(* One provision as its publisher serves it over time, the pins the ecfr   *)
(* and uscode fetchers make of it, and what is asked of them afterwards:   *)
(* fetchers/ecfr.py, fetchers/uscode.py and resolve_source of registry.py. *)
(*                                                                         *)
(* A pin is made in two reads of the publisher: spec() reads the date it   *)
(* states, pin() the text.  A check of an eCFR pin also takes two, the     *)
(* text and the amendment history.  The publisher acts between any two.    *)
(*                                                                         *)
(* A text is the set of the laws it has taken up.  eCFR serves the text as *)
(* of any date, the U.S. Code site only the current one.  Duplicates,      *)
(* liveness and the load rules are Registry's; overlapping calls are       *)
(* PinStore's.                                                             *)
(***************************************************************************)
EXTENDS Integers

CONSTANTS
  Laws,      \* the amendments that may be made
  MaxDay,    \* bound: the last day of a behaviour
  MaxPins,   \* bound: the pins made of the provision
  None

ASSUME EditionsAssumption ==
  /\ MaxDay \in Nat /\ MaxPins \in Nat \ {0}
  /\ None \notin Int

VARIABLES
  kind,    \* the fetcher that pins the provision: "ecfr" or "uscode"
  today,
  stated,  \* the date the publisher states: a title's latest_issue_date at
           \* eCFR, "laws in effect on" at the U.S. Code site
  law,     \* each law the publisher has taken up, None before
  pins,    \* Crosswalk.sources
  call,    \* the command under way, None between commands
  report   \* what the last check reported

vars == <<kind, today, stated, law, pins, call, report>>

Days == 0 .. MaxDay
Ids == 1 .. MaxPins

Registry == INSTANCE Registry WITH
  MaxId <- MaxPins, Versions <- Days, Citations <- {"provision"},
  Drifts <- (SUBSET Laws) \cup Days, Captures <- {},
  Shows <- [c \in {} |-> None], Notes <- {}

(***************************************************************************)
(* The publisher.                                                          *)
(***************************************************************************)
\* What a law does: amends the provision, its date in the U.S. Code credit
\* being of a known month form ("Mar. 5, 2027"), of an unknown one that is
\* shaped like a date ("March 5, 2027"), or of one that is not ("September 5,
\* 2027": _DATE_SHAPED takes a capital and one to four letters); corrects the
\* wording without amending it; or amends another provision of the part, or
\* stands in the notes only.
Whats == {"amends", "amends_oddly", "amends_unseen", "corrects", "elsewhere"}

Amending == {"amends", "amends_oddly", "amends_unseen"}

Law == [date: Days,       \* its amendment_date, or its date in the credit
        what: Whats,
        since: Days]      \* the day the publisher took it up

Published == {l \in Laws : law[l] # None}

InText == {l \in Published : law[l].what # "elsewhere"}

Init ==
  /\ kind \in {"ecfr", "uscode"}
  /\ today = 0
  /\ stated = 0
  /\ law = [l \in Laws |-> None]
  /\ pins = [i \in {} |-> None]
  /\ call = None
  /\ report = None

\* The publisher takes up a law of today or of an earlier day, and restates
\* its date.  Day 0 is the provision's own enactment.  eCFR's dates have one
\* form.
Publish(l, d, w) ==
  /\ law[l] = None
  /\ w \in Amending \ {"amends"} => kind = "uscode"
  /\ 0 < d /\ d <= today
  /\ law' = [law EXCEPT ![l] = [date |-> d, what |-> w, since |-> today]]
  /\ stated' = today
  /\ UNCHANGED <<kind, today, pins, call, report>>

\* The date is one for the whole site, or title, and moves on its own.
Restate ==
  /\ stated < today
  /\ stated' = today
  /\ UNCHANGED <<kind, today, law, pins, call, report>>

Tick ==
  /\ today < MaxDay
  /\ today' = today + 1
  /\ UNCHANGED <<kind, stated, law, pins, call, report>>

\* The text a request for a pin of date d is answered with.
ServedText(d) ==
  IF kind = "ecfr" THEN {l \in InText : law[l].date <= d} ELSE InText

(***************************************************************************)
(* What the fetchers read from an answer.                                  *)
(***************************************************************************)
Latest(dates) == CHOOSE d \in dates : \A e \in dates : e <= d

\* Mutant of CreditIsReadable: what is shaped like a date is not compared
\* with what was parsed.
CreditIsReadableAnyway == TRUE

\* Everything shaped like a date in the source credit was parsed, or
\* last_amended raises.  A date that has not the shape is not looked for.
CreditIsReadable == \A l \in InText : law[l].what # "amends_oddly"

\* The latest date parsed from the source credit, which names the enacting law
\* (day 0) and each law that has amended the section: a date that was not
\* parsed, shaped like one or not, is not among them.
LastAmended ==
  Latest({0} \cup {law[l].date : l \in {k \in InText : law[k].what = "amends"}})

DriftValue(text) == IF kind = "ecfr" THEN text ELSE LastAmended

\* Mutant of LatestAmendment: entries that are not substantive are counted.
LatestAmendmentCosmetic ==
  Latest({0} \cup {law[l].date : l \in InText})

\* The most recent substantive entry of the amendment history for this very
\* section or subpart, 0 when there is none.
LatestAmendment ==
  Latest({0} \cup {law[l].date : l \in {k \in InText : law[k].what \in Amending}})

AmendedSince(d) == LatestAmendment > d

(***************************************************************************)
(* pin add.                                                                *)
(***************************************************************************)
\* The date of the pin to be made: the one the publisher states, or for eCFR
\* any the operator names with --as-of.
PointInTime(d) == d = stated \/ kind = "ecfr"

\* spec(): the metadata read.
ReadDate(d) ==
  /\ call = None
  /\ PointInTime(d)
  /\ call' = [op |-> "add", as_of |-> d]
  /\ report' = None
  /\ UNCHANGED <<kind, today, stated, law, pins>>

NewPin(d, sup) ==
  [version |-> d, citation |-> "provision", drift |-> DriftValue(ServedText(d)),
   text |-> ServedText(d), archive |-> None, cited |-> FALSE,
   supersedes |-> sup, merged_into |-> None]

\* The duplicate rules of add_source, before and after the fetch, and its
\* final check.
Accepted(i, p) ==
  /\ Registry!DuplicateOf(pins, p.version) = {}
  /\ Registry!SameDocumentOf(Registry!With(pins, i, p), p) \subseteq {i}
  /\ Registry!SourceInvariants(Registry!With(pins, i, p))

\* pin(): the second read, and the record written.
Pin(i, sup) ==
  /\ call # None /\ call.op = "add"
  /\ i \notin DOMAIN pins /\ \A j \in Ids : j < i => j \in DOMAIN pins
  /\ kind = "ecfr" => call.as_of <= today           \* a 404 beyond
  /\ kind = "uscode" => CreditIsReadable
  /\ Accepted(i, NewPin(call.as_of, sup))
  /\ pins' = Registry!With(pins, i, NewPin(call.as_of, sup))
  /\ call' = None
  /\ UNCHANGED <<kind, today, stated, law, report>>

\* The command fails, or refuses a duplicate: nothing is written.
GiveUp ==
  /\ call # None
  /\ call' = None
  /\ UNCHANGED <<kind, today, stated, law, pins, report>>

\* A maintainer marks pin i as a duplicate of j; the register still loads.
MergeByHand(i, j) ==
  LET merged == [pins EXCEPT ![i].merged_into = j]
  IN /\ call = None
     /\ {i, j} \subseteq DOMAIN pins /\ i # j
     /\ pins[i].merged_into = None
     /\ Registry!SourceInvariants(merged)
     /\ pins' = merged
     /\ UNCHANGED <<kind, today, stated, law, call, report>>

(***************************************************************************)
(* pin check, of a live pin.                                               *)
(***************************************************************************)
Reported(i, status, seen) ==
  report' = [pin |-> i, status |-> status, seen |-> seen]

\* The document is read.  An eCFR text as pinned is not yet an answer: the
\* amendment history is read too.
CheckText(i) ==
  /\ call = None
  /\ i \in Registry!LiveSources(pins)
  /\ IF kind = "uscode" /\ ~CreditIsReadable
     THEN Reported(i, "error", Published) /\ UNCHANGED call
     ELSE IF DriftValue(ServedText(pins[i].version)) # pins[i].drift
     THEN Reported(i, "drift", Published) /\ UNCHANGED call
     ELSE IF kind = "uscode"
     THEN Reported(i, "ok", Published) /\ UNCHANGED call
     ELSE /\ call' = [op |-> "check", pin |-> i, seen |-> Published]
          /\ report' = None
  /\ UNCHANGED <<kind, today, stated, law, pins>>

CheckHistory ==
  /\ call # None /\ call.op = "check"
  /\ Reported(call.pin,
       IF AmendedSince(pins[call.pin].version) THEN "amended" ELSE "ok",
       call.seen)
  /\ call' = None
  /\ UNCHANGED <<kind, today, stated, law, pins>>

(***************************************************************************)
(* resolve_source: the pin a citation resolves to, on a date or at all.    *)
(***************************************************************************)
\* Mutant of Candidates: superseded pins are left out.
CandidatesLive(s, d) ==
  {i \in Registry!LiveSources(s) : d = None \/ s[i].version <= d}

\* Mutant of Candidates: the date is not compared.
CandidatesUndated(s, d) == {i \in DOMAIN s : s[i].merged_into = None}

\* Not the losers of a merge; with a date, what stood on it.
Candidates(s, d) ==
  {i \in DOMAIN s :
     s[i].merged_into = None /\ (d = None \/ s[i].version <= d)}

\* Mutant of ResolveSource: the oldest candidate wins.
ResolveSourceOldest(s, d) ==
  IF Candidates(s, d) = {} THEN None
  ELSE CHOOSE i \in Candidates(s, d) :
         \A j \in Candidates(s, d) : s[i].version <= s[j].version

\* Ranked by point_in_time, then by id.
ResolveSource(s, d) ==
  IF Candidates(s, d) = {} THEN None
  ELSE CHOOSE i \in Candidates(s, d) :
         \A j \in Candidates(s, d) :
           \/ s[j].version < s[i].version
           \/ s[j].version = s[i].version /\ j <= i

(***************************************************************************)
(* Behaviours.                                                             *)
(***************************************************************************)
Next ==
  \/ \E l \in Laws, d \in Days, w \in Whats : Publish(l, d, w)
  \/ Restate \/ Tick
  \/ \E d \in Days : ReadDate(d)
  \/ \E i \in Ids, sup \in Ids \cup {None} : Pin(i, sup)
  \/ GiveUp
  \/ \E i, j \in Ids : MergeByHand(i, j)
  \/ \E i \in Ids : CheckText(i)
  \/ CheckHistory

Spec == Init /\ [][Next]_vars

(***************************************************************************)
(* Properties.                                                             *)
(***************************************************************************)
TypeOK ==
  /\ kind \in {"ecfr", "uscode"}
  /\ today \in Days /\ stated \in Days /\ stated <= today
  /\ law \in [Laws -> Law \cup {None}]
  /\ DOMAIN pins \subseteq Ids
  /\ \A i \in DOMAIN pins :
       pins[i] \in [version: Days, citation: {"provision"},
                   drift: IF kind = "ecfr" THEN SUBSET Laws ELSE Days,
                   text: SUBSET InText,
                   archive: {None}, cited: {FALSE},
                   supersedes: DOMAIN pins \cup {None},
                   merged_into: DOMAIN pins \cup {None}]
  /\ \/ call = None
     \/ call \in [op: {"add"}, as_of: Days]
     \/ call \in [op: {"check"}, pin: DOMAIN pins, seen: SUBSET Published]
  /\ \/ report = None
     \/ report \in [pin: DOMAIN pins, status: {"ok", "drift", "amended", "error"},
                    seen: SUBSET Published]

\* An answer as of a date holds everything its publisher had taken up before
\* the date it bears, and an eCFR answer nothing dated after the date asked
\* for: the text read second is never older than the date read first, and
\* the as-of date is the text's (spec, pin, resolve_source).
AnswersAreOfTheirDate ==
  \A d \in Days :
    LET i == ResolveSource(pins, d)
    IN i # None =>
         /\ \A l \in InText : law[l].since < pins[i].version => l \in pins[i].text
         /\ kind = "ecfr" => \A l \in pins[i].text : law[l].date <= d

\* "A matching hash proves nothing about whether the law changed": a check
\* that reports no change has missed no amendment the publisher had taken up
\* when it began (amended_since, last_amended).  Two of a U.S. Code section
\* are missed: one that enters the credit with a date no later than the pin's
\* own latest, and one whose date has not the shape _DATE_SHAPED looks for.
UnchangedMeansUnamended ==
  report # None /\ report.status = "ok" =>
    \A l \in report.seen \cap InText :
      law[l].what \in Amending =>
        \/ l \in pins[report.pin].text
        \/ /\ kind = "uscode"
           /\ \/ law[l].date <= pins[report.pin].drift
              \/ law[l].what = "amends_unseen"

\* A change is reported of a provision that changed, never for a law that
\* amends another, stands in the notes, or moves the publisher's date; and an
\* amendment is one (latest_amendment, last_amended).
AlarmsAreReal ==
  report # None /\ report.status \in {"drift", "amended"} =>
    \E l \in InText \ pins[report.pin].text :
      report.status = "amended" \/ kind = "uscode" => law[l].what \in Amending

\* "as_of is how you reach the history of an amended text": whatever is added
\* and superseded, a date once answered stays answered, by the same pin or by
\* a new one of the same or a later date.  Merges are edits of that history.
HistoryStaysReachable ==
  [][(\A i \in DOMAIN pins : pins'[i].merged_into = pins[i].merged_into) =>
       \A d \in Days :
         LET i == ResolveSource(pins, d)
             j == ResolveSource(pins', d)
         IN i # None =>
              \/ j = i
              \/ /\ j \in Ids \ DOMAIN pins
                 /\ pins'[j].version >= pins[i].version]_vars

\* Links that go the way they are meant to: a pin supersedes an older text
\* and is merged into a newer pin.
Orderly(s) ==
  \A i \in DOMAIN s :
    /\ s[i].supersedes # None => s[s[i].supersedes].version < s[i].version
    /\ s[i].merged_into # None => s[s[i].merged_into].version > s[i].version

\* While links are orderly, the pin a citation resolves to is one the drift
\* check still reads: resolve_source and live_sources define "current" apart.
CurrentIsWatched ==
  Orderly(pins) /\ DOMAIN pins # {} =>
    ResolveSource(pins, None) \in Registry!LiveSources(pins)

=============================================================================
