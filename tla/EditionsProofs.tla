---------------------------- MODULE EditionsProofs ----------------------------
(***************************************************************************)
(* Proofs about Editions.  What the publisher has taken up never changes,  *)
(* only grows (Grows), so a pin keeps the relation to the text that it had *)
(* when it was made, and a report the truth it had when it was given.      *)
(***************************************************************************)
EXTENDS Editions, TLAPS, WellFoundedInduction

(***************************************************************************)
(* The greatest of a bounded set.                                          *)
(***************************************************************************)
LEMMA BelowIsWellFounded ==
  \E R : /\ IsWellFoundedOn(R, Nat)
         /\ \A m, n \in Nat : m < n => <<m, n>> \in R
<1> DEFINE R == {p \in Nat \X Nat : p[1] < p[2]}
<1>1. OpToRel(<, Nat) = R
  BY DEF OpToRel
<1>2. IsWellFoundedOn(R, Nat)
  BY NatLessThanWellFounded, <1>1
<1>3. \A m, n \in Nat : m < n => <<m, n>> \in R
  OBVIOUS
<1> QED
  BY <1>2, <1>3

LEMMA LeastExists ==
  ASSUME NEW T, T \subseteq Nat, T # {}
  PROVE  \E x \in T : \A y \in T : x <= y
<1>1. PICK R : /\ IsWellFoundedOn(R, Nat)
               /\ \A k, m \in Nat : k < m => <<k, m>> \in R
  BY BelowIsWellFounded
<1>2. PICK x \in T : \A y \in T : ~ (<<y, x>> \in R)
  BY <1>1, WFMin
<1>3. ASSUME NEW y \in T PROVE x <= y
  <2>1. x \in Nat /\ y \in Nat
    OBVIOUS
  <2>2. ~ (y < x)
    BY <1>1, <1>2, <2>1
  <2> QED
    BY <2>1, <2>2
<1> QED
  BY <1>3

LEMMA GreatestExists ==
  ASSUME NEW n \in Nat, NEW S, S \subseteq 0 .. n, S # {}
  PROVE  \E d \in S : \A e \in S : e <= d
<1>1. \A d \in S : n - d \in Nat
  OBVIOUS
<1>2. {n - d : d \in S} # {}
  OBVIOUS
<1>3. PICK x \in {n - d : d \in S} : \A y \in {n - d : d \in S} : x <= y
  BY <1>1, <1>2, LeastExists
<1>4. PICK d \in S : x = n - d
  BY <1>3
<1>5. ASSUME NEW e \in S PROVE e <= d
  <2>1. n - d <= n - e
    BY <1>3, <1>4
  <2>2. d \in 0 .. n /\ e \in 0 .. n
    OBVIOUS
  <2> QED
    BY <2>1, <2>2
<1> QED
  BY <1>5

\* Latest is the greatest of a set of days.
LEMMA LatestIsGreatest ==
  ASSUME NEW S, S \subseteq Days, S # {}
  PROVE  /\ Latest(S) \in S
         /\ \A e \in S : e <= Latest(S)
<1>1. \E d \in S : \A e \in S : e <= d
  BY GreatestExists, EditionsAssumption DEF Days
<1> QED
  BY <1>1 DEF Latest

(***************************************************************************)
(* The inductive invariant.                                                *)
(***************************************************************************)
\* The days parsed from a text's source credit, and those of its amendment
\* history.
Credit(text) == {0} \cup {law[l].date : l \in {k \in text : law[k].what = "amends"}}
History(text) == {0} \cup {law[l].date : l \in {k \in text : law[k].what \in Amending}}

\* A law is dated no later than the day it was taken up.
LawsAreDated ==
  \A l \in Published : law[l].date <= law[l].since /\ law[l].since <= today

\* What a pin holds of the publisher's text, and what its drift value says.
HonestPin(i) ==
  /\ pins[i].version <= today
  /\ \A l \in InText : law[l].since < pins[i].version => l \in pins[i].text
  /\ kind = "ecfr" =>
       /\ pins[i].drift = pins[i].text
       /\ \A l \in pins[i].text : law[l].date <= pins[i].version
  /\ kind = "uscode" => pins[i].drift = Latest(Credit(pins[i].text))

PinsAreHonest == \A i \in DOMAIN pins : HonestPin(i)

\* A pin being made has a date the publisher stated; a check between its two
\* reads has found the text as pinned.
CallIsHonest ==
  call # None =>
    /\ call.op = "add" /\ kind = "uscode" => call.as_of <= today
    /\ call.op = "check" =>
         /\ kind = "ecfr"
         /\ \A l \in call.seen \cap InText :
              law[l].date <= pins[call.pin].version => l \in pins[call.pin].text

IInv ==
  /\ TypeOK
  /\ LawsAreDated /\ PinsAreHonest /\ CallIsHonest
  /\ UnchangedMeansUnamended /\ AlarmsAreReal

(***************************************************************************)
(* What every step keeps.                                                  *)
(***************************************************************************)
Grows ==
  /\ kind' = kind /\ today <= today'
  /\ \A l \in Published : l \in Published' /\ law'[l] = law[l]
  /\ \A l \in Published' \ Published : law'[l].since = today
  /\ \A i \in DOMAIN pins :
       /\ i \in DOMAIN pins'
       /\ pins'[i].version = pins[i].version
       /\ pins'[i].text = pins[i].text
       /\ pins'[i].drift = pins[i].drift

LEMMA Typing ==
  ASSUME TypeOK
  PROVE  /\ today \in Days /\ stated \in Days /\ stated <= today
         /\ \A d \in Days : d \in Nat /\ d # None
         /\ 0 \in Days
         /\ \A l \in Published :
              l \in Laws /\ law[l] \in Law /\ law[l].date \in Days /\ law[l].since \in Days
         /\ InText \subseteq Published
BY EditionsAssumption DEF TypeOK, Days, Published, InText, Law

LEMMA CallIsACall ==
  ASSUME TypeOK, call # None
  PROVE  \/ call \in [op: {"add"}, as_of: Days]
         \/ call \in [op: {"check"}, pin: DOMAIN pins, seen: SUBSET Published]
BY DEF TypeOK

LEMMA NextGrows == TypeOK /\ [Next]_vars => Grows
<1> SUFFICES ASSUME TypeOK, [Next]_vars PROVE Grows
  OBVIOUS
<1> USE Typing
<1>1. ASSUME UNCHANGED <<kind, today, law, pins>> PROVE Grows
  BY <1>1 DEF Grows, Published, Days
<1>2. ASSUME NEW l \in Laws, NEW d \in Days, NEW w \in Whats, Publish(l, d, w)
      PROVE  Grows
  <2>1. /\ UNCHANGED <<kind, today, pins>>
        /\ law[l] = None
        /\ law' = [law EXCEPT ![l] = [date |-> d, what |-> w, since |-> today]]
    BY <1>2 DEF Publish
  <2>2. \A k \in Laws : k # l => law'[k] = law[k]
    BY <2>1 DEF TypeOK
  <2>3. law'[l].since = today
    BY <2>1 DEF TypeOK
  <2> QED
    BY <2>1, <2>2, <2>3 DEF Grows, Published, Days
<1>3. CASE Tick
  BY <1>3 DEF Tick, Grows, Published, Days
<1>4. ASSUME NEW i \in Ids, NEW sup \in Ids \cup {None}, Pin(i, sup)
      PROVE  Grows
  <2>1. /\ UNCHANGED <<kind, today, law>>
        /\ i \notin DOMAIN pins
        /\ pins' = Registry!With(pins, i, NewPin(call.as_of, sup))
    BY <1>4 DEF Pin
  <2>2. \A j \in DOMAIN pins : j \in DOMAIN pins' /\ pins'[j] = pins[j]
    BY <2>1 DEF Registry!With
  <2> QED
    BY <2>1, <2>2 DEF Grows, Published, Days
<1>5. ASSUME NEW i \in Ids, NEW j \in Ids, MergeByHand(i, j)
      PROVE  Grows
  <2>1. /\ UNCHANGED <<kind, today, law>>
        /\ i \in DOMAIN pins
        /\ pins' = [pins EXCEPT ![i].merged_into = j]
    BY <1>5 DEF MergeByHand
  <2>2. \A k \in DOMAIN pins :
          /\ k \in DOMAIN pins'
          /\ pins'[k].version = pins[k].version
          /\ pins'[k].text = pins[k].text
          /\ pins'[k].drift = pins[k].drift
    BY <2>1 DEF TypeOK
  <2> QED
    BY <2>1, <2>2 DEF Grows, Published, Days
<1>6. CASE Restate
  BY <1>1, <1>6 DEF Restate
<1>7. ASSUME NEW d \in Days, ReadDate(d) PROVE Grows
  BY <1>1, <1>7 DEF ReadDate
<1>8. CASE GiveUp
  BY <1>1, <1>8 DEF GiveUp
<1>9. ASSUME NEW i \in Ids, CheckText(i) PROVE Grows
  BY <1>1, <1>9 DEF CheckText
<1>10. CASE CheckHistory
  BY <1>1, <1>10 DEF CheckHistory
<1>11. CASE UNCHANGED vars
  BY <1>1, <1>11 DEF vars
<1> QED
  BY <1>2, <1>3, <1>4, <1>5, <1>6, <1>7, <1>8, <1>9, <1>10, <1>11 DEF Next

\* The text of the laws already taken up stays what it was, and what is new
\* in it is of today.
LEMMA TextGrows ==
  ASSUME TypeOK, Grows
  PROVE  /\ \A l \in Published : l \in InText <=> l \in InText'
         /\ InText \subseteq InText'
         /\ \A l \in InText' \ InText : law'[l].since = today
         /\ \A S \in SUBSET Published : Credit(S)' = Credit(S)
<1>1. \A l \in Published : l \in InText <=> l \in InText'
  BY DEF Grows, InText
<1>2. InText \subseteq InText'
  BY <1>1 DEF InText
<1>3. \A l \in InText' \ InText : law'[l].since = today
  BY <1>1 DEF Grows, InText
<1>4. ASSUME NEW S \in SUBSET Published PROVE Credit(S)' = Credit(S)
  <2>1. \A l \in S : law'[l] = law[l]
    BY DEF Grows
  <2>2. {k \in S : law'[k].what = "amends"} = {k \in S : law[k].what = "amends"}
    BY <2>1
  <2> QED
    BY <2>1, <2>2 DEF Credit
<1> QED
  BY <1>1, <1>2, <1>3, <1>4

(***************************************************************************)
(* Type correctness.                                                       *)
(***************************************************************************)
LEMMA InitIInv == Init => IInv
<1> SUFFICES ASSUME Init PROVE IInv
  OBVIOUS
<1>1. TypeOK
  BY EditionsAssumption DEF Init, TypeOK, Days
<1>2. Published = {} /\ InText = {}
  BY DEF Init, Published, InText
<1>3. LawsAreDated /\ PinsAreHonest /\ CallIsHonest
  BY <1>2 DEF Init, LawsAreDated, PinsAreHonest, CallIsHonest
<1>4. UnchangedMeansUnamended /\ AlarmsAreReal
  BY DEF Init, UnchangedMeansUnamended, AlarmsAreReal
<1> QED
  BY <1>1, <1>3, <1>4 DEF IInv

LEMMA DriftIsTyped ==
  ASSUME TypeOK, NEW d \in Days
  PROVE  /\ ServedText(d) \in SUBSET InText
         /\ LastAmended \in Days
         /\ DriftValue(ServedText(d)) \in IF kind = "ecfr" THEN SUBSET Laws ELSE Days
<1>1. ServedText(d) \in SUBSET InText
  BY DEF ServedText
<1>2. LastAmended \in Days
  <2> DEFINE dates == {0} \cup {law[l].date : l \in {k \in InText : law[k].what = "amends"}}
  <2>1. dates \subseteq Days /\ dates # {}
    BY Typing
  <2>2. Latest(dates) \in Days
    <3> HIDE DEF dates
    <3> QED
      BY <2>1, LatestIsGreatest
  <2> QED
    BY <2>2 DEF LastAmended
<1>3. InText \subseteq Laws
  BY DEF InText, Published
<1> QED
  BY <1>1, <1>2, <1>3 DEF DriftValue

LEMMA AcceptedLinks ==
  ASSUME NEW s, Registry!SourceInvariants(s), NEW i \in DOMAIN s
  PROVE  /\ s[i].supersedes \in DOMAIN s \cup {None}
         /\ s[i].merged_into \in DOMAIN s \cup {None}
BY DEF Registry!SourceInvariants, Registry!LinksResolve

LEMMA PinTypeOK ==
  ASSUME TypeOK, NEW i \in Ids, NEW sup \in Ids \cup {None}, Pin(i, sup)
  PROVE  TypeOK'
<1> DEFINE p == NewPin(call.as_of, sup)
<1>1. /\ UNCHANGED <<kind, today, stated, law, report>>
      /\ call \in [op: {"add"}, as_of: Days] /\ call' = None
      /\ pins' = Registry!With(pins, i, p)
      /\ Registry!SourceInvariants(pins')
  BY CallIsACall DEF Pin, Accepted
<1>2. /\ DOMAIN pins' = DOMAIN pins \cup {i}
      /\ pins'[i] = p
      /\ \A j \in DOMAIN pins : j # i => pins'[j] = pins[j]
  BY <1>1 DEF Registry!With
<1>3. i \notin DOMAIN pins
  BY DEF Pin
<1> DEFINE Typed(S) ==
             [version: Days, citation: {"provision"},
              drift: IF kind = "ecfr" THEN SUBSET Laws ELSE Days,
              text: SUBSET InText, archive: {None}, cited: {FALSE},
              supersedes: S \cup {None}, merged_into: S \cup {None}]
<1>4. p \in Typed(DOMAIN pins')
  <2>1. p.supersedes \in DOMAIN pins' \cup {None}
    BY <1>1, <1>2, AcceptedLinks
  <2>2. sup \in DOMAIN pins' \cup {None}
    BY <2>1 DEF NewPin
  <2> QED
    BY <1>1, <2>2, DriftIsTyped DEF NewPin
<1>5. ASSUME NEW j \in DOMAIN pins' PROVE pins'[j] \in Typed(DOMAIN pins')
  <2>1. CASE j = i
    BY <1>2, <1>4, <2>1
  <2>2. CASE j # i
    <3>1. pins'[j] \in Typed(DOMAIN pins)
      BY <1>2, <2>2 DEF TypeOK
    <3>2. DOMAIN pins \subseteq DOMAIN pins'
      BY <1>2
    <3> QED
      BY <3>1, <3>2
  <2> QED
    BY <2>1, <2>2
<1>6. Published' = Published /\ InText' = InText
  BY <1>1 DEF Published, InText
<1>7. report' = None \/ report' \in [pin: DOMAIN pins',
                                     status: {"ok", "drift", "amended", "error"},
                                     seen: SUBSET Published]
  BY <1>1, <1>2 DEF TypeOK
<1> QED
  BY <1>1, <1>2, <1>5, <1>6, <1>7 DEF TypeOK

LEMMA PublishTypeOK ==
  ASSUME TypeOK, Grows, NEW l \in Laws, NEW d \in Days, NEW w \in Whats,
         Publish(l, d, w)
  PROVE  TypeOK'
<1>1. /\ UNCHANGED <<kind, today, pins, call, report>>
      /\ stated' = today
      /\ law' = [law EXCEPT ![l] = [date |-> d, what |-> w, since |-> today]]
  BY DEF Publish
<1>2. law' \in [Laws -> Law \cup {None}]
  BY <1>1 DEF TypeOK, Law
<1>3. InText \subseteq InText' /\ Published \subseteq Published'
  BY TextGrows DEF Grows
<1>4. ASSUME NEW i \in DOMAIN pins
      PROVE  pins[i] \in [version: Days, citation: {"provision"},
                          drift: IF kind = "ecfr" THEN SUBSET Laws ELSE Days,
                          text: SUBSET InText', archive: {None}, cited: {FALSE},
                          supersedes: DOMAIN pins \cup {None},
                          merged_into: DOMAIN pins \cup {None}]
  BY <1>3 DEF TypeOK
<1>5. \/ call = None
      \/ call \in [op: {"add"}, as_of: Days]
      \/ call \in [op: {"check"}, pin: DOMAIN pins, seen: SUBSET Published']
  BY <1>3 DEF TypeOK
<1>6. \/ report = None
      \/ report \in [pin: DOMAIN pins, status: {"ok", "drift", "amended", "error"},
                     seen: SUBSET Published']
  BY <1>3 DEF TypeOK
<1>7. stated' \in Days /\ stated' <= today'
  BY <1>1, Typing DEF Days
<1> QED
  BY <1>1, <1>2, <1>4, <1>5, <1>6, <1>7 DEF TypeOK

LEMMA MergeTypeOK ==
  ASSUME TypeOK, NEW i \in Ids, NEW j \in Ids, MergeByHand(i, j)
  PROVE  TypeOK'
<1>1. /\ UNCHANGED <<kind, today, stated, law, call, report>>
      /\ i \in DOMAIN pins /\ j \in DOMAIN pins
      /\ pins' = [pins EXCEPT ![i].merged_into = j]
  BY DEF MergeByHand
<1>2. Published' = Published /\ InText' = InText
  BY <1>1 DEF Published, InText
<1>3. DOMAIN pins' = DOMAIN pins
  BY <1>1
<1>4. ASSUME NEW m \in DOMAIN pins
      PROVE  pins'[m] \in [version: Days, citation: {"provision"},
                           drift: IF kind = "ecfr" THEN SUBSET Laws ELSE Days,
                           text: SUBSET InText, archive: {None}, cited: {FALSE},
                           supersedes: DOMAIN pins \cup {None},
                           merged_into: DOMAIN pins \cup {None}]
  BY <1>1 DEF TypeOK
<1> QED
  BY <1>1, <1>2, <1>3, <1>4 DEF TypeOK

\* A step that leaves the publisher and the pins alone keeps the types when
\* it types what it writes.
LEMMA ReadTypeOK ==
  ASSUME TypeOK, UNCHANGED <<kind, today, stated, law, pins>>,
         \/ call' = None
         \/ call' \in [op: {"add"}, as_of: Days]
         \/ call' \in [op: {"check"}, pin: DOMAIN pins, seen: SUBSET Published],
         \/ report' = None
         \/ report' \in [pin: DOMAIN pins, status: {"ok", "drift", "amended", "error"},
                         seen: SUBSET Published]
  PROVE  TypeOK'
<1>1. Published' = Published /\ InText' = InText
  BY DEF Published, InText
<1> QED
  BY <1>1 DEF TypeOK

LEMMA ClockTypeOK ==
  ASSUME TypeOK, Tick \/ Restate
  PROVE  TypeOK'
<1>1. UNCHANGED <<kind, law, pins, call, report>>
  BY DEF Tick, Restate
<1>2. Published' = Published /\ InText' = InText
  BY <1>1 DEF Published, InText
<1>3. today' \in Days /\ stated' \in Days /\ stated' <= today'
  BY Typing, EditionsAssumption DEF Tick, Restate, Days
<1> QED
  BY <1>1, <1>2, <1>3 DEF TypeOK

LEMMA NextTypeOK == TypeOK /\ [Next]_vars => TypeOK'
<1> SUFFICES ASSUME TypeOK, [Next]_vars PROVE TypeOK'
  OBVIOUS
<1>1. Grows
  BY NextGrows
<1>2. ASSUME NEW d \in Days, ReadDate(d) PROVE TypeOK'
  <2>1. call' \in [op: {"add"}, as_of: Days] /\ report' = None
    BY <1>2 DEF ReadDate
  <2> QED
    BY <1>2, <2>1, ReadTypeOK DEF ReadDate
<1>3. CASE GiveUp
  <2>1. /\ call' = None /\ report' = report
        /\ \/ report = None
           \/ report \in [pin: DOMAIN pins, status: {"ok", "drift", "amended", "error"},
                          seen: SUBSET Published]
    BY <1>3 DEF GiveUp, TypeOK
  <2> QED
    BY <1>3, <2>1, ReadTypeOK DEF GiveUp
<1>4. ASSUME NEW i \in Ids, CheckText(i) PROVE TypeOK'
  <2>1. i \in DOMAIN pins /\ call = None
    BY <1>4 DEF CheckText, Registry!LiveSources
  <2>2. \/ /\ call' = call
           /\ report' \in [pin: DOMAIN pins, status: {"ok", "drift", "amended", "error"},
                           seen: SUBSET Published]
        \/ /\ call' \in [op: {"check"}, pin: DOMAIN pins, seen: SUBSET Published]
           /\ report' = None
    BY <1>4, <2>1 DEF CheckText, Reported
  <2> QED
    BY <1>4, <2>1, <2>2, ReadTypeOK DEF CheckText
<1>5. CASE CheckHistory
  <2>1. /\ call \in [op: {"check"}, pin: DOMAIN pins, seen: SUBSET Published]
        /\ call' = None
    BY <1>5, CallIsACall DEF CheckHistory
  <2>2. report' \in [pin: DOMAIN pins, status: {"ok", "drift", "amended", "error"},
                     seen: SUBSET Published]
    BY <1>5, <2>1 DEF CheckHistory, Reported
  <2> QED
    BY <1>5, <2>1, <2>2, ReadTypeOK DEF CheckHistory
<1>6. CASE UNCHANGED vars
  <2>1. Published' = Published /\ InText' = InText
    BY <1>6 DEF vars, Published, InText
  <2> QED
    BY <1>6, <2>1 DEF vars, TypeOK
<1> QED
  BY <1>1, <1>2, <1>3, <1>4, <1>5, <1>6,
     PublishTypeOK, MergeTypeOK, ClockTypeOK, PinTypeOK DEF Next

(***************************************************************************)
(* The laws, the pins, the call and the report stay what they were.        *)
(***************************************************************************)
LEMMA NextLaws == TypeOK /\ LawsAreDated /\ [Next]_vars => LawsAreDated'
<1> SUFFICES ASSUME TypeOK, LawsAreDated, [Next]_vars PROVE LawsAreDated'
  OBVIOUS
<1>1. Grows
  BY NextGrows
<1>2. TypeOK'
  BY NextTypeOK
<1>3. ASSUME NEW l \in Laws, NEW d \in Days, NEW w \in Whats, Publish(l, d, w)
      PROVE  LawsAreDated'
  <2>1. /\ today' = today /\ 0 < d /\ d <= today
        /\ law' = [law EXCEPT ![l] = [date |-> d, what |-> w, since |-> today]]
    BY <1>3 DEF Publish
  <2>2. law'[l].date <= law'[l].since /\ law'[l].since <= today'
    BY <2>1, Typing DEF TypeOK, Days
  <2>3. \A k \in Laws : k # l => law'[k] = law[k]
    BY <2>1 DEF TypeOK
  <2> QED
    BY <2>1, <2>2, <2>3 DEF LawsAreDated, Published
<1>4. ASSUME UNCHANGED law PROVE LawsAreDated'
  <2>1. today \in Days /\ today' \in Days /\ today <= today'
    BY <1>1, <1>2 DEF TypeOK, Grows
  <2>2. ASSUME NEW l \in Published
        PROVE  law[l].date <= law[l].since /\ law[l].since <= today'
    BY <2>1, <2>2, Typing DEF LawsAreDated, Days
  <2> QED
    BY <1>4, <2>2 DEF LawsAreDated, Published
<1> QED
  BY <1>3, <1>4 DEF Next, vars, Restate, Tick, ReadDate, Pin, GiveUp,
     MergeByHand, CheckText, CheckHistory

LEMMA OldPinsStayHonest ==
  ASSUME TypeOK, TypeOK', Grows, NEW i \in DOMAIN pins, HonestPin(i)
  PROVE  HonestPin(i)'
<1>1. /\ pins'[i].version = pins[i].version
      /\ pins'[i].text = pins[i].text
      /\ pins'[i].drift = pins[i].drift
      /\ kind' = kind
  BY DEF Grows
<1>2. pins[i].version \in Days /\ pins[i].text \in SUBSET InText
  BY DEF TypeOK
<1>3. today \in Days /\ today' \in Days /\ today <= today'
  BY DEF TypeOK, Grows
<1>4. pins'[i].version <= today'
  BY <1>1, <1>2, <1>3 DEF HonestPin, Days
<1>5. ASSUME NEW l \in InText', law'[l].since < pins[i].version
      PROVE  l \in pins[i].text
  <2>1. l \in InText
    <3> SUFFICES ASSUME l \notin InText PROVE FALSE
      OBVIOUS
    <3>1. law'[l].since = today
      BY <1>5, TextGrows
    <3>2. pins[i].version <= today
      BY DEF HonestPin
    <3> QED
      BY <1>2, <1>3, <1>5, <3>1, <3>2 DEF Days
  <2>2. law'[l] = law[l]
    BY <2>1, Typing DEF Grows
  <2> QED
    BY <1>5, <2>1, <2>2 DEF HonestPin
<1>6. pins[i].text \in SUBSET Published /\ \A l \in pins[i].text : law'[l] = law[l]
  BY <1>2, Typing DEF Grows
<1>7. Credit(pins[i].text)' = Credit(pins[i].text)
  <2>1. \A S \in SUBSET Published :
          {0} \cup {law'[l].date : l \in {k \in S : law'[k].what = "amends"}} = Credit(S)
    BY TextGrows DEF Credit
  <2> QED
    BY <1>1, <1>6, <2>1 DEF Credit
<1>8. kind' = "ecfr" =>
        /\ pins'[i].drift = pins'[i].text
        /\ \A l \in pins'[i].text : law'[l].date <= pins'[i].version
  BY <1>1, <1>6 DEF HonestPin
<1>9. kind' = "uscode" => pins'[i].drift = Latest(Credit(pins[i].text)')
  BY <1>1, <1>7 DEF HonestPin
<1> QED
  BY <1>1, <1>4, <1>5, <1>8, <1>9 DEF HonestPin

LEMMA NewPinIsHonest ==
  ASSUME TypeOK, LawsAreDated, CallIsHonest,
         NEW i \in Ids, NEW sup \in Ids \cup {None}, Pin(i, sup)
  PROVE  HonestPin(i)'
<1> DEFINE p == NewPin(call.as_of, sup)
<1>1. /\ UNCHANGED <<kind, today, stated, law>>
      /\ call # None /\ call.op = "add"
      /\ pins'[i] = p
  BY DEF Pin, Registry!With
<1>2. call.as_of \in Days
  BY <1>1, CallIsACall
<1>3. call.as_of <= today
  BY <1>1 DEF Pin, CallIsHonest, TypeOK
<1>4. /\ p.version = call.as_of
      /\ p.text = ServedText(call.as_of)
      /\ p.drift = DriftValue(ServedText(call.as_of))
  BY DEF NewPin
<1>5. Published' = Published /\ InText' = InText
  BY <1>1 DEF Published, InText
<1>6. ASSUME NEW l \in InText, law[l].since < call.as_of
      PROVE  l \in ServedText(call.as_of)
  <2>1. l \in Published
    BY Typing
  <2>2. law[l].date <= law[l].since
    BY <2>1 DEF LawsAreDated
  <2>3. law[l].date <= call.as_of
    BY <1>2, <1>6, <2>1, <2>2, Typing DEF Days
  <2> QED
    BY <2>3 DEF ServedText
<1>7. kind = "ecfr" => /\ p.drift = p.text
                       /\ \A l \in p.text : law[l].date <= p.version
  BY <1>4 DEF DriftValue, ServedText
<1>8. kind = "uscode" => p.drift = Latest(Credit(p.text))
  BY <1>4 DEF DriftValue, ServedText, LastAmended, Credit
<1>9. kind = "uscode" => pins'[i].drift = Latest(Credit(pins[i].text)')
  BY <1>1, <1>8 DEF Credit
<1> QED
  BY <1>1, <1>3, <1>4, <1>5, <1>6, <1>7, <1>9 DEF HonestPin

LEMMA NextPins ==
  TypeOK /\ LawsAreDated /\ PinsAreHonest /\ CallIsHonest /\ [Next]_vars
    => PinsAreHonest'
<1> SUFFICES ASSUME TypeOK, LawsAreDated, PinsAreHonest, CallIsHonest, [Next]_vars,
                    NEW i \in DOMAIN pins'
             PROVE  HonestPin(i)'
  BY DEF PinsAreHonest
<1>1. Grows /\ TypeOK'
  BY NextGrows, NextTypeOK
<1>2. CASE i \in DOMAIN pins
  BY <1>1, <1>2, OldPinsStayHonest DEF PinsAreHonest
<1>3. CASE i \notin DOMAIN pins
  <2>1. ASSUME NEW j \in Ids, NEW sup \in Ids \cup {None}, Pin(j, sup)
        PROVE  i = j
    BY <1>3, <2>1 DEF Pin, Registry!With
  <2>2. ASSUME DOMAIN pins' = DOMAIN pins PROVE FALSE
    BY <1>3, <2>2
  <2>3. ASSUME NEW j \in Ids, NEW m \in Ids, MergeByHand(j, m)
        PROVE  DOMAIN pins' = DOMAIN pins
    BY <2>3 DEF MergeByHand
  <2>4. \E j \in Ids, sup \in Ids \cup {None} : Pin(j, sup)
    BY <2>2, <2>3 DEF Next, vars, Publish, Restate, Tick, ReadDate, GiveUp,
       CheckText, CheckHistory
  <2> QED
    BY <2>1, <2>4, NewPinIsHonest
<1> QED
  BY <1>2, <1>3

LEMMA OldCallStaysHonest ==
  ASSUME TypeOK, TypeOK', Grows, CallIsHonest, UNCHANGED call
  PROVE  CallIsHonest'
<1>1. CASE call = None
  BY <1>1 DEF CallIsHonest
<1>2. CASE call \in [op: {"add"}, as_of: Days]
  <2>1. today \in Days /\ today' \in Days /\ today <= today' /\ kind' = kind
    BY DEF TypeOK, Grows
  <2>2. call # None /\ kind = "uscode" => call.as_of <= today'
    BY <1>2, <2>1 DEF CallIsHonest, Days
  <2>3. call'.op = "add" /\ call' = call
    BY <1>2
  <2> QED
    BY <2>1, <2>2, <2>3 DEF CallIsHonest
<1>3. CASE call # None /\ call \in [op: {"check"}, pin: DOMAIN pins, seen: SUBSET Published]
  <2>1. /\ kind' = kind /\ kind = "ecfr"
        /\ pins'[call.pin].version = pins[call.pin].version
        /\ pins'[call.pin].text = pins[call.pin].text
    BY <1>3 DEF CallIsHonest, Grows
  <2>2. ASSUME NEW l \in call.seen \cap InText', law'[l].date <= pins[call.pin].version
        PROVE  l \in pins[call.pin].text
    <3>1. l \in Published /\ l \in InText /\ law'[l] = law[l]
      BY <1>3, <2>2, TextGrows DEF Grows
    <3> QED
      BY <1>3, <2>2, <3>1 DEF CallIsHonest
  <2>3. call'.op = "check" /\ call' = call
    BY <1>3
  <2> QED
    BY <2>1, <2>2, <2>3 DEF CallIsHonest
<1> QED
  BY <1>1, <1>2, <1>3 DEF TypeOK

LEMMA NextCall == TypeOK /\ PinsAreHonest /\ CallIsHonest /\ [Next]_vars => CallIsHonest'
<1> SUFFICES ASSUME TypeOK, PinsAreHonest, CallIsHonest, [Next]_vars
             PROVE  CallIsHonest'
  OBVIOUS
<1>1. Grows /\ TypeOK'
  BY NextGrows, NextTypeOK
<1>2. ASSUME UNCHANGED call PROVE CallIsHonest'
  BY <1>1, <1>2, OldCallStaysHonest
<1>3. ASSUME call' = None PROVE CallIsHonest'
  BY <1>3 DEF CallIsHonest
<1>4. ASSUME NEW d \in Days, ReadDate(d) PROVE CallIsHonest'
  <2>1. /\ call' = [op |-> "add", as_of |-> d]
        /\ UNCHANGED <<kind, today>>
        /\ kind = "uscode" => d = stated
    BY <1>4 DEF ReadDate, PointInTime
  <2>2. kind = "uscode" => d <= today
    BY <2>1, Typing
  <2> QED
    BY <2>1, <2>2 DEF CallIsHonest
<1>5. ASSUME NEW i \in Ids, CheckText(i) PROVE CallIsHonest'
  <2>1. UNCHANGED <<kind, today, law, pins>> /\ i \in DOMAIN pins
    BY <1>5 DEF CheckText, Registry!LiveSources
  <2>2. CASE UNCHANGED call
    BY <1>2, <2>2
  <2>3. CASE ~UNCHANGED call
    <3>1. /\ kind = "ecfr"
          /\ DriftValue(ServedText(pins[i].version)) = pins[i].drift
          /\ call' = [op |-> "check", pin |-> i, seen |-> Published]
      BY <1>5, <2>3 DEF CheckText, TypeOK
    <3>2. ServedText(pins[i].version) = pins[i].text
      BY <2>1, <3>1 DEF DriftValue, PinsAreHonest, HonestPin
    <3>3. \A l \in InText : law[l].date <= pins[i].version => l \in pins[i].text
      BY <3>1, <3>2 DEF ServedText
    <3>4. InText' = InText
      BY <2>1 DEF InText, Published
    <3> QED
      BY <2>1, <3>1, <3>3, <3>4 DEF CallIsHonest
  <2> QED
    BY <2>2, <2>3
<1> QED
  BY <1>2, <1>3, <1>4, <1>5 DEF Next, vars, Publish, Restate, Tick, Pin, GiveUp,
     MergeByHand, CheckHistory

\* A report given stays true.
LEMMA OldReportStays ==
  ASSUME TypeOK, TypeOK', Grows, UNCHANGED report \/ report' = None
  PROVE  /\ UnchangedMeansUnamended => UnchangedMeansUnamended'
         /\ AlarmsAreReal => AlarmsAreReal'
<1>1. CASE report' = None
  BY <1>1 DEF UnchangedMeansUnamended, AlarmsAreReal
<1>2. CASE report # None /\ UNCHANGED report
  <2>1. report.pin \in DOMAIN pins /\ report.seen \in SUBSET Published
    BY <1>2 DEF TypeOK
  <2>2. /\ kind' = kind
        /\ pins'[report.pin].text = pins[report.pin].text
        /\ pins'[report.pin].drift = pins[report.pin].drift
    BY <2>1 DEF Grows
  <2>3. \A l \in report.seen \cap InText' : l \in InText /\ law'[l] = law[l]
    BY <2>1, TextGrows DEF Grows
  <2>4. \A l \in InText \ pins[report.pin].text : l \in InText' /\ law'[l] = law[l]
    BY TextGrows, Typing DEF Grows
  <2>5. UnchangedMeansUnamended => UnchangedMeansUnamended'
    BY <1>2, <2>2, <2>3 DEF UnchangedMeansUnamended
  <2>6. AlarmsAreReal => AlarmsAreReal'
    BY <1>2, <2>2, <2>4 DEF AlarmsAreReal
  <2> QED
    BY <2>5, <2>6
<1> QED
  BY <1>1, <1>2

(***************************************************************************)
(* What a check reports.                                                   *)
(***************************************************************************)
LEMMA CreditsAreDays ==
  ASSUME TypeOK, NEW S \in SUBSET Published
  PROVE  /\ \A d \in Credit(S) : d <= Latest(Credit(S))
         /\ \A d \in History(S) : d <= Latest(History(S))
         /\ Latest(History(S)) \in History(S)
         /\ History(S) \subseteq Days
<1>1. Credit(S) \subseteq Days /\ Credit(S) # {}
  BY Typing DEF Credit
<1>2. History(S) \subseteq Days /\ History(S) # {}
  BY Typing DEF History
<1> QED
  BY <1>1, <1>2, LatestIsGreatest

LEMMA DriftIsReal ==
  ASSUME TypeOK, PinsAreHonest, NEW i \in DOMAIN pins,
         DriftValue(ServedText(pins[i].version)) # pins[i].drift
  PROVE  \E l \in InText \ pins[i].text : kind = "uscode" => law[l].what \in Amending
<1>1. HonestPin(i) /\ pins[i].text \in SUBSET InText
  BY DEF PinsAreHonest, TypeOK
<1>2. CASE kind = "ecfr"
  <2>1. ServedText(pins[i].version) # pins[i].text
    BY <1>1, <1>2 DEF DriftValue, HonestPin
  <2>2. pins[i].text \subseteq ServedText(pins[i].version)
    BY <1>1, <1>2 DEF ServedText, HonestPin
  <2>3. PICK l \in ServedText(pins[i].version) : l \notin pins[i].text
    BY <2>1, <2>2
  <2> QED
    BY <1>2, <2>3 DEF ServedText
<1>3. CASE kind = "uscode"
  <2> SUFFICES ASSUME \A l \in InText : law[l].what \in Amending => l \in pins[i].text
               PROVE  FALSE
    BY <1>3
  <2>1. Credit(InText) = Credit(pins[i].text)
    BY <1>1 DEF Credit, Amending
  <2>2. LastAmended = Latest(Credit(InText))
    BY DEF LastAmended, Credit
  <2> QED
    BY <1>1, <1>3, <2>1, <2>2 DEF DriftValue, HonestPin
<1> QED
  BY <1>2, <1>3 DEF TypeOK

LEMMA AmendmentIsReal ==
  ASSUME TypeOK, PinsAreHonest, NEW i \in DOMAIN pins, kind = "ecfr",
         AmendedSince(pins[i].version)
  PROVE  \E l \in InText \ pins[i].text : law[l].what \in Amending
<1>1. pins[i].version \in Days /\ InText \in SUBSET Published
  BY Typing DEF TypeOK
<1>2. LatestAmendment = Latest(History(InText))
  BY DEF LatestAmendment, History
<1>3. LatestAmendment \in History(InText) /\ LatestAmendment > 0
  <2>1. Latest(History(InText)) \in History(InText) /\ Latest(History(InText)) \in Days
    BY <1>1, CreditsAreDays
  <2> QED
    BY <1>1, <1>2, <2>1 DEF AmendedSince, Days
<1>4. PICK l \in InText : law[l].what \in Amending /\ law[l].date = LatestAmendment
  BY <1>3 DEF History
<1>5. ~ (law[l].date <= pins[i].version)
  BY <1>1, <1>4, Typing DEF AmendedSince, Days
<1> QED
  BY <1>4, <1>5 DEF PinsAreHonest, HonestPin

\* The history names every amendment, a readable credit those it has a date
\* for.
LEMMA NoAmendmentIsMissed ==
  ASSUME TypeOK, NEW l \in InText, law[l].what \in Amending
  PROVE  /\ law[l].date <= LatestAmendment
         /\ CreditIsReadable =>
              law[l].date <= LastAmended \/ law[l].what = "amends_unseen"
<1>1. InText \in SUBSET Published /\ law[l].date \in History(InText)
  BY Typing DEF History
<1>2. law[l].date <= LatestAmendment
  <2>1. LatestAmendment = Latest(History(InText))
    BY DEF LatestAmendment, History
  <2> QED
    BY <1>1, <2>1, CreditsAreDays
<1>3. CASE law[l].what = "amends"
  <2>1. law[l].date \in Credit(InText)
    BY <1>3 DEF Credit
  <2>2. LastAmended = Latest(Credit(InText))
    BY DEF LastAmended, Credit
  <2> QED
    BY <1>1, <1>2, <2>1, <2>2, CreditsAreDays
<1>4. CASE law[l].what # "amends"
  BY <1>2, <1>4 DEF CreditIsReadable, Amending
<1> QED
  BY <1>3, <1>4

LEMMA CheckTextReports ==
  ASSUME TypeOK, PinsAreHonest, NEW i \in Ids, CheckText(i)
  PROVE  UnchangedMeansUnamended' /\ AlarmsAreReal'
<1>1. UNCHANGED <<kind, law, pins>> /\ i \in DOMAIN pins
  BY DEF CheckText, Registry!LiveSources
<1>2. InText' = InText
  BY <1>1 DEF InText, Published
<1>3. CASE report' = None
  BY <1>3 DEF UnchangedMeansUnamended, AlarmsAreReal
<1>4. CASE report' # None /\ report'.status = "error"
  BY <1>4 DEF UnchangedMeansUnamended, AlarmsAreReal
<1>5. CASE report' # None /\ report'.status = "drift"
  <2>1. /\ report'.pin = i
        /\ DriftValue(ServedText(pins[i].version)) # pins[i].drift
    BY <1>5 DEF CheckText, Reported
  <2>2. PICK l \in InText \ pins[i].text : kind = "uscode" => law[l].what \in Amending
    BY <1>1, <2>1, DriftIsReal
  <2> QED
    BY <1>1, <1>2, <1>5, <2>1, <2>2 DEF UnchangedMeansUnamended, AlarmsAreReal
<1>6. CASE report' # None /\ report'.status = "ok"
  <2>1. /\ report'.pin = i /\ kind = "uscode"
        /\ CreditIsReadable
        /\ DriftValue(ServedText(pins[i].version)) = pins[i].drift
    BY <1>6 DEF CheckText, Reported
  <2>2. pins[i].drift = LastAmended
    BY <2>1 DEF DriftValue
  <2>3. \A l \in InText : law[l].what \in Amending =>
          law[l].date <= pins[i].drift \/ law[l].what = "amends_unseen"
    BY <2>1, <2>2, NoAmendmentIsMissed
  <2> QED
    BY <1>1, <1>2, <1>6, <2>1, <2>3 DEF UnchangedMeansUnamended, AlarmsAreReal
<1> QED
  BY <1>3, <1>4, <1>5, <1>6 DEF CheckText, Reported

LEMMA CheckHistoryReports ==
  ASSUME TypeOK, PinsAreHonest, CallIsHonest, CheckHistory
  PROVE  UnchangedMeansUnamended' /\ AlarmsAreReal'
<1> DEFINE i == call.pin
<1>1. /\ UNCHANGED <<kind, law, pins>>
      /\ call # None /\ call.op = "check"
      /\ i \in DOMAIN pins /\ call.seen \in SUBSET Published
  BY CallIsACall DEF CheckHistory
<1>2. InText' = InText /\ kind = "ecfr"
  BY <1>1 DEF InText, Published, CallIsHonest
<1>3. /\ report'.pin = i /\ report'.seen = call.seen
      /\ report'.status = IF AmendedSince(pins[i].version) THEN "amended" ELSE "ok"
  BY DEF CheckHistory, Reported
<1>4. CASE AmendedSince(pins[i].version)
  <2>1. PICK l \in InText \ pins[i].text : law[l].what \in Amending
    BY <1>1, <1>2, <1>4, AmendmentIsReal
  <2> QED
    BY <1>1, <1>2, <1>3, <1>4, <2>1 DEF UnchangedMeansUnamended, AlarmsAreReal
<1>5. CASE ~AmendedSince(pins[i].version)
  <2>1. pins[i].version \in Days /\ InText \in SUBSET Published
    BY <1>1, Typing DEF TypeOK
  <2>2. LatestAmendment \in Days
    <3>1. LatestAmendment = Latest(History(InText))
      BY DEF LatestAmendment, History
    <3> QED
      BY <2>1, <3>1, CreditsAreDays
  <2>3. LatestAmendment <= pins[i].version
    BY <1>5, <2>1, <2>2 DEF AmendedSince, Days
  <2>4. ASSUME NEW l \in call.seen \cap InText, law[l].what \in Amending
        PROVE  l \in pins[i].text
    <3>1. law[l].date <= LatestAmendment /\ law[l].date \in Days
      BY <2>1, <2>4, NoAmendmentIsMissed, Typing
    <3>2. law[l].date <= pins[i].version
      BY <2>1, <2>2, <2>3, <3>1 DEF Days
    <3> QED
      BY <1>1, <2>4, <3>2 DEF CallIsHonest
  <2> QED
    BY <1>1, <1>2, <1>3, <1>5, <2>4 DEF UnchangedMeansUnamended, AlarmsAreReal
<1> QED
  BY <1>4, <1>5

LEMMA NextReport ==
  IInv /\ [Next]_vars => UnchangedMeansUnamended' /\ AlarmsAreReal'
<1> SUFFICES ASSUME IInv, [Next]_vars
             PROVE  UnchangedMeansUnamended' /\ AlarmsAreReal'
  OBVIOUS
<1>1. /\ TypeOK /\ PinsAreHonest /\ CallIsHonest
      /\ UnchangedMeansUnamended /\ AlarmsAreReal
  BY DEF IInv
<1>2. Grows /\ TypeOK'
  BY <1>1, NextGrows, NextTypeOK
<1>3. ASSUME UNCHANGED report \/ report' = None
      PROVE  UnchangedMeansUnamended' /\ AlarmsAreReal'
  BY <1>1, <1>2, <1>3, OldReportStays
<1>4. ASSUME NEW i \in Ids, CheckText(i)
      PROVE  UnchangedMeansUnamended' /\ AlarmsAreReal'
  BY <1>1, <1>4, CheckTextReports
<1>5. CASE CheckHistory
  BY <1>1, <1>5, CheckHistoryReports
<1> QED
  BY <1>3, <1>4, <1>5 DEF Next, vars, Publish, Restate, Tick, ReadDate, Pin,
     GiveUp, MergeByHand

\* The laws are dated, the pins hold what they say they hold, and what has
\* been reported is true.
LEMMA Invariance == Spec => []IInv
<1>1. IInv /\ [Next]_vars => IInv'
  <2> SUFFICES ASSUME IInv, [Next]_vars PROVE IInv'
    OBVIOUS
  <2>1. TypeOK /\ LawsAreDated /\ PinsAreHonest /\ CallIsHonest
    BY DEF IInv
  <2> QED
    BY <2>1, NextTypeOK, NextLaws, NextPins, NextCall, NextReport DEF IInv
<1> QED
  BY InitIInv, <1>1, PTL DEF Spec

\* For any laws, days and number of pins, every variable keeps its type, a
\* pin's text is of laws the publisher has in its text, and links lead to pins.
THEOREM TypeCorrect == Spec => []TypeOK
<1>1. IInv => TypeOK
  BY DEF IInv
<1> QED
  BY <1>1, Invariance, PTL

\* Whatever the publisher does between a check's two reads, a check that
\* reports no change has missed no amendment published when it began, but for
\* two at the U.S. Code site: a backdated one, and one whose date in the credit
\* is of a month form the parser neither knows nor takes for a date.
THEOREM UnchangedIsUnamended == Spec => []UnchangedMeansUnamended
<1>1. IInv => UnchangedMeansUnamended
  BY DEF IInv
<1> QED
  BY <1>1, Invariance, PTL

\* For any history of the publisher, what is reported as drift or as an
\* amendment is a law the pin's text lacks.
THEOREM AlarmsHaveCauses == Spec => []AlarmsAreReal
<1>1. IInv => AlarmsAreReal
  BY DEF IInv
<1> QED
  BY <1>1, Invariance, PTL

(***************************************************************************)
(* resolve_source.                                                         *)
(***************************************************************************)
\* With pins of days, the pin resolved is a candidate no other candidate
\* ranks above, and there is none only when there is no candidate.
LEMMA ResolvedIsGreatest ==
  ASSUME NEW s, DOMAIN s \subseteq Ids,
         \A i \in DOMAIN s : s[i].version \in Days,
         NEW d
  PROVE  /\ ResolveSource(s, d) = None <=> Candidates(s, d) = {}
         /\ Candidates(s, d) # {} =>
              /\ ResolveSource(s, d) \in Candidates(s, d)
              /\ \A j \in Candidates(s, d) :
                   LET i == ResolveSource(s, d)
                   IN \/ s[j].version < s[i].version
                      \/ s[j].version = s[i].version /\ j <= i
<1>1. Candidates(s, d) \subseteq DOMAIN s
  BY DEF Candidates
<1>2. CASE Candidates(s, d) = {}
  BY <1>2 DEF ResolveSource
<1>3. CASE Candidates(s, d) # {}
  <2> DEFINE V == {s[i].version : i \in Candidates(s, d)}
  <2>1. V \subseteq 0 .. MaxDay /\ V # {}
    BY <1>1, <1>3 DEF Days
  <2>2. PICK v \in V : \A w \in V : w <= v
    <3> HIDE DEF V
    <3> QED
      BY <2>1, GreatestExists, EditionsAssumption
  <2> DEFINE B == {i \in Candidates(s, d) : s[i].version = v}
  <2>3. B \subseteq 0 .. MaxPins /\ B # {}
    BY <1>1, EditionsAssumption DEF Ids
  <2>4. PICK i \in B : \A j \in B : j <= i
    <3> HIDE DEF B
    <3> QED
      BY <2>3, GreatestExists, EditionsAssumption
  <2>5. ASSUME NEW j \in Candidates(s, d)
        PROVE  \/ s[j].version < s[i].version
               \/ s[j].version = s[i].version /\ j <= i
    <3>1. s[j].version \in Days /\ s[i].version \in Days
      BY <1>1
    <3>2. s[j].version <= s[i].version
      BY <2>2, <2>4
    <3> QED
      BY <2>4, <3>1, <3>2 DEF Days
  <2>6. /\ ResolveSource(s, d) \in Candidates(s, d)
        /\ \A j \in Candidates(s, d) :
             \/ s[j].version < s[ResolveSource(s, d)].version
             \/ s[j].version = s[ResolveSource(s, d)].version /\ j <= ResolveSource(s, d)
    <3>1. \E m \in Candidates(s, d) : \A j \in Candidates(s, d) :
            \/ s[j].version < s[m].version
            \/ s[j].version = s[m].version /\ j <= m
      BY <2>4, <2>5
    <3> QED
      BY <1>3, <3>1 DEF ResolveSource
  <2>7. ResolveSource(s, d) # None
    BY <1>1, <2>6, EditionsAssumption DEF Ids
  <2> QED
    BY <1>3, <2>6, <2>7
<1> QED
  BY <1>2, <1>3

LEMMA PinsResolve ==
  ASSUME TypeOK
  PROVE  /\ DOMAIN pins \subseteq Ids
         /\ \A i \in DOMAIN pins : pins[i].version \in Days
BY DEF TypeOK

\* For any history of the publisher and of the pins, an answer as of a date
\* holds what had been published before the date it bears, and from eCFR
\* nothing later than the date asked for.
THEOREM AnswersKeepTheirDate == Spec => []AnswersAreOfTheirDate
<1>1. ASSUME IInv, NEW d \in Days, ResolveSource(pins, d) # None
      PROVE  LET i == ResolveSource(pins, d)
             IN /\ \A l \in InText : law[l].since < pins[i].version => l \in pins[i].text
                /\ kind = "ecfr" => \A l \in pins[i].text : law[l].date <= d
  <2> DEFINE i == ResolveSource(pins, d)
  <2>1. TypeOK /\ PinsAreHonest
    BY <1>1 DEF IInv
  <2>2. i \in Candidates(pins, d)
    BY <1>1, <2>1, PinsResolve, ResolvedIsGreatest
  <2>3. i \in DOMAIN pins /\ pins[i].version <= d
    BY <2>1, <2>2, Typing DEF Candidates
  <2>4. HonestPin(i) /\ pins[i].version \in Days /\ pins[i].text \in SUBSET Published
    BY <2>1, <2>3, Typing DEF PinsAreHonest, TypeOK
  <2>5. ASSUME kind = "ecfr", NEW l \in pins[i].text PROVE law[l].date <= d
    <3>1. law[l].date \in Days /\ law[l].date <= pins[i].version
      BY <2>1, <2>4, <2>5, Typing DEF HonestPin
    <3> QED
      BY <2>3, <2>4, <3>1 DEF Days
  <2> QED
    BY <2>4, <2>5 DEF HonestPin
<1>2. IInv => AnswersAreOfTheirDate
  BY <1>1 DEF AnswersAreOfTheirDate
<1> QED
  BY <1>2, Invariance, PTL

\* However many pins are added, superseded and merged: while each supersedes
\* an older one and is merged into a newer one, the pin a citation resolves to
\* is checked for drift.  The newest pin is never merged away, so no pin older
\* than another can be the one resolved.
THEOREM CurrentIsChecked == Spec => []CurrentIsWatched
<1>1. ASSUME IInv, Orderly(pins), DOMAIN pins # {}
      PROVE  ResolveSource(pins, None) \in Registry!LiveSources(pins)
  <2> DEFINE i == ResolveSource(pins, None)
  <2>1. TypeOK
    BY <1>1 DEF IInv
  <2>2. /\ DOMAIN pins \subseteq Ids
        /\ \A k \in DOMAIN pins :
             /\ pins[k].version \in Days
             /\ pins[k].supersedes \in DOMAIN pins \cup {None}
             /\ pins[k].merged_into \in DOMAIN pins \cup {None}
    BY <2>1 DEF TypeOK
  <2>3. PICK m \in DOMAIN pins : \A k \in DOMAIN pins : pins[k].version <= pins[m].version
    <3>1. {pins[k].version : k \in DOMAIN pins} \subseteq 0 .. MaxDay
      BY <2>2 DEF Days
    <3>2. {pins[k].version : k \in DOMAIN pins} # {}
      BY <1>1
    <3>3. PICK v \in {pins[k].version : k \in DOMAIN pins} :
            \A w \in {pins[k].version : k \in DOMAIN pins} : w <= v
      BY <3>1, <3>2, GreatestExists, EditionsAssumption
    <3> QED
      BY <3>3
  <2>4. pins[m].merged_into = None
    <3> SUFFICES ASSUME pins[m].merged_into # None PROVE FALSE
      OBVIOUS
    <3>1. pins[m].merged_into \in DOMAIN pins
      BY <2>2
    <3>2. pins[pins[m].merged_into].version > pins[m].version
      BY <1>1 DEF Orderly
    <3>3. pins[pins[m].merged_into].version <= pins[m].version
      BY <2>3, <3>1
    <3> QED
      BY <2>2, <3>1, <3>2, <3>3 DEF Days
  <2>5. m \in Candidates(pins, None)
    BY <2>4 DEF Candidates
  <2>6. /\ i \in Candidates(pins, None)
        /\ \/ pins[m].version < pins[i].version
           \/ pins[m].version = pins[i].version /\ m <= i
    BY <2>2, <2>5, ResolvedIsGreatest
  <2>7. i \in DOMAIN pins /\ pins[i].merged_into = None
    BY <2>6 DEF Candidates
  <2>8. ASSUME NEW j \in DOMAIN pins, pins[j].supersedes = i PROVE FALSE
    <3>1. i # None
      BY <2>2, <2>7, EditionsAssumption DEF Ids
    <3>2. pins[i].version < pins[j].version
      BY <1>1, <2>8, <3>1 DEF Orderly
    <3>3. pins[j].version <= pins[m].version
      BY <2>3
    <3> QED
      BY <2>2, <2>6, <2>7, <3>2, <3>3 DEF Days
  <2> QED
    BY <2>7, <2>8 DEF Registry!LiveSources, Registry!SupersededIds
<1>2. IInv => CurrentIsWatched
  BY <1>1 DEF CurrentIsWatched
<1> QED
  BY <1>2, Invariance, PTL

(***************************************************************************)
(* The history.                                                            *)
(***************************************************************************)
\* Of registers that agree on the old pins, the one with a new pin answers
\* with the same pin or with the new one, which is as late.
LEMMA AddedPinAnswers ==
  ASSUME NEW s, NEW t, NEW new \in Ids, NEW d \in Days,
         DOMAIN s \subseteq Ids, new \notin DOMAIN s,
         DOMAIN t = DOMAIN s \cup {new},
         \A i \in DOMAIN s : t[i] = s[i],
         \A i \in DOMAIN t : t[i].version \in Days,
         ResolveSource(s, d) # None
  PROVE  LET i == ResolveSource(s, d)
             j == ResolveSource(t, d)
         IN \/ j = i
            \/ j = new /\ t[j].version >= s[i].version
<1> DEFINE i == ResolveSource(s, d)
           j == ResolveSource(t, d)
<1>1. /\ i \in Candidates(s, d)
      /\ \A k \in Candidates(s, d) :
           \/ s[k].version < s[i].version
           \/ s[k].version = s[i].version /\ k <= i
  BY ResolvedIsGreatest
<1>2. Candidates(s, d) \subseteq Candidates(t, d) \ {new}
  BY DEF Candidates
<1>3. /\ j \in Candidates(t, d)
      /\ \A k \in Candidates(t, d) :
           \/ t[k].version < t[j].version
           \/ t[k].version = t[j].version /\ k <= j
  BY <1>1, <1>2, ResolvedIsGreatest
<1>4. /\ i \in DOMAIN s /\ t[i] = s[i]
      /\ i \in Int /\ s[i].version \in Days
      /\ j \in DOMAIN t /\ j \in Int /\ t[j].version \in Days
  BY <1>1, <1>3 DEF Candidates, Ids
<1>5. CASE j = new
  <2>1. t[j].version >= s[i].version
    BY <1>1, <1>2, <1>3, <1>4 DEF Days
  <2> QED
    BY <1>5, <2>1
<1>6. CASE j # new
  <2>1. j \in Candidates(s, d) /\ t[j] = s[j]
    BY <1>3, <1>6 DEF Candidates
  <2> QED
    BY <1>1, <1>2, <1>3, <1>4, <2>1 DEF Days
<1> QED
  BY <1>5, <1>6

LEMMA MergeIsWritten ==
  ASSUME TypeOK, NEW i \in DOMAIN pins, NEW j,
         pins' = [pins EXCEPT ![i].merged_into = j]
  PROVE  pins'[i].merged_into = j
<1>1. pins'[i] = [pins[i] EXCEPT !.merged_into = j]
  OBVIOUS
<1>2. pins[i] \in [version: Days, citation: {"provision"},
                   drift: IF kind = "ecfr" THEN SUBSET Laws ELSE Days,
                   text: SUBSET InText, archive: {None}, cited: {FALSE},
                   supersedes: DOMAIN pins \cup {None},
                   merged_into: DOMAIN pins \cup {None}]
  BY DEF TypeOK
<1> QED
  BY <1>1, <1>2

\* Whatever is added and superseded, no date once answered loses its answer.
THEOREM HistoryIsKept == Spec => HistoryStaysReachable
<1>1. ASSUME TypeOK, TypeOK', [Next]_vars,
             \A i \in DOMAIN pins : pins'[i].merged_into = pins[i].merged_into,
             NEW d \in Days, ResolveSource(pins, d) # None
      PROVE  LET i == ResolveSource(pins, d)
                 j == ResolveSource(pins', d)
             IN \/ j = i
                \/ /\ j \in Ids \ DOMAIN pins
                   /\ pins'[j].version >= pins[i].version
  <2>1. CASE UNCHANGED pins
    BY <2>1
  <2>2. ASSUME NEW i \in Ids, NEW j \in Ids, MergeByHand(i, j) PROVE FALSE
    <3>1. /\ i \in DOMAIN pins /\ j \in DOMAIN pins
          /\ pins[i].merged_into = None
          /\ pins' = [pins EXCEPT ![i].merged_into = j]
      BY <2>2 DEF MergeByHand
    <3>2. pins'[i].merged_into = j
      BY <1>1, <3>1, MergeIsWritten
    <3> QED
      BY <1>1, <3>1, <3>2, EditionsAssumption DEF Ids
  <2>3. ASSUME NEW new \in Ids, NEW sup \in Ids \cup {None}, Pin(new, sup)
        PROVE  LET i == ResolveSource(pins, d)
                   j == ResolveSource(pins', d)
               IN \/ j = i
                  \/ /\ j \in Ids \ DOMAIN pins
                     /\ pins'[j].version >= pins[i].version
    <3>1. /\ new \notin DOMAIN pins
          /\ DOMAIN pins' = DOMAIN pins \cup {new}
          /\ \A k \in DOMAIN pins : pins'[k] = pins[k]
      BY <2>3 DEF Pin, Registry!With
    <3>2. /\ DOMAIN pins \subseteq Ids
          /\ \A k \in DOMAIN pins' : pins'[k].version \in Days
      BY <1>1 DEF TypeOK
    <3>3. LET i == ResolveSource(pins, d)
              j == ResolveSource(pins', d)
          IN \/ j = i
             \/ j = new /\ pins'[j].version >= pins[i].version
      <4>1. ResolveSource(pins, d) # None
        BY <1>1
      <4> QED
        BY <3>1, <3>2, <4>1, AddedPinAnswers
    <3> QED
      BY <3>1, <3>3
  <2> QED
    BY <1>1, <2>1, <2>2, <2>3 DEF Next, vars, Publish, Restate, Tick, ReadDate,
       GiveUp, CheckText, CheckHistory
<1> DEFINE Kept ==
      (\A i \in DOMAIN pins : pins'[i].merged_into = pins[i].merged_into) =>
        \A d \in Days :
          LET i == ResolveSource(pins, d)
              j == ResolveSource(pins', d)
          IN i # None =>
               \/ j = i
               \/ /\ j \in Ids \ DOMAIN pins
                  /\ pins'[j].version >= pins[i].version
<1>2. TypeOK /\ TypeOK' /\ [Next]_vars => Kept
  BY <1>1
<1>3. TypeOK /\ TypeOK' /\ [Next]_vars => [Kept]_vars
  BY <1>2
<1>4. Spec => [][Kept]_vars
  BY TypeCorrect, <1>3, PTL DEF Spec
<1> QED
  BY <1>4 DEF HistoryStaysReachable
=============================================================================
