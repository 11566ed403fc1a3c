----------------------------- MODULE ConsoleProofs -----------------------------
(***************************************************************************)
(* Proofs about Console, for any number of requests, calls and documents:  *)
(* the calls to the throttled host are spaced, and a pin is of what was    *)
(* shown.                                                                  *)
(***************************************************************************)
EXTENDS Console, TLAPS

\* One thread sleeps at a time, and long enough.
Paced ==
  \A r \in Requests :
    req[r].stage = "asleep" =>
      /\ lock = r
      /\ req[r].host = "throttled" => since + req[r].wait >= Interval

\* What the card offers to pin is what a click would send.
CardIsResolved ==
  card.visible /\ card.says = "document" => resolved = card.of

\* The card and the page name resolves that were answered.
ShownIsAnswered ==
  /\ card.says = "document" =>
       /\ card.of \in Requests /\ req[card.of].kind = "resolve"
       /\ req[card.of].stage = "done"
  /\ \A r \in Requests : req[r].stage = "unsent" => req[r].kind = None /\ req[r].doc = None

\* A pin carries what the card showed of the resolve it names.
PinsNameTheirResolve ==
  \A r \in Requests :
    req[r].kind = "pin" =>
      /\ req[r].of \in Requests /\ req[req[r].of].kind = "resolve"
      /\ req[req[r].of].stage = "done"
      /\ req[r].shown = req[req[r].of].doc
      /\ req[r].doc # None => req[r].doc = req[r].shown

\* A spec that is held has its document, and so has a pin under way.
HaveDocs ==
  /\ \A r \in specs : req[r].doc # None
  /\ \A r \in Requests :
       req[r].kind = "pin" /\ req[r].stage \in {"working", "asleep"} => req[r].doc # None

IInv ==
  /\ TypeOK
  /\ HaveDocs
  /\ Paced
  /\ CardIsResolved
  /\ ShownIsAnswered
  /\ PinsNameTheirResolve

LEMMA InitHolds == Init => IInv
  BY ConsoleAssumption DEF Init, IInv, TypeOK, Request, Card, NoCard, Stages, Kinds, Says,
     Paced, CardIsResolved, ShownIsAnswered, PinsNameTheirResolve, HaveDocs

(***************************************************************************)
(* The pacing wrapper.                                                     *)
(***************************************************************************)
LEMMA CallHolds ==
  ASSUME IInv, NEW r \in Requests, NEW h \in Hosts, Call(r, h)
  PROVE  IInv'
<1> USE DEF IInv
<1>1. /\ lock = None /\ lock' = r /\ since' = since /\ UNCHANGED page
      /\ req' = [req EXCEPT ![r].stage = "asleep", ![r].calls = @ + 1, ![r].host = h,
                            ![r].wait = IF h = "throttled" THEN Interval - since ELSE 0]
  BY DEF Call
<1>2. TypeOK'
  BY ConsoleAssumption DEF Call, TypeOK, Request, Stages, page
<1>3. Paced'
  BY <1>1, ConsoleAssumption DEF Paced, TypeOK, Request
<1>4. CardIsResolved' /\ ShownIsAnswered' /\ PinsNameTheirResolve' /\ HaveDocs'
  BY <1>1 DEF Call, CardIsResolved, ShownIsAnswered, PinsNameTheirResolve,
     HaveDocs, TypeOK, Request, page
<1> QED
  BY <1>2, <1>3, <1>4

LEMMA WakesHolds ==
  ASSUME IInv, NEW r \in Requests, Wakes(r)
  PROVE  IInv'
<1> USE DEF IInv
<1>1. TypeOK'
  <2>1. [req[r] EXCEPT !.stage = "working", !.host = None] \in Request
    BY DEF TypeOK, Request, Stages
  <2>2. req' \in [Requests -> Request]
    BY <2>1 DEF Wakes, TypeOK
  <2>3. since' \in 0 .. Interval
    BY ConsoleAssumption DEF Wakes, TypeOK
  <2> QED
    BY <2>2, <2>3 DEF Wakes, TypeOK, page
<1>2. Paced'
  BY ConsoleAssumption DEF Wakes, Paced, TypeOK, Request
<1>3. CardIsResolved' /\ ShownIsAnswered' /\ PinsNameTheirResolve' /\ HaveDocs'
  BY DEF Wakes, CardIsResolved, ShownIsAnswered, PinsNameTheirResolve,
     HaveDocs, TypeOK, Request, page
<1> QED
  BY <1>1, <1>2, <1>3

LEMMA TickHolds ==
  ASSUME IInv, Tick
  PROVE  IInv'
<1> USE DEF IInv
<1>1. \A r \in Requests :
        req'[r] = [req[r] EXCEPT !.wait = IF @ > 0 THEN @ - 1 ELSE 0]
  BY DEF Tick
<1>2. TypeOK'
  <2>1. ASSUME NEW r \in Requests PROVE req'[r] \in Request
    <3> DEFINE w == IF req[r].wait > 0 THEN req[r].wait - 1 ELSE 0
    <3>1. req[r] \in Request
      BY DEF TypeOK
    <3>2. req'[r] = [req[r] EXCEPT !.wait = w]
      BY <1>1, <3>1 DEF Request
    <3>3. w \in 0 .. Interval
      BY <3>1, ConsoleAssumption DEF Request
    <3> HIDE DEF w
    <3> QED
      BY <3>1, <3>2, <3>3 DEF Request
  <2>2. req' \in [Requests -> Request]
    BY <2>1 DEF Tick
  <2>3. since' \in 0 .. Interval
    BY ConsoleAssumption DEF Tick, TypeOK
  <2> QED
    BY <2>2, <2>3 DEF Tick, TypeOK, page
<1>3. Paced'
  <2> SUFFICES ASSUME NEW r \in Requests, req[r].stage = "asleep"
               PROVE  /\ lock' = r
                      /\ req[r].host = "throttled" => since' + req'[r].wait >= Interval
    BY <1>1 DEF Paced, TypeOK, Request
  <2>1. req[r].wait \in Nat /\ since \in Nat /\ Interval \in Nat
    BY ConsoleAssumption DEF TypeOK, Request
  <2>2. req'[r].wait = IF req[r].wait > 0 THEN req[r].wait - 1 ELSE 0
    BY <1>1 DEF TypeOK, Request
  <2>3. req[r].host = "throttled" => since + req[r].wait >= Interval
    BY DEF Paced
  <2> QED
    BY <2>1, <2>2, <2>3 DEF Tick, Paced
<1>4. CardIsResolved' /\ ShownIsAnswered' /\ PinsNameTheirResolve' /\ HaveDocs'
  BY <1>1 DEF Tick, CardIsResolved, ShownIsAnswered, PinsNameTheirResolve,
     HaveDocs, TypeOK, Request, page
<1> QED
  BY <1>2, <1>3, <1>4

(***************************************************************************)
(* A step of a request's thread, outside the wrapper, or of its answer.    *)
(***************************************************************************)
\* What such a step does to the record of its request: it is not asleep.
Moved(r, new) ==
  /\ req' = [req EXCEPT ![r] = new]
  /\ new \in Request
  /\ new.stage \notin {"unsent", "asleep"}
  /\ new.kind = req[r].kind /\ new.of = req[r].of /\ new.shown = req[r].shown
  /\ req[r].stage \in {"arrives", "working", "answered"}

LEMMA MovedHolds ==
  ASSUME IInv, NEW r \in Requests, NEW new, Moved(r, new),
         new.doc # req[r].doc => IF req[r].kind = "pin" THEN new.doc = req[req[r].of].doc
                                                        ELSE TRUE,
         UNCHANGED <<since, lock, page>>,
         specs' \subseteq Requests, register' \subseteq Docs, HaveDocs'
  PROVE  IInv'
<1> USE DEF IInv
<1>1. /\ req'[r] = new
      /\ \A q \in Requests : q # r => req'[q] = req[q]
  BY DEF Moved, TypeOK
<1>2. TypeOK'
  BY DEF Moved, TypeOK, page
<1>3. Paced'
  BY <1>1 DEF Moved, Paced
<1>4. CardIsResolved' /\ ShownIsAnswered'
  BY <1>1 DEF Moved, CardIsResolved, ShownIsAnswered, page
<1>5. PinsNameTheirResolve'
  <2> SUFFICES ASSUME NEW q \in Requests, req'[q].kind = "pin"
               PROVE  /\ req'[q].of \in Requests /\ req'[req'[q].of].kind = "resolve"
                      /\ req'[req'[q].of].stage = "done"
                      /\ req'[q].shown = req'[req'[q].of].doc
                      /\ req'[q].doc # None => req'[q].doc = req'[q].shown
    BY DEF PinsNameTheirResolve
  <2>1. /\ req[q].kind = "pin" /\ req'[q].of = req[q].of /\ req'[q].shown = req[q].shown
    BY <1>1 DEF Moved
  <2>2. req[q].of # r /\ req[q].of \in Requests
    BY <2>1 DEF Moved, PinsNameTheirResolve
  <2> QED
    BY <1>1, <2>1, <2>2 DEF PinsNameTheirResolve
<1> QED
  BY <1>2, <1>3, <1>4, <1>5

LEMMA ServerHolds ==
  ASSUME IInv, NEW r \in Requests,
         \/ ResolveStarts(r) \/ (\E d \in Docs : ResolveFinds(r, d)) \/ ResolveFails(r)
         \/ PinStarts(r) \/ PinWrites(r) \/ PinIsRefused(r)
  PROVE  IInv'
<1> DEFINE new == req'[r]
<1>1. req[r] \in Request /\ req \in [Requests -> Request]
  BY DEF IInv, TypeOK
<1>2. UNCHANGED <<since, lock, page>> /\ specs' \subseteq Requests
  BY DEF ResolveStarts, ResolveFinds, ResolveFails, PinStarts, PinWrites, PinIsRefused, server,
     IInv, TypeOK
<1>3. CASE ResolveStarts(r)
  <2>1. Moved(r, new) /\ new.doc = req[r].doc /\ register' \subseteq Docs /\ HaveDocs'
    BY <1>1, <1>3 DEF ResolveStarts, Moved, Request, Stages, server, IInv, TypeOK,
       HaveDocs
  <2> QED
    BY <1>2, <2>1, MovedHolds
<1>4. ASSUME NEW d \in Docs, ResolveFinds(r, d) PROVE IInv'
  <2>1. /\ req[r].kind = "resolve" /\ req[r].stage = "working"
        /\ register' = register /\ specs' = specs \cup {r}
    BY <1>4 DEF ResolveFinds
  <2>2. PICK a \in Answers :
          req' = [req EXCEPT ![r] = [Answered(r, a) EXCEPT !.doc = d]]
    BY <1>4 DEF ResolveFinds, Answers
  <2>3. new = [[req[r] EXCEPT !.stage = "answered", !.answer = a] EXCEPT !.doc = d]
    BY <1>1, <2>2 DEF Answered
  <2>4. Moved(r, new) /\ new.doc = d
    BY <1>1, <2>1, <2>2, <2>3 DEF Moved, Request, Stages, Answered
  <2>5. HaveDocs'
    BY <1>1, <2>1, <2>4, ConsoleAssumption DEF IInv, HaveDocs, Moved, TypeOK
  <2> QED
    BY <1>2, <2>1, <2>4, <2>5, MovedHolds DEF IInv, TypeOK
<1>5. CASE ResolveFails(r)
  <2>1. Moved(r, new) /\ new.doc = req[r].doc /\ register' \subseteq Docs /\ HaveDocs'
    BY <1>1, <1>5 DEF ResolveFails, Answered, Moved, Request, Stages, Answers, server, IInv,
       TypeOK, HaveDocs
  <2> QED
    BY <1>2, <2>1, MovedHolds
<1>6. CASE PinStarts(r)
  <2>1. req[r].of \in Requests /\ register \subseteq Docs /\ register' = register
    BY <1>6 DEF PinStarts, server, IInv, TypeOK, PinsNameTheirResolve
  <2>2. HaveDocs'
    BY <1>1, <1>6, <2>1 DEF PinStarts, Answered, Request, Stages, Answers, server, IInv,
       HaveDocs
  <2>3. Moved(r, new) /\ (new.doc # req[r].doc => new.doc = req[req[r].of].doc)
    BY <1>1, <1>6, <2>1 DEF PinStarts, Answered, Moved, Request, Stages, Answers
  <2> QED
    BY <1>2, <2>1, <2>2, <2>3, MovedHolds
<1>7. CASE PinWrites(r)
  <2>1. Moved(r, new) /\ new.doc = req[r].doc
    BY <1>1, <1>7 DEF PinWrites, Answered, Moved, Request, Stages, Answers
  <2>2. register' \subseteq Docs
    BY <1>1, <1>7 DEF PinWrites, IInv, TypeOK, HaveDocs, Request
  <2>3. HaveDocs'
    BY <1>1, <1>7 DEF PinWrites, Answered, Request, Stages, Answers, IInv, HaveDocs
  <2> QED
    BY <1>2, <2>1, <2>2, <2>3, MovedHolds
<1>8. CASE PinIsRefused(r)
  <2>1. Moved(r, new) /\ new.doc = req[r].doc /\ register' \subseteq Docs /\ HaveDocs'
    BY <1>1, <1>8 DEF PinIsRefused, Answered, Moved, Request, Stages, Answers, server, IInv,
       TypeOK, HaveDocs
  <2> QED
    BY <1>2, <2>1, MovedHolds
<1> QED
  BY <1>3, <1>4, <1>5, <1>6, <1>7, <1>8

(***************************************************************************)
(* The page.                                                               *)
(***************************************************************************)
\* A click sends a request.
LEMMA SendHolds ==
  ASSUME IInv, NEW r \in Requests, NEW k \in Kinds, NEW of \in Requests \cup {None},
         NEW shown \in Docs \cup {None}, Send(r, k, of, shown),
         k = "pin" => /\ of \in Requests /\ req[of].kind = "resolve"
                      /\ req[of].stage = "done" /\ shown = req[of].doc,
         resolved' \in Requests \cup {None}, card' \in Card, CardIsResolved',
         card'.says = "document" => card'.of = card.of /\ card.says = "document"
  PROVE  IInv'
<1> USE DEF IInv
<1> DEFINE new == [req[r] EXCEPT !.kind = k, !.of = of, !.shown = shown,
                                 !.stage = "arrives"]
<1>1. /\ req[r] \in Request /\ req[r].stage = "unsent" /\ req[r].kind = None
      /\ req' = [req EXCEPT ![r] = new] /\ UNCHANGED server /\ awaits' = awaits \cup {r}
  BY DEF Send, TypeOK, Request, ShownIsAnswered
<1>2. new \in Request
  BY <1>1 DEF Request, Stages
<1>3. /\ req'[r] = new /\ new.kind = k /\ new.of = of /\ new.shown = shown
      /\ new.stage = "arrives" /\ new.doc = req[r].doc
      /\ \A q \in Requests : q # r => req'[q] = req[q]
  BY <1>1 DEF TypeOK, Request
<1> HIDE DEF new
<1>4. TypeOK'
  BY <1>1, <1>2 DEF TypeOK, server
<1>5. Paced' /\ HaveDocs'
  BY <1>1, <1>3 DEF Paced, HaveDocs, server, TypeOK
<1>6. ShownIsAnswered'
  BY <1>1, <1>3, ConsoleAssumption DEF ShownIsAnswered
<1>7. \A q \in Requests : req[q].stage = "done" => q # r
  BY <1>1
<1>8. PinsNameTheirResolve'
  <2> SUFFICES ASSUME NEW q \in Requests, req'[q].kind = "pin"
               PROVE  /\ req'[q].of \in Requests /\ req'[req'[q].of].kind = "resolve"
                      /\ req'[req'[q].of].stage = "done"
                      /\ req'[q].shown = req'[req'[q].of].doc
                      /\ req'[q].doc # None => req'[q].doc = req'[q].shown
    BY DEF PinsNameTheirResolve
  <2>1. CASE q = r
    BY <1>1, <1>3, <1>7, <2>1 DEF ShownIsAnswered
  <2>2. CASE q # r
    BY <1>3, <1>7, <2>2 DEF PinsNameTheirResolve
  <2> QED
    BY <2>1, <2>2
<1> QED
  BY <1>4, <1>5, <1>6, <1>8

LEMMA ClickHolds ==
  ASSUME IInv, NEW r \in Requests, ClickResolve(r) \/ ClickPin(r)
  PROVE  IInv'
<1>1. CASE ClickResolve(r)
  BY <1>1, SendHolds DEF ClickResolve, Card, Says, Kinds, CardIsResolved
<1>2. CASE ClickPin(r)
  <2>1. /\ resolved = card.of /\ card.of \in Requests /\ card \in Card
        /\ req[card.of].kind = "resolve" /\ req[card.of].stage = "done"
        /\ req[card.of].doc \in Docs \cup {None}
    BY <1>2 DEF ClickPin, IInv, TypeOK, Request, CardIsResolved, ShownIsAnswered
  <2>2. /\ card'.of = card.of /\ card'.says = card.says /\ card'.visible = card.visible
        /\ card' \in Card /\ resolved' = resolved
    BY <1>2, <2>1 DEF ClickPin, Card
  <2>3. CardIsResolved'
    BY <2>1, <2>2 DEF CardIsResolved
  <2> QED
    BY <1>2, <2>1, <2>2, <2>3, SendHolds DEF ClickPin, Kinds
<1> QED
  BY <1>1, <1>2

\* An answer arrives, or fails to: the server is as it was.
LEMMA SettleHolds ==
  ASSUME IInv, NEW r \in Requests, Arrives(r) \/ (Settle(r) /\ req' = req /\ UNCHANGED server),
         resolved' \in Requests \cup {None}, card' \in Card, CardIsResolved',
         card'.says = "document" =>
           \/ card'.of = card.of /\ card.says = "document"
           \/ card'.of = r /\ req[r].kind = "resolve" /\ Arrives(r)
  PROVE  IInv'
<1> USE DEF IInv
<1>1. /\ UNCHANGED server /\ awaits' \subseteq Requests /\ req' \in [Requests -> Request]
      /\ Arrives(r) => req'[r].stage = "done" /\ req[r].stage = "answered"
      /\ \A q \in Requests :
           /\ req'[q].kind = req[q].kind /\ req'[q].of = req[q].of
           /\ req'[q].shown = req[q].shown /\ req'[q].doc = req[q].doc
           /\ req'[q].host = req[q].host /\ req'[q].wait = req[q].wait
           /\ req'[q].stage = req[q].stage
                \/ (req'[q].stage = "done" /\ req[q].stage = "answered")
  <2>1. CASE Arrives(r)
    <3>1. req' = [req EXCEPT ![r] = [req[r] EXCEPT !.stage = "done"]]
      BY <2>1 DEF Arrives
    <3>2. [req[r] EXCEPT !.stage = "done"] \in Request /\ req[r] \in Request
      BY DEF TypeOK, Request, Stages
    <3> QED
      BY <2>1, <3>1, <3>2 DEF Arrives, Settle, TypeOK, Request
  <2>2. CASE Settle(r) /\ req' = req /\ UNCHANGED server /\ ~Arrives(r)
    BY <2>2 DEF Settle, TypeOK
  <2> QED
    BY <2>1, <2>2
<1>2. TypeOK'
  BY <1>1 DEF TypeOK, server
<1>3. Paced' /\ HaveDocs'
  BY <1>1 DEF Paced, HaveDocs, server, TypeOK
<1>4. ShownIsAnswered'
  BY <1>1 DEF ShownIsAnswered
<1>5. PinsNameTheirResolve'
  BY <1>1 DEF PinsNameTheirResolve
<1> QED
  BY <1>2, <1>3, <1>4, <1>5

LEMMA AnswerHolds ==
  ASSUME IInv, NEW r \in Requests, ShowResolved(r) \/ ShowPinned(r) \/ Fails(r)
  PROVE  IInv'
<1>1. /\ card \in Card /\ resolved \in Requests \cup {None} /\ CardIsResolved
  BY DEF IInv, TypeOK
<1>2. ASSUME NEW says \in {"document", "already", "none"}, Draw(says, r)
      PROVE  /\ card' \in Card /\ card'.says = says /\ card'.of = r
  BY <1>1, <1>2 DEF Draw, Card, Says
<1>3. CASE ShowResolved(r)
  <2>1. CASE req[r].answer = "none"
    <3>1. Draw("none", r) /\ Arrives(r) /\ resolved' = resolved
      BY <1>3, <2>1 DEF ShowResolved
    <3> QED
      BY <1>1, <1>2, <3>1, SettleHolds DEF CardIsResolved
  <2>2. CASE req[r].answer # "none"
    <3>1. /\ Arrives(r) /\ resolved' = r /\ req[r].kind = "resolve"
          /\ Draw("document", r) \/ Draw("already", r)
      BY <1>3, <2>2 DEF ShowResolved
    <3>2. card' \in Card /\ card'.of = r
      BY <1>2, <3>1
    <3> QED
      BY <3>1, <3>2, SettleHolds DEF CardIsResolved
  <2> QED
    BY <2>1, <2>2
<1>4. ASSUME ButtonBack(r)
      PROVE  /\ card' \in Card /\ card'.says = card.says /\ card'.of = card.of
             /\ card'.visible = card.visible
  BY <1>1, <1>4 DEF ButtonBack, Card
<1>5. CASE ShowPinned(r)
  <2>1. Arrives(r)
    BY <1>5 DEF ShowPinned
  <2>2. CASE resolved' = None /\ card' = [card EXCEPT !.visible = FALSE]
    <3>1. /\ card' \in Card /\ card'.says = card.says /\ card'.of = card.of
          /\ card'.visible = FALSE
      BY <1>1, <2>2 DEF Card
    <3> QED
      BY <2>1, <2>2, <3>1, SettleHolds DEF CardIsResolved
  <2>3. CASE ButtonBack(r) /\ UNCHANGED resolved
    BY <1>1, <1>4, <2>1, <2>3, SettleHolds DEF CardIsResolved
  <2>4. CASE UNCHANGED <<card, resolved>>
    BY <1>1, <2>1, <2>4, SettleHolds DEF CardIsResolved
  <2> QED
    BY <1>5, <2>2, <2>3, <2>4 DEF ShowPinned
<1>6. CASE Fails(r)
  <2>1. Settle(r) /\ req' = req /\ UNCHANGED server /\ resolved' = resolved
    BY <1>6 DEF Fails
  <2>2. CASE Draw("none", r)
    BY <1>1, <1>2, <2>1, <2>2, SettleHolds DEF CardIsResolved
  <2>3. CASE ButtonBack(r)
    BY <1>1, <1>4, <2>1, <2>3, SettleHolds DEF CardIsResolved
  <2> QED
    BY <1>6, <2>2, <2>3 DEF Fails
<1> QED
  BY <1>3, <1>5, <1>6

LEMMA ReloadHolds ==
  ASSUME IInv, Reload
  PROVE  IInv'
  BY DEF Reload, NoCard, Card, Says, server, IInv, TypeOK, Paced, CardIsResolved,
     ShownIsAnswered, PinsNameTheirResolve, HaveDocs

LEMMA StepHolds == IInv /\ [Next]_vars => IInv'
<1> SUFFICES ASSUME IInv, [Next]_vars PROVE IInv'
  OBVIOUS
<1>1. CASE UNCHANGED vars
  BY <1>1 DEF vars, IInv, TypeOK, Paced, CardIsResolved, ShownIsAnswered,
     PinsNameTheirResolve, HaveDocs
<1>2. CASE Next
  BY <1>2, CallHolds, WakesHolds, TickHolds, ServerHolds, ClickHolds, AnswerHolds, ReloadHolds
     DEF Next
<1> QED
  BY <1>1, <1>2

THEOREM Invariance == Spec => []IInv
  BY InitHolds, StepHolds, PTL DEF Spec

\* Every variable keeps its type (Console).
THEOREM TypeCorrect == Spec => []TypeOK
<1>1. IInv => TypeOK
  BY DEF IInv
<1> QED
  BY <1>1, Invariance, PTL

\* A pin is of what the card showed when it was asked for (doPin, api_pin).
THEOREM PinsAreAsShown == Spec => []PinsWhatIsShown
<1>1. IInv => PinsWhatIsShown
  BY DEF IInv, PinsNameTheirResolve, PinsWhatIsShown
<1> QED
  BY <1>1, Invariance, PTL

\* Whatever threads call, the throttled host is called no sooner than the
\* interval after the call before (paced).
THEOREM HostIsSpared == Spec => CallsAreSpaced
<1>1. IInv => \A r \in Requests :
                Wakes(r) /\ req[r].host = "throttled" => since = Interval
  <2> SUFFICES ASSUME IInv, NEW r \in Requests, Wakes(r), req[r].host = "throttled"
               PROVE  since = Interval
    OBVIOUS
  <2>1. since + req[r].wait >= Interval /\ req[r].wait = 0
    BY DEF IInv, Paced, Wakes
  <2> QED
    BY <2>1, ConsoleAssumption DEF IInv, TypeOK
<1>2. IInv /\ [Next]_vars =>
        [\A r \in Requests : Wakes(r) /\ req[r].host = "throttled" => since = Interval]_vars
  BY <1>1
<1> QED
  BY <1>2, Invariance, PTL DEF Spec, CallsAreSpaced
=============================================================================
