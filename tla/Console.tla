------------------------------ MODULE Console -------------------------------
(***************************************************************************)
(* The pinning console of registers_crosswalk/console.py: the page, with   *)
(* its card of what would be pinned, and the server, with a thread for     *)
(* each request, the specs it holds between a resolve and a pin, and the   *)
(* lock that spaces its calls to a throttled host.                         *)
(*                                                                         *)
(* The page may have several requests under way.  Their answers come in    *)
(* any order, or never, in which case the server's thread still runs to    *)
(* its end; the page may be loaded again, which forgets them all.          *)
(***************************************************************************)
EXTENDS Integers

CONSTANTS
  N,         \* how many requests the page sends
  Docs,      \* the documents that a resolve may find
  MaxCalls,  \* how many outgoing calls of one request are followed
  Interval,  \* the seconds between two calls to the throttled host
  None

Requests == 1 .. N   \* in the order in which they are sent

Kinds == {"resolve", "pin"}

\* "asleep" is inside the pacing lock, before an outgoing call.
Stages == {"unsent", "arrives", "working", "asleep", "answered", "done"}

Answers == {"pinnable", "already", "none", "written", "refused", "error"}

Hosts == {"throttled", "other"}

Says == {"nothing", "waiting", "document", "already", "none"}

ASSUME ConsoleAssumption ==
  /\ N \in Nat /\ MaxCalls \in Nat /\ Interval \in Nat
  /\ None \notin Requests /\ None \notin Docs
  /\ None \notin Kinds \cup Answers \cup Hosts

VARIABLES
  req,       \* the requests
  specs,     \* the resolves whose PinSpec the server holds
  register,  \* the documents pinned
  since,     \* the time since the last call to the throttled host, at most Interval
  lock,      \* the request that holds the pacing lock, or None
  awaits,    \* the requests whose answer the page still waits for
  resolved,  \* the resolve that a click on Pin would pin
  card       \* what the page shows of a resolve

vars == <<req, specs, register, since, lock, awaits, resolved, card>>

Request ==
  [kind: Kinds \cup {None},
   of: Requests \cup {None},     \* the resolve a pin asks for: its resolve_id
   shown: Docs \cup {None},      \* history: what the card showed at the click
   stage: Stages,
   doc: Docs \cup {None},        \* the document resolved, or being pinned
   seen: SUBSET Docs,            \* the register that add_source loaded
   calls: 0 .. MaxCalls,
   host: Hosts \cup {None},      \* of the call under way, and what it waits
   wait: 0 .. Interval,
   answer: Answers \cup {None}]

Card == [visible: BOOLEAN, says: Says, of: Requests \cup {None}, button: BOOLEAN]

NoCard == [visible |-> FALSE, says |-> "nothing", of |-> None, button |-> FALSE]

Init ==
  /\ req = [r \in Requests |->
              [kind |-> None, of |-> None, shown |-> None, stage |-> "unsent",
               doc |-> None, seen |-> {}, calls |-> 0, host |-> None, wait |-> 0,
               answer |-> None]]
  /\ specs = {}
  /\ register \in SUBSET Docs
  /\ since = Interval
  /\ lock = None
  /\ awaits = {}
  /\ resolved = None
  /\ card = NoCard

server == <<specs, register, since, lock>>
page == <<awaits, resolved, card>>

(***************************************************************************)
(* The pacing wrapper: every outgoing call of the server goes through it.  *)
(***************************************************************************)
\* Mutant: the lock is not held while the thread sleeps.
CallUnlocked(r, h) ==
  /\ req[r].stage = "working" /\ req[r].calls < MaxCalls
  /\ req' = [req EXCEPT ![r].stage = "asleep",
                        ![r].calls = @ + 1,
                        ![r].host = h,
                        ![r].wait = IF h = "throttled" THEN Interval - since ELSE 0]
  /\ UNCHANGED <<specs, register, since, lock, page>>

Call(r, h) ==
  /\ req[r].stage = "working" /\ req[r].calls < MaxCalls
  /\ lock = None
  /\ lock' = r
  /\ req' = [req EXCEPT ![r].stage = "asleep",
                        ![r].calls = @ + 1,
                        ![r].host = h,
                        ![r].wait = IF h = "throttled" THEN Interval - since ELSE 0]
  /\ UNCHANGED <<specs, register, since, page>>

\* The sleep is over: the time is taken, the lock released and the call made.
Wakes(r) ==
  /\ req[r].stage = "asleep" /\ req[r].wait = 0
  /\ since' = IF req[r].host = "throttled" THEN 0 ELSE since
  /\ lock' = None
  /\ req' = [req EXCEPT ![r].stage = "working", ![r].host = None]
  /\ UNCHANGED <<specs, register, page>>

Tick ==
  /\ since < Interval \/ \E r \in Requests : req[r].wait > 0
  /\ since' = IF since < Interval THEN since + 1 ELSE since
  /\ req' = [r \in Requests |->
               [req[r] EXCEPT !.wait = IF @ > 0 THEN @ - 1 ELSE 0]]
  /\ UNCHANGED <<specs, register, lock, page>>

(***************************************************************************)
(* api_resolve.                                                            *)
(***************************************************************************)
Answered(r, a) == [req[r] EXCEPT !.stage = "answered", !.answer = a]

ResolveStarts(r) ==
  /\ req[r].kind = "resolve" /\ req[r].stage = "arrives"
  /\ req' = [req EXCEPT ![r].stage = "working"]
  /\ UNCHANGED <<server, page>>

\* The spec is kept whether or not its document is pinned already.
ResolveFinds(r, d) ==
  /\ req[r].kind = "resolve" /\ req[r].stage = "working"
  /\ req' = [req EXCEPT ![r] =
               [Answered(r, IF d \in register THEN "already" ELSE "pinnable")
                  EXCEPT !.doc = d]]
  /\ specs' = specs \cup {r}
  /\ UNCHANGED <<register, since, lock, page>>

\* An unverified fetcher, bad arguments, a key missing or refused, a fetch that
\* fails, or a case with no pinnable document.
ResolveFails(r) ==
  /\ req[r].kind = "resolve" /\ req[r].stage = "working"
  /\ req' = [req EXCEPT ![r] = Answered(r, "none")]
  /\ UNCHANGED <<server, page>>

(***************************************************************************)
(* api_pin.                                                                *)
(***************************************************************************)
PinStarts(p) ==
  /\ req[p].kind = "pin" /\ req[p].stage = "arrives"
  /\ req' = [req EXCEPT ![p] =
               IF req[p].of \in specs
               THEN [req[p] EXCEPT !.stage = "working",
                                   !.doc = req[req[p].of].doc,
                                   !.seen = register]
               ELSE Answered(p, "error")]
  /\ UNCHANGED <<server, page>>

\* add_source refuses a document of the register it loaded.
PinWrites(p) ==
  /\ req[p].kind = "pin" /\ req[p].stage = "working"
  /\ req[p].doc \notin req[p].seen
  /\ register' = register \cup {req[p].doc}
  /\ specs' = specs \ {req[p].of}
  /\ req' = [req EXCEPT ![p] = Answered(p, "written")]
  /\ UNCHANGED <<since, lock, page>>

PinIsRefused(p) ==
  /\ req[p].kind = "pin" /\ req[p].stage = "working"
  /\ req' = [req EXCEPT ![p] = Answered(p, "refused")]
  /\ UNCHANGED <<server, page>>

(***************************************************************************)
(* The page.                                                               *)
(***************************************************************************)
Send(r, kind, of, shown) ==
  /\ req[r].stage = "unsent"
  /\ \A q \in Requests : q < r => req[q].stage # "unsent"
  /\ req' = [req EXCEPT ![r].kind = kind, ![r].of = of, ![r].shown = shown,
                        ![r].stage = "arrives"]
  /\ awaits' = awaits \cup {r}
  /\ UNCHANGED server

\* The answer has come, or will not come any more.
Settle(r) ==
  /\ r \in awaits
  /\ awaits' = awaits \ {r}

Arrives(r) ==
  /\ req[r].stage = "answered"
  /\ Settle(r)
  /\ req' = [req EXCEPT ![r].stage = "done"]
  /\ UNCHANGED server

ClickResolve(r) ==
  /\ Send(r, "resolve", None, None)
  /\ resolved' = None
  /\ card' = [visible |-> TRUE, says |-> "waiting", of |-> r, button |-> FALSE]

Draw(says, r) == card' = [card EXCEPT !.says = says, !.of = r, !.button = says = "document"]

\* Mutant: only the answer to the last click is drawn.
ShowResolvedLatest(r) ==
  /\ req[r].kind = "resolve" /\ Arrives(r)
  /\ IF req[r].answer = "none"
     THEN Draw("none", r) /\ UNCHANGED resolved
     ELSE /\ resolved' = r
          /\ IF \E q \in Requests : q > r /\ req[q].kind = "resolve"
             THEN UNCHANGED card
             ELSE Draw(IF req[r].answer = "pinnable" THEN "document" ELSE "already", r)

ShowResolved(r) ==
  /\ req[r].kind = "resolve" /\ Arrives(r)
  /\ IF req[r].answer = "none"
     THEN Draw("none", r) /\ UNCHANGED resolved
     ELSE /\ resolved' = r
          /\ Draw(IF req[r].answer = "pinnable" THEN "document" ELSE "already", r)

ClickPin(p) ==
  /\ card.visible /\ card.says = "document" /\ card.button
  /\ resolved # None
  /\ Send(p, "pin", resolved, req[card.of].doc)
  /\ card' = [card EXCEPT !.button = FALSE]
  /\ UNCHANGED resolved

\* The button that was clicked, where the card has not been drawn again since.
ButtonBack(p) ==
  card' = IF card.says = "document" /\ card.of = req[p].of
          THEN [card EXCEPT !.button = TRUE]
          ELSE card

ShowPinned(p) ==
  /\ req[p].kind = "pin" /\ Arrives(p)
  /\ \/ /\ req[p].answer = "written"
        /\ resolved' = None
        /\ card' = [card EXCEPT !.visible = FALSE]
     \/ req[p].answer = "refused" /\ ButtonBack(p) /\ UNCHANGED resolved
     \/ req[p].answer = "error" /\ UNCHANGED <<card, resolved>>

\* The request fails on its way, or its answer on the way back.
Fails(r) ==
  /\ Settle(r)
  /\ IF req[r].kind = "resolve" THEN Draw("none", r) ELSE ButtonBack(r)
  /\ UNCHANGED <<req, server, resolved>>

Reload ==
  /\ awaits' = {} /\ resolved' = None /\ card' = NoCard
  /\ UNCHANGED <<req, server>>

Next ==
  \/ \E r \in Requests :
       \/ \E h \in Hosts : Call(r, h)
       \/ Wakes(r)
       \/ ResolveStarts(r) \/ (\E d \in Docs : ResolveFinds(r, d)) \/ ResolveFails(r)
       \/ PinStarts(r) \/ PinWrites(r) \/ PinIsRefused(r)
       \/ ClickResolve(r) \/ ShowResolved(r) \/ ClickPin(r) \/ ShowPinned(r)
       \/ Fails(r)
  \/ Tick
  \/ Reload

Spec == Init /\ [][Next]_vars

(***************************************************************************)
(* Properties.                                                             *)
(***************************************************************************)
TypeOK ==
  /\ req \in [Requests -> Request]
  /\ specs \subseteq Requests
  /\ register \subseteq Docs
  /\ since \in 0 .. Interval
  /\ lock \in Requests \cup {None}
  /\ awaits \subseteq Requests
  /\ resolved \in Requests \cup {None}
  /\ card \in Card

\* "Two browser tabs would otherwise both pass the check and fire together":
\* whichever threads call, a call to the throttled host is let go no sooner
\* than the interval after the one before (paced).
CallsAreSpaced ==
  [][\A r \in Requests :
       Wakes(r) /\ req[r].host = "throttled" => since = Interval]_vars

\* A pin is of the document that the card showed when Pin was clicked, though
\* other resolves were answered, or pinned, before and after (doPin, api_pin).
PinsWhatIsShown ==
  \A r \in Requests :
    req[r].kind = "pin" /\ req[r].doc # None => req[r].doc = req[r].shown

=============================================================================
