----------------------------- MODULE TspWaiters -----------------------------
(***************************************************************************)
(* One mediator connection carrying TSP requests and their replies         *)
(* (connectMediatorSession).  A request registers a waiter and sends; an   *)
(* inbound frame is offered to the waiters in order, each of which decides *)
(* asynchronously whether the frame answers it.  The socket delivers one   *)
(* frame at a time, but a timer or a close may change the list of waiters  *)
(* while the frame is being offered: the loop keeps only an index.         *)
(***************************************************************************)
EXTENDS Naturals, FiniteSets, SequencesExt

CONSTANTS
  Request,     \* requests made on this connection
  Push,        \* frames the executor sends unasked
  None         \* no frame, no waiter

ASSUME RequestAssumption ==
  /\ IsFiniteSet(Request)
  /\ Request \cap Push = {}
  /\ None \notin Request \cup Push

Frame == Request \cup Push  \* a reply is named after the request it answers

VARIABLES
  open,      \* the session has not been closed
  waiters,   \* tspWaiters, oldest first
  st,        \* what each request's promise has come to
  armed,     \* requests whose timer is running
  wire,      \* frames on their way to this socket
  frame,     \* the frame onTspFrame is handling
  i,         \* its loop index
  asked,     \* the waiter whose `claims` it awaits
  got,       \* the frame each request resolved with
  inbox,     \* frames no waiter claimed, given to onInboundTsp
  raced      \* history: a timer fired or close ran while a frame was offered

loop == <<frame, i, asked>>
vars == <<open, waiters, st, armed, wire, loop, got, inbox, raced>>

Init ==
  /\ open = TRUE
  /\ waiters = <<>>
  /\ st = [r \in Request |-> "new"]
  /\ armed = {}
  /\ wire = Push
  /\ frame = None /\ i = 1 /\ asked = None
  /\ got = [r \in Request |-> None]
  /\ inbox = {}
  /\ raced = FALSE

\* A promise settles once: a second resolve or reject does nothing.
Settle(r, outcome) == st' = [st EXCEPT ![r] = IF @ = "waiting" THEN outcome ELSE @]

-----------------------------------------------------------------------------
(* Requests.                                                               *)

\* awaitTspFrame, then sendBinary in the same turn.  The VTA answers later, or
\* never.
Send(r) ==
  /\ open /\ st[r] = "new"
  /\ st' = [st EXCEPT ![r] = "waiting"]
  /\ waiters' = Append(waiters, r)
  /\ armed' = armed \cup {r}
  /\ UNCHANGED <<open, wire, loop, got, inbox, raced>>

\* The socket write throws, as it does on a closed session, after the waiter was
\* registered: the waiter stays until its timer fires.
SendFails(r) ==
  /\ st[r] = "new"
  /\ st' = [st EXCEPT ![r] = "unsent"]
  /\ waiters' = Append(waiters, r)
  /\ armed' = armed \cup {r}
  /\ UNCHANGED <<open, wire, loop, got, inbox, raced>>

\* The VTA answers a request it received (external).
Reply(r) ==
  /\ open /\ st[r] \in {"waiting", "timedout"}
  /\ r \notin wire \cup inbox /\ frame # r
  /\ wire' = wire \cup {r}
  /\ UNCHANGED <<open, waiters, st, armed, loop, got, inbox, raced>>

\* `indexOf` and `splice`: a waiter that is listed leaves its place.
Without(q, r) ==
  IF r \in Range(q) THEN RemoveAt(q, CHOOSE n \in DOMAIN q : q[n] = r) ELSE q

Timeout(r) ==
  /\ r \in armed
  /\ armed' = armed \ {r}
  /\ waiters' = Without(waiters, r)
  /\ Settle(r, "timedout")
  /\ raced' = (raced \/ frame # None)
  /\ UNCHANGED <<open, wire, loop, got, inbox>>

\* close(): every waiter is rejected and its timer cleared.
Close ==
  /\ open
  /\ open' = FALSE
  /\ waiters' = <<>>
  /\ armed' = armed \ Range(waiters)
  /\ st' = [r \in Request |-> IF r \in Range(waiters) /\ st[r] = "waiting"
                              THEN "closed" ELSE st[r]]
  /\ wire' = {}
  /\ raced' = (raced \/ frame # None)
  /\ UNCHANGED <<loop, got, inbox>>

-----------------------------------------------------------------------------
(* onTspFrame.                                                             *)

Take(f) ==
  /\ open /\ frame = None /\ f \in wire
  /\ wire' = wire \ {f}
  /\ frame' = f /\ i' = 1
  /\ UNCHANGED <<open, waiters, st, armed, asked, got, inbox, raced>>

\* The next waiter is asked, and its answer awaited.
Offer ==
  /\ frame # None /\ asked = None
  /\ i <= Len(waiters)
  /\ asked' = waiters[i]
  /\ UNCHANGED <<open, waiters, st, armed, wire, frame, i, got, inbox, raced>>

\* Mutant: only the oldest waiter may claim its reply.
ClaimsOldest(r, f) == f = r /\ waiters # <<>> /\ r = Head(waiters)

\* TspChannel's predicate: the frame threads to this request.
Claims(r, f) == f = r

\* `tspWaiters.splice(i, 1)`: whatever stands at i now, or nothing.
Splice(q, n) == IF n \in DOMAIN q THEN RemoveAt(q, n) ELSE q

EndFrame == frame' = None /\ i' = 1 /\ asked' = None

\* Mutant: the timer of whichever waiter is taken off is cleared.
ClaimedByIndex ==
  /\ asked # None /\ Claims(asked, frame)
  /\ waiters' = Splice(waiters, i)
  /\ armed' = IF i \in DOMAIN waiters THEN armed \ {waiters[i]} ELSE armed
  /\ Settle(asked, "resolved")
  /\ got' = IF st[asked] = "waiting" THEN [got EXCEPT ![asked] = frame] ELSE got
  /\ EndFrame
  /\ UNCHANGED <<open, wire, inbox, raced>>

Claimed ==
  /\ asked # None /\ Claims(asked, frame)
  /\ waiters' = Splice(waiters, i)
  /\ armed' = armed \ {asked}
  /\ Settle(asked, "resolved")
  /\ got' = IF st[asked] = "waiting" THEN [got EXCEPT ![asked] = frame] ELSE got
  /\ EndFrame
  /\ UNCHANGED <<open, wire, inbox, raced>>

Declined ==
  /\ asked # None /\ ~Claims(asked, frame)
  /\ i' = i + 1
  /\ asked' = None
  /\ UNCHANGED <<open, waiters, st, armed, wire, frame, got, inbox, raced>>

\* No waiter left to ask: an executor's request, or so it is taken to be.
Unclaimed ==
  /\ frame # None /\ asked = None
  /\ i > Len(waiters)
  /\ inbox' = inbox \cup {frame}
  /\ EndFrame
  /\ UNCHANGED <<open, waiters, st, armed, wire, got, raced>>

-----------------------------------------------------------------------------
OnTspFrame == Offer \/ Claimed \/ Declined \/ Unclaimed

Next ==
  \/ \E r \in Request : Send(r) \/ SendFails(r) \/ Reply(r) \/ Timeout(r)
  \/ \E f \in Frame : Take(f)
  \/ Close
  \/ OnTspFrame

Spec == Init /\ [][Next]_vars

\* Timers fire, and a frame the socket delivered is handled to its end.
Fairness ==
  /\ \A r \in Request : WF_vars(Timeout(r))
  /\ WF_vars(OnTspFrame)
  /\ \A f \in Frame : WF_vars(Take(f))

FairSpec == Spec /\ Fairness

-----------------------------------------------------------------------------
Outcome == {"new", "waiting", "unsent", "resolved", "timedout", "closed"}

TypeOK ==
  /\ open \in BOOLEAN /\ raced \in BOOLEAN
  /\ waiters \in Seq(Request)
  /\ st \in [Request -> Outcome]
  /\ armed \subseteq Request
  /\ wire \subseteq Frame /\ inbox \subseteq Frame
  /\ frame \in Frame \cup {None}
  /\ i \in Nat \ {0}
  /\ asked \in Request \cup {None}
  /\ got \in [Request -> Frame \cup {None}]
  /\ asked # None => frame # None

\* A request resolves with its own reply, never with another's or with a frame
\* the executor pushed while it waited (TspFrameClaim is "not optional").
OwnReplyOnly == \A r \in Request : got[r] \in {r, None}

\* Unless a timer or a close came between, a waiter and its timer go together: one
\* left behind would be offered every later frame for ever, one missing would never
\* be offered its reply.
WaitersMatchTimers ==
  ~raced =>
    /\ Range(waiters) = armed
    /\ \A m, n \in DOMAIN waiters : waiters[m] = waiters[n] => m = n

\* Unless a timer or a close came between, a reply that comes while its request
\* waits is not passed on as somebody's request (awaitTspFrame).
UnracedReplyReachesRequest ==
  [][\A r \in Request :
       r \notin inbox /\ r \in inbox' => st[r] # "waiting" \/ raced]_vars

\* The same with no such exception: "Await the inbound TSP frame that `claims`
\* recognises as this request's reply" (awaitTspFrame).
ReplyReachesRequest ==
  [][\A r \in Request : r \notin inbox /\ r \in inbox' => st[r] # "waiting"]_vars

\* Every request settles: it is resolved, or its timer or a close rejects it,
\* whatever happened to its place in the list.
EveryRequestSettles == \A r \in Request : st[r] = "waiting" ~> st[r] # "waiting"

=============================================================================
