---------------------------- MODULE VtaRequests ----------------------------
(***************************************************************************)
(* Requests to one agent, from the session built for each to its end:      *)
(* the channels buildVtaSession finds, the order VtaSession tries them in, *)
(* the mediator connection they share with its TSP waiters (TspWaiters),   *)
(* the rest a mediator takes after a reply timeout, and the bearer the     *)
(* REST channels share.  The agent keeps one live token: each sign-in, and *)
(* a restart, voids the one before.                                        *)
(***************************************************************************)
EXTENDS TspWaiters

CONSTANT MaxToken  \* bound: tokens minted or voided

ASSUME TokenAssumption == MaxToken \in Nat

VARIABLES
  services,  \* the transports the agent advertises and the settings allow
  sits,      \* the mediator's channels sit out
  at, chain, \* where each request is, and the channels it has left to try
  tok,       \* the bearer each holds, 0 for none
  again,     \* requests refused once
  cached,    \* bearerCache, 0 for none
  signing,   \* the sign-in in bearerInflight: "no", "asked" or "minted"
  live,      \* the agent's newest token, valid or void
  minted,    \* the token of the sign-in in flight
  over       \* history: the transports that may have carried an unfinished request

bearer   == <<tok, again, cached, signing, live, minted>>
session  == <<services, at, chain, over>>
vtaVars  == <<vars, session, sits, bearer>>

VtaInit ==
  /\ Init
  /\ services \in SUBSET {"tsp", "didcomm", "rest"} \ {{}}
  /\ sits = FALSE
  /\ at = [r \in Request |-> "new"]
  /\ chain = [r \in Request |-> <<>>]
  /\ tok = [r \in Request |-> 0]
  /\ again = {}
  /\ cached \in {0, 1} /\ live \in {1, 2}  \* what earlier requests left
  /\ "rest" \notin services => cached = 0 /\ live = 1
  /\ signing = "no" /\ minted = 0
  /\ over = [r \in Request |-> {}]

Goto(r, label) == at' = [at EXCEPT ![r] = label]
Carry(r, kind) == over' = [over EXCEPT ![r] = @ \cup {kind}]

-----------------------------------------------------------------------------
(* buildVtaSession.                                                        *)

SittingOut == sits /\ "rest" \in services

\* A transport that is not advertised, sits out or cannot connect is left out.
Built(r, kind) ==
  {chain[r]} \cup (IF kind \in services /\ ~SittingOut /\ open
                  THEN {Append(chain[r], kind)} ELSE {})

BuildTsp(r) ==
  /\ at[r] = "new"
  /\ \E c \in Built(r, "tsp") : chain' = [chain EXCEPT ![r] = c]
  /\ Goto(r, "build")
  /\ UNCHANGED <<vars, services, over, sits, bearer>>

\* VtaSession's constructor leaves the channels in CHANNEL_PRIORITY.
BuildRest(r) ==
  /\ at[r] = "build"
  /\ \E c \in Built(r, "didcomm") :
       LET all == IF "rest" \in services THEN Append(c, "rest") ELSE c IN
       /\ chain' = [chain EXCEPT ![r] = all]
       /\ Goto(r, IF all = <<>> THEN "failed" ELSE "try")
  /\ UNCHANGED <<vars, services, over, sits, bearer>>

-----------------------------------------------------------------------------
(* VtaSession.send.                                                        *)

\* "e.client.unsupported", and nothing else, moves on to the next channel.
Unsupported(r) ==
  /\ chain' = [chain EXCEPT ![r] = Tail(@)]
  /\ Goto(r, IF Len(chain[r]) = 1 THEN "failed" ELSE "try")

\* Mutant: any failure moves on.
FallsThrough(r) == Unsupported(r) /\ UNCHANGED over
Ends(r, label) ==
  /\ Goto(r, label)
  /\ chain' = [chain EXCEPT ![r] = <<>>]
  /\ over' = [over EXCEPT ![r] = {}]

Fails(r) == Ends(r, "failed")
Returns(r) == Ends(r, "done")

Tries(r, kind) == at[r] = "try" /\ Head(chain[r]) = kind

\* The last: the sealing fails, before there is a waiter.
TspSends(r) ==
  /\ Tries(r, "tsp")
  /\ \/ Send(r) /\ Carry(r, "tsp") /\ Goto(r, "tspReply") /\ UNCHANGED chain
     \/ SendFails(r) /\ Unsupported(r) /\ UNCHANGED over
     \/ Fails(r) /\ UNCHANGED vars
  /\ UNCHANGED <<services, sits, bearer>>

TspReturns(r) ==
  /\ at[r] = "tspReply" /\ st[r] # "waiting"
  /\ IF st[r] = "resolved" THEN Returns(r) ELSE Fails(r)
  /\ UNCHANGED <<vars, services, sits, bearer>>

DidcommSends(r) ==
  /\ Tries(r, "didcomm")
  /\ \/ open /\ Carry(r, "didcomm") /\ Goto(r, "reply") /\ UNCHANGED chain
     \/ Fails(r)
  /\ UNCHANGED <<vars, services, sits, bearer>>

\* The reply; or the connection closes, or nothing comes in time.
DidcommReturns(r) ==
  /\ at[r] = "reply"
  /\ \/ open /\ Returns(r) /\ UNCHANGED sits
     \/ Fails(r) /\ sits' \in {sits, TRUE}
  /\ UNCHANGED <<vars, services, bearer>>

\* onReplyTimeout: any waiter whose timer fires, its request sent or not.
TspTimesOut(r) ==
  /\ Timeout(r)
  /\ sits' = TRUE
  /\ UNCHANGED <<session, bearer>>

CooldownEnds ==
  /\ sits /\ sits' = FALSE
  /\ UNCHANGED <<vars, session, bearer>>

\* The pool closes the connection: after a reply timeout, a wake, a retirement.
\* The connection itself goes on as TspWaiters says.
Connection ==
  /\ \E r \in Request : Reply(r)
     \/ \E f \in Frame : Take(f)
     \/ OnTspFrame \/ Close
  /\ UNCHANGED <<session, sits, bearer>>

-----------------------------------------------------------------------------
(* RestChannel.post and auth.ts.                                           *)

\* getVtaBearer: the cached token, or the sign-in already running, or a new one.
Bearer(r) ==
  /\ \/ Tries(r, "rest") \/ at[r] = "bearer"
  /\ IF cached # 0
     THEN Goto(r, "post") /\ tok' = [tok EXCEPT ![r] = cached] /\ UNCHANGED signing
     ELSE /\ Goto(r, "signIn") /\ UNCHANGED tok
          /\ signing' = IF signing = "no" THEN "asked" ELSE signing
  /\ UNCHANGED <<vars, services, chain, over, sits, again, cached, live, minted>>

Waits(r) == at[r] = "signIn"

Mint ==
  /\ signing = "asked" /\ live < MaxToken
  /\ signing' = "minted"
  /\ live' = live + 1 /\ minted' = live'
  /\ UNCHANGED <<vars, session, sits, tok, again, cached>>

SignedIn ==
  /\ signing = "minted"
  /\ signing' = "no" /\ cached' = minted
  /\ at' = [r \in Request |-> IF Waits(r) THEN "post" ELSE at[r]]
  /\ tok' = [r \in Request |-> IF Waits(r) THEN minted ELSE tok[r]]
  /\ UNCHANGED <<vars, services, chain, over, sits, again, live, minted>>

\* Refused, unanswered, or its answer lost.
SignInFails ==
  /\ signing # "no"
  /\ signing' = "no"
  /\ at' = [r \in Request |-> IF Waits(r) THEN "failed" ELSE at[r]]
  /\ chain' = [r \in Request |-> IF Waits(r) THEN <<>> ELSE chain[r]]
  /\ UNCHANGED <<vars, services, over, sits, tok, again, cached, live, minted>>

\* The request reaches the agent, or is lost.
Posts(r) ==
  /\ at[r] = "post"
  /\ \/ tok[r] = live /\ Goto(r, "posted") /\ Carry(r, "rest") /\ UNCHANGED chain
     \/ tok[r] # live /\ Goto(r, "refused") /\ UNCHANGED <<over, chain>>
     \/ Fails(r)
  /\ UNCHANGED <<vars, services, sits, bearer>>

PostReturns(r) ==
  /\ at[r] = "posted"
  /\ Returns(r) \/ Fails(r)
  /\ UNCHANGED <<vars, services, sits, bearer>>

\* Mutant: whatever is cached is dropped.
DropsAny(r) == 0
\* makeReauth drops the token that was refused, and no other.
Drops(r) == IF cached = tok[r] THEN 0 ELSE cached

Reauth(r) ==
  /\ at[r] = "refused"
  /\ IF r \in again
     THEN Fails(r) /\ UNCHANGED <<again, cached>>
     ELSE /\ Goto(r, "bearer") /\ UNCHANGED <<chain, over>>
          /\ again' = again \cup {r}
          /\ cached' = Drops(r)
  /\ UNCHANGED <<vars, services, sits, tok, signing, live, minted>>

\* The reuse window of the cached token ends.
Expire ==
  /\ cached # 0
  /\ cached' = 0
  /\ UNCHANGED <<vars, session, sits, tok, again, signing, live, minted>>

\* The agent restarts: no token it minted is valid.
Restart ==
  /\ live < MaxToken /\ "rest" \in services
  /\ live' = live + 1
  /\ UNCHANGED <<vars, session, sits, tok, again, cached, signing, minted>>

-----------------------------------------------------------------------------
Sends(r) ==
  \/ BuildTsp(r) \/ BuildRest(r)
  \/ TspSends(r) \/ TspReturns(r) \/ DidcommSends(r) \/ DidcommReturns(r)
  \/ Bearer(r) \/ Posts(r) \/ PostReturns(r) \/ Reauth(r)

SignIn == Mint \/ SignedIn \/ SignInFails

VtaNext ==
  \/ \E r \in Request : Sends(r) \/ TspTimesOut(r)
  \/ Connection \/ CooldownEnds
  \/ SignIn \/ Expire \/ Restart

VtaSpec == VtaInit /\ [][VtaNext]_vtaVars

\* A request that began goes on, and every wait in it has a timer.
VtaFairness ==
  /\ \A r \in Request : WF_vtaVars(at[r] # "new" /\ Sends(r)) /\ WF_vtaVars(TspTimesOut(r))
  /\ WF_vtaVars(SignIn)

VtaFairSpec == VtaSpec /\ VtaFairness

-----------------------------------------------------------------------------
Label == {"new", "build", "try", "tspReply", "reply", "signIn", "bearer",
          "post", "posted", "refused", "done", "failed"}

\* The types of what this module adds.
VtaTypeOK ==
  /\ services \subseteq {"tsp", "didcomm", "rest"} /\ sits \in BOOLEAN
  /\ at \in [Request -> Label]
  /\ chain \in [Request -> Seq(services)]
  /\ tok \in [Request -> Nat] /\ cached \in Nat /\ live \in Nat /\ minted \in Nat
  /\ again \subseteq Request
  /\ signing \in {"no", "asked", "minted"}
  /\ over \in [Request -> SUBSET services]

\* A request that may have reached the agent is never sent over another transport:
\* "a channel-level failure that isn't an explicit unsupported does NOT trigger
\* fallback".
AppliedOnce ==
  \A r \in Request : \A k, l \in over[r] : k = l

\* Requests refused together do not sign each other out: whatever was signed in since
\* a request went out, its refusal does not throw the live token away.
LiveTokenKept ==
  [][\A r \in Request :
       at[r] = "refused" /\ at'[r] # "refused" /\ cached = live => cached' = cached]_vtaVars

\* Every request ends.
EveryRequestEnds == \A r \in Request : at[r] # "new" ~> at[r] \in {"done", "failed"}

\* "A request through mediatorDid to vtaDid got no reply" (noteNoReply).
NoReplyIsEvidence == [][~sits /\ sits' => \E r \in Request : st'[r] = "timedout" \/ over[r] = {"didcomm"}]_vtaVars
=============================================================================
