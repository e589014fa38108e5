----------------------------- MODULE SignInFlow -----------------------------
(***************************************************************************)
(* One sign-in or join flow (SignInFlows): the window asks for steps, the  *)
(* worker relays them, the offscreen document runs each step across its    *)
(* awaits.  A step still running keeps running whatever happens to the     *)
(* window: the close, a phone poll and the window's own step interleave.   *)
(***************************************************************************)
EXTENDS Naturals

CONSTANTS
  Evictable,  \* whether an idle service worker may be evicted
  MaxGrant,   \* bound: approvals a person begins
  MaxRetries  \* how often a message the community's rate limiter refused goes again

ASSUME SignInAssumption == Evictable \in BOOLEAN /\ MaxGrant \in Nat /\ MaxRetries \in Nat

Caller == {"window", "poll", "close"}
Idle == [op |-> "none", at |-> "idle", tries |-> 0]

VARIABLES
  site,       \* what the code or DID leads to, from the verified document
  flow,       \* the Flow, and whether the map holds it
  call,       \* the steps in flight, one per caller
  record,     \* the worker's session-storage record of the flow
  listening,  \* the worker hears this window close
  window, screen, asking,  \* the window, what it shows, whether a poll still counts
  entry,      \* the vault holds the entry a join made
  sent,       \* what has gone out to the community
  hist        \* history, read by the properties only

vars == <<site, flow, call, record, listening, window, screen, asking, entry, sent, hist>>

\* kind matters when the wallet is no member yet; a misnamed community calls itself
\* by another name than the wallet's record; a domain-linked one is held to its DID
\* Configuration.
Site == [member : BOOLEAN, kind : {"hosting", "community", "other"},
         domain : BOOLEAN, misnamed : BOOLEAN, byDid : BOOLEAN]

Init ==
  /\ site \in {s \in Site : s.byDid => ~s.member}
  /\ flow = [held |-> FALSE, phase |-> "none", key |-> FALSE, linked |-> FALSE,
             planned |-> FALSE, page |-> FALSE, named |-> FALSE, grant |-> 0]
  /\ call = [c \in Caller |-> Idle]
  /\ record = TRUE /\ listening = TRUE
  /\ window = "open" /\ screen = "loading" /\ asking = FALSE
  /\ entry = FALSE /\ sent = {}
  /\ hist = [told |-> FALSE, read |-> FALSE, late |-> FALSE, heard |-> FALSE,
             claimed |-> FALSE, unreached |-> FALSE, concluded |-> FALSE, stuck |-> FALSE]

-----------------------------------------------------------------------------
(* What the steps share.                                                   *)

At(c, ops, at) == call[c].op \in ops /\ call[c].at = at
Goto(c, op, at) == call' = [call EXCEPT ![c] = [op |-> op, at |-> at, tries |-> 0]]
Note(field) == hist' = [hist EXCEPT ![field] = TRUE]

\* A result passes the worker, which forgets a flow that is over, and is shown
\* unless it answers a poll that was given up.
Shown(c) == c = "window" \/ (c = "poll" /\ (asking \/ call[c].op \in {"expire", "over"}))
Answer(c, result) ==
  /\ call' = [call EXCEPT ![c] = Idle]
  /\ record' = (record /\ result # "over")
  /\ screen' = IF Shown(c) THEN result ELSE screen

Ended(f) == [f EXCEPT !.phase = "ended", !.key = FALSE]
Dropped(f) == [Ended(f) EXCEPT !.held = FALSE]

\* cancel: marked ended first, the key wiped once the cancel was answered.  Without
\* a claim there is nothing to send.
Cancels(c, f, result) ==
  IF f.phase # "ended" /\ f.key
  THEN /\ flow' = [f EXCEPT !.phase = "ended", !.held = FALSE]
       /\ Goto(c, result, "outgoing")
       /\ UNCHANGED <<record, screen, sent>>
  ELSE flow' = Dropped(f) /\ Answer(c, result) /\ UNCHANGED sent

\* A step that only has its cancel left is known by the result it will give.
Cancel == {"over", "failed"}

\* Mutant: the key outlives its cancel.
CancelledKeyKept(c) ==
  /\ At(c, Cancel, "exchange")
  /\ Answer(c, call[c].op)
  /\ UNCHANGED <<site, flow, listening, window, asking, entry, sent, hist>>

Cancelled(c) ==
  /\ At(c, Cancel, "exchange")
  /\ flow' = Ended(flow)
  /\ Answer(c, call[c].op)
  /\ UNCHANGED <<site, listening, window, asking, entry, sent, hist>>

\* fail: a flow with a key is spent.  A community that could not be reached counts
\* as one that refused; what the wallet refused is cancelled at the community.
Ledger(why) ==
  hist' = [hist EXCEPT !.concluded = @ \/ (flow.key /\ why = "refused"),
                       !.unreached = @ \/ (flow.key /\ why = "unreached")]
\* A request the community calls expired is over; any other failure leaves the record.
Failing(c, why) == \E result \in {"failed"} \cup (IF why = "refused" THEN {"over"} ELSE {}) :
                     Answer(c, result)
\* Mutant: what the wallet refused is not cancelled either.
FailsQuietly(c, f, why) ==
  /\ flow' = IF f.key THEN Dropped(f) ELSE f
  /\ Failing(c, why)
  /\ UNCHANGED sent
  /\ Ledger(why)
Fails(c, f, why) ==
  /\ IF f.key /\ why = "invalid" THEN Cancels(c, f, "failed")
     ELSE /\ flow' = IF f.key THEN Dropped(f) ELSE f
          /\ Failing(c, why)
          /\ UNCHANGED sent
  /\ Ledger(why)
Failure == {"refused", "unreached", "invalid"}

\* joinFailed and the other ends of a join: the flow is forgotten.
Ends(c, result) == flow' = Dropped(flow) /\ Answer(c, result) /\ UNCHANGED sent

-----------------------------------------------------------------------------
(* The window and the worker.                                              *)

Asks(shown) ==
  CASE shown = "loading"   -> {"prepare"}
    [] shown = "hosting"   -> {"join", "cancel"}
    [] shown = "community" -> {"manifest", "cancel"}
    [] shown = "apply"     -> {"submit", "cancel"}
    [] shown = "confirm"   -> {"claim", "cancel"}
    [] shown = "number"    -> {"prove", "cancel"}
                              \cup (IF site.misnamed /\ ~flow.named THEN {"adopt"} ELSE {})
    [] shown = "review"    -> {"decline"} \cup (IF flow.grant < MaxGrant THEN {"challenge"} ELSE {})
    [] shown = "gesture"   -> {"approve", "remote"}
    [] OTHER               -> {}

\* handleSignInStep passes a step on while it has the flow's record.
Relay(c, op) ==
  IF record THEN Goto(c, op, "relayed") /\ UNCHANGED screen
  ELSE screen' = "failed" /\ UNCHANGED call

Step(op) ==
  /\ window = "open" /\ call["window"] = Idle /\ op \in Asks(screen)
  /\ Relay("window", op)
  /\ asking' = (asking /\ op # "remote")
  /\ hist' = [hist EXCEPT !.read = @ \/ op \in {"prove", "adopt"}]
  /\ UNCHANGED <<site, flow, record, listening, window, entry, sent>>

\* The gesture is given up, a wrong PIN put aside, or the phone no longer waited for.
Back ==
  /\ window = "open" /\ call["window"] = Idle /\ screen \in {"gesture", "pin", "pending"}
  /\ screen' = "review" /\ asking' = FALSE
  /\ UNCHANGED <<site, flow, call, record, listening, window, entry, sent, hist>>

\* Every few seconds the phone's answer is asked for, until the deadline.
Poll ==
  /\ window = "open" /\ screen = "pending" /\ call["poll"] = Idle
  /\ \/ Relay("poll", "remote") /\ asking' = TRUE
     \/ Relay("poll", "expire") /\ asking' = FALSE
  /\ UNCHANGED <<site, flow, record, listening, window, entry, sent, hist>>

Dismiss ==
  /\ window = "open"
  /\ window' = "closed"
  /\ UNCHANGED <<site, flow, call, record, listening, screen, asking, entry, sent, hist>>

\* openConsentWindow's deny, then endSignInFlow: the step is sent if the record was
\* still there.
EndSignInFlow ==
  /\ window = "closed" /\ listening
  /\ listening' = FALSE
  /\ record' = FALSE
  /\ IF record THEN Goto("close", "cancel", "relayed") ELSE UNCHANGED call
  /\ Note("heard")
  /\ UNCHANGED <<site, flow, window, screen, asking, entry, sent>>

\* An idle worker is evicted, and its listener with it.
Evict ==
  /\ Evictable /\ window = "open" /\ \A c \in Caller : call[c] = Idle
  /\ listening' = FALSE
  /\ UNCHANGED <<site, flow, call, record, window, screen, asking, entry, sent, hist>>

\* The number read from the page, for a flow the worker has a link of.
PageNumber ==
  /\ record /\ ~site.byDid
  /\ flow.held /\ flow.phase \in {"prepared", "claimed"}
  /\ flow' = [flow EXCEPT !.page = TRUE]
  /\ UNCHANGED <<site, call, record, listening, window, screen, asking, entry, sent, hist>>

-----------------------------------------------------------------------------
(* The offscreen document: a step arrives, and goes on after each await.   *)

elsewhere == <<site, listening, window, asking>>

OutOfOrder(c) == Answer(c, "failed") /\ UNCHANGED <<flow, sent>>
Await(c, f, op, at) == flow' = f /\ Goto(c, op, at) /\ UNCHANGED <<record, screen, sent>>

\* sendOob signs with the claim's key across an await, and looks at nothing again once
\* it has the key: a step that is "outgoing" sends whatever became of the flow.  (A manifest
\* request has a key of its own, and a join request comes signed by the agent.)
MessageOf(op) ==
  CASE op = "older manifest" -> "manifest"
    [] op = "older prove"    -> "prove"
    [] op = "remote"         -> "approve"
    [] op \in Cancel         -> "cancel"
    [] OTHER                 -> op

Posted(c) ==
  /\ call[c].at = "outgoing"
  /\ call' = [call EXCEPT ![c].at = "exchange"]
  /\ sent' = sent \cup {MessageOf(call[c].op)}
  /\ hist' = [hist EXCEPT !.claimed = (@ \/ (call[c].op = "claim" /\ flow.phase # "ended"))
                                       /\ call[c].op \notin Cancel]
  /\ UNCHANGED <<elsewhere, flow, record, screen, entry>>

\* postCommunityTask: a community over its limit answers 429 unread, and the same signed
\* document goes out again after a wait.  The last one is an answer like any other.
Limited(c) ==
  /\ call[c].at = "exchange" /\ call[c].tries < MaxRetries
  /\ call' = [call EXCEPT ![c].at = "outgoing", ![c].tries = @ + 1]
  /\ UNCHANGED <<elsewhere, flow, record, screen, entry, sent, hist>>

\* Once the contact may be dealt with: the entry recorded, or the community asked.
\* A claim makes its key here.
Contact(c, f, op) ==
  \/ op = "join" /\ Await(c, f, op, "bind")
  \/ op = "manifest" /\ Await(c, f, op, "outgoing")
  \/ op = "claim" /\ Await(c, [f EXCEPT !.key = TRUE], op, "outgoing")

\* Mutant: the linkage is not looked at.
ApproachUnlinked(c, op) == Contact(c, flow, op)

\* confirmLinkage, for a domain-linked contact not confirmed yet.
Approach(c, op) ==
  IF site.domain /\ ~flow.linked THEN Await(c, flow, op, "linkage") ELSE Contact(c, flow, op)

Linkage(c) ==
  /\ call[c].at = "linkage"
  /\ \/ Contact(c, [flow EXCEPT !.linked = TRUE], call[c].op)
     \/ Ends(c, "failed")
  /\ hist' = [hist EXCEPT !.late = @ \/ (call[c].op = "claim" /\ flow.phase = "ended")]
  /\ UNCHANGED <<elsewhere, entry>>

\* Each step's own test of the phase; prove is also called without step's.
Provable == flow.phase = "claimed" /\ flow.key
Ready(op) ==
  \/ op = "prepare" /\ ~flow.held
  \/ /\ flow.held /\ flow.phase # "ended"
     /\ \/ op = "join" /\ flow.phase = "joining" /\ site.kind = "hosting"
        \/ op = "manifest" /\ flow.phase = "joining" /\ site.kind = "community" /\ ~flow.planned
        \/ op = "submit" /\ flow.phase = "joining" /\ flow.planned
        \/ op = "claim" /\ flow.phase = "prepared"
        \/ op = "adopt" /\ flow.phase = "claimed"
        \/ op = "prove" /\ Provable
        \/ op \in {"challenge", "decline"} /\ flow.phase = "identified" /\ flow.key
        \/ op \in {"approve", "remote"} /\ flow.phase = "identified" /\ flow.key /\ flow.grant > 0
        \/ op \in {"cancel", "expire"}

\* The identify and the grant go to the agent for its signature.
Begin(c, op) ==
  \/ op = "prepare" /\ Await(c, flow, op, "reading")
  \/ op \in {"join", "manifest", "claim"} /\ Approach(c, op)
  \/ op = "submit" /\ Await(c, flow, op, "bind")
  \/ op = "adopt" /\ Await(c, flow, op, "rename")
  \/ op \in {"prove", "approve", "remote", "decline"} /\ Await(c, flow, op, "sign")
  \/ /\ op = "challenge"
     /\ flow' = [flow EXCEPT !.grant = @ + 1]
     /\ Answer(c, "gesture")
     /\ UNCHANGED sent
  \/ op \in {"cancel", "expire"} /\ Cancels(c, flow, "over")

\* step.
Arrive(c) ==
  /\ call[c].at = "relayed"
  /\ IF Ready(call[c].op) THEN Begin(c, call[c].op) ELSE OutOfOrder(c)
  /\ UNCHANGED <<elsewhere, entry, hist>>

\* prepare and prepareJoin: everything is read before the flow is kept, whatever
\* became of the window in between.
Prepared(c) ==
  /\ call[c].at = "reading"
  /\ \/ Answer(c, "over") /\ UNCHANGED flow
     \/ Answer(c, "failed") /\ UNCHANGED flow
     \/ /\ site.member
        /\ flow' = [flow EXCEPT !.held = TRUE, !.phase = "prepared"]
        /\ Answer(c, "confirm")
     \/ /\ ~site.member
        /\ site.kind = "community" \/ (site.kind = "hosting" /\ ~site.byDid)
        /\ flow' = [flow EXCEPT !.held = TRUE, !.phase = "joining"]
        /\ Answer(c, site.kind)
  /\ UNCHANGED <<elsewhere, entry, sent, hist>>

\* bindIdentity, for a hosting service or before a join request.
Bound(c) ==
  /\ call[c].at = "bind"
  /\ \/ /\ entry' = TRUE
        /\ \/ /\ call[c].op = "join"
              /\ flow' = [flow EXCEPT !.phase = "prepared"]
              /\ Answer(c, "confirm") /\ UNCHANGED sent
           \/ call[c].op = "submit" /\ Await(c, flow, "submit", "sign")
     \/ Ends(c, "failed") /\ UNCHANGED entry
  /\ UNCHANGED <<elsewhere, hist>>

\* The manifest's answer; then the personas and the terms are read.  A community
\* that does not know the request's version is asked again in the older one.
Manifested(c) ==
  /\ At(c, {"manifest", "older manifest"}, "exchange")
  /\ \/ Ends(c, "failed") \/ Ends(c, "over")
     \/ Await(c, [flow EXCEPT !.planned = TRUE], "manifest", "listing")
     \/ call[c].op = "manifest" /\ Await(c, flow, "older manifest", "outgoing")
  /\ UNCHANGED <<elsewhere, entry, hist>>

Listed(c) ==
  /\ call[c].at = "listing"
  /\ \E result \in {"apply", "failed"} : Answer(c, result)
  /\ UNCHANGED <<elsewhere, flow, entry, sent, hist>>

\* Mutant: a request already open is a request refused.
AnsweredClosed(c) ==
  /\ At(c, {"submit"}, "exchange")
  /\ \/ flow' = Dropped(flow) /\ Answer(c, "over") /\ UNCHANGED sent /\ Note("told")
     \/ ~site.byDid /\ flow' = [flow EXCEPT !.phase = "prepared", !.planned = FALSE]
        /\ Answer(c, "confirm") /\ UNCHANGED sent /\ Note("told")
     \/ Await(c, Dropped(flow), "submit", "unbind") /\ UNCHANGED hist
     \/ Await(c, flow, "submit", "unbind") /\ Note("told")
  /\ UNCHANGED <<elsewhere, entry>>

\* The join request's answer: pending, already open, or admitted by a DID; admitted
\* from a link; declined; refused or lost.
Answered(c) ==
  /\ At(c, {"submit"}, "exchange")
  /\ \/ Ends(c, "over") /\ Note("told")
     \/ /\ ~site.byDid
        /\ flow' = [flow EXCEPT !.phase = "prepared", !.planned = FALSE]
        /\ Answer(c, "confirm") /\ UNCHANGED sent
        /\ Note("told")
     \/ Await(c, Dropped(flow), "submit", "unbind") /\ UNCHANGED hist
     \/ Await(c, flow, "submit", "unbind") /\ UNCHANGED hist
  /\ UNCHANGED <<elsewhere, entry>>

\* unbind, best effort.
Unbound(c) ==
  /\ call[c].at = "unbind"
  /\ Ends(c, "failed")
  /\ \/ entry' = FALSE /\ UNCHANGED hist
     \/ UNCHANGED entry /\ Note("stuck")
  /\ UNCHANGED elsewhere

\* Mutant: the key taken before the signature is used after it.
SignedKeyless(c) ==
  /\ call[c].at = "sign" /\ call[c].op # "submit"
  /\ \/ Await(c, flow, call[c].op, "outgoing")
     \/ call[c].op = "remote" /\ Answer(c, "pending") /\ UNCHANGED <<flow, sent>>
  /\ UNCHANGED <<elsewhere, entry, hist>>

\* The agent signs, or not: a wrong PIN and a phone still to answer leave the flow
\* open.  What was signed is sent only if the key is still there then.
Signed(c) ==
  /\ call[c].at = "sign"
  /\ LET op == call[c].op IN
     \/ /\ op = "submit"
        /\ \E at \in {"outgoing", "unbind"} : Await(c, flow, op, at)
        /\ UNCHANGED hist
     \/ /\ op # "submit"
        /\ \/ flow.key /\ Await(c, flow, op, "outgoing") /\ UNCHANGED hist
           \/ Fails(c, flow, "invalid")
     \/ op = "approve" /\ Answer(c, "pin") /\ UNCHANGED <<flow, sent, hist>>
     \/ op = "remote" /\ Answer(c, "pending") /\ UNCHANGED <<flow, sent, hist>>
  /\ UNCHANGED <<elsewhere, entry>>

\* Mutant: the page's number is taken whatever name the community gives.
ClaimedUnread(c) ==
  /\ At(c, {"claim"}, "exchange")
  /\ Await(c, [flow EXCEPT !.phase = "claimed"], "claim", "number")
  /\ UNCHANGED <<elsewhere, entry, hist>>

\* The claim's answer.  The number is waited for unless there is a name to read.
Claimed(c) ==
  /\ At(c, {"claim"}, "exchange")
  /\ LET f == [flow EXCEPT !.phase = "claimed"] IN
     \/ /\ IF site.misnamed THEN flow' = f /\ Answer(c, "number") /\ UNCHANGED sent
           ELSE Await(c, f, "claim", "number")
        /\ UNCHANGED hist
     \/ Fails(c, f, "invalid")
     \/ \E why \in {"refused", "unreached"} : Fails(c, flow, why)
  /\ UNCHANGED <<elsewhere, entry>>

Renamed(c) ==
  /\ call[c].at = "rename"
  /\ \/ Await(c, [flow EXCEPT !.named = TRUE], "adopt", "number")
     \/ Answer(c, "number") /\ UNCHANGED <<flow, sent>>
  /\ UNCHANGED <<elsewhere, entry, hist>>

\* waitForPageNumber: the page's number proves, or the person is asked for it.
Numbered(c) ==
  /\ call[c].at = "number"
  /\ \/ flow.page /\ Provable /\ Await(c, flow, "prove", "sign")
     \/ flow.page /\ flow.phase = "claimed" /\ ~flow.key /\ OutOfOrder(c)
     \/ (flow.page => flow.phase # "claimed") /\ Answer(c, "number") /\ UNCHANGED <<flow, sent>>
  /\ UNCHANGED <<elsewhere, entry, hist>>

\* The proof's answer; the approval method is read before the phase moves.
Proved(c) ==
  /\ At(c, {"prove", "older prove"}, "exchange")
  /\ \/ Await(c, flow, "prove", "method") /\ UNCHANGED hist
     \/ \E why \in Failure : Fails(c, flow, why)
     \/ call[c].op = "prove" /\ flow.key /\ Await(c, flow, "older prove", "outgoing") /\ UNCHANGED hist
  /\ UNCHANGED <<elsewhere, entry>>

Identified(c) ==
  /\ call[c].at = "method"
  /\ flow' = [flow EXCEPT !.phase = "identified"]
  /\ Answer(c, "review")
  /\ UNCHANGED <<elsewhere, entry, sent, hist>>

Responded(c) ==
  /\ At(c, {"approve", "remote", "decline"}, "exchange")
  /\ \/ flow' = Ended(flow) /\ Answer(c, "over") /\ UNCHANGED sent /\ Note("concluded")
     \/ \E why \in Failure : Fails(c, flow, why)
  /\ UNCHANGED <<elsewhere, entry>>

-----------------------------------------------------------------------------
Run(c) ==
  \/ Arrive(c) \/ Prepared(c) \/ Linkage(c) \/ Bound(c) \/ Manifested(c) \/ Listed(c)
  \/ Answered(c) \/ Unbound(c) \/ Signed(c) \/ Claimed(c) \/ Renamed(c) \/ Numbered(c)
  \/ Proved(c) \/ Identified(c) \/ Responded(c) \/ Cancelled(c) \/ Posted(c) \/ Limited(c)

Next ==
  \/ \E c \in Caller : Run(c)
  \/ \E op \in {"prepare", "join", "manifest", "submit", "claim", "prove", "adopt",
                "challenge", "approve", "remote", "decline", "cancel"} : Step(op)
  \/ Back \/ Poll \/ Dismiss \/ EndSignInFlow \/ Evict \/ PageNumber

Spec == Init /\ [][Next]_vars

\* Every await ends and the close is handled; nobody need do anything.
FairSpec == Spec /\ (\A c \in Caller : WF_vars(Run(c))) /\ WF_vars(EndSignInFlow)

-----------------------------------------------------------------------------
(* Properties.                                                             *)

Steps == {"none", "prepare", "join", "manifest", "older manifest", "submit", "claim", "adopt",
          "prove", "older prove", "challenge", "approve", "remote", "decline", "cancel", "expire",
          "over", "failed"}
Points == {"idle", "relayed", "reading", "linkage", "bind", "outgoing", "exchange", "listing",
           "unbind", "sign", "number", "rename", "method"}
Messages == {"manifest", "submit", "claim", "prove", "approve", "decline", "cancel"}
Results == {"loading", "hosting", "community", "apply", "confirm", "number", "review",
            "gesture", "pin", "pending", "over", "failed"}
Phases == {"none", "joining", "prepared", "claimed", "identified", "ended"}

\* The phases, screens and steps are the ones the types name.
SignInTypeOK ==
  /\ site \in Site
  /\ flow \in [held : BOOLEAN, phase : Phases, key : BOOLEAN, linked : BOOLEAN,
               planned : BOOLEAN, page : BOOLEAN, named : BOOLEAN, grant : Nat]
  /\ call \in [Caller -> [op : Steps, at : Points, tries : Nat]]
  /\ sent \subseteq Messages
  /\ hist \in [{"told", "read", "late", "heard", "claimed", "unreached", "concluded", "stuck"}
                 -> BOOLEAN]
  /\ record \in BOOLEAN /\ listening \in BOOLEAN /\ asking \in BOOLEAN /\ entry \in BOOLEAN
  /\ window \in {"open", "closed"} /\ screen \in Results

\* "On failure the flow ends and nothing is sent" (confirmLinkage): a domain-linked
\* contact gets no manifest request, join request or claim, on any path and however
\* the window's steps interleave, before its DID Configuration was confirmed.
LinkedFirst == site.domain /\ sent # {} => flow.linked

\* As far as the wallet was told, the vault holds an entry for a community exactly when
\* the community took the request it was made for, once joinSubmit is over and unless the
\* removal itself failed: a request known to be open or admitted never loses its entry, a
\* refused one (an answer that was lost counts as one) never leaves it.
EntryFollowsAnswer ==
  /\ hist.told => entry
  /\ entry /\ (\A c \in Caller : call[c].op # "submit")
       => hist.told \/ hist.stuck \/ site.kind = "hosting"

\* A community that calls itself by another name than the wallet's record never gets
\* the proof on the page's number alone: the person saw the warning and answered it
\* (claim: "a name mismatch is a warning the person must read, so it always asks").
MismatchIsRead == site.misnamed /\ "prove" \in sent => hist.read

\* A claim that went out while its flow was open, and whose key is gone, was refused or
\* answered, or a cancel follows it, or has followed it: gone out after the claim's last
\* sending, or about to.  But where the community could not be reached: fail sends no
\* cancel then, though the claim may be held.
ClaimConcluded ==
  hist.claimed /\ ~flow.key
    => \/ hist.concluded \/ hist.unreached
       \/ \E c \in Caller : At(c, Cancel, "outgoing")

\* Once the community answered or refused, no step sets out to send it anything more, not
\* even one that was at the agent for a signature: what still goes out was being sent
\* before the answer.
NothingNewOnceConcluded ==
  [][hist.concluded => \A c \in Caller : call'[c].at = "outgoing"
                          => call[c].at \in {"outgoing", "exchange"} /\ call'[c].op = call[c].op]_vars

\* A window whose close the worker heard leaves no approver key behind, but where the
\* flow ended while a claim waited for its linkage: that claim is sent all the same,
\* with a new key nobody forgets.
KeyForgotten == window = "closed" /\ hist.heard ~> [](~flow.key \/ hist.late)

\* abort's comment: "The window went away: cancel at the community if a claim is held,
\* and forget K_a".
ClosedWindowForgetsKey == window = "closed" ~> []~flow.key

\* fail's comment: "when the community did not refuse (the wallet did), the claim it
\* still holds is cancelled so the portal stops waiting".
UnrefusedClaimIsCancelled ==
  hist.claimed /\ ~flow.key => hist.concluded \/ \E c \in Caller : At(c, Cancel, "outgoing")

\* end's comment: "Never resend after a request has ended".
NeverResendOnceConcluded ==
  [][hist.concluded => \A c \in Caller : Posted(c) => call[c].tries = 0]_vars

\* A cancel is the last the community hears of a claim.
ClaimStaysCancelled ==
  [][\A c \in Caller : Posted(c) /\ call[c].op = "claim" => "cancel" \notin sent]_vars

\* The window's "Approval cancelled": none goes out while the person is back at the review.
BackWithdraws ==
  [][\A c \in Caller : Posted(c) /\ MessageOf(call[c].op) = "approve" => screen # "review"]_vars
=============================================================================
