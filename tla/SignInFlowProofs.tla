-------------------------- MODULE SignInFlowProofs --------------------------
(***************************************************************************)
(* A sign-in flow for any bound on approvals and any worker.  The          *)
(* invariant speaks of a few facts of the flow, of where the window's own  *)
(* step is, and of the two callers beside it, which take far fewer paths:  *)
(* each action is first reduced to what it does to those facts.            *)
(***************************************************************************)
EXTENDS SignInFlow, TLAPS

-----------------------------------------------------------------------------
(* The facts the invariant speaks of.                                      *)

Key == flow.key
Phase == flow.phase
Linked == flow.linked
Planned == flow.planned

Told == hist.told
Read == hist.read
Concluded == hist.concluded
Unreached == hist.unreached
Stuck == hist.stuck
Filed == hist.claimed
Recorded == entry

WOp == call["window"].op
WAt == call["window"].at
POp == call["poll"].op
PAt == call["poll"].at
COp == call["close"].op
CAt == call["close"].at

Loading == screen = "loading"

FlowFacts == <<Key, Phase, Linked, Planned>>
HistFacts == <<Told, Read, Concluded, Unreached, Stuck, Filed>>

-----------------------------------------------------------------------------
(* The inductive invariant.                                                *)

\* Where a step of the window may be.
Main(op, at) ==
  \/ op = "none" /\ at = "idle"
  \/ op \in {"prepare", "join", "manifest", "submit", "claim", "prove", "adopt", "challenge",
             "approve", "remote", "decline", "cancel"} /\ at = "relayed"
  \/ op = "prepare" /\ at = "reading"
  \/ op \in {"join", "manifest", "claim"} /\ at = "linkage"
  \/ op \in {"join", "submit"} /\ at = "bind"
  \/ op = "manifest" /\ at = "listing"
  \/ op = "submit" /\ at = "unbind"
  \/ op \in {"submit", "prove", "approve", "remote", "decline"} /\ at = "sign"
  \/ op \in {"manifest", "older manifest", "submit", "claim", "prove", "older prove", "approve",
             "remote", "decline", "over", "failed"} /\ at \in {"outgoing", "exchange"}
  \/ op \in {"claim", "adopt"} /\ at = "number"
  \/ op = "adopt" /\ at = "rename"
  \/ op = "prove" /\ at = "method"

\* And one of a phone poll, or of the close.
Side(op, at) ==
  \/ op = "none" /\ at = "idle"
  \/ op \in {"remote", "cancel", "expire"} /\ at = "relayed"
  \/ op = "remote" /\ at \in {"sign", "outgoing", "exchange"}
  \/ op \in {"over", "failed"} /\ at \in {"outgoing", "exchange"}

Placed == Main(WOp, WAt) /\ Side(POp, PAt) /\ Side(COp, CAt)

Sending == {"sign", "outgoing", "exchange"}

\* The window's step is one of a join, past its guard.
Joining == WAt \in {"bind", "listing", "unbind"}
             \/ (WOp \in {"manifest", "older manifest", "submit"} /\ WAt \in Sending)

\* A step works with the claim's key, or did when it passed its guard.
Signing ==
  \/ WAt \in {"number", "rename", "method"}
  \/ WAt \in Sending
     /\ WOp \in {"prove", "older prove", "approve", "remote", "decline", "over", "failed"}
  \/ PAt \in Sending \/ CAt \in Sending

\* The claim is on its way, or has gone out at some time.
Claiming == WOp = "claim" /\ WAt \in {"outgoing", "exchange"}
Begun == "claim" \in sent \/ Claiming

\* A cancel is yet to go out, or waits for its answer.
CancelAt(at) ==
  \/ WOp \in {"over", "failed"} /\ WAt = at
  \/ POp \in {"over", "failed"} /\ PAt = at
  \/ COp \in {"over", "failed"} /\ CAt = at

\* At an unconfirmed domain the wallet has only read, or asks for the confirmation.
LinkInv ==
  site.domain /\ ~Linked =>
    /\ ~Key /\ ~Planned /\ sent = {} /\ Phase \notin {"claimed", "identified"}
    /\ WAt \in {"idle", "relayed", "reading", "linkage"}
    /\ PAt \in {"idle", "relayed"} /\ CAt \in {"idle", "relayed"}

\* Until the person has read the warning no step of the proof is under way.
ReadInv ==
  site.misnamed /\ ~Read =>
    "prove" \notin sent /\ WAt # "number" /\ WOp \notin {"prove", "older prove", "adopt"}

\* The flow is prepared once, before anything else.
LoadInv ==
  /\ WOp = "prepare" => Loading
  /\ Loading => WOp \in {"none", "prepare"} /\ POp = "none" /\ ~Begun

\* Before the claim there is no key; from the claim on, no join.
ClaimInv ==
  /\ ~Begun => ~Key /\ ~Filed /\ Phase \notin {"claimed", "identified"} /\ ~Signing
  /\ Begun => /\ ~Joining /\ WAt \notin {"reading", "linkage"}
              /\ Phase \in {"none", "joining", "prepared"} => Key /\ Claiming
  /\ Claiming => Phase \notin {"claimed", "identified"} /\ (WAt = "exchange" => "claim" \in sent)

\* Where a flow has ended with its claim out and its key kept, a cancel is yet to go;
\* once it went the claim was withdrawn, and what is left of the claim came too late.
CancelInv ==
  /\ Key /\ Phase = "ended" /\ Filed => CancelAt("outgoing")
  /\ CancelAt("exchange") => ~Filed
  /\ Claiming /\ (CancelAt("outgoing") \/ CancelAt("exchange")) => Phase = "ended"

\* A claim whose key is gone is to be cancelled, or was refused, answered or lost.
SpentInv == Filed /\ ~Key => Concluded \/ Unreached \/ CancelAt("outgoing")

ConcludedInv == Concluded => ~Key /\ Begun

\* The vault's entry is there once the community has the request, and not without.
EntryInv ==
  /\ Told => Recorded /\ Phase # "joining" /\ ~Loading /\ ~Joining /\ WAt # "reading"
             /\ (WAt = "linkage" => WOp = "claim")
  /\ WOp = "submit" /\ WAt \in Sending => Recorded
  /\ WOp = "join" /\ WAt # "relayed" => site.kind = "hosting"
  /\ Recorded /\ ~(WOp = "submit" /\ (WAt \in Sending \/ WAt = "unbind"))
       => Told \/ Stuck \/ site.kind = "hosting"

FactInv ==
  /\ Placed /\ LinkInv /\ ReadInv /\ LoadInv /\ ClaimInv /\ CancelInv /\ SpentInv
  /\ ConcludedInv /\ EntryInv

\* The close comes once.
CloseInv == listening => call["close"] = Idle

FlowInv == SignInTypeOK /\ FactInv /\ CloseInv

-----------------------------------------------------------------------------
(* What the shared operators do to the facts.                              *)

\* One caller moves, the others stay.
Moves(c, op, at) ==
  \/ c = "window" /\ WOp' = op /\ WAt' = at /\ UNCHANGED <<POp, PAt, COp, CAt>>
  \/ c = "poll" /\ POp' = op /\ PAt' = at /\ UNCHANGED <<WOp, WAt, COp, CAt>>
  \/ c = "close" /\ COp' = op /\ CAt' = at /\ UNCHANGED <<WOp, WAt, POp, PAt>>

\* It is answered, and a window that is answered shows something; the close has no
\* one to show anything to.
Rests(c) ==
  /\ Moves(c, "none", "idle")
  /\ Loading' => Loading /\ c # "window"
  /\ c = "close" => (Loading' <=> Loading)

LEMMA Callers ==
  ASSUME NEW c \in Caller
  PROVE  \/ c = "window" /\ call[c].op = WOp /\ call[c].at = WAt
         \/ c = "poll" /\ call[c].op = POp /\ call[c].at = PAt
         \/ c = "close" /\ call[c].op = COp /\ call[c].at = CAt
<1> QED BY DEF Caller, WOp, WAt, POp, PAt, COp, CAt

LEMMA GotoMoves ==
  ASSUME SignInTypeOK, NEW c \in Caller, NEW op, NEW at, Goto(c, op, at)
  PROVE  Moves(c, op, at)
<1> DEFINE to == [op |-> op, at |-> at, tries |-> 0]
<1>1. to.op = op /\ to.at = at
  OBVIOUS
<1> HIDE DEF to
<1>2. call' = [call EXCEPT ![c] = to]
  BY DEF Goto, to
<1>3. call'[c] = to /\ \A k \in Caller \ {c} : call'[k] = call[k]
  BY <1>2 DEF SignInTypeOK
<1> QED BY <1>1, <1>3 DEF Moves, Caller, WOp, WAt, POp, PAt, COp, CAt

LEMMA AnswerRests ==
  ASSUME SignInTypeOK, NEW c \in Caller, NEW r, r # "loading", Answer(c, r)
  PROVE  Rests(c)
<1>1. Goto(c, "none", "idle")
  BY DEF Answer, Goto, Idle
<1>2. (Loading' => Loading /\ c # "window") /\ (c = "close" => (Loading' <=> Loading))
  BY DEF Answer, Shown, Loading
<1> QED BY <1>1, <1>2, GotoMoves DEF Rests

LEMMA FlowKept == ASSUME flow' = flow PROVE UNCHANGED FlowFacts
<1> QED BY DEF FlowFacts, Key, Phase, Linked, Planned

LEMMA EntryKept == ASSUME entry' = entry PROVE Recorded' <=> Recorded
<1> QED BY DEF Recorded

LEMMA HistKept == ASSUME hist' = hist PROVE UNCHANGED HistFacts
<1> QED BY DEF HistFacts, Told, Read, Concluded, Unreached, Stuck, Filed

LEMMA AwaitMoves ==
  ASSUME SignInTypeOK, NEW c \in Caller, NEW f, NEW op, NEW at, Await(c, f, op, at)
  PROVE  flow' = f /\ Moves(c, op, at) /\ sent' = sent /\ (Loading' <=> Loading)
<1>1. Goto(c, op, at) /\ flow' = f /\ sent' = sent /\ screen' = screen
  BY DEF Await
<1> QED BY <1>1, GotoMoves DEF Loading

LEMMA PostMoves ==
  ASSUME SignInTypeOK, NEW c \in Caller, Posted(c) \/ Limited(c)
  PROVE  /\ site' = site /\ UNCHANGED FlowFacts /\ (Recorded' <=> Recorded)
         /\ (Loading' <=> Loading)
         /\ Posted(c) => Moves(c, call[c].op, "exchange")
         /\ Limited(c) => Moves(c, call[c].op, "outgoing")
<1>1. site' = site /\ flow' = flow /\ entry' = entry /\ screen' = screen
  BY DEF Posted, Limited, elsewhere
<1>2. ASSUME NEW at \in {"exchange", "outgoing"}, NEW n \in Nat,
             call' = [call EXCEPT ![c].at = at, ![c].tries = n]
                       \/ call' = [call EXCEPT ![c].at = at]
      PROVE  Moves(c, call[c].op, at)
  <2>1. call \in [Caller -> [op : Steps, at : Points, tries : Nat]]
    BY DEF SignInTypeOK
  <2>2. /\ call'[c].op = call[c].op /\ call'[c].at = at
        /\ \A k \in Caller \ {c} : call'[k] = call[k]
    BY <1>2, <2>1
  <2> QED BY <2>2 DEF Moves, Caller, WOp, WAt, POp, PAt, COp, CAt
<1>3. Posted(c) => Moves(c, call[c].op, "exchange")
  BY <1>2 DEF Posted
<1>4. Limited(c) => Moves(c, call[c].op, "outgoing")
  <2>1. call[c].tries + 1 \in Nat
    BY DEF SignInTypeOK
  <2> QED BY <1>2, <2>1 DEF Limited
<1> QED BY <1>1, <1>3, <1>4, FlowKept, EntryKept DEF Loading

\* The flows a step may hand on: the one held, or that flow claimed.
Handed(f) ==
  /\ f.key = Key /\ f.linked = Linked /\ f.planned = Planned
  /\ f \in [held : BOOLEAN, phase : Phases, key : BOOLEAN, linked : BOOLEAN,
            planned : BOOLEAN, page : BOOLEAN, named : BOOLEAN, grant : Nat]

LEMMA FlowHanded ==
  ASSUME SignInTypeOK
  PROVE  /\ Handed(flow) /\ flow.phase = Phase
         /\ Handed([flow EXCEPT !.phase = "claimed"])
         /\ [flow EXCEPT !.phase = "claimed"].phase = "claimed"
<1> QED BY DEF SignInTypeOK, Handed, Key, Linked, Planned, Phase, Phases

\* The key is gone with the flow.
Gone == Phase' = "ended" /\ ~Key' /\ UNCHANGED <<Linked, Planned>>

LEMMA DroppedGone ==
  ASSUME NEW f, Handed(f), flow' = Dropped(f) \/ flow' = Ended(f)
  PROVE  Gone
<1> QED BY DEF Handed, Dropped, Ended, Gone, Key, Phase, Linked, Planned

LEMMA EndsGone ==
  ASSUME SignInTypeOK, NEW c \in Caller, NEW r, r # "loading", Ends(c, r)
  PROVE  Gone /\ Rests(c) /\ sent' = sent
<1>1. flow' = Dropped(flow) /\ Answer(c, r) /\ sent' = sent
  BY DEF Ends
<1> QED BY <1>1, FlowHanded, DroppedGone, AnswerRests

\* A claim is cancelled, or there is none to cancel.
Cancelling(c, op, f) ==
  \/ /\ f.phase # "ended" /\ Key
     /\ Phase' = "ended" /\ UNCHANGED <<Key, Linked, Planned>>
     /\ Moves(c, op, "outgoing") /\ sent' = sent /\ (Loading' <=> Loading)
  \/ /\ f.phase = "ended" \/ ~Key
     /\ Gone /\ Rests(c) /\ sent' = sent

LEMMA CancelsMoves ==
  ASSUME SignInTypeOK, NEW c \in Caller, NEW f, Handed(f), NEW r, r # "loading", Cancels(c, f, r)
  PROVE  Cancelling(c, r, f)
<1>1. CASE f.phase # "ended" /\ f.key
  <2>1. flow' = [f EXCEPT !.phase = "ended", !.held = FALSE]
        /\ Goto(c, r, "outgoing") /\ sent' = sent /\ screen' = screen
    BY <1>1 DEF Cancels
  <2>2. Phase' = "ended" /\ UNCHANGED <<Key, Linked, Planned>>
    BY <2>1 DEF Handed, Phase, Key, Linked, Planned
  <2>4. Moves(c, r, "outgoing") /\ (Loading' <=> Loading)
    BY <2>1, GotoMoves DEF Loading
  <2>5. Key
    BY <1>1 DEF Handed
  <2> QED BY <1>1, <2>1, <2>2, <2>4, <2>5 DEF Cancelling
<1>2. CASE ~(f.phase # "ended" /\ f.key)
  <2>1. flow' = Dropped(f) /\ Answer(c, r) /\ sent' = sent
    BY <1>2 DEF Cancels
  <2>2. f.phase = "ended" \/ ~Key
    BY <1>2 DEF Handed
  <2> QED BY <2>1, <2>2, DroppedGone, AnswerRests DEF Cancelling
<1> QED BY <1>1, <1>2

\* A step fails: what is noted of it, and what becomes of the key.
Failed(c, f, why) ==
  /\ UNCHANGED <<Told, Read, Stuck, Filed>>
  /\ Concluded' <=> Concluded \/ (Key /\ why = "refused")
  /\ Unreached' <=> Unreached \/ (Key /\ why = "unreached")
  /\ \/ ~Key /\ flow' = f /\ Rests(c) /\ sent' = sent
     \/ Key /\ why \in {"refused", "unreached"} /\ Gone /\ Rests(c) /\ sent' = sent
     \/ Key /\ why = "invalid" /\ Cancelling(c, "failed", f)

LEMMA FailsMoves ==
  ASSUME SignInTypeOK, NEW c \in Caller, NEW f, Handed(f), NEW why \in Failure, Fails(c, f, why)
  PROVE  Failed(c, f, why)
<1>1. /\ UNCHANGED <<Told, Read, Stuck, Filed>>
      /\ Concluded' <=> Concluded \/ (Key /\ why = "refused")
      /\ Unreached' <=> Unreached \/ (Key /\ why = "unreached")
  BY DEF Fails, Ledger, SignInTypeOK, Told, Read, Stuck, Filed, Concluded, Unreached, Key
<1>2. CASE f.key /\ why = "invalid"
  <2>1. Cancels(c, f, "failed") /\ Key
    BY <1>2 DEF Fails, Handed
  <2> QED BY <1>1, <1>2, <2>1, CancelsMoves DEF Failed
<1>3. CASE ~(f.key /\ why = "invalid")
  <2>1. flow' = (IF f.key THEN Dropped(f) ELSE f) /\ Failing(c, why) /\ sent' = sent
    BY <1>3 DEF Fails
  <2>2. Rests(c)
    BY <2>1, AnswerRests DEF Failing
  <2>3. CASE f.key
    <3>1. Key /\ why \in {"refused", "unreached"}
      BY <1>3, <2>3 DEF Handed, Failure
    <3> QED BY <1>1, <2>1, <2>2, <2>3, <3>1, DroppedGone DEF Failed
  <2>4. CASE ~f.key
    <3>1. ~Key
      BY <2>4 DEF Handed
    <3> QED BY <1>1, <2>1, <2>2, <2>4, <3>1 DEF Failed
  <2> QED BY <2>3, <2>4
<1> QED BY <1>2, <1>3

-----------------------------------------------------------------------------
(* The steps of the offscreen document.                                    *)

USE DEF Placed, Main, Side, Sending, Joining, Signing, Claiming, Begun, CancelAt, LinkInv,
        ReadInv, LoadInv, ClaimInv, CancelInv, SpentInv, ConcludedInv, EntryInv, FlowFacts,
        HistFacts

LEMMA PreparedStep ==
  ASSUME FlowInv, NEW c \in Caller, Prepared(c)
  PROVE  FactInv'
<1>1. c = "window" /\ WOp = "prepare" /\ WAt = "reading"
  BY Callers DEF Prepared, FlowInv, FactInv
<1>2. site' = site /\ (Recorded' <=> Recorded) /\ sent' = sent /\ UNCHANGED HistFacts
  BY HistKept, EntryKept DEF Prepared, elsewhere
<1>3. Rests(c)
  BY AnswerRests DEF Prepared, FlowInv, SignInTypeOK, Site
<1>4. UNCHANGED <<Key, Linked, Planned>> /\ Phase' \in {Phase, "prepared", "joining"}
  BY DEF Prepared, FlowInv, SignInTypeOK, Key, Linked, Planned, Phase
<1> QED BY <1>1, <1>2, <1>3, <1>4 DEF FlowInv, FactInv, Rests, Moves

LEMMA LinkageStep ==
  ASSUME FlowInv, NEW c \in Caller, Linkage(c)
  PROVE  FactInv'
<1>1. c = "window" /\ WAt = "linkage" /\ WOp \in {"join", "manifest", "claim"} /\ call[c].op = WOp
  BY Callers DEF Linkage, FlowInv, FactInv
<1>2. site' = site /\ (Recorded' <=> Recorded) /\ UNCHANGED HistFacts
  BY EntryKept DEF Linkage, elsewhere, FlowInv, SignInTypeOK, Told, Read, Concluded, Unreached, Stuck, Filed
<1>3. CASE Ends(c, "failed")
  <2>1. Gone /\ Rests(c) /\ sent' = sent
    BY <1>3, EndsGone DEF FlowInv
  <2> QED BY <1>1, <1>2, <2>1 DEF FlowInv, FactInv, Rests, Moves, Gone
<1>4. CASE Contact(c, [flow EXCEPT !.linked = TRUE], call[c].op)
  <2> DEFINE f == [flow EXCEPT !.linked = TRUE]
             g == [f EXCEPT !.key = TRUE]
  <2>1. /\ f.linked /\ f.key = Key /\ f.planned = Planned /\ f.phase = Phase
        /\ g.linked /\ g.key /\ g.planned = Planned /\ g.phase = Phase
    BY DEF FlowInv, SignInTypeOK, Key, Planned, Phase
  <2> HIDE DEF f, g
  <2>2. \/ WOp = "join" /\ Await(c, f, "join", "bind")
        \/ WOp = "manifest" /\ Await(c, f, "manifest", "outgoing")
        \/ WOp = "claim" /\ Await(c, g, "claim", "outgoing")
    BY <1>1, <1>4 DEF Contact, f, g
  <2>3. CASE WOp = "join" /\ Await(c, f, "join", "bind")
    <3>1. flow' = f /\ Moves(c, "join", "bind") /\ sent' = sent /\ (Loading' <=> Loading)
      BY <2>3, AwaitMoves DEF FlowInv
    <3>2. Linked' /\ UNCHANGED <<Key, Planned, Phase>>
      BY <2>1, <3>1 DEF Key, Planned, Phase, Linked
    <3> QED BY <1>1, <1>2, <2>3, <3>1, <3>2 DEF FlowInv, FactInv, Moves
  <2>4. CASE WOp = "manifest" /\ Await(c, f, "manifest", "outgoing")
    <3>1. flow' = f /\ Moves(c, "manifest", "outgoing") /\ sent' = sent /\ (Loading' <=> Loading)
      BY <2>4, AwaitMoves DEF FlowInv, Messages
    <3>2. Linked' /\ UNCHANGED <<Key, Planned, Phase>>
      BY <2>1, <3>1 DEF Key, Planned, Phase, Linked
    <3> QED BY <1>1, <1>2, <2>4, <3>1, <3>2 DEF FlowInv, FactInv, Moves
  <2>5. CASE WOp = "claim" /\ Await(c, g, "claim", "outgoing")
    <3>1. flow' = g /\ Moves(c, "claim", "outgoing") /\ sent' = sent /\ (Loading' <=> Loading)
      BY <2>5, AwaitMoves DEF FlowInv, Messages
    <3>2. Linked' /\ Key' /\ UNCHANGED <<Planned, Phase>>
      BY <2>1, <3>1 DEF Key, Planned, Phase, Linked
    <3> QED BY <1>1, <1>2, <2>5, <3>1, <3>2 DEF FlowInv, FactInv, Moves
  <2> QED BY <2>2, <2>3, <2>4, <2>5 DEF FactInv
<1> QED BY <1>3, <1>4 DEF Linkage

LEMMA BoundStep ==
  ASSUME FlowInv, NEW c \in Caller, Bound(c)
  PROVE  FactInv'
<1>1. c = "window" /\ WAt = "bind" /\ WOp \in {"join", "submit"} /\ call[c].op = WOp
  BY Callers DEF Bound, FlowInv, FactInv
<1>2. site' = site /\ UNCHANGED HistFacts
  BY HistKept DEF Bound, elsewhere
<1>3. CASE Ends(c, "failed") /\ UNCHANGED entry
  <2>1. Gone /\ Rests(c) /\ sent' = sent /\ (Recorded' <=> Recorded)
    BY <1>3, EndsGone, EntryKept DEF FlowInv
  <2> QED BY <1>1, <1>2, <2>1 DEF FlowInv, FactInv, Rests, Moves, Gone
<1>4. CASE /\ Recorded'
           /\ WOp = "join" /\ flow' = [flow EXCEPT !.phase = "prepared"]
           /\ Answer(c, "confirm") /\ sent' = sent
  <2>1. Rests(c) /\ sent' = sent
    BY <1>4, AnswerRests DEF FlowInv
  <2>2. Phase' = "prepared" /\ UNCHANGED <<Key, Linked, Planned>>
    BY <1>4 DEF FlowInv, SignInTypeOK, Phase, Key, Linked, Planned
  <2> QED BY <1>1, <1>2, <1>4, <2>1, <2>2 DEF FlowInv, FactInv, Rests, Moves
<1>5. CASE Recorded' /\ WOp = "submit" /\ Await(c, flow, "submit", "sign")
  <2>1. flow' = flow /\ Moves(c, "submit", "sign") /\ sent' = sent /\ (Loading' <=> Loading)
    BY <1>5, AwaitMoves DEF FlowInv
  <2> QED BY <1>1, <1>2, <1>5, <2>1, FlowKept DEF FlowInv, FactInv, Moves
<1> QED BY <1>1, <1>3, <1>4, <1>5 DEF Bound, Recorded

LEMMA ManifestedStep ==
  ASSUME FlowInv, NEW c \in Caller, Manifested(c)
  PROVE  FactInv'
<1>1. c = "window" /\ WAt = "exchange" /\ WOp \in {"manifest", "older manifest"} /\ call[c].op = WOp
  BY Callers DEF Manifested, At, FlowInv, FactInv
<1>2. site' = site /\ (Recorded' <=> Recorded) /\ UNCHANGED HistFacts
  BY HistKept, EntryKept DEF Manifested, elsewhere
<1>3. CASE Ends(c, "failed") \/ Ends(c, "over")
  <2>1. Gone /\ Rests(c) /\ sent' = sent
    BY <1>3, EndsGone DEF FlowInv
  <2> QED BY <1>1, <1>2, <2>1 DEF FlowInv, FactInv, Rests, Moves, Gone
<1>4. CASE Await(c, [flow EXCEPT !.planned = TRUE], "manifest", "listing")
  <2>1. /\ flow' = [flow EXCEPT !.planned = TRUE]
        /\ Moves(c, "manifest", "listing") /\ sent' = sent /\ (Loading' <=> Loading)
    BY <1>4, AwaitMoves DEF FlowInv
  <2>2. Planned' /\ UNCHANGED <<Key, Phase, Linked>>
    BY <2>1 DEF FlowInv, SignInTypeOK, Planned, Key, Phase, Linked
  <2> QED BY <1>1, <1>2, <2>1, <2>2 DEF FlowInv, FactInv, Moves
<1>5. CASE WOp = "manifest" /\ Await(c, flow, "older manifest", "outgoing")
  <2>1. /\ flow' = flow /\ Moves(c, "older manifest", "outgoing")
        /\ sent' = sent /\ (Loading' <=> Loading)
    BY <1>5, AwaitMoves DEF FlowInv, Messages
  <2>2. UNCHANGED FlowFacts
    BY <2>1, FlowKept
  <2> QED BY <1>1, <1>2, <2>1, <2>2 DEF FlowInv, FactInv, Moves
<1> QED BY <1>1, <1>3, <1>4, <1>5 DEF Manifested

LEMMA ListedStep ==
  ASSUME FlowInv, NEW c \in Caller, Listed(c)
  PROVE  FactInv'
<1>1. c = "window" /\ WAt = "listing"
  BY Callers DEF Listed, FlowInv, FactInv
<1>2. /\ site' = site /\ (Recorded' <=> Recorded) /\ sent' = sent
      /\ UNCHANGED HistFacts /\ UNCHANGED FlowFacts
  BY HistKept, FlowKept, EntryKept DEF Listed, elsewhere
<1>3. Rests(c)
  BY AnswerRests DEF Listed, FlowInv
<1> QED BY <1>1, <1>2, <1>3 DEF FlowInv, FactInv, Rests, Moves

LEMMA AnsweredStep ==
  ASSUME FlowInv, NEW c \in Caller, Answered(c)
  PROVE  FactInv'
<1>1. c = "window" /\ WAt = "exchange" /\ WOp = "submit"
  BY Callers DEF Answered, At, FlowInv, FactInv
<1>2. site' = site /\ (Recorded' <=> Recorded)
  BY EntryKept DEF Answered, elsewhere
<1>3. ASSUME Note("told") PROVE Told' /\ UNCHANGED <<Read, Concluded, Unreached, Stuck, Filed>>
  BY <1>3 DEF Note, FlowInv, SignInTypeOK, Told, Read, Concluded, Unreached, Stuck, Filed
<1>4. CASE Ends(c, "over") /\ Note("told")
  <2>1. Gone /\ Rests(c) /\ sent' = sent
    BY <1>4, EndsGone DEF FlowInv
  <2> QED BY <1>1, <1>2, <1>3, <1>4, <2>1 DEF FlowInv, FactInv, Rests, Moves, Gone
<1>5. CASE /\ flow' = [flow EXCEPT !.phase = "prepared", !.planned = FALSE]
           /\ Answer(c, "confirm") /\ sent' = sent /\ Note("told")
  <2>1. Rests(c) /\ sent' = sent
    BY <1>5, AnswerRests DEF FlowInv
  <2>2. Phase' = "prepared" /\ ~Planned' /\ UNCHANGED <<Key, Linked>>
    BY <1>5 DEF FlowInv, SignInTypeOK, Phase, Key, Linked, Planned
  <2> QED BY <1>1, <1>2, <1>3, <1>5, <2>1, <2>2 DEF FlowInv, FactInv, Rests, Moves
<1>6. CASE Await(c, Dropped(flow), "submit", "unbind") /\ hist' = hist
  <2>1. /\ flow' = Dropped(flow) /\ Moves(c, "submit", "unbind")
        /\ sent' = sent /\ (Loading' <=> Loading)
    BY <1>6, AwaitMoves DEF FlowInv
  <2>2. Gone
    BY <2>1, FlowHanded, DroppedGone DEF FlowInv
  <2> QED BY <1>1, <1>2, <1>6, <2>1, <2>2, HistKept DEF FlowInv, FactInv, Moves, Gone
<1>7. CASE Await(c, flow, "submit", "unbind") /\ hist' = hist
  <2>1. flow' = flow /\ Moves(c, "submit", "unbind") /\ sent' = sent /\ (Loading' <=> Loading)
    BY <1>7, AwaitMoves DEF FlowInv
  <2> QED BY <1>1, <1>2, <1>7, <2>1, HistKept, FlowKept DEF FlowInv, FactInv, Moves
<1> QED BY <1>4, <1>5, <1>6, <1>7 DEF Answered

LEMMA UnboundStep ==
  ASSUME FlowInv, NEW c \in Caller, Unbound(c)
  PROVE  FactInv'
<1>1. c = "window" /\ WAt = "unbind"
  BY Callers DEF Unbound, FlowInv, FactInv
<1>2. site' = site /\ Gone /\ Rests(c) /\ sent' = sent
  BY EndsGone DEF Unbound, elsewhere, FlowInv
<1>3. CASE ~Recorded' /\ hist' = hist
  BY <1>1, <1>2, <1>3, HistKept DEF FlowInv, FactInv, Rests, Moves, Gone
<1>4. CASE (Recorded' <=> Recorded) /\ Note("stuck")
  <2>1. Stuck' /\ UNCHANGED <<Told, Read, Concluded, Unreached, Filed>>
    BY <1>4 DEF Note, FlowInv, SignInTypeOK, Told, Read, Concluded, Unreached, Stuck, Filed
  <2> QED BY <1>1, <1>2, <1>4, <2>1 DEF FlowInv, FactInv, Rests, Moves, Gone
<1> QED BY <1>3, <1>4, EntryKept DEF Unbound, Recorded

\* A step that fails while it works with the key keeps the invariant.
LEMMA FailureStep ==
  ASSUME FlowInv, NEW c \in Caller, NEW why \in Failure, site' = site, Recorded' <=> Recorded,
         NEW f, f.phase \in {Phase, "claimed"}, Handed(f), Failed(c, f, why),
         call[c].op \notin Cancel,
         \/ Claiming /\ WAt = "exchange" /\ c = "window" /\ (why = "invalid" => f.phase = "claimed")
         \/ Signing /\ f = flow /\ (c = "window" => ~Claiming /\ ~Joining)
  PROVE  FactInv'
<1>0. /\ site' = site /\ (Recorded' <=> Recorded) /\ UNCHANGED <<Told, Read, Stuck, Filed>>
      /\ Concluded' <=> Concluded \/ (Key /\ why = "refused")
      /\ Unreached' <=> Unreached \/ (Key /\ why = "unreached")
  BY DEF Failed
<1>1. "claim" \in sent \/ (Claiming /\ c # "window")
  BY DEF FlowInv, FactInv
<1>5. /\ c = "window" => WOp \notin {"over", "failed"}
      /\ c = "poll" => POp \notin {"over", "failed"}
      /\ c = "close" => COp \notin {"over", "failed"}
  BY Callers DEF Cancel
<1>2. CASE ~Key /\ flow' = f /\ Rests(c) /\ sent' = sent
  <2>1. UNCHANGED <<Key, Linked, Planned>> /\ Phase' = f.phase
    BY <1>2 DEF Handed, Key, Linked, Planned, Phase
  <2>2. CASE c = "window"
    <3>1. Placed'
      BY <1>0, <1>1, <1>5, <1>2, <2>1, <2>2 DEF FlowInv, FactInv, Rests, Moves
    <3>2. LinkInv' /\ ReadInv' /\ LoadInv'
      BY <1>0, <1>1, <1>5, <1>2, <2>1, <2>2 DEF FlowInv, FactInv, Rests, Moves
    <3>3. ClaimInv' /\ CancelInv' /\ SpentInv' /\ ConcludedInv'
      BY <1>0, <1>1, <1>5, <1>2, <2>1, <2>2 DEF FlowInv, FactInv, Rests, Moves
    <3>4. EntryInv'
      BY <1>0, <1>1, <1>5, <1>2, <2>1, <2>2 DEF FlowInv, FactInv, Rests, Moves
    <3> QED BY <3>1, <3>2, <3>3, <3>4 DEF FactInv
  <2>3. CASE c # "window"
    <3>1. Phase' = Phase
      BY <2>1, <2>3 DEF Phase
    <3>2. Placed' /\ LinkInv'
      BY <1>0, <1>2, <2>1, <2>3, <3>1 DEF FlowInv, FactInv, Rests, Moves
    <3>7. ReadInv' /\ LoadInv'
      BY <1>0, <1>2, <2>1, <2>3, <3>1 DEF FlowInv, FactInv, Rests, Moves
    <3>3. ClaimInv'
      BY <1>0, <1>2, <2>1, <2>3, <3>1 DEF FlowInv, FactInv, Rests, Moves
    <3>4. CancelInv'
      BY <1>0, <1>2, <2>1, <2>3, <3>1 DEF FlowInv, FactInv, Rests, Moves
    <3>5. SpentInv' /\ ConcludedInv'
      BY <1>0, <1>1, <1>5, <1>2, <2>1, <2>3, <3>1 DEF FlowInv, FactInv, Rests, Moves
    <3>6. EntryInv'
      BY <1>0, <1>2, <2>1, <2>3, <3>1 DEF FlowInv, FactInv, Rests, Moves
    <3> QED BY <3>2, <3>3, <3>4, <3>5, <3>6, <3>7 DEF FactInv
  <2> QED BY <2>2, <2>3
<1>3. CASE Key /\ why \in {"refused", "unreached"} /\ Gone /\ Rests(c) /\ sent' = sent
  <2>1. CASE c = "window"
    <3>1. Placed'
      BY <1>0, <1>1, <1>5, <1>3, <2>1 DEF FlowInv, FactInv, Rests, Moves, Gone
    <3>2. LinkInv' /\ ReadInv' /\ LoadInv'
      BY <1>0, <1>1, <1>5, <1>3, <2>1 DEF FlowInv, FactInv, Rests, Moves, Gone
    <3>3. ClaimInv' /\ CancelInv' /\ SpentInv' /\ ConcludedInv'
      BY <1>0, <1>1, <1>5, <1>3, <2>1 DEF FlowInv, FactInv, Rests, Moves, Gone
    <3>4. EntryInv'
      BY <1>0, <1>1, <1>5, <1>3, <2>1 DEF FlowInv, FactInv, Rests, Moves, Gone
    <3> QED BY <3>1, <3>2, <3>3, <3>4 DEF FactInv
  <2>2. CASE c # "window"
    <3>1. Placed'
      BY <1>0, <1>1, <1>5, <1>3, <2>2 DEF FlowInv, FactInv, Rests, Moves, Gone
    <3>2. LinkInv' /\ ReadInv' /\ LoadInv'
      BY <1>0, <1>1, <1>5, <1>3, <2>2 DEF FlowInv, FactInv, Rests, Moves, Gone
    <3>3. ClaimInv' /\ CancelInv' /\ SpentInv' /\ ConcludedInv'
      BY <1>0, <1>1, <1>5, <1>3, <2>2 DEF FlowInv, FactInv, Rests, Moves, Gone
    <3>4. EntryInv'
      BY <1>0, <1>1, <1>5, <1>3, <2>2 DEF FlowInv, FactInv, Rests, Moves, Gone
    <3> QED BY <3>1, <3>2, <3>3, <3>4 DEF FactInv
  <2> QED BY <2>1, <2>2
<1>4. CASE Key /\ why = "invalid" /\ Cancelling(c, "failed", f)
  <2>1. f = flow => f.phase = Phase
    BY DEF Phase
  <2>2. CASE f.phase # "ended"
    <3>1. /\ Phase' = "ended" /\ UNCHANGED <<Key, Linked, Planned>>
          /\ Moves(c, "failed", "outgoing") /\ sent' = sent /\ (Loading' <=> Loading)
      BY <1>4, <2>2 DEF Cancelling
    <3>2. Placed'
      BY <1>0, <1>1, <1>5, <1>4, <3>1 DEF FlowInv, FactInv, Moves
    <3>3. LinkInv' /\ ReadInv' /\ LoadInv'
      BY <1>0, <1>1, <1>5, <1>4, <3>1 DEF FlowInv, FactInv, Moves
    <3>4. ClaimInv' /\ CancelInv' /\ SpentInv' /\ ConcludedInv'
      BY <1>0, <1>1, <1>5, <1>4, <3>1 DEF FlowInv, FactInv, Moves
    <3>5. EntryInv'
      BY <1>0, <1>1, <1>5, <1>4, <3>1 DEF FlowInv, FactInv, Moves
    <3> QED BY <3>2, <3>3, <3>4, <3>5 DEF FactInv
  <2>3. CASE f.phase = "ended"
    <3>1. Gone /\ Rests(c) /\ sent' = sent
      BY <1>4, <2>1, <2>3 DEF Cancelling, FlowInv, FactInv
    <3>6. Phase = "ended"
      BY <2>3
    <3>2. Placed'
      BY <1>0, <1>1, <1>5, <1>4, <3>1, <3>6 DEF FlowInv, FactInv, Rests, Moves, Gone
    <3>3. LinkInv' /\ ReadInv' /\ LoadInv'
      BY <1>0, <1>1, <1>5, <1>4, <3>1, <3>6 DEF FlowInv, FactInv, Rests, Moves, Gone
    <3>4. ClaimInv' /\ CancelInv' /\ SpentInv' /\ ConcludedInv'
      <4>1. ClaimInv'
        BY <1>0, <1>1, <1>5, <1>4, <3>1, <3>6 DEF FlowInv, FactInv, Rests, Moves, Gone
      <4>2. CancelInv'
        BY <1>0, <1>1, <1>5, <1>4, <3>1, <3>6 DEF FlowInv, FactInv, Rests, Moves, Gone
      <4>3. SpentInv' /\ ConcludedInv'
        BY <1>0, <1>1, <1>5, <1>4, <3>1, <3>6 DEF FlowInv, FactInv, Rests, Moves, Gone
      <4> QED BY <4>1, <4>2, <4>3
    <3>5. EntryInv'
      BY <1>0, <1>1, <1>5, <1>4, <3>1, <3>6 DEF FlowInv, FactInv, Rests, Moves, Gone
    <3> QED BY <3>2, <3>3, <3>4, <3>5 DEF FactInv
  <2> QED BY <2>2, <2>3
<1> QED BY <1>2, <1>3, <1>4 DEF Failed

LEMMA RenamedStep ==
  ASSUME FlowInv, NEW c \in Caller, Renamed(c)
  PROVE  FactInv'
<1>1. c = "window" /\ WAt = "rename" /\ WOp = "adopt"
  BY Callers DEF Renamed, FlowInv, FactInv
<1>2. site' = site /\ (Recorded' <=> Recorded) /\ UNCHANGED HistFacts
  BY HistKept, EntryKept DEF Renamed, elsewhere
<1>3. CASE Await(c, [flow EXCEPT !.named = TRUE], "adopt", "number")
  <2>1. /\ flow' = [flow EXCEPT !.named = TRUE]
        /\ Moves(c, "adopt", "number") /\ sent' = sent /\ (Loading' <=> Loading)
    BY <1>3, AwaitMoves DEF FlowInv
  <2>2. UNCHANGED FlowFacts
    BY <2>1 DEF FlowInv, SignInTypeOK, Planned, Key, Phase, Linked
  <2> QED BY <1>1, <1>2, <2>1, <2>2 DEF FlowInv, FactInv, Moves
<1>4. CASE Answer(c, "number") /\ UNCHANGED <<flow, sent>>
  <2>1. Rests(c) /\ sent' = sent /\ UNCHANGED FlowFacts
    BY <1>4, AnswerRests, FlowKept DEF FlowInv
  <2> QED BY <1>1, <1>2, <2>1 DEF FlowInv, FactInv, Rests, Moves
<1> QED BY <1>3, <1>4 DEF Renamed

LEMMA NumberedStep ==
  ASSUME FlowInv, NEW c \in Caller, Numbered(c)
  PROVE  FactInv'
<1>1. c = "window" /\ WAt = "number"
  BY Callers DEF Numbered, FlowInv, FactInv
<1>2. /\ site' = site /\ (Recorded' <=> Recorded)
      /\ UNCHANGED HistFacts /\ UNCHANGED FlowFacts
  BY HistKept, FlowKept, EntryKept DEF Numbered, OutOfOrder, Await, elsewhere
<1>3. CASE Await(c, flow, "prove", "sign")
  <2>1. Moves(c, "prove", "sign") /\ sent' = sent /\ (Loading' <=> Loading)
    BY <1>3, AwaitMoves DEF FlowInv
  <2> QED BY <1>1, <1>2, <2>1 DEF FlowInv, FactInv, Moves
<1>4. CASE sent' = sent /\ \E r \in {"number", "failed"} : Answer(c, r)
  <2>1. Rests(c) /\ sent' = sent
    BY <1>4, AnswerRests DEF FlowInv
  <2> QED BY <1>1, <1>2, <2>1 DEF FlowInv, FactInv, Rests, Moves
<1> QED BY <1>3, <1>4 DEF Numbered, OutOfOrder

LEMMA IdentifiedStep ==
  ASSUME FlowInv, NEW c \in Caller, Identified(c)
  PROVE  FactInv'
<1>1. c = "window" /\ WAt = "method"
  BY Callers DEF Identified, FlowInv, FactInv
<1>2. site' = site /\ (Recorded' <=> Recorded) /\ sent' = sent /\ UNCHANGED HistFacts
  BY HistKept, EntryKept DEF Identified, elsewhere
<1>3. Phase' = "identified" /\ UNCHANGED <<Key, Linked, Planned>>
  BY DEF Identified, FlowInv, SignInTypeOK, Phase, Key, Linked, Planned
<1>4. Rests(c)
  BY AnswerRests DEF Identified, FlowInv
<1> QED BY <1>1, <1>2, <1>3, <1>4 DEF FlowInv, FactInv, Rests, Moves

LEMMA CancelledStep ==
  ASSUME FlowInv, NEW c \in Caller, Cancelled(c)
  PROVE  FactInv'
<1>1. /\ \/ c = "window" /\ WAt = "exchange" /\ WOp \in {"over", "failed"}
         \/ c = "poll" /\ PAt = "exchange" /\ POp \in {"over", "failed"}
         \/ c = "close" /\ CAt = "exchange" /\ COp \in {"over", "failed"}
      /\ call[c].op \in {"over", "failed"} /\ ~Filed
  BY Callers DEF Cancelled, At, Cancel, FlowInv, FactInv
<1>2. site' = site /\ (Recorded' <=> Recorded) /\ sent' = sent /\ UNCHANGED HistFacts
  BY HistKept, EntryKept DEF Cancelled, elsewhere
<1>3. Rests(c)
  BY <1>1, AnswerRests DEF Cancelled, FlowInv
<1>4. Gone
  BY FlowHanded, DroppedGone DEF Cancelled, FlowInv
<1>5. CASE c = "window"
  <2>1. Placed'
    BY <1>1, <1>2, <1>3, <1>4, <1>5 DEF FlowInv, FactInv, Rests, Moves, Gone
  <2>2. LinkInv' /\ ReadInv' /\ LoadInv'
    BY <1>1, <1>2, <1>3, <1>4, <1>5 DEF FlowInv, FactInv, Rests, Moves, Gone
  <2>3. ClaimInv' /\ CancelInv' /\ SpentInv' /\ ConcludedInv'
    BY <1>1, <1>2, <1>3, <1>4, <1>5 DEF FlowInv, FactInv, Rests, Moves, Gone
  <2>4. EntryInv'
    BY <1>1, <1>2, <1>3, <1>4, <1>5 DEF FlowInv, FactInv, Rests, Moves, Gone
  <2> QED BY <2>1, <2>2, <2>3, <2>4 DEF FactInv
<1>6. CASE c # "window"
  <2>1. Placed'
    BY <1>1, <1>2, <1>3, <1>4, <1>6 DEF FlowInv, FactInv, Rests, Moves, Gone
  <2>2. LinkInv' /\ ReadInv' /\ LoadInv'
    BY <1>1, <1>2, <1>3, <1>4, <1>6 DEF FlowInv, FactInv, Rests, Moves, Gone
  <2>3. ClaimInv' /\ CancelInv' /\ SpentInv' /\ ConcludedInv'
    BY <1>1, <1>2, <1>3, <1>4, <1>6 DEF FlowInv, FactInv, Rests, Moves, Gone
  <2>4. EntryInv'
    BY <1>1, <1>2, <1>3, <1>4, <1>6 DEF FlowInv, FactInv, Rests, Moves, Gone
  <2> QED BY <2>1, <2>2, <2>3, <2>4 DEF FactInv
<1> QED BY <1>5, <1>6

\* A step that is answered and changes nothing else.
LEMMA RestStep ==
  ASSUME FlowInv, NEW c \in Caller, Rests(c), sent' = sent, site' = site, Recorded' <=> Recorded,
         UNCHANGED FlowFacts, UNCHANGED HistFacts,
         c = "window" => ~Claiming /\ ~Joining, c = "poll" => POp # "none",
         call[c].op \notin Cancel
  PROVE  FactInv'
<1>0. /\ c = "window" => WOp \notin {"over", "failed"}
      /\ c = "poll" => POp \notin {"over", "failed"}
      /\ c = "close" => COp \notin {"over", "failed"}
  BY Callers DEF Cancel
<1>1. Placed'
  BY <1>0 DEF FlowInv, FactInv, Rests, Moves
<1>2. LinkInv' /\ ReadInv' /\ LoadInv'
  BY <1>0 DEF FlowInv, FactInv, Rests, Moves
<1>3. ClaimInv' /\ CancelInv' /\ SpentInv' /\ ConcludedInv'
  <2>1. ClaimInv'
    BY <1>0 DEF FlowInv, FactInv, Rests, Moves
  <2>2. CancelInv'
    BY <1>0 DEF FlowInv, FactInv, Rests, Moves
  <2>3. SpentInv' /\ ConcludedInv'
    BY <1>0 DEF FlowInv, FactInv, Rests, Moves
  <2> QED BY <2>1, <2>2, <2>3
<1>4. EntryInv'
  BY <1>0 DEF FlowInv, FactInv, Rests, Moves
<1> QED BY <1>1, <1>2, <1>3, <1>4 DEF FactInv

\* A flow is cancelled where a step arrives or while one works with the key.
LEMMA CancelStep ==
  ASSUME FlowInv, NEW c \in Caller, Cancelling(c, "over", flow), site' = site,
         Recorded' <=> Recorded, UNCHANGED HistFacts, Phase # "ended",
         call[c].at = "relayed", c = "poll" => POp # "none"
  PROVE  FactInv'
<1>1. flow.phase = Phase
  BY DEF Phase
<1>4. /\ c = "window" => WAt = "relayed"
      /\ c = "poll" => PAt = "relayed"
      /\ c = "close" => CAt = "relayed"
  BY Callers
<1>2. CASE Key
  <2>1. /\ Phase' = "ended" /\ UNCHANGED <<Key, Linked, Planned>>
        /\ Moves(c, "over", "outgoing") /\ sent' = sent /\ (Loading' <=> Loading)
    BY <1>1, <1>2 DEF Cancelling
  <2>2. Placed'
    BY <1>2, <1>4, <2>1 DEF FlowInv, FactInv, Moves
  <2>3. LinkInv' /\ ReadInv' /\ LoadInv'
    BY <1>2, <1>4, <2>1 DEF FlowInv, FactInv, Moves
  <2>4. ClaimInv' /\ CancelInv' /\ SpentInv' /\ ConcludedInv'
    BY <1>2, <1>4, <2>1 DEF FlowInv, FactInv, Moves
  <2>5. EntryInv'
    BY <1>2, <1>4, <2>1 DEF FlowInv, FactInv, Moves
  <2> QED BY <2>2, <2>3, <2>4, <2>5 DEF FactInv
<1>3. CASE ~Key
  <2>1. Gone /\ Rests(c) /\ sent' = sent
    BY <1>1, <1>3 DEF Cancelling
  <2>2. Placed'
    BY <1>3, <1>4, <2>1 DEF FlowInv, FactInv, Rests, Moves, Gone
  <2>3. LinkInv' /\ ReadInv' /\ LoadInv'
    BY <1>3, <1>4, <2>1 DEF FlowInv, FactInv, Rests, Moves, Gone
  <2>4. ClaimInv' /\ CancelInv' /\ SpentInv' /\ ConcludedInv'
    BY <1>3, <1>4, <2>1 DEF FlowInv, FactInv, Rests, Moves, Gone
  <2>5. EntryInv'
    BY <1>3, <1>4, <2>1 DEF FlowInv, FactInv, Rests, Moves, Gone
  <2> QED BY <2>2, <2>3, <2>4, <2>5 DEF FactInv
<1> QED BY <1>2, <1>3

LEMMA ClaimedStep ==
  ASSUME FlowInv, NEW c \in Caller, Claimed(c)
  PROVE  FactInv'
<1>1. c = "window" /\ Claiming /\ WAt = "exchange" /\ call[c].op \notin Cancel
  BY Callers DEF Claimed, At, Cancel, FlowInv, FactInv
<1>2. site' = site /\ (Recorded' <=> Recorded)
  BY EntryKept DEF Claimed, elsewhere
<1> DEFINE f == [flow EXCEPT !.phase = "claimed"]
<1>3. Handed(f) /\ f.phase = "claimed" /\ Handed(flow) /\ flow.phase = Phase
  BY FlowHanded DEF FlowInv
<1>4. \/ /\ IF site.misnamed THEN flow' = f /\ Answer(c, "number") /\ sent' = sent
            ELSE Await(c, f, "claim", "number")
         /\ hist' = hist
      \/ Fails(c, f, "invalid")
      \/ \E why \in {"refused", "unreached"} : Fails(c, flow, why)
  BY DEF Claimed
<1> HIDE DEF f
<1>5. ASSUME flow' = f PROVE Phase' = "claimed" /\ UNCHANGED <<Key, Linked, Planned>>
  BY <1>3, <1>5 DEF Handed, Phase, Key, Linked, Planned
<1>6. CASE site.misnamed /\ flow' = f /\ Answer(c, "number") /\ sent' = sent /\ hist' = hist
  <2>1. Rests(c) /\ sent' = sent /\ UNCHANGED HistFacts
    BY <1>6, AnswerRests, HistKept DEF FlowInv
  <2> QED BY <1>1, <1>2, <1>5, <1>6, <2>1 DEF FlowInv, FactInv, Rests, Moves
<1>7. CASE ~site.misnamed /\ Await(c, f, "claim", "number") /\ hist' = hist
  <2>1. /\ flow' = f /\ Moves(c, "claim", "number") /\ sent' = sent /\ (Loading' <=> Loading)
        /\ UNCHANGED HistFacts
    BY <1>7, AwaitMoves, HistKept DEF FlowInv
  <2> QED BY <1>1, <1>2, <1>5, <1>7, <2>1 DEF FlowInv, FactInv, Moves
<1>8. CASE Fails(c, f, "invalid")
  <2>1. Failed(c, f, "invalid")
    BY <1>3, <1>8, FailsMoves DEF FlowInv, Failure
  <2> QED BY <1>1, <1>2, <1>3, <2>1, FailureStep DEF Failure
<1>9. ASSUME NEW why \in {"refused", "unreached"}, Fails(c, flow, why) PROVE FactInv'
  <2>1. Failed(c, flow, why)
    BY <1>3, <1>9, FailsMoves DEF FlowInv, Failure
  <2> QED BY <1>1, <1>2, <1>3, <2>1, FailureStep DEF Failure
<1> QED BY <1>4, <1>6, <1>7, <1>8, <1>9

LEMMA ProvedStep ==
  ASSUME FlowInv, NEW c \in Caller, Proved(c)
  PROVE  FactInv'
<1>1. c = "window" /\ WAt = "exchange" /\ WOp \in {"prove", "older prove"} /\ call[c].op = WOp
  BY Callers DEF Proved, At, FlowInv, FactInv
<1>2. site' = site /\ (Recorded' <=> Recorded)
  BY EntryKept DEF Proved, elsewhere
<1>3. CASE Await(c, flow, "prove", "method") /\ hist' = hist
  <2>1. /\ UNCHANGED FlowFacts /\ UNCHANGED HistFacts
        /\ Moves(c, "prove", "method") /\ sent' = sent /\ (Loading' <=> Loading)
    BY <1>3, AwaitMoves, FlowKept, HistKept DEF FlowInv
  <2>2. Placed'
    BY <1>1, <1>2, <2>1 DEF FlowInv, FactInv, Moves
  <2>3. LinkInv' /\ ReadInv' /\ LoadInv'
    BY <1>1, <1>2, <2>1 DEF FlowInv, FactInv, Moves
  <2>4. ClaimInv' /\ CancelInv' /\ SpentInv' /\ ConcludedInv'
    BY <1>1, <1>2, <2>1 DEF FlowInv, FactInv, Moves
  <2>5. EntryInv'
    BY <1>1, <1>2, <2>1 DEF FlowInv, FactInv, Moves
  <2> QED BY <2>2, <2>3, <2>4, <2>5 DEF FactInv
<1>4. ASSUME NEW why \in Failure, Fails(c, flow, why) PROVE FactInv'
  <2>1. Handed(flow) /\ flow.phase = Phase /\ Failed(c, flow, why)
    BY <1>4, FlowHanded, FailsMoves DEF FlowInv
  <2>2. Signing /\ (c = "window" => ~Claiming /\ ~Joining) /\ call[c].op \notin Cancel
    BY <1>1 DEF Cancel
  <2> HIDE DEF Signing, Claiming, Joining
  <2> QED BY <1>2, <2>1, <2>2, FailureStep
<1>5. CASE WOp = "prove" /\ flow.key /\ Await(c, flow, "older prove", "outgoing") /\ hist' = hist
  <2>1. /\ UNCHANGED FlowFacts /\ UNCHANGED HistFacts
        /\ Moves(c, "older prove", "outgoing") /\ sent' = sent /\ (Loading' <=> Loading)
    BY <1>5, AwaitMoves, FlowKept, HistKept DEF FlowInv, Messages
  <2>2. Placed'
    BY <1>1, <1>2, <1>5, <2>1 DEF FlowInv, FactInv, Moves
  <2>3. LinkInv' /\ ReadInv' /\ LoadInv'
    BY <1>1, <1>2, <1>5, <2>1 DEF FlowInv, FactInv, Moves
  <2>4. ClaimInv' /\ CancelInv' /\ SpentInv' /\ ConcludedInv'
    BY <1>1, <1>2, <1>5, <2>1 DEF FlowInv, FactInv, Moves
  <2>5. EntryInv'
    BY <1>1, <1>2, <1>5, <2>1 DEF FlowInv, FactInv, Moves
  <2> QED BY <2>2, <2>3, <2>4, <2>5 DEF FactInv
<1> QED BY <1>1, <1>3, <1>4, <1>5 DEF Proved

LEMMA RespondedStep ==
  ASSUME FlowInv, NEW c \in Caller, Responded(c)
  PROVE  FactInv'
<1>1. /\ \/ c = "window" /\ WAt = "exchange" /\ WOp \in {"approve", "remote", "decline"}
         \/ c = "poll" /\ PAt = "exchange" /\ POp = "remote"
         \/ c = "close" /\ CAt = "exchange" /\ COp = "remote"
      /\ call[c].op \notin Cancel
  BY Callers DEF Responded, At, Cancel, FlowInv, FactInv
<1>2. site' = site /\ (Recorded' <=> Recorded)
  BY EntryKept DEF Responded, elsewhere
<1>3. CASE flow' = Ended(flow) /\ Answer(c, "over") /\ sent' = sent /\ Note("concluded")
  <2>1. Gone /\ Rests(c) /\ sent' = sent
    BY <1>3, FlowHanded, DroppedGone, AnswerRests DEF FlowInv
  <2>2. Concluded' /\ UNCHANGED <<Told, Read, Unreached, Stuck, Filed>>
    BY <1>3 DEF Note, FlowInv, SignInTypeOK, Told, Read, Concluded, Unreached, Stuck, Filed
  <2>3. Placed'
    BY <1>1, <1>2, <2>1, <2>2 DEF FlowInv, FactInv, Rests, Moves, Gone
  <2>4. LinkInv' /\ ReadInv' /\ LoadInv'
    BY <1>1, <1>2, <2>1, <2>2 DEF FlowInv, FactInv, Rests, Moves, Gone
  <2>5. ClaimInv' /\ CancelInv' /\ SpentInv' /\ ConcludedInv'
    BY <1>1, <1>2, <2>1, <2>2 DEF FlowInv, FactInv, Rests, Moves, Gone
  <2>6. EntryInv'
    BY <1>1, <1>2, <2>1, <2>2 DEF FlowInv, FactInv, Rests, Moves, Gone
  <2> QED BY <2>3, <2>4, <2>5, <2>6 DEF FactInv
<1>4. ASSUME NEW why \in Failure, Fails(c, flow, why) PROVE FactInv'
  <2>1. Handed(flow) /\ flow.phase = Phase /\ Failed(c, flow, why)
    BY <1>4, FlowHanded, FailsMoves DEF FlowInv
  <2>2. Signing /\ (c = "window" => ~Claiming /\ ~Joining)
    BY <1>1
  <2> HIDE DEF Signing, Claiming, Joining
  <2> QED BY <1>1, <1>2, <2>1, <2>2, FailureStep
<1> QED BY <1>3, <1>4 DEF Responded

LEMMA SignedStep ==
  ASSUME FlowInv, NEW c \in Caller, Signed(c)
  PROVE  FactInv'
<1>1. /\ \/ c = "window" /\ WAt = "sign" /\ call[c].op = WOp
         \/ c = "poll" /\ call[c].op = "remote" /\ PAt = "sign" /\ POp = "remote"
         \/ c = "close" /\ call[c].op = "remote" /\ CAt = "sign" /\ COp = "remote"
      /\ call[c].op \notin Cancel
  BY Callers DEF Signed, Cancel, FlowInv, FactInv
<1>2. site' = site /\ (Recorded' <=> Recorded)
  BY EntryKept DEF Signed, elsewhere
<1>3. CASE call[c].op = "submit"
  <2>1. c = "window" /\ WOp = "submit" /\ WAt = "sign"
    BY <1>1, <1>3
  <2>2. UNCHANGED HistFacts /\ (Await(c, flow, "submit", "outgoing") \/ Await(c, flow, "submit", "unbind"))
    BY <1>3, HistKept DEF Signed
  <2>3. CASE Await(c, flow, "submit", "outgoing")
    <3>1. UNCHANGED FlowFacts /\ Moves(c, "submit", "outgoing")
          /\ sent' = sent /\ (Loading' <=> Loading)
      BY <2>3, AwaitMoves, FlowKept DEF FlowInv, Messages
    <3>2. Placed'
      BY <1>2, <2>1, <2>2, <3>1 DEF FlowInv, FactInv, Moves
    <3>3. LinkInv' /\ ReadInv' /\ LoadInv'
      BY <1>2, <2>1, <2>2, <3>1 DEF FlowInv, FactInv, Moves
    <3>4. ClaimInv' /\ CancelInv' /\ SpentInv' /\ ConcludedInv'
      BY <1>2, <2>1, <2>2, <3>1 DEF FlowInv, FactInv, Moves
    <3>5. EntryInv'
      BY <1>2, <2>1, <2>2, <3>1 DEF FlowInv, FactInv, Moves
    <3> QED BY <3>2, <3>3, <3>4, <3>5 DEF FactInv
  <2>4. CASE Await(c, flow, "submit", "unbind")
    <3>1. UNCHANGED FlowFacts /\ Moves(c, "submit", "unbind")
          /\ sent' = sent /\ (Loading' <=> Loading)
      BY <2>4, AwaitMoves, FlowKept DEF FlowInv
    <3> QED BY <1>2, <2>1, <2>2, <3>1 DEF FlowInv, FactInv, Moves
  <2> QED BY <2>2, <2>3, <2>4
<1>4. CASE call[c].op # "submit"
  <2>1. Signing /\ (c = "window" => ~Claiming /\ ~Joining)
    BY <1>1, <1>4 DEF FlowInv, FactInv
  <2>2. \/ /\ flow.key /\ hist' = hist
           /\ Await(c, flow, call[c].op, "outgoing")
        \/ Fails(c, flow, "invalid")
        \/ \E r \in {"pin", "pending"} : Answer(c, r) /\ UNCHANGED <<flow, sent, hist>>
    BY <1>4 DEF Signed
  <2>3. CASE flow.key /\ hist' = hist /\ Await(c, flow, call[c].op, "outgoing")
    <3> DEFINE op == call[c].op
    <3>1. op \in {"prove", "approve", "remote", "decline"}
          /\ (c = "window" => op = WOp) /\ (c # "window" => op = "remote")
      BY <1>1, <1>4 DEF FlowInv, FactInv
    <3>2. Await(c, flow, op, "outgoing")
      BY <2>3
    <3> HIDE DEF op
    <3>4. UNCHANGED FlowFacts /\ UNCHANGED HistFacts /\ Moves(c, op, "outgoing")
          /\ sent' = sent /\ (Loading' <=> Loading)
      BY <2>3, <3>2, AwaitMoves, FlowKept, HistKept DEF FlowInv
    <3>5. Placed'
      BY <1>1, <1>2, <2>1, <3>1, <3>4 DEF FlowInv, FactInv, Moves
    <3>6. LinkInv' /\ ReadInv' /\ LoadInv'
      BY <1>1, <1>2, <2>1, <3>1, <3>4 DEF FlowInv, FactInv, Moves
    <3>7. ClaimInv' /\ CancelInv' /\ SpentInv' /\ ConcludedInv'
      <4>1. ClaimInv'
        BY <1>1, <1>2, <2>1, <3>1, <3>4 DEF FlowInv, FactInv, Moves
      <4>2. CancelInv'
        BY <1>1, <1>2, <2>1, <3>1, <3>4 DEF FlowInv, FactInv, Moves
      <4>3. SpentInv' /\ ConcludedInv'
        BY <1>1, <1>2, <2>1, <3>1, <3>4 DEF FlowInv, FactInv, Moves
      <4> QED BY <4>1, <4>2, <4>3
    <3>8. EntryInv'
      BY <1>1, <1>2, <2>1, <3>1, <3>4 DEF FlowInv, FactInv, Moves
    <3> QED BY <3>5, <3>6, <3>7, <3>8 DEF FactInv
  <2>4. CASE Fails(c, flow, "invalid")
    <3>1. Handed(flow) /\ flow.phase = Phase /\ Failed(c, flow, "invalid") /\ "invalid" \in Failure
      BY <2>4, FlowHanded, FailsMoves DEF FlowInv, Failure
    <3> HIDE DEF Signing, Claiming, Joining
    <3> QED BY <1>1, <1>2, <2>1, <3>1, FailureStep
  <2>5. ASSUME NEW r \in {"pin", "pending"}, Answer(c, r), UNCHANGED <<flow, sent, hist>>
        PROVE  FactInv'
    <3>1. Rests(c) /\ sent' = sent /\ UNCHANGED FlowFacts /\ UNCHANGED HistFacts
      BY <2>5, AnswerRests, FlowKept, HistKept DEF FlowInv
    <3> HIDE DEF Signing, Claiming, Joining, FlowFacts, HistFacts
    <3> QED BY <1>1, <1>2, <2>1, <3>1, RestStep
  <2> QED BY <2>2, <2>3, <2>4, <2>5
<1> QED BY <1>3, <1>4

LEMMA PostedStep ==
  ASSUME FlowInv, NEW c \in Caller, Posted(c)
  PROVE  FactInv'
<1> DEFINE op == call[c].op
<1>1. /\ \/ c = "window" /\ WAt = "outgoing" /\ op = WOp
         \/ c = "poll" /\ PAt = "outgoing" /\ op = POp
         \/ c = "close" /\ CAt = "outgoing" /\ op = COp
      /\ c # "window" => op \in {"remote", "over", "failed"}
  BY Callers DEF Posted, FlowInv, FactInv
<1>2. /\ site' = site /\ UNCHANGED FlowFacts /\ (Recorded' <=> Recorded) /\ (Loading' <=> Loading)
      /\ Moves(c, op, "exchange")
  BY PostMoves DEF FlowInv
<1>3. /\ UNCHANGED <<Told, Read, Concluded, Unreached, Stuck>>
      /\ Filed' <=> (Filed \/ (op = "claim" /\ Phase # "ended")) /\ op \notin {"over", "failed"}
  BY DEF Posted, FlowInv, SignInTypeOK, Cancel, Phase, Told, Read, Concluded, Unreached, Stuck, Filed
<1>4. PICK m : /\ sent' = sent \cup {m}
               /\ (m = "claim" <=> op = "claim") /\ (m = "prove" => op \in {"prove", "older prove"})
  <2>1. sent' = sent \cup {MessageOf(op)}
    BY DEF Posted
  <2>2. /\ op \in {"manifest", "older manifest", "submit", "claim", "prove", "older prove",
                   "approve", "remote", "decline", "over", "failed"}
    BY <1>1 DEF FlowInv, FactInv
  <2>3. /\ MessageOf(op) = "claim" <=> op = "claim"
        /\ MessageOf(op) = "prove" => op \in {"prove", "older prove"}
    BY <2>2 DEF MessageOf, Cancel
  <2> QED BY <2>1, <2>3
<1> HIDE DEF op
<1>5. CASE c = "window"
  <2>1. Placed'
    BY <1>1, <1>2, <1>3, <1>4, <1>5 DEF FlowInv, FactInv, Moves
  <2>2. LinkInv' /\ ReadInv' /\ LoadInv'
    BY <1>1, <1>2, <1>3, <1>4, <1>5 DEF FlowInv, FactInv, Moves
  <2>3. ClaimInv'
    BY <1>1, <1>2, <1>3, <1>4, <1>5 DEF FlowInv, FactInv, Moves
  <2>4. CancelInv' /\ SpentInv' /\ ConcludedInv'
    <3>1. CancelInv'
      BY <1>1, <1>2, <1>3, <1>4, <1>5 DEF FlowInv, FactInv, Moves
    <3>2. op = "claim" => Phase = "ended" \/ Key
      <4>1. Phase \in Phases
        BY DEF FlowInv, SignInTypeOK, Phase
      <4> QED BY <1>1, <1>5, <4>1 DEF Phases, FlowInv, FactInv
    <3>3. SpentInv'
      BY <1>1, <1>2, <1>3, <1>5, <3>2 DEF FlowInv, FactInv, Moves
    <3>4. ConcludedInv'
      BY <1>1, <1>2, <1>3, <1>4, <1>5 DEF FlowInv, FactInv, Moves
    <3> QED BY <3>1, <3>3, <3>4
  <2>5. EntryInv'
    BY <1>1, <1>2, <1>3, <1>4, <1>5 DEF FlowInv, FactInv, Moves
  <2> QED BY <2>1, <2>2, <2>3, <2>4, <2>5 DEF FactInv
<1>6. CASE c # "window"
  <2>1. Placed'
    BY <1>1, <1>2, <1>3, <1>4, <1>6 DEF FlowInv, FactInv, Moves
  <2>2. LinkInv' /\ ReadInv' /\ LoadInv'
    BY <1>1, <1>2, <1>3, <1>4, <1>6 DEF FlowInv, FactInv, Moves
  <2>3. ClaimInv'
    BY <1>1, <1>2, <1>3, <1>4, <1>6 DEF FlowInv, FactInv, Moves
  <2>4. CancelInv' /\ SpentInv' /\ ConcludedInv'
    BY <1>1, <1>2, <1>3, <1>4, <1>6 DEF FlowInv, FactInv, Moves
  <2>5. EntryInv'
    BY <1>1, <1>2, <1>3, <1>4, <1>6 DEF FlowInv, FactInv, Moves
  <2> QED BY <2>1, <2>2, <2>3, <2>4, <2>5 DEF FactInv
<1> QED BY <1>5, <1>6

\* A message sent back by the limiter waits where it was before it was sent.
LEMMA LimitedStep ==
  ASSUME FlowInv, NEW c \in Caller, Limited(c)
  PROVE  FactInv'
<1> DEFINE op == call[c].op
<1>1. /\ \/ c = "window" /\ WAt = "exchange" /\ op = WOp
         \/ c = "poll" /\ PAt = "exchange" /\ op = POp
         \/ c = "close" /\ CAt = "exchange" /\ op = COp
  BY Callers DEF Limited
<1>2. /\ site' = site /\ UNCHANGED FlowFacts /\ (Recorded' <=> Recorded) /\ (Loading' <=> Loading)
      /\ Moves(c, op, "outgoing")
  BY PostMoves DEF FlowInv
<1>3. sent' = sent /\ UNCHANGED HistFacts
  BY HistKept DEF Limited
<1> HIDE DEF op
<1>4. Placed'
  BY <1>1, <1>2, <1>3 DEF FlowInv, FactInv, Moves
<1>5. LinkInv' /\ ReadInv' /\ LoadInv'
  BY <1>1, <1>2, <1>3 DEF FlowInv, FactInv, Moves
<1>6. ClaimInv' /\ SpentInv' /\ ConcludedInv'
  BY <1>1, <1>2, <1>3 DEF FlowInv, FactInv, Moves
<1>7. CancelInv'
  BY <1>1, <1>2, <1>3 DEF FlowInv, FactInv, Moves
<1>8. EntryInv'
  BY <1>1, <1>2, <1>3 DEF FlowInv, FactInv, Moves
<1> QED BY <1>4, <1>5, <1>6, <1>7, <1>8 DEF FactInv

\* Where an arriving step is, and what its own test has found.
LEMMA ArriveStep ==
  ASSUME FlowInv, NEW c \in Caller, Arrive(c)
  PROVE  FactInv'
<1> DEFINE op == call[c].op
<1>1. /\ \/ c = "window" /\ WAt = "relayed" /\ op = WOp
         \/ c # "window" /\ op \in {"remote", "cancel", "expire"} /\ "relayed" \in {PAt, CAt}
      /\ c = "poll" => POp # "none"
      /\ op \in {"prepare", "join", "manifest", "submit", "claim", "prove", "adopt", "challenge",
                 "approve", "remote", "decline", "cancel", "expire"}
      /\ call[c].at = "relayed" /\ call[c].op \notin Cancel
  BY Callers DEF Arrive, Cancel, FlowInv, FactInv
<1>2. site' = site /\ (Recorded' <=> Recorded) /\ UNCHANGED HistFacts
  BY EntryKept, HistKept DEF Arrive, elsewhere
<1>3. IF Ready(op) THEN Begin(c, op) ELSE OutOfOrder(c)
  BY DEF Arrive
<1>4. Ready(op) =>
        /\ op = "join" => Phase = "joining" /\ site.kind = "hosting"
        /\ op = "manifest" => Phase = "joining"
        /\ op = "submit" => Phase = "joining" /\ Planned
        /\ op = "claim" => Phase = "prepared"
        /\ op = "adopt" => Phase = "claimed"
        /\ op \in {"prove", "approve", "remote", "decline", "challenge"} => Key
        /\ op \in {"prove", "approve", "remote", "decline", "challenge", "cancel", "expire"} => Phase # "ended"
  BY DEF Ready, Provable, Phase, Key, Planned
<1> HIDE DEF op
<1>5. (c = "window" => ~Claiming /\ ~Joining) /\ flow.phase = Phase
  BY <1>1 DEF Phase
<1>6. CASE Rests(c) /\ sent' = sent /\ UNCHANGED FlowFacts
  <2> HIDE DEF Claiming, Joining, FlowFacts, HistFacts
  <2> QED BY <1>1, <1>2, <1>5, <1>6, RestStep
<1>7. CASE OutOfOrder(c)
  <2>1. Rests(c) /\ sent' = sent /\ UNCHANGED FlowFacts
    BY <1>7, AnswerRests, FlowKept DEF OutOfOrder, FlowInv
  <2> QED BY <1>6, <2>1
<1>8. CASE Ready(op) /\ op = "challenge" /\ Begin(c, op)
  <2>1. flow' = [flow EXCEPT !.grant = @ + 1] /\ Answer(c, "gesture") /\ sent' = sent
    BY <1>8 DEF Begin
  <2>2. UNCHANGED FlowFacts
    BY <2>1 DEF FlowInv, SignInTypeOK, Key, Phase, Linked, Planned
  <2>3. Rests(c) /\ sent' = sent
    BY <2>1, AnswerRests DEF FlowInv
  <2> QED BY <1>6, <2>2, <2>3
<1>9. CASE Ready(op) /\ op \in {"cancel", "expire"} /\ Begin(c, op)
  <2>1. Cancels(c, flow, "over")
    BY <1>9 DEF Begin
  <2>2. Cancelling(c, "over", flow)
    BY <2>1, FlowHanded, CancelsMoves DEF FlowInv
  <2>3. Phase # "ended" /\ call[c].at = "relayed"
    BY <1>1, <1>4, <1>9
  <2> HIDE DEF HistFacts
  <2> QED BY <1>1, <1>2, <2>2, <2>3, CancelStep
<1>10. CASE Ready(op) /\ op = "prepare" /\ Begin(c, op)
  <2>1. Await(c, flow, "prepare", "reading")
    BY <1>10 DEF Begin
  <2>2. Moves(c, "prepare", "reading") /\ sent' = sent /\ (Loading' <=> Loading) /\ UNCHANGED FlowFacts
    BY <2>1, AwaitMoves, FlowKept DEF FlowInv
  <2>3. c = "window" /\ WAt = "relayed" /\ WOp = "prepare"
    BY <1>1, <1>10
  <2>4. Placed'
    BY <1>2, <2>2, <2>3 DEF FlowInv, FactInv, Moves
  <2>5. LinkInv' /\ ReadInv' /\ LoadInv'
    BY <1>2, <2>2, <2>3 DEF FlowInv, FactInv, Moves
  <2>6. ClaimInv' /\ CancelInv' /\ SpentInv' /\ ConcludedInv'
    BY <1>2, <2>2, <2>3 DEF FlowInv, FactInv, Moves
  <2>7. EntryInv'
    BY <1>2, <2>2, <2>3 DEF FlowInv, FactInv, Moves
  <2> QED BY <2>4, <2>5, <2>6, <2>7 DEF FactInv
<1>11. CASE Ready(op) /\ op \in {"join", "manifest", "claim"} /\ Begin(c, op)
  <2>1. Approach(c, op)
    BY <1>11 DEF Begin
  <2>2. c = "window" /\ WAt = "relayed" /\ WOp = op
    BY <1>1, <1>11
  <2>3. /\ op \in {"join", "manifest"} => Phase = "joining"
        /\ op = "join" => site.kind = "hosting"
        /\ op = "claim" => Phase = "prepared"
        /\ ~Told \/ op = "claim"
        /\ ~Begun
    BY <1>4, <1>11, <2>2 DEF FlowInv, FactInv
  <2>4. CASE site.domain /\ ~flow.linked
    <3>1. Await(c, flow, op, "linkage")
      BY <2>1, <2>4 DEF Approach
    <3>2. Moves(c, op, "linkage") /\ sent' = sent /\ (Loading' <=> Loading) /\ UNCHANGED FlowFacts
      BY <3>1, AwaitMoves, FlowKept DEF FlowInv
    <3>3. Placed'
      BY <1>2, <1>11, <2>2, <2>3, <3>2 DEF FlowInv, FactInv, Moves
    <3>4. LinkInv' /\ ReadInv' /\ LoadInv'
      BY <1>2, <1>11, <2>2, <2>3, <3>2 DEF FlowInv, FactInv, Moves
    <3>5. ClaimInv' /\ CancelInv' /\ SpentInv' /\ ConcludedInv'
      BY <1>2, <1>11, <2>2, <2>3, <3>2 DEF FlowInv, FactInv, Moves
    <3>6. EntryInv'
      BY <1>2, <1>11, <2>2, <2>3, <3>2 DEF FlowInv, FactInv, Moves
    <3> QED BY <3>3, <3>4, <3>5, <3>6 DEF FactInv
  <2>5. CASE ~(site.domain /\ ~flow.linked)
    <3>1. Contact(c, flow, op) /\ (site.domain => Linked)
      BY <2>1, <2>5 DEF Approach, Linked
    <3>2. CASE op = "join" /\ Await(c, flow, op, "bind")
      <4>1. Moves(c, "join", "bind") /\ sent' = sent /\ (Loading' <=> Loading) /\ UNCHANGED FlowFacts
        BY <3>2, AwaitMoves, FlowKept DEF FlowInv
      <4>2. Placed'
        BY <1>2, <2>2, <2>3, <3>1, <3>2, <4>1 DEF FlowInv, FactInv, Moves
      <4>3. LinkInv' /\ ReadInv' /\ LoadInv'
        BY <1>2, <2>2, <2>3, <3>1, <3>2, <4>1 DEF FlowInv, FactInv, Moves
      <4>4. ClaimInv' /\ CancelInv' /\ SpentInv' /\ ConcludedInv'
        BY <1>2, <2>2, <2>3, <3>1, <3>2, <4>1 DEF FlowInv, FactInv, Moves
      <4>5. EntryInv'
        BY <1>2, <2>2, <2>3, <3>1, <3>2, <4>1 DEF FlowInv, FactInv, Moves
      <4> QED BY <4>2, <4>3, <4>4, <4>5 DEF FactInv
    <3>3. CASE op = "manifest" /\ Await(c, flow, op, "outgoing")
      <4>1. Moves(c, "manifest", "outgoing") /\ sent' = sent
            /\ (Loading' <=> Loading) /\ UNCHANGED FlowFacts
        BY <3>3, AwaitMoves, FlowKept DEF FlowInv, Messages
      <4>2. Placed'
        BY <1>2, <2>2, <2>3, <3>1, <3>3, <4>1 DEF FlowInv, FactInv, Moves
      <4>3. LinkInv' /\ ReadInv' /\ LoadInv'
        BY <1>2, <2>2, <2>3, <3>1, <3>3, <4>1 DEF FlowInv, FactInv, Moves
      <4>4. ClaimInv' /\ CancelInv' /\ SpentInv' /\ ConcludedInv'
        BY <1>2, <2>2, <2>3, <3>1, <3>3, <4>1 DEF FlowInv, FactInv, Moves
      <4>5. EntryInv'
        BY <1>2, <2>2, <2>3, <3>1, <3>3, <4>1 DEF FlowInv, FactInv, Moves
      <4> QED BY <4>2, <4>3, <4>4, <4>5 DEF FactInv
    <3>4. CASE op = "claim" /\ Await(c, [flow EXCEPT !.key = TRUE], op, "outgoing")
      <4>1. flow' = [flow EXCEPT !.key = TRUE] /\ Moves(c, "claim", "outgoing")
            /\ sent' = sent /\ (Loading' <=> Loading)
        BY <3>4, AwaitMoves DEF FlowInv, Messages
      <4>2. Key' /\ UNCHANGED <<Linked, Planned, Phase>>
        BY <4>1 DEF FlowInv, SignInTypeOK, Key, Linked, Planned, Phase
      <4>3. Placed'
        BY <1>2, <2>2, <2>3, <3>1, <3>4, <4>1, <4>2 DEF FlowInv, FactInv, Moves
      <4>4. LinkInv' /\ ReadInv' /\ LoadInv'
        BY <1>2, <2>2, <2>3, <3>1, <3>4, <4>1, <4>2 DEF FlowInv, FactInv, Moves
      <4>5. ClaimInv' /\ CancelInv' /\ SpentInv' /\ ConcludedInv'
        BY <1>2, <2>2, <2>3, <3>1, <3>4, <4>1, <4>2 DEF FlowInv, FactInv, Moves
      <4>6. EntryInv'
        BY <1>2, <2>2, <2>3, <3>1, <3>4, <4>1, <4>2 DEF FlowInv, FactInv, Moves
      <4> QED BY <4>3, <4>4, <4>5, <4>6 DEF FactInv
    <3> QED BY <3>1, <3>2, <3>3, <3>4 DEF Contact
  <2> QED BY <2>4, <2>5
<1>12. CASE Ready(op) /\ op = "submit" /\ Begin(c, op)
  <2>1. Await(c, flow, "submit", "bind")
    BY <1>12 DEF Begin
  <2>2. Moves(c, "submit", "bind") /\ sent' = sent /\ (Loading' <=> Loading) /\ UNCHANGED FlowFacts
    BY <2>1, AwaitMoves, FlowKept DEF FlowInv
  <2>3. c = "window" /\ WAt = "relayed" /\ WOp = "submit" /\ Phase = "joining" /\ Planned
    BY <1>1, <1>4, <1>12
  <2>4. Placed'
    BY <1>2, <2>2, <2>3 DEF FlowInv, FactInv, Moves
  <2>5. LinkInv' /\ ReadInv' /\ LoadInv'
    BY <1>2, <2>2, <2>3 DEF FlowInv, FactInv, Moves
  <2>6. ClaimInv' /\ CancelInv' /\ SpentInv' /\ ConcludedInv'
    BY <1>2, <2>2, <2>3 DEF FlowInv, FactInv, Moves
  <2>7. EntryInv'
    BY <1>2, <2>2, <2>3 DEF FlowInv, FactInv, Moves
  <2> QED BY <2>4, <2>5, <2>6, <2>7 DEF FactInv
<1>13. CASE Ready(op) /\ op = "adopt" /\ Begin(c, op)
  <2>1. Await(c, flow, "adopt", "rename")
    BY <1>13 DEF Begin
  <2>2. Moves(c, "adopt", "rename") /\ sent' = sent /\ (Loading' <=> Loading) /\ UNCHANGED FlowFacts
    BY <2>1, AwaitMoves, FlowKept DEF FlowInv
  <2>3. c = "window" /\ WAt = "relayed" /\ WOp = "adopt" /\ Phase = "claimed"
    BY <1>1, <1>4, <1>13
  <2>4. Placed'
    BY <1>2, <2>2, <2>3 DEF FlowInv, FactInv, Moves
  <2>5. LinkInv' /\ ReadInv' /\ LoadInv'
    BY <1>2, <2>2, <2>3 DEF FlowInv, FactInv, Moves
  <2>6. ClaimInv' /\ CancelInv' /\ SpentInv' /\ ConcludedInv'
    BY <1>2, <2>2, <2>3 DEF FlowInv, FactInv, Moves
  <2>7. EntryInv'
    BY <1>2, <2>2, <2>3 DEF FlowInv, FactInv, Moves
  <2> QED BY <2>4, <2>5, <2>6, <2>7 DEF FactInv
<1>14. CASE Ready(op) /\ op \in {"prove", "approve", "remote", "decline"} /\ Begin(c, op)
  <2>1. Await(c, flow, op, "sign")
    BY <1>14 DEF Begin
  <2>2. Moves(c, op, "sign") /\ sent' = sent /\ (Loading' <=> Loading) /\ UNCHANGED FlowFacts
    BY <2>1, AwaitMoves, FlowKept DEF FlowInv
  <2>3. Key /\ Phase # "ended" /\ Begun
    BY <1>4, <1>14 DEF FlowInv, FactInv
  <2>4. Placed'
    BY <1>1, <1>2, <1>14, <2>2, <2>3 DEF FlowInv, FactInv, Moves
  <2>5. LinkInv' /\ ReadInv' /\ LoadInv'
    BY <1>1, <1>2, <1>14, <2>2, <2>3 DEF FlowInv, FactInv, Moves
  <2>6. ClaimInv' /\ CancelInv' /\ SpentInv' /\ ConcludedInv'
    BY <1>1, <1>2, <1>14, <2>2, <2>3 DEF FlowInv, FactInv, Moves
  <2>7. EntryInv'
    BY <1>1, <1>2, <1>14, <2>2, <2>3 DEF FlowInv, FactInv, Moves
  <2> QED BY <2>4, <2>5, <2>6, <2>7 DEF FactInv
<1> QED BY <1>1, <1>3, <1>7, <1>8, <1>9, <1>10, <1>11, <1>12, <1>13, <1>14

-----------------------------------------------------------------------------
(* The steps of the window and the worker.                                 *)

\* Nothing the invariant speaks of changes, but for a window that no longer loads.
LEMMA KeptStep ==
  ASSUME FlowInv, site' = site, UNCHANGED FlowFacts, UNCHANGED HistFacts, sent' = sent,
         Recorded' <=> Recorded, UNCHANGED <<WOp, WAt, POp, PAt, COp, CAt>>,
         (Loading' <=> Loading) \/ (~Loading' /\ WOp # "prepare")
  PROVE  FactInv'
<1>1. Placed'
  <2>1. Placed /\ WOp' = WOp /\ WAt' = WAt /\ POp' = POp /\ PAt' = PAt /\ COp' = COp
        /\ CAt' = CAt /\ sent' = sent
    BY DEF FlowInv, FactInv
  <2> QED BY <2>1
<1>2. LinkInv' /\ ReadInv' /\ LoadInv'
  BY DEF FlowInv, FactInv
<1>3. ClaimInv' /\ CancelInv' /\ SpentInv' /\ ConcludedInv'
  <2>1. ClaimInv'
    BY DEF FlowInv, FactInv
  <2>2. CancelInv'
    BY DEF FlowInv, FactInv
  <2>3. SpentInv' /\ ConcludedInv'
    BY DEF FlowInv, FactInv
  <2> QED BY <2>1, <2>2, <2>3
<1>4. EntryInv'
  BY DEF FlowInv, FactInv
<1> QED BY <1>1, <1>2, <1>3, <1>4 DEF FactInv

LEMMA CallKept == ASSUME call' = call PROVE UNCHANGED <<WOp, WAt, POp, PAt, COp, CAt>>
<1> QED BY DEF WOp, WAt, POp, PAt, COp, CAt

WindowOps == {"prepare", "join", "manifest", "submit", "claim", "prove", "adopt",
              "challenge", "approve", "remote", "decline", "cancel"}

LEMMA StepStep ==
  ASSUME FlowInv, NEW op \in WindowOps, Step(op)
  PROVE  FactInv'
<1>1. WOp = "none" /\ WAt = "idle"
  BY DEF Step, Idle, WOp, WAt
<1>2. (op = "prepare" <=> Loading)
  BY DEF Step, Asks, Loading
<1>3. site' = site /\ (Recorded' <=> Recorded) /\ sent' = sent /\ UNCHANGED FlowFacts
  BY EntryKept, FlowKept DEF Step
<1>4. UNCHANGED <<Told, Concluded, Unreached, Stuck, Filed>> /\ (Read' <=> Read \/ op \in {"prove", "adopt"})
  BY DEF Step, FlowInv, SignInTypeOK, Told, Read, Concluded, Unreached, Stuck, Filed
<1>5. Relay("window", op)
  BY DEF Step
<1>6. CASE record
  <2>1. Moves("window", op, "relayed") /\ (Loading' <=> Loading)
    BY <1>5, <1>6, GotoMoves DEF Relay, Loading, FlowInv, Caller
  <2>2. Placed'
    BY <1>1, <1>3, <2>1 DEF FlowInv, FactInv, Moves, WindowOps
  <2>3. LinkInv' /\ ReadInv' /\ LoadInv'
    BY <1>1, <1>2, <1>3, <1>4, <2>1 DEF FlowInv, FactInv, Moves, WindowOps
  <2>4. ClaimInv' /\ CancelInv' /\ SpentInv' /\ ConcludedInv'
    BY <1>1, <1>3, <1>4, <2>1 DEF FlowInv, FactInv, Moves, WindowOps
  <2>5. EntryInv'
    BY <1>1, <1>3, <1>4, <2>1 DEF FlowInv, FactInv, Moves, WindowOps
  <2> QED BY <2>2, <2>3, <2>4, <2>5 DEF FactInv
<1>7. CASE ~record
  <2>1. UNCHANGED <<WOp, WAt, POp, PAt, COp, CAt>> /\ ~Loading'
    BY <1>5, <1>7, CallKept DEF Relay, Loading
  <2>2. Placed'
    BY <1>1, <1>3, <2>1 DEF FlowInv, FactInv
  <2>3. LinkInv' /\ ReadInv' /\ LoadInv'
    BY <1>1, <1>3, <1>4, <2>1 DEF FlowInv, FactInv
  <2>4. ClaimInv' /\ CancelInv' /\ SpentInv' /\ ConcludedInv'
    BY <1>1, <1>3, <1>4, <2>1 DEF FlowInv, FactInv
  <2>5. EntryInv'
    BY <1>1, <1>3, <1>4, <2>1 DEF FlowInv, FactInv
  <2> QED BY <2>2, <2>3, <2>4, <2>5 DEF FactInv
<1> QED BY <1>6, <1>7

LEMMA PollStep ==
  ASSUME FlowInv, Poll
  PROVE  FactInv'
<1>1. site' = site /\ (Recorded' <=> Recorded) /\ sent' = sent /\ UNCHANGED FlowFacts
      /\ UNCHANGED HistFacts
  BY EntryKept, FlowKept, HistKept DEF Poll
<1>2. ~Loading /\ WOp # "prepare" /\ POp = "none" /\ PAt = "idle"
  <2>1. screen # "loading" /\ call["poll"] = Idle
    BY DEF Poll
  <2>2. POp = "none" /\ PAt = "idle"
    BY <2>1 DEF Idle, POp, PAt
  <2> QED BY <2>1, <2>2 DEF Loading, FlowInv, FactInv
<1>3. PICK op \in {"remote", "expire"} : Relay("poll", op)
  BY DEF Poll
<1>4. CASE record
  <2>1. Moves("poll", op, "relayed") /\ (Loading' <=> Loading)
    BY <1>3, <1>4, GotoMoves DEF Relay, Loading, FlowInv, Caller
  <2>2. Placed'
    BY <1>1, <1>2, <2>1 DEF FlowInv, FactInv, Moves
  <2>3. LinkInv' /\ ReadInv' /\ LoadInv'
    BY <1>1, <1>2, <2>1 DEF FlowInv, FactInv, Moves
  <2>4. ClaimInv' /\ CancelInv' /\ SpentInv' /\ ConcludedInv'
    <3>1. ClaimInv'
      BY <1>1, <1>2, <2>1 DEF FlowInv, FactInv, Moves
    <3>2. CancelInv'
      BY <1>1, <1>2, <2>1 DEF FlowInv, FactInv, Moves
    <3>3. SpentInv' /\ ConcludedInv'
      BY <1>1, <1>2, <2>1 DEF FlowInv, FactInv, Moves
    <3> QED BY <3>1, <3>2, <3>3
  <2>5. EntryInv'
    BY <1>1, <1>2, <2>1 DEF FlowInv, FactInv, Moves
  <2> QED BY <2>2, <2>3, <2>4, <2>5 DEF FactInv
<1>5. CASE ~record
  <2>1. UNCHANGED <<WOp, WAt, POp, PAt, COp, CAt>> /\ ~Loading'
    BY <1>3, <1>5, CallKept DEF Relay, Loading
  <2> HIDE DEF FlowFacts, HistFacts
  <2> QED BY <1>1, <1>2, <2>1, KeptStep
<1> QED BY <1>4, <1>5

LEMMA EndStep ==
  ASSUME FlowInv, EndSignInFlow
  PROVE  FactInv'
<1>1. site' = site /\ (Recorded' <=> Recorded) /\ sent' = sent /\ UNCHANGED FlowFacts
      /\ (Loading' <=> Loading)
  BY EntryKept, FlowKept DEF EndSignInFlow, Loading
<1>2. UNCHANGED HistFacts
  BY DEF EndSignInFlow, Note, FlowInv, SignInTypeOK, Told, Read, Concluded, Unreached, Stuck, Filed
<1>5. COp = "none" /\ CAt = "idle"
  BY DEF EndSignInFlow, FlowInv, CloseInv, Idle, COp, CAt
<1>3. CASE record
  <2>1. Moves("close", "cancel", "relayed")
    BY <1>3, GotoMoves DEF EndSignInFlow, FlowInv, Caller
  <2>2. Placed'
    BY <1>1, <1>2, <1>5, <2>1 DEF FlowInv, FactInv, Moves
  <2>3. LinkInv' /\ ReadInv' /\ LoadInv'
    BY <1>1, <1>2, <1>5, <2>1 DEF FlowInv, FactInv, Moves
  <2>4. ClaimInv' /\ CancelInv' /\ SpentInv' /\ ConcludedInv'
    <3>1. ClaimInv'
      BY <1>1, <1>2, <1>5, <2>1 DEF FlowInv, FactInv, Moves
    <3>2. CancelInv'
      BY <1>1, <1>2, <1>5, <2>1 DEF FlowInv, FactInv, Moves
    <3>3. SpentInv' /\ ConcludedInv'
      BY <1>1, <1>2, <1>5, <2>1 DEF FlowInv, FactInv, Moves
    <3> QED BY <3>1, <3>2, <3>3
  <2>5. EntryInv'
    BY <1>1, <1>2, <1>5, <2>1 DEF FlowInv, FactInv, Moves
  <2> QED BY <2>2, <2>3, <2>4, <2>5 DEF FactInv
<1>4. CASE ~record
  <2>1. UNCHANGED <<WOp, WAt, POp, PAt, COp, CAt>>
    BY <1>4, CallKept DEF EndSignInFlow
  <2> HIDE DEF FlowFacts, HistFacts
  <2> QED BY <1>1, <1>2, <2>1, KeptStep
<1> QED BY <1>3, <1>4

LEMMA QuietStep ==
  ASSUME FlowInv, Back \/ Dismiss \/ Evict \/ PageNumber \/ UNCHANGED vars
  PROVE  FactInv'
<1>1. site' = site /\ (Recorded' <=> Recorded) /\ sent' = sent
      /\ UNCHANGED <<WOp, WAt, POp, PAt, COp, CAt>>
  BY EntryKept, CallKept DEF Back, Dismiss, Evict, PageNumber, vars
<1>2. UNCHANGED FlowFacts
  <2>1. CASE flow' = flow
    BY <2>1, FlowKept
  <2>2. CASE flow' = [flow EXCEPT !.page = TRUE]
    BY <2>2 DEF FlowInv, SignInTypeOK, Key, Phase, Linked, Planned
  <2> QED BY <2>1, <2>2 DEF Back, Dismiss, Evict, PageNumber, vars
<1>3. UNCHANGED HistFacts
  BY HistKept DEF Back, Dismiss, Evict, PageNumber, vars
<1>4. (Loading' <=> Loading) \/ (~Loading' /\ WOp # "prepare")
  BY DEF Back, Dismiss, Evict, PageNumber, vars, Loading, FlowInv, FactInv
<1> HIDE DEF FlowFacts, HistFacts
<1> QED BY <1>1, <1>2, <1>3, <1>4, KeptStep

LEMMA CloseStep ==
  ASSUME FlowInv, [Next]_vars
  PROVE  CloseInv'
<1> DEFINE Same == call'["close"] = call["close"]
<1>1. SignInTypeOK /\ call \in [Caller -> [op : Steps, at : Points, tries : Nat]]
  BY DEF FlowInv, SignInTypeOK
<1>2. \A c \in Caller \ {"close"} : \A v : call' = [call EXCEPT ![c] = v] => Same
  BY <1>1
<1>3. \A c \in Caller \ {"close"} : \A op, at : Goto(c, op, at) => Same
  BY <1>2 DEF Goto
<1>4. \A c \in Caller \ {"close"} : \A r : Answer(c, r) => Same
  BY <1>2 DEF Answer
<1>5. \A c \in Caller \ {"close"} : \A f, op, at : Await(c, f, op, at) => Same
  BY <1>3 DEF Await
<1>6. \A c \in Caller \ {"close"} : \A f, r : Cancels(c, f, r) => Same
  BY <1>3, <1>4 DEF Cancels
<1>7. \A c \in Caller \ {"close"} : \A f, why : Fails(c, f, why) => Same
  BY <1>4, <1>6 DEF Fails, Failing
<1>8. ASSUME NEW c \in Caller, Run(c), listening PROVE Same /\ listening'
  <2>8. call["close"].at = "idle"
    BY <1>8 DEF FlowInv, CloseInv, Idle
  <2>1. c # "close" /\ listening'
    BY <1>8, <2>8 DEF Run, Arrive, Prepared, Linkage, Bound, Manifested,
                Listed, Answered, Unbound, Signed, Claimed, Renamed, Numbered, Proved,
                Identified, Responded, Cancelled, Posted, Limited, At, elsewhere
  <2>2. CASE Arrive(c) \/ Linkage(c)
    <3>1. \A f, op : Contact(c, f, op) => Same
      BY <1>5, <2>1 DEF Contact
    <3> QED BY <1>4, <1>5, <1>6, <2>1, <2>2, <3>1 DEF Arrive, Begin, Approach, OutOfOrder,
                                                   Linkage, Ends
  <2>3. CASE Prepared(c) \/ Bound(c) \/ Manifested(c) \/ Listed(c) \/ Answered(c) \/ Unbound(c)
    BY <1>4, <1>5, <2>1, <2>3 DEF Prepared, Bound, Manifested, Listed, Answered, Unbound, Ends
  <2>4. CASE Signed(c) \/ Claimed(c)
    BY <1>4, <1>5, <1>7, <2>1, <2>4 DEF Signed, Claimed
  <2>5. CASE Renamed(c) \/ Numbered(c) \/ Identified(c) \/ Cancelled(c)
    BY <1>4, <1>5, <2>1, <2>5 DEF Renamed, Numbered, Identified, Cancelled, OutOfOrder
  <2>6. CASE Proved(c) \/ Responded(c)
    BY <1>4, <1>5, <1>7, <2>1, <2>6 DEF Proved, Responded
  <2>7. CASE Posted(c) \/ Limited(c)
    <3>1. CASE Posted(c)
      BY <1>1, <2>1, <3>1 DEF Posted
    <3>2. CASE Limited(c)
      BY <1>1, <2>1, <3>2 DEF Limited
    <3> QED BY <2>7, <3>1, <3>2
  <2> QED BY <1>8, <2>1, <2>2, <2>3, <2>4, <2>5, <2>6, <2>7 DEF Run
<1>9. \A op : Relay("window", op) \/ Relay("poll", op) => Same
  BY <1>3 DEF Relay, Caller
<1>10. ASSUME NEW c \in Caller, Run(c) PROVE listening' = listening
  BY <1>10 DEF Run, Arrive, Prepared, Linkage, Bound, Manifested,
                Listed, Answered, Unbound, Signed, Claimed, Renamed, Numbered, Proved,
                Identified, Responded, Cancelled, Posted, Limited, elsewhere
<1> QED BY <1>8, <1>9, <1>10 DEF FlowInv, CloseInv, Next, Step, Back, Poll, Dismiss, EndSignInFlow,
                          Evict, PageNumber, vars

LEMMA FactStep ==
  ASSUME FlowInv, [Next]_vars
  PROVE  FactInv'
<1>1. ASSUME NEW c \in Caller, Run(c) PROVE FactInv'
  BY <1>1, ArriveStep, PreparedStep, LinkageStep, BoundStep, ManifestedStep, ListedStep,
     AnsweredStep, UnboundStep, SignedStep, ClaimedStep, RenamedStep, NumberedStep, ProvedStep,
     IdentifiedStep, RespondedStep, CancelledStep, PostedStep, LimitedStep DEF Run
<1>2. ASSUME NEW op \in WindowOps, Step(op) PROVE FactInv'
  BY <1>2, StepStep
<1> QED BY <1>1, <1>2, PollStep, EndStep, QuietStep DEF Next, WindowOps

LEMMA FactInit ==
  ASSUME Init
  PROVE  FactInv
<1>1. sent = {}
  BY DEF Init
<1>2. WOp = "none" /\ WAt = "idle" /\ POp = "none" /\ PAt = "idle" /\ COp = "none" /\ CAt = "idle"
  BY DEF Init, Idle, Caller, WOp, WAt, POp, PAt, COp, CAt
<1>3. ~Key /\ Phase = "none" /\ ~Linked /\ ~Planned /\ ~Told /\ ~Read /\ ~Concluded /\ ~Unreached
      /\ ~Stuck /\ ~Filed /\ ~Recorded /\ Loading
  BY DEF Init, Key, Phase, Linked, Planned, Told, Read, Concluded, Unreached, Stuck, Filed, Recorded, Loading
<1> QED BY <1>1, <1>2, <1>3 DEF FactInv

-----------------------------------------------------------------------------
(* The types.                                                              *)

Flows == [held : BOOLEAN, phase : Phases, key : BOOLEAN, linked : BOOLEAN,
          planned : BOOLEAN, page : BOOLEAN, named : BOOLEAN, grant : Nat]
Calls == [Caller -> [op : Steps, at : Points, tries : Nat]]
Ledgers == [{"told", "read", "late", "heard", "claimed", "unreached", "concluded", "stuck"}
              -> BOOLEAN]

LEMMA Typed ==
  SignInTypeOK <=>
    /\ site \in Site /\ flow \in Flows /\ call \in Calls /\ sent \subseteq Messages
    /\ hist \in Ledgers
    /\ record \in BOOLEAN /\ listening \in BOOLEAN /\ asking \in BOOLEAN /\ entry \in BOOLEAN
    /\ window \in {"open", "closed"} /\ screen \in Results
<1> QED BY DEF SignInTypeOK, Flows, Calls, Ledgers

\* What a step of the offscreen document may change of its own.
RunTyped ==
  /\ flow' \in Flows /\ call' \in Calls /\ sent' \subseteq Messages
  /\ record' \in BOOLEAN /\ screen' \in Results

LEMMA RunKeepsTypes ==
  ASSUME SignInTypeOK, RunTyped, UNCHANGED elsewhere, entry' \in BOOLEAN, hist' \in Ledgers
  PROVE  SignInTypeOK'
<1> QED BY DEF SignInTypeOK, RunTyped, elsewhere, Flows, Calls, Ledgers

LEMMA FlowsTyped ==
  ASSUME NEW f \in Flows
  PROVE  /\ \A p \in Phases : [f EXCEPT !.phase = p] \in Flows
         /\ \A p \in Phases : [f EXCEPT !.held = TRUE, !.phase = p] \in Flows
         /\ [f EXCEPT !.phase = "prepared", !.planned = FALSE] \in Flows
         /\ [f EXCEPT !.phase = "ended", !.held = FALSE] \in Flows
         /\ [f EXCEPT !.key = TRUE] \in Flows /\ [f EXCEPT !.linked = TRUE] \in Flows
         /\ [f EXCEPT !.planned = TRUE] \in Flows /\ [f EXCEPT !.page = TRUE] \in Flows
         /\ [f EXCEPT !.named = TRUE] \in Flows /\ [f EXCEPT !.grant = @ + 1] \in Flows
         /\ Ended(f) \in Flows /\ Dropped(f) \in Flows
<1>1. /\ \A p \in Phases : [f EXCEPT !.phase = p] \in Flows
      /\ \A p \in Phases : [f EXCEPT !.held = TRUE, !.phase = p] \in Flows
  BY DEF Flows
<1>2. /\ [f EXCEPT !.phase = "prepared", !.planned = FALSE] \in Flows
      /\ [f EXCEPT !.phase = "ended", !.held = FALSE] \in Flows
  BY DEF Flows, Phases
<1>3. /\ [f EXCEPT !.key = TRUE] \in Flows /\ [f EXCEPT !.linked = TRUE] \in Flows
      /\ [f EXCEPT !.planned = TRUE] \in Flows /\ [f EXCEPT !.page = TRUE] \in Flows
      /\ [f EXCEPT !.named = TRUE] \in Flows
  BY DEF Flows
<1>4. [f EXCEPT !.grant = @ + 1] \in Flows
  <2>1. f.grant + 1 \in Nat
    BY DEF Flows
  <2> QED BY <2>1 DEF Flows
<1>5. Ended(f) \in Flows
  BY DEF Flows, Phases, Ended
<1>6. Dropped(f) \in Flows
  BY <1>5 DEF Flows, Dropped
<1> QED BY <1>1, <1>2, <1>3, <1>4, <1>5, <1>6

LEMMA GotoTyped ==
  ASSUME SignInTypeOK, NEW c \in Caller, NEW op \in Steps, NEW at \in Points, Goto(c, op, at)
  PROVE  call' \in Calls
<1> DEFINE to == [op |-> op, at |-> at, tries |-> 0]
<1>1. to \in [op : Steps, at : Points, tries : Nat]
  OBVIOUS
<1> HIDE DEF to
<1>2. call' = [call EXCEPT ![c] = to] /\ call \in Calls
  BY DEF Goto, to, SignInTypeOK, Calls
<1> QED BY <1>1, <1>2 DEF Calls

LEMMA AnswerTyped ==
  ASSUME SignInTypeOK, NEW c \in Caller, NEW r \in Results, Answer(c, r)
  PROVE  call' \in Calls /\ record' \in BOOLEAN /\ screen' \in Results
<1>1. Goto(c, "none", "idle")
  BY DEF Answer, Goto, Idle
<1>2. call' \in Calls
  BY <1>1, GotoTyped DEF Steps, Points
<1>3. record' \in BOOLEAN
  BY DEF Answer
<1>4. screen' \in Results
  BY DEF Answer, SignInTypeOK
<1> QED BY <1>2, <1>3, <1>4

LEMMA RestTyped ==
  ASSUME SignInTypeOK, NEW c \in Caller, NEW r \in Results, Answer(c, r), sent' = sent,
         flow' \in Flows
  PROVE  RunTyped
<1> QED BY AnswerTyped DEF RunTyped, SignInTypeOK

LEMMA AwaitTyped ==
  ASSUME SignInTypeOK, NEW c \in Caller, NEW f \in Flows, NEW op \in Steps, NEW at \in Points,
         Await(c, f, op, at)
  PROVE  RunTyped
<1> QED BY GotoTyped DEF Await, RunTyped, SignInTypeOK

LEMMA CancelsTyped ==
  ASSUME SignInTypeOK, NEW c \in Caller, NEW f \in Flows, NEW r \in {"over", "failed"},
         Cancels(c, f, r)
  PROVE  RunTyped
<1>1. CASE f.phase # "ended" /\ f.key
  <2>1. call' \in Calls
    BY <1>1, GotoTyped DEF Cancels, Steps, Points
  <2> QED BY <1>1, <2>1, FlowsTyped DEF Cancels, RunTyped, SignInTypeOK
<1>2. CASE ~(f.phase # "ended" /\ f.key)
  BY <1>2, FlowsTyped, RestTyped DEF Cancels, Results
<1> QED BY <1>1, <1>2

LEMMA FailsTyped ==
  ASSUME SignInTypeOK, NEW c \in Caller, NEW f \in Flows, NEW why \in Failure, Fails(c, f, why)
  PROVE  RunTyped /\ hist' \in Ledgers
<1>1. hist' \in Ledgers
  BY DEF Fails, Ledger, SignInTypeOK, Ledgers
<1>2. CASE f.key /\ why = "invalid"
  BY <1>1, <1>2, CancelsTyped DEF Fails
<1>3. CASE ~(f.key /\ why = "invalid")
  <2>1. flow' \in {Dropped(f), f} /\ sent' = sent /\ \E r \in {"failed", "over"} : Answer(c, r)
    BY <1>3 DEF Fails, Failing
  <2> QED BY <1>1, <2>1, FlowsTyped, RestTyped DEF Results
<1> QED BY <1>2, <1>3

LEMMA EndsTyped ==
  ASSUME SignInTypeOK, NEW c \in Caller, NEW r \in Results, Ends(c, r)
  PROVE  RunTyped
<1>1. flow \in Flows
  BY Typed
<1> QED BY <1>1, FlowsTyped, RestTyped DEF Ends

LEMMA NoteTyped ==
  ASSUME SignInTypeOK,
         hist' = hist \/ Note("told") \/ Note("stuck") \/ Note("concluded") \/ Note("heard")
  PROVE  hist' \in Ledgers
<1> QED BY DEF Note, SignInTypeOK, Ledgers

LEMMA ContactTyped ==
  ASSUME SignInTypeOK, NEW c \in Caller, NEW f \in Flows, NEW op \in Steps, Contact(c, f, op)
  PROVE  RunTyped
<1>1. CASE op = "join" /\ Await(c, f, op, "bind")
  BY <1>1, AwaitTyped DEF Points
<1>2. CASE op = "manifest" /\ Await(c, f, op, "outgoing")
  BY <1>2, AwaitTyped DEF Points
<1>3. CASE op = "claim" /\ Await(c, [f EXCEPT !.key = TRUE], op, "outgoing")
  BY <1>3, AwaitTyped, FlowsTyped DEF Points
<1> QED BY <1>1, <1>2, <1>3 DEF Contact

LEMMA ArriveTyped ==
  ASSUME FlowInv, NEW c \in Caller, Arrive(c)
  PROVE  SignInTypeOK'
<1> DEFINE op == call[c].op
<1>1. op \in Steps /\ flow \in Flows /\ SignInTypeOK
  BY Typed DEF FlowInv, Calls
<1>2. UNCHANGED <<elsewhere, entry, hist>> /\ (Begin(c, op) \/ OutOfOrder(c))
  BY DEF Arrive
<1>3. entry' \in BOOLEAN /\ hist' \in Ledgers
  BY <1>1, <1>2, Typed, NoteTyped
<1> HIDE DEF op
<1>4. RunTyped
  <2>1. CASE OutOfOrder(c)
    BY <1>1, <2>1, RestTyped DEF OutOfOrder, Results
  <2>2. CASE Begin(c, op)
    <3>1. CASE op \in {"join", "manifest", "claim"} /\ Approach(c, op)
      BY <1>1, <3>1, AwaitTyped, ContactTyped DEF Approach, Points
    <3>2. CASE op \in {"cancel", "expire"} /\ Cancels(c, flow, "over")
      BY <1>1, <3>2, CancelsTyped
    <3>3. CASE flow' = [flow EXCEPT !.grant = @ + 1] /\ Answer(c, "gesture") /\ UNCHANGED sent
      BY <1>1, <3>3, FlowsTyped, RestTyped DEF Results
    <3>4. CASE \E at \in {"reading", "bind", "rename", "sign"} : Await(c, flow, op, at)
      BY <1>1, <3>4, AwaitTyped DEF Points
    <3> QED BY <2>2, <3>1, <3>2, <3>3, <3>4 DEF Begin
  <2> QED BY <1>2, <2>1, <2>2
<1> QED BY <1>1, <1>2, <1>3, <1>4, RunKeepsTypes

LEMMA JoinTyped ==
  ASSUME FlowInv, NEW c \in Caller,
         Prepared(c) \/ Linkage(c) \/ Bound(c) \/ Manifested(c) \/ Listed(c)
           \/ Answered(c) \/ Unbound(c)
  PROVE  SignInTypeOK'
<1>1. call[c].op \in Steps /\ flow \in Flows /\ SignInTypeOK /\ site \in Site /\ entry \in BOOLEAN
  BY Typed DEF FlowInv, Calls
<1>2. CASE Prepared(c)
  <2>1. RunTyped
    <3>1. CASE (Answer(c, "over") \/ Answer(c, "failed")) /\ flow' = flow
      BY <1>1, <1>2, <3>1, RestTyped DEF Prepared, Results
    <3>2. CASE flow' = [flow EXCEPT !.held = TRUE, !.phase = "prepared"] /\ Answer(c, "confirm")
      <4>1. flow' \in Flows
        BY <1>1, <3>2, FlowsTyped DEF Phases
      <4> QED BY <1>1, <1>2, <3>2, <4>1, RestTyped DEF Prepared, Results
    <3>3. CASE /\ site.kind \in {"community", "hosting"}
               /\ flow' = [flow EXCEPT !.held = TRUE, !.phase = "joining"]
               /\ Answer(c, site.kind)
      <4>1. flow' \in Flows
        BY <1>1, <3>3, FlowsTyped DEF Phases
      <4> QED BY <1>1, <1>2, <3>3, <4>1, RestTyped DEF Prepared, Results
    <3> QED BY <1>2, <3>1, <3>2, <3>3 DEF Prepared
  <2> QED BY <1>1, <1>2, <2>1, RunKeepsTypes, NoteTyped DEF Prepared
<1>3. CASE Linkage(c)
  <2>1. RunTyped
    <3>1. [flow EXCEPT !.linked = TRUE] \in Flows
      BY <1>1, FlowsTyped
    <3> QED BY <1>1, <1>3, <3>1, ContactTyped, EndsTyped DEF Linkage, Results
  <2>2. hist' \in Ledgers
    BY <1>1, <1>3 DEF Linkage, SignInTypeOK, Ledgers
  <2>3. entry' \in BOOLEAN /\ UNCHANGED elsewhere
    BY <1>1, <1>3 DEF Linkage
  <2> QED BY <1>1, <2>1, <2>2, <2>3, RunKeepsTypes
<1>4. CASE Bound(c)
  <2>1. RunTyped
    <3>1. CASE Ends(c, "failed")
      BY <1>1, <3>1, EndsTyped DEF Results
    <3>2. CASE flow' = [flow EXCEPT !.phase = "prepared"] /\ Answer(c, "confirm") /\ sent' = sent
      <4>1. flow' \in Flows
        BY <1>1, <3>2, FlowsTyped DEF Phases
      <4> QED BY <1>1, <3>2, <4>1, RestTyped DEF Results
    <3>3. CASE Await(c, flow, "submit", "sign")
      BY <1>1, <3>3, AwaitTyped DEF Steps, Points
    <3> QED BY <1>4, <3>1, <3>2, <3>3 DEF Bound
  <2>2. entry' \in BOOLEAN /\ hist' \in Ledgers /\ UNCHANGED elsewhere
    BY <1>1, <1>4, NoteTyped DEF Bound
  <2> QED BY <1>1, <2>1, <2>2, RunKeepsTypes
<1>5. CASE Manifested(c)
  <2>1. RunTyped
    <3>1. CASE Await(c, [flow EXCEPT !.planned = TRUE], "manifest", "listing")
      <4>1. [flow EXCEPT !.planned = TRUE] \in Flows
        BY <1>1, FlowsTyped
      <4> QED BY <1>1, <3>1, <4>1, AwaitTyped DEF Steps, Points
    <3>2. CASE Await(c, flow, "older manifest", "outgoing")
      BY <1>1, <3>2, AwaitTyped DEF Steps, Points
    <3>3. CASE Ends(c, "failed") \/ Ends(c, "over")
      BY <1>1, <3>3, EndsTyped DEF Results
    <3> QED BY <1>5, <3>1, <3>2, <3>3 DEF Manifested
  <2>2. entry' \in BOOLEAN /\ hist' \in Ledgers /\ UNCHANGED elsewhere
    BY <1>1, <1>5, NoteTyped DEF Manifested
  <2> QED BY <1>1, <2>1, <2>2, RunKeepsTypes
<1>6. CASE Listed(c)
  <2>1. RunTyped
    BY <1>1, <1>6, RestTyped DEF Listed, Results
  <2>2. entry' \in BOOLEAN /\ hist' \in Ledgers /\ UNCHANGED elsewhere
    BY <1>1, <1>6, NoteTyped DEF Listed
  <2> QED BY <1>1, <2>1, <2>2, RunKeepsTypes
<1>7. CASE Answered(c)
  <2>1. RunTyped
    <3>1. CASE Ends(c, "over")
      BY <1>1, <3>1, EndsTyped DEF Results
    <3>2. CASE /\ flow' = [flow EXCEPT !.phase = "prepared", !.planned = FALSE]
               /\ Answer(c, "confirm") /\ sent' = sent
      <4>1. flow' \in Flows
        BY <1>1, <3>2, FlowsTyped
      <4> QED BY <1>1, <3>2, <4>1, RestTyped DEF Results
    <3>3. CASE Await(c, Dropped(flow), "submit", "unbind") \/ Await(c, flow, "submit", "unbind")
      <4>1. Dropped(flow) \in Flows
        BY <1>1, FlowsTyped
      <4> QED BY <1>1, <3>3, <4>1, AwaitTyped DEF Steps, Points
    <3> QED BY <1>7, <3>1, <3>2, <3>3 DEF Answered
  <2>2. entry' \in BOOLEAN /\ hist' \in Ledgers /\ UNCHANGED elsewhere
    BY <1>1, <1>7, NoteTyped DEF Answered
  <2> QED BY <1>1, <2>1, <2>2, RunKeepsTypes
<1>8. CASE Unbound(c)
  <2>1. RunTyped
    BY <1>1, <1>8, EndsTyped DEF Unbound, Results
  <2>2. entry' \in BOOLEAN /\ hist' \in Ledgers /\ UNCHANGED elsewhere
    BY <1>1, <1>8, NoteTyped DEF Unbound
  <2> QED BY <1>1, <2>1, <2>2, RunKeepsTypes
<1> QED BY <1>2, <1>3, <1>4, <1>5, <1>6, <1>7, <1>8

LEMMA ClaimTyped ==
  ASSUME FlowInv, NEW c \in Caller,
         Signed(c) \/ Claimed(c) \/ Renamed(c) \/ Numbered(c) \/ Proved(c) \/ Identified(c)
           \/ Responded(c) \/ Cancelled(c)
  PROVE  SignInTypeOK'
<1>1. call[c].op \in Steps /\ flow \in Flows /\ SignInTypeOK /\ entry \in BOOLEAN
  BY Typed DEF FlowInv, Calls
<1>2. entry' \in BOOLEAN /\ UNCHANGED elsewhere
  BY <1>1 DEF Signed, Claimed, Renamed, Numbered, Proved, Identified, Responded, Cancelled, elsewhere
<1> SUFFICES RunTyped /\ hist' \in Ledgers
  BY <1>1, <1>2, RunKeepsTypes
<1>3. CASE Signed(c)
  <2>2. CASE Fails(c, flow, "invalid")
    BY <1>1, <2>2, FailsTyped DEF Failure
  <2>3. CASE hist' = hist /\ \E at \in {"outgoing", "unbind"} : Await(c, flow, call[c].op, at)
    BY <1>1, <2>3, AwaitTyped, NoteTyped DEF Points
  <2>5. CASE (Answer(c, "pin") \/ Answer(c, "pending")) /\ UNCHANGED <<flow, sent, hist>>
    BY <1>1, <2>5, RestTyped, NoteTyped DEF Results
  <2> QED BY <1>3, <2>2, <2>3, <2>5 DEF Signed
<1>4. CASE Claimed(c)
  <2> DEFINE f == [flow EXCEPT !.phase = "claimed"]
  <2>1. f \in Flows
    BY <1>1, FlowsTyped DEF Phases
  <2> HIDE DEF f
  <2>2. CASE hist' = hist /\ flow' = f /\ Answer(c, "number") /\ sent' = sent
    BY <1>1, <2>1, <2>2, RestTyped, NoteTyped DEF Results
  <2>3. CASE hist' = hist /\ Await(c, f, "claim", "number")
    BY <1>1, <2>1, <2>3, AwaitTyped, NoteTyped DEF Steps, Points
  <2>4. CASE Fails(c, f, "invalid")
    BY <1>1, <2>1, <2>4, FailsTyped DEF Failure
  <2>5. CASE \E why \in {"refused", "unreached"} : Fails(c, flow, why)
    BY <1>1, <2>5, FailsTyped DEF Failure
  <2> QED BY <1>4, <2>2, <2>3, <2>4, <2>5 DEF Claimed, f
<1>5. CASE Renamed(c)
  <2>1. CASE Await(c, [flow EXCEPT !.named = TRUE], "adopt", "number")
    <3>1. [flow EXCEPT !.named = TRUE] \in Flows
      BY <1>1, FlowsTyped
    <3> QED BY <1>1, <1>5, <2>1, <3>1, AwaitTyped, NoteTyped DEF Renamed, Steps, Points
  <2>2. CASE Answer(c, "number") /\ UNCHANGED <<flow, sent>>
    BY <1>1, <1>5, <2>2, RestTyped, NoteTyped DEF Renamed, Results
  <2> QED BY <1>5, <2>1, <2>2 DEF Renamed
<1>6. CASE Numbered(c)
  <2>1. CASE Await(c, flow, "prove", "sign")
    BY <1>1, <1>6, <2>1, AwaitTyped, NoteTyped DEF Numbered, Steps, Points
  <2>2. CASE (Answer(c, "failed") \/ Answer(c, "number")) /\ UNCHANGED <<flow, sent>>
    BY <1>1, <1>6, <2>2, RestTyped, NoteTyped DEF Numbered, Results
  <2> QED BY <1>6, <2>1, <2>2 DEF Numbered, OutOfOrder
<1>7. CASE Proved(c)
  <2>1. CASE hist' = hist /\ Await(c, flow, "prove", "method")
    BY <1>1, <2>1, AwaitTyped, NoteTyped DEF Steps, Points
  <2>2. CASE \E why \in Failure : Fails(c, flow, why)
    BY <1>1, <2>2, FailsTyped
  <2>3. CASE hist' = hist /\ Await(c, flow, "older prove", "outgoing")
    BY <1>1, <2>3, AwaitTyped, NoteTyped DEF Steps, Points
  <2> QED BY <1>7, <2>1, <2>2, <2>3 DEF Proved
<1>8. CASE Identified(c)
  <2>1. flow' \in Flows
    BY <1>1, <1>8, FlowsTyped DEF Identified, Phases
  <2> QED BY <1>1, <1>8, <2>1, RestTyped, NoteTyped DEF Identified, Results
<1>9. CASE Responded(c)
  <2>1. CASE flow' = Ended(flow) /\ Answer(c, "over") /\ UNCHANGED sent /\ Note("concluded")
    BY <1>1, <2>1, FlowsTyped, RestTyped, NoteTyped DEF Results
  <2>2. CASE \E why \in Failure : Fails(c, flow, why)
    BY <1>1, <2>2, FailsTyped
  <2> QED BY <1>9, <2>1, <2>2 DEF Responded
<1>10. CASE Cancelled(c)
  <2>1. call[c].op \in {"over", "failed"}
    BY <1>10 DEF Cancelled, At, Cancel
  <2>2. flow' \in Flows
    BY <1>1, <1>10, FlowsTyped DEF Cancelled
  <2> QED BY <1>1, <1>10, <2>1, <2>2, RestTyped, NoteTyped DEF Cancelled, Results
<1> QED BY <1>3, <1>4, <1>5, <1>6, <1>7, <1>8, <1>9, <1>10

LEMMA SendTyped ==
  ASSUME FlowInv, NEW c \in Caller, Posted(c) \/ Limited(c)
  PROVE  SignInTypeOK'
<1>1. call \in Calls /\ call[c].op \in Steps /\ call[c].at \in Points /\ call[c].tries \in Nat
      /\ SignInTypeOK /\ flow \in Flows
  BY Typed DEF FlowInv, Calls
<1>2. UNCHANGED <<elsewhere, flow, record, screen, entry>>
  BY DEF Posted, Limited
<1>3. CASE Posted(c)
  <2>1. call' \in Calls
    BY <1>1, <1>3 DEF Posted, Calls, Points
  <2>2. hist' \in Ledgers
    BY <1>1, <1>3 DEF Posted, SignInTypeOK, Ledgers
  <2>3. MessageOf(call[c].op) \in Messages
    BY <1>1, <1>3, Callers DEF Posted, MessageOf, Messages, Cancel, FlowInv, FactInv
  <2>4. sent' \subseteq Messages
    BY <1>1, <1>3, <2>3, Typed DEF Posted
  <2> QED BY <1>1, <1>2, <2>1, <2>2, <2>4, RunKeepsTypes, Typed DEF RunTyped
<1>4. CASE Limited(c)
  <2>1. call' \in Calls
    BY <1>1, <1>4 DEF Limited, Calls, Points
  <2>2. hist' \in Ledgers /\ sent' \subseteq Messages
    BY <1>1, <1>4, Typed DEF Limited
  <2> QED BY <1>1, <1>2, <2>1, <2>2, RunKeepsTypes, Typed DEF RunTyped
<1> QED BY <1>3, <1>4

LEMMA RelayTyped ==
  ASSUME SignInTypeOK, NEW c \in Caller, NEW op \in Steps, Relay(c, op)
  PROVE  call' \in Calls /\ screen' \in Results
<1>1. CASE record
  BY <1>1, GotoTyped DEF Relay, Points, SignInTypeOK
<1>2. CASE ~record
  BY <1>2, Typed DEF Relay, Results
<1> QED BY <1>1, <1>2

LEMMA WindowTyped ==
  ASSUME SignInTypeOK,
         \/ \E op \in WindowOps : Step(op)
         \/ Back \/ Poll \/ Dismiss \/ EndSignInFlow \/ Evict \/ PageNumber \/ UNCHANGED vars
  PROVE  SignInTypeOK'
<1>1. site' \in Site /\ sent' \subseteq Messages /\ entry' \in BOOLEAN /\ record' \in BOOLEAN
      /\ listening' \in BOOLEAN /\ asking' \in BOOLEAN /\ window' \in {"open", "closed"}
  BY Typed DEF Step, Back, Poll, Dismiss, EndSignInFlow, Evict, PageNumber, vars
<1>2. flow' \in Flows
  BY Typed, FlowsTyped DEF Step, Back, Poll, Dismiss, EndSignInFlow, Evict, PageNumber, vars
<1>3. hist' \in Ledgers
  <2>1. CASE \E op \in WindowOps : Step(op)
    BY <2>1 DEF Step, SignInTypeOK, Ledgers
  <2>3. CASE EndSignInFlow
    BY <2>3, NoteTyped DEF EndSignInFlow
  <2> QED BY <2>1, <2>3, NoteTyped DEF Back, Poll, Dismiss, Evict, PageNumber, vars
<1>4. call' \in Calls /\ screen' \in Results
  <2>1. CASE \E op \in WindowOps : Step(op)
    BY <2>1, RelayTyped DEF Step, WindowOps, Steps, Caller
  <2>2. CASE Poll
    BY <2>2, RelayTyped DEF Poll, Steps, Caller
  <2>3. CASE EndSignInFlow
    <3>1. CASE record
      BY <2>3, <3>1, Typed, GotoTyped DEF EndSignInFlow, Steps, Points, Caller
    <3>2. CASE ~record
      BY <2>3, <3>2, Typed DEF EndSignInFlow
    <3> QED BY <3>1, <3>2
  <2>4. CASE Back \/ Dismiss \/ Evict \/ PageNumber \/ UNCHANGED vars
    BY <2>4, Typed DEF Back, Dismiss, Evict, PageNumber, vars, Results
  <2> QED BY <2>1, <2>2, <2>3, <2>4
<1> QED BY <1>1, <1>2, <1>3, <1>4 DEF SignInTypeOK, Flows, Calls, Ledgers

LEMMA TypeStep ==
  ASSUME FlowInv, [Next]_vars
  PROVE  SignInTypeOK'
<1>1. ASSUME NEW c \in Caller, Run(c) PROVE SignInTypeOK'
  BY <1>1, ArriveTyped, JoinTyped, ClaimTyped, SendTyped DEF Run
<1> QED BY <1>1, WindowTyped DEF Next, WindowOps, FlowInv

LEMMA TypeInit ==
  ASSUME Init
  PROVE  SignInTypeOK
<1>1. site \in Site /\ record \in BOOLEAN /\ listening \in BOOLEAN /\ asking \in BOOLEAN
      /\ entry \in BOOLEAN /\ window \in {"open", "closed"} /\ screen \in Results
  BY DEF Init, Results
<1>2. flow \in Flows
  BY DEF Init, Flows, Phases
<1>3. call \in Calls
  BY DEF Init, Calls, Idle, Steps, Points
<1>4. hist \in Ledgers
  <2>1. hist = [k \in DOMAIN hist |-> hist[k]]
    BY DEF Init
  <2>2. DOMAIN hist = {"told", "read", "late", "heard", "unreached", "claimed", "concluded", "stuck"}
    BY DEF Init
  <2>3. \A k \in DOMAIN hist : hist[k] = FALSE
    BY <2>2 DEF Init
  <2> QED BY <2>1, <2>2, <2>3 DEF Ledgers
<1>5. sent \subseteq Messages
  BY DEF Init
<1> QED BY <1>1, <1>2, <1>3, <1>4, <1>5, Typed

-----------------------------------------------------------------------------
(* The theorems.                                                           *)

\* The facts hold of every state a flow can be in.
THEOREM FlowInvariant == Spec => []FlowInv
<1>1. Init => FlowInv
  BY TypeInit, FactInit DEF FlowInv, CloseInv, Init, Caller
<1>2. FlowInv /\ [Next]_vars => FlowInv'
  BY TypeStep, FactStep, CloseStep DEF FlowInv
<1> QED BY <1>1, <1>2, PTL DEF Spec

\* The phases, screens, steps and messages are the ones the types name.
THEOREM SignInTyped == Spec => []SignInTypeOK
<1>1. FlowInv => SignInTypeOK
  BY DEF FlowInv
<1> QED BY <1>1, FlowInvariant, PTL

\* A domain-linked contact is dealt with only once its DID Configuration was confirmed.
THEOREM LinkedBeforeSent == Spec => []LinkedFirst
<1>1. FlowInv => LinkedFirst
  BY DEF FlowInv, FactInv, LinkedFirst, Linked
<1> QED BY <1>1, FlowInvariant, PTL

\* The vault's entry is there as long as the community has the request it was made for.
THEOREM EntryKeptWithAnswer == Spec => []EntryFollowsAnswer
<1>1. FlowInv => EntryFollowsAnswer
  BY DEF FlowInv, FactInv, EntryFollowsAnswer, Told, Stuck, Recorded, WOp, WAt, Caller
<1> QED BY <1>1, FlowInvariant, PTL

\* No proof goes to a misnamed community before the person answered the warning.
THEOREM WarningAnswered == Spec => []MismatchIsRead
<1>1. FlowInv => MismatchIsRead
  BY DEF FlowInv, FactInv, MismatchIsRead, Read
<1> QED BY <1>1, FlowInvariant, PTL

\* A claim's key is given up only with its cancel, its answer or the connection.
THEOREM ClaimIsConcluded == Spec => []ClaimConcluded
<1>1. FlowInv => ClaimConcluded
  BY DEF FlowInv, FactInv, ClaimConcluded, Key, Filed, Concluded, Unreached, At, Cancel, Caller,
         WOp, WAt, POp, PAt, COp, CAt
<1> QED BY <1>1, FlowInvariant, PTL

\* A caller's step sets out to send only from a point where it holds the key, or goes on
\* with what it was sending.
Continues(k) == call[k].at \in {"outgoing", "exchange"} /\ call'[k].op = call[k].op

LEMMA GotoStays ==
  ASSUME SignInTypeOK, NEW c \in Caller, NEW op, NEW at, Goto(c, op, at), at # "outgoing",
         NEW k \in Caller, call'[k].at = "outgoing"
  PROVE  Continues(k)
<1> DEFINE to == [op |-> op, at |-> at, tries |-> 0]
<1>1. to.at = at
  OBVIOUS
<1> HIDE DEF to
<1>2. call' = [call EXCEPT ![c] = to]
  BY DEF Goto, to
<1>3. k # c /\ call'[k] = call[k]
  BY <1>1, <1>2 DEF SignInTypeOK
<1> QED BY <1>3 DEF Continues

LEMMA AnswerStays ==
  ASSUME SignInTypeOK, NEW c \in Caller, NEW r, Answer(c, r), NEW k \in Caller,
         call'[k].at = "outgoing"
  PROVE  Continues(k)
<1>1. Goto(c, "none", "idle")
  BY DEF Answer, Goto, Idle
<1> QED BY <1>1, GotoStays

LEMMA SilentStep ==
  ASSUME FlowInv, [Next]_vars, Concluded, NEW k \in Caller, call'[k].at = "outgoing"
  PROVE  Continues(k)
<1>1. /\ ~Key /\ ~flow.key /\ Begun /\ ~Joining /\ WAt \notin {"reading", "linkage"}
      /\ Phase \notin {"none", "joining", "prepared"} \/ (Claiming /\ Key)
      /\ flow.phase = Phase /\ SignInTypeOK
  BY DEF FlowInv, FactInv, Key, Phase
<1>2. \A c \in Caller : \A f, op, at : at # "outgoing" /\ Await(c, f, op, at) => Continues(k)
  BY <1>1, GotoStays DEF Await
<1>3. \A c \in Caller : \A r : Answer(c, r) => Continues(k)
  BY <1>1, AnswerStays
<1>4. ASSUME NEW c \in Caller, NEW f, ~f.key, NEW r, Cancels(c, f, r) PROVE Continues(k)
  BY <1>3, <1>4 DEF Cancels
<1>5. ASSUME NEW c \in Caller, NEW f, ~f.key, NEW why, Fails(c, f, why) PROVE Continues(k)
  BY <1>3, <1>5 DEF Fails, Failing
<1>6. ~[flow EXCEPT !.phase = "claimed"].key
  BY <1>1 DEF SignInTypeOK
<1>7. call' = call => Continues(k)
  BY DEF Continues
<1>8. ASSUME NEW c \in Caller, Run(c) PROVE Continues(k)
  <2>1. CASE Arrive(c)
    <3>1. CASE OutOfOrder(c)
      BY <1>3, <3>1 DEF OutOfOrder
    <3>2. CASE Ready(call[c].op) /\ Begin(c, call[c].op)
      <4>1. call[c].op \notin {"join", "manifest", "claim", "submit", "prove", "approve",
                                "remote", "decline"}
        BY <1>1, <3>2 DEF Ready, Provable
      <4> QED BY <1>1, <1>2, <1>3, <1>4, <3>2, <4>1 DEF Begin
    <3> QED BY <2>1, <3>1, <3>2 DEF Arrive
  <2>2. CASE Prepared(c) \/ Bound(c) \/ Listed(c) \/ Answered(c) \/ Unbound(c) \/ Renamed(c)
             \/ Numbered(c) \/ Identified(c) \/ Cancelled(c)
    BY <1>2, <1>3, <2>2 DEF Prepared, Bound, Listed, Answered, Unbound, Renamed, Numbered,
                            Identified, Cancelled, Ends, OutOfOrder
  <2>3. CASE Linkage(c)
    <3>1. c = "window" /\ WAt = "linkage"
      BY <2>3, Callers DEF Linkage, FlowInv, FactInv
    <3> QED BY <1>1, <3>1
  <2>9. CASE Manifested(c)
    <3>1. call[c].op \in {"manifest", "older manifest"} /\ call[c].at = "exchange"
      BY <2>9 DEF Manifested, At
    <3>2. WAt = "exchange" /\ WOp \in {"manifest", "older manifest"}
      BY <3>1, Callers DEF FlowInv, FactInv
    <3> QED BY <1>1, <3>2
  <2>4. CASE Signed(c)
    <3>1. call[c].op # "submit"
      BY <1>1, <2>4, Callers DEF Signed, FlowInv, FactInv
    <3> QED BY <1>1, <1>3, <1>5, <2>4, <3>1 DEF Signed
  <2>5. CASE Claimed(c)
    BY <1>1, <1>2, <1>3, <1>5, <1>6, <2>5 DEF Claimed
  <2>6. CASE Proved(c)
    BY <1>1, <1>2, <1>5, <2>6 DEF Proved
  <2>7. CASE Responded(c)
    BY <1>1, <1>3, <1>5, <2>7 DEF Responded
  <2>8. CASE Posted(c) \/ Limited(c)
    <3>1. call \in [Caller -> [op : Steps, at : Points, tries : Nat]]
      BY <1>1 DEF SignInTypeOK
    <3>2. CASE Posted(c)
      BY <3>1, <3>2 DEF Posted, Continues
    <3>3. CASE Limited(c)
      BY <3>1, <3>3 DEF Limited, Continues
    <3> QED BY <2>8, <3>2, <3>3
  <2> QED BY <1>8, <2>1, <2>2, <2>3, <2>4, <2>5, <2>6, <2>7, <2>8, <2>9 DEF Run
<1>9. ASSUME NEW c \in Caller, NEW op, Relay(c, op) PROVE Continues(k)
  BY <1>1, <1>7, <1>9, GotoStays DEF Relay
<1>10. EndSignInFlow => Continues(k)
  BY <1>1, <1>7, GotoStays DEF EndSignInFlow, Caller
<1> QED BY <1>7, <1>8, <1>9, <1>10 DEF Next, Step, Back, Poll, Dismiss, Evict, PageNumber, vars, Caller

\* Once the community answered or refused, no step sets out to send it anything more.
THEOREM NothingBegunAfterAnswer == Spec => NothingNewOnceConcluded
<1>1. FlowInv /\ [Next]_vars =>
        [hist.concluded => \A c \in Caller : call'[c].at = "outgoing"
                             => call[c].at \in {"outgoing", "exchange"} /\ call'[c].op = call[c].op]_vars
  BY SilentStep DEF Concluded, Continues
<1> QED BY <1>1, FlowInvariant, PTL DEF Spec, NothingNewOnceConcluded

=============================================================================
