--------------------------- MODULE TspRelationship ---------------------------
(***************************************************************************)
(* The TSP relationship a wallet forms with its VTA before it sends.  Each *)
(* request has a channel of its own; all of them share one in-memory       *)
(* record.  The VTA is external: it drops in silence what comes from a     *)
(* peer it holds no relationship with, forgets when it restarts, and       *)
(* refuses an invite from a peer it is already related to.                 *)
(***************************************************************************)
EXTENDS Naturals, FiniteSets, Sequences

CONSTANTS
  Request,     \* requests; a request invites at most once
  None,
  MaxFaults    \* bound on faults: losses, restarts and cancellations

ASSUME RequestAssumption ==
  /\ MaxFaults \in Nat
  /\ None \notin Request

VARIABLES
  rec,       \* tspRelationships: the wallet's record of the pair
  pc,        \* where each request is
  toVta,     \* frames to the VTA, in order
  toWallet,  \* frames to the wallet, in order
  vta,       \* the invite the VTA's relationship came from, if it holds one
  accepted,  \* history: invites the VTA has accepted
  faults,    \* faults so far
  failedAt,  \* history: how many faults had happened at the last failure
  happened   \* history: the kinds of fault, of haste and of overlap so far

wires == <<toVta, toWallet>>
vars  == <<rec, pc, wires, vta, accepted, faults, failedAt, happened>>

\* The digests of an exchange: the invite's and its accept's.
Digest == Request \X {"invite", "accept"}
NoRecord == [state |-> "none", ours |-> None, theirs |-> None]
Related(q, theirs) == [state |-> "bidirectional", ours |-> <<q, "invite">>, theirs |-> theirs]

Frame(kind, q) == [kind |-> kind, req |-> q, names |-> None]

Init ==
  /\ rec = NoRecord
  /\ pc = [r \in Request |-> "new"]
  /\ toVta = <<>> /\ toWallet = <<>>
  /\ vta = None /\ accepted = {}
  /\ faults = 0 /\ failedAt = 0 /\ happened = {}

Goto(r, l) == pc' = [pc EXCEPT ![r] = l]

Fault(kind) ==
  /\ faults < MaxFaults
  /\ faults' = faults + 1
  /\ happened' = happened \cup {kind}

Noted(kind, yes) == happened' = happened \cup {k \in {kind} : yes}

Over(r) == pc[r] \in {"new", "done", "failed"}
Silence == toVta = <<>> /\ toWallet = <<>>

-----------------------------------------------------------------------------
(* A request: ensureRelationship, then TspChannel.send.                    *)

\* The record is read: a relationship we hold, or one we have asked for, sends at
\* once (`transition` refuses a second invite); with none, an invite is packed.
Begin(r) ==
  /\ pc[r] = "new"
  /\ Goto(r, IF rec.state = "none" THEN "packing" ELSE "send")
  /\ Noted("overlap", \E q \in Request : ~Over(q))
  /\ UNCHANGED <<rec, wires, vta, accepted, faults, failedAt>>

\* The invite is packed: the record is written without a second look, and the
\* waiter for its accept is registered as it is sent.
Invite(r) ==
  /\ pc[r] = "packing"
  /\ rec' = [state |-> "pending", ours |-> <<r, "invite">>, theirs |-> None]
  /\ toVta' = Append(toVta, Frame("invite", r))
  /\ Goto(r, "handshake")
  /\ UNCHANGED <<toWallet, vta, accepted, faults, failedAt, happened>>

\* No accept in time: the record stays pending and the request goes on.
HandshakeTimeout(r) ==
  /\ pc[r] = "handshake"
  /\ Goto(r, "send")
  /\ Noted("haste", ~Silence)
  /\ UNCHANGED <<rec, wires, vta, accepted, faults, failedAt>>

SendRequest(r) ==
  /\ pc[r] = "send"
  /\ toVta' = Append(toVta, Frame("message", r))
  /\ Goto(r, "waiting")
  /\ UNCHANGED <<rec, toWallet, vta, accepted, faults, failedAt, happened>>

\* Mutant: the record survives the failure.
ForgetNothing == rec' = rec

\* forgetOnFailure.
Forget == rec' = NoRecord

ReplyTimeout(r) ==
  /\ pc[r] = "waiting"
  /\ Goto(r, "failed")
  /\ Forget
  /\ failedAt' = faults
  /\ Noted("haste", ~Silence)
  /\ UNCHANGED <<wires, vta, accepted, faults>>

-----------------------------------------------------------------------------
(* Inbound frames.                                                         *)

\* Mutants: any accept counts, a cancellation must find us related to the end.
AdoptsAny(q) == rec.state = "pending"
CancelsPending(named) == rec.state = "pending" /\ named \in {None, rec.ours, rec.theirs}

\* resolveAccept: it answers the invite we have outstanding.
Adopts(q) == rec.state = "pending" /\ rec.ours = <<q, "invite">>

\* resolveCancel: it names nothing in particular, or a half we hold.
Cancels(named) == rec.state # "none" /\ named \in {None, rec.ours, rec.theirs}

Receive(kind) ==
  /\ toWallet # <<>> /\ Head(toWallet).kind = kind
  /\ toWallet' = Tail(toWallet)
  /\ UNCHANGED <<toVta, vta, accepted, faults, failedAt, happened>>

\* The handshake that sent the invite is still waiting and claims the accept.
ClaimAccept ==
  /\ Receive("accept")
  /\ LET q == Head(toWallet).req IN
       /\ pc[q] = "handshake"
       /\ rec' = Related(q, None)
       /\ Goto(q, "send")

\* Nobody waits for the accept any more: applyInboundControl.
LateAccept ==
  /\ Receive("accept")
  /\ LET q == Head(toWallet).req IN
       /\ pc[q] # "handshake"
       /\ rec' = IF Adopts(q) THEN Related(rec.ours[1], <<q, "accept">>) ELSE rec
  /\ UNCHANGED pc

ReceiveCancel ==
  /\ Receive("cancel")
  /\ rec' = IF Cancels(Head(toWallet).names) THEN NoRecord ELSE rec
  /\ UNCHANGED pc

\* A reply nobody waits for goes to the inbox, which ignores it.
ReceiveReply ==
  /\ Receive("reply")
  /\ LET q == Head(toWallet).req IN
       Goto(q, IF pc[q] = "waiting" THEN "done" ELSE pc[q])
  /\ UNCHANGED rec

-----------------------------------------------------------------------------
(* The VTA and the mediator (external).                                    *)

VtaReads(kind) ==
  /\ toVta # <<>> /\ Head(toVta).kind = kind
  /\ toVta' = Tail(toVta)
  /\ UNCHANGED <<rec, pc, faults, failedAt, happened>>

VtaInvite ==
  /\ VtaReads("invite")
  /\ LET q == Head(toVta).req IN
       \/ /\ vta = None
          /\ vta' = q /\ accepted' = accepted \cup {q}
          /\ toWallet' = Append(toWallet, Frame("accept", q))
       \/ vta # None /\ UNCHANGED <<vta, accepted, toWallet>>

VtaMessage ==
  /\ VtaReads("message")
  /\ toWallet' = IF vta = None THEN toWallet
                 ELSE Append(toWallet, Frame("reply", Head(toVta).req))
  /\ UNCHANGED <<vta, accepted>>

VtaRestart ==
  /\ vta # None /\ vta' = None
  /\ Fault("restart")
  /\ UNCHANGED <<rec, pc, wires, accepted, failedAt>>

\* The cancellation names the invite, its accept, or neither.
VtaCancel(n) ==
  /\ vta # None /\ vta' = None
  /\ Fault(n)
  /\ toWallet' = Append(toWallet,
       [Frame("cancel", vta) EXCEPT !.names = IF n = "nothing" THEN None ELSE <<vta, n>>])
  /\ UNCHANGED <<rec, pc, toVta, accepted, failedAt>>

Lose ==
  /\ Fault("loss")
  /\ \/ toVta # <<>> /\ toVta' = Tail(toVta) /\ UNCHANGED toWallet
     \/ toWallet # <<>> /\ toWallet' = Tail(toWallet) /\ UNCHANGED toVta
  /\ UNCHANGED <<rec, pc, vta, accepted, failedAt>>

-----------------------------------------------------------------------------
Next ==
  \/ \E r \in Request :
       Begin(r) \/ Invite(r) \/ HandshakeTimeout(r) \/ SendRequest(r) \/ ReplyTimeout(r)
  \/ ClaimAccept \/ LateAccept \/ ReceiveCancel \/ ReceiveReply
  \/ VtaInvite \/ VtaMessage \/ VtaRestart \/ Lose
  \/ \E n \in {"invite", "accept", "nothing"} : VtaCancel(n)

Spec == Init /\ [][Next]_vars

-----------------------------------------------------------------------------
Stage == {"new", "packing", "handshake", "send", "waiting", "done", "failed"}
FrameType == [kind : {"invite", "accept", "cancel", "message", "reply"},
              req : Request, names : Digest \cup {None}]

TypeOK ==
  /\ rec \in [state : {"none", "pending", "bidirectional"},
              ours : Digest \cup {None}, theirs : Digest \cup {None}]
  /\ pc \in [Request -> Stage]
  /\ toVta \in Seq(FrameType) /\ toWallet \in Seq(FrameType)
  /\ vta \in Request \cup {None}
  /\ accepted \subseteq Request
  /\ faults \in 0..MaxFaults /\ failedAt \in 0..MaxFaults
  /\ happened \subseteq {"overlap", "haste", "loss", "restart", "invite", "accept", "nothing"}

\* The wallet believes in a relationship only if the VTA once accepted the very
\* invite the record holds, however handshakes, late accepts and cancellations
\* cross (resolveAccept).
BelievedWasAccepted ==
  rec.state = "bidirectional" => rec.ours[1] \in accepted

Quiet == Silence /\ \A r \in Request : Over(r)

\* When nothing is in flight the wallet does not believe in a relationship the
\* VTA has cancelled by its invite or by nothing in particular: it would send into
\* silence (applyInboundControl).
Agreement ==
  Quiet /\ happened \cap {"loss", "restart", "accept"} = {} =>
    (rec.state = "bidirectional" => vta # None)

\* The same when a cancellation names the accept ("§7.2.1 lets a cancellation name
\* either", resolveCancel).
AgreementOnEither ==
  Quiet /\ happened \cap {"loss", "restart"} = {} =>
    (rec.state = "bidirectional" => vta # None)

\* One fault costs at most one of the requests made in turn with patient timers: a
\* request that fails has met a fault since the one that failed before it, so a
\* retry goes through (forgetOnFailure).
OneFaultOneFailure ==
  [][\A r \in Request :
       pc[r] # "failed" /\ pc'[r] = "failed" /\ happened' \cap {"overlap", "haste"} = {}
         => failedAt < faults]_vars

-----------------------------------------------------------------------------
\* While one request's invite is unanswered no other request invites: "one store
\* makes the second request see the first invite" (offscreen.ts).
OneInviteAtATime ==
  \A q, r \in Request : pc[q] = "handshake" /\ pc[r] = "handshake" => q = r

=============================================================================
