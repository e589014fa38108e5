--------------------------- MODULE InboundConsent ---------------------------
(***************************************************************************)
(* The inbound consent pipeline of the extension's offscreen document:     *)
(* messages the mediator pushes are recorded durably, acknowledged, then   *)
(* carried to a human decision by interactions that run side by side and   *)
(* share two IndexedDB lists and one in-memory set.                        *)
(*                                                                         *)
(* An interaction runs in a slot.  An Inbox slot runs a message the socket *)
(* delivered (onInboundMessage), a Drainer slot re-drives the recorded     *)
(* messages one after the other (drainPendingInbound).  The two lists are  *)
(* read and written in separate transactions, so every read leaves its     *)
(* result in snap[s] and the later write starts from that snapshot.        *)
(***************************************************************************)
EXTENDS Naturals, FiniteSets, SequencesExt

CONSTANTS
  Message,    \* transport messages, each delivered at least once
  Document,   \* Trust-Task documents: the body of a message
  Id,         \* document ids
  Digest,     \* payload digests: what a consent authorises
  DocOf,      \* the document a message carries
  IdOf,       \* the id of a document
  DigestOf,   \* the payload digest of a document
  Consent,    \* messages parseTaskConsentRequest accepts
  Approver,   \* messages addressed to the approver's inbox
  Inbox,      \* slots for interactions the sockets start
  Drainer,    \* slots for drains
  None,       \* no message, no answer
  MaxClaims,  \* MAX_CLAIMS of dedup.ts
  MaxPending, \* MAX_PENDING of pending.ts
  MaxFaults   \* bound on faults: failures, drops, locks and teardowns

ASSUME MappingAssumption ==
  /\ DocOf \in [Message -> Document]
  /\ IdOf \in [Document -> Id]
  /\ DigestOf \in [Document -> Digest]
  /\ Consent \subseteq Message
  /\ Approver \subseteq Message
  /\ None \notin Message \cup {"approve", "dismiss"}

ASSUME SlotAssumption ==
  /\ Inbox \cap Drainer = {}
  /\ IsFiniteSet(Message)

ASSUME BoundAssumption ==
  /\ MaxClaims \in Nat \ {0}
  /\ MaxPending \in Nat \ {0}
  /\ MaxFaults \in Nat

Slot == Inbox \cup Drainer

VARIABLES
  queue,        \* the mediator's copies, deleted by the ack
  owed,         \* acks the transport still owes for settled handlers
  up,           \* the offscreen document exists
  unlocked,     \* the approver identity is held in memory
  reconcileDue, \* a reconcileInbound has been asked for and has not run
  pending,      \* IndexedDB "inbound:pending", oldest first
  claims,       \* IndexedDB "inbound:claims/v2", oldest first
  active,       \* activeConsentDigests
  pc, msg,      \* where each slot is, and the message it runs
  snap,         \* the list the slot last read and will write back from
  live,         \* the connection the slot would answer over is still open
  answer,       \* what the human answered
  todo,         \* the records a drain has listed and not yet reached
  sent,         \* decisions handed to the network
  prompted,     \* history: documents a human has been asked about
  approved,     \* history: documents a human has approved
  settled,      \* history: messages whose durable put succeeded or failed
  faults        \* how many faults have happened, at most MaxFaults

memory == <<owed, unlocked, reconcileDue, active, pc, msg, snap, live, answer, todo>>
stores == <<pending, claims>>
world  == <<queue, sent, prompted, approved, settled>>
vars   == <<memory, stores, world, up, faults>>

-----------------------------------------------------------------------------
(* The two bounded lists.                                                  *)

\* A bounded list keeps its newest entries.
Newest(q, n) == IF Len(q) > n THEN SubSeq(q, Len(q) - n + 1, Len(q)) ELSE q

\* `list.filter((p) => p.id !== id)`: ids are unique in the list.
Without(q, m) ==
  IF m \in Range(q) THEN RemoveAt(q, CHOOSE i \in DOMAIN q : q[i] = m) ELSE q

\* Mutant: the record is pushed without dropping the one it refreshes.
RecordedAgain(q, m) == Newest(Append(q, m), MaxPending)

\* putPendingInbound: refresh the record of m and move it to the young end.
Recorded(q, m) == Newest(Append(Without(q, m), m), MaxPending)

\* Mutants: claims keyed on the whole document, and claims kept for ever or
\* never kept.
ClaimedByContent(q, d) == d \in Range(q)
ClaimForgotten(q, d) == q

\* claimInboundDocument: the first document seen under an id holds it.
Claimed(q, d) == \E i \in DOMAIN q : IdOf[q[i]] = IdOf[d]
WithClaim(q, d) == Newest(Append(q, d), MaxClaims)

-----------------------------------------------------------------------------
Fault == faults < MaxFaults /\ faults' = faults + 1

\* The mediator routes by recipient: one socket per inbox.
Lane(m) == IF m \in Approver THEN Approver ELSE Message \ Approver
SessionOpen(m) == up /\ (m \in Approver => unlocked)

Doc(s) == DocOf[msg[s]]
DigestIn(s) == DigestOf[Doc(s)]
Prompting(s) == pc[s] \in {"prompt", "sign"}

Goto(s, l) == pc' = [pc EXCEPT ![s] = l]

Init ==
  /\ queue = Message /\ owed = {}
  /\ up = TRUE /\ unlocked = FALSE /\ reconcileDue = TRUE
  /\ pending = <<>> /\ claims = <<>> /\ active = {}
  /\ pc = [s \in Slot |-> "idle"]
  /\ msg = [s \in Slot |-> None]
  /\ snap = [s \in Slot |-> <<>>]
  /\ live = [s \in Slot |-> FALSE]
  /\ answer = [s \in Slot |-> None]
  /\ todo = [k \in Drainer |-> <<>>]
  /\ sent = {} /\ prompted = {} /\ approved = {} /\ settled = {} /\ faults = 0

-----------------------------------------------------------------------------
(* The mediator and the sockets (external: vti-didcomm-js and the mediator). *)

\* Mutant: the ack is owed as soon as the message arrives.
DeliverAndAck(s, m) ==
  /\ m \in queue /\ SessionOpen(m) /\ pc[s] = "idle"
  /\ Goto(s, "persist")
  /\ msg' = [msg EXCEPT ![s] = m]
  /\ live' = [live EXCEPT ![s] = TRUE]
  /\ snap' = [snap EXCEPT ![s] = pending]
  /\ owed' = owed \cup {m}
  /\ UNCHANGED <<unlocked, reconcileDue, active, answer, todo, stores, world, up, faults>>

\* A socket delivers the frames of its inbox one at a time; the handler starts
\* by reading the pending list.  An un-acked message may be delivered again.
Deliver(s, m) ==
  /\ m \in queue /\ SessionOpen(m)
  /\ pc[s] = "idle"
  /\ \A t \in Inbox : pc[t] = "persist" => Lane(msg[t]) # Lane(m)
  /\ Goto(s, "persist")
  /\ msg' = [msg EXCEPT ![s] = m]
  /\ live' = [live EXCEPT ![s] = TRUE]
  /\ snap' = [snap EXCEPT ![s] = pending]
  /\ UNCHANGED <<owed, unlocked, reconcileDue, active, answer, todo,
                 stores, world, up, faults>>

\* The ack deletes the mediator's copy.
Ack(m) ==
  /\ m \in owed
  /\ owed' = owed \ {m}
  /\ queue' = queue \ {m}
  /\ UNCHANGED <<unlocked, reconcileDue, active, pc, msg, snap, live, answer, todo,
                 stores, sent, prompted, approved, settled, up, faults>>

\* The socket of one inbox closes under the interactions that would answer
\* over it; acks not yet written to it are lost.  A replacement is opened.
CloseSocket(lane) ==
  /\ owed' = owed \ lane
  /\ live' = [s \in Slot |-> live[s] /\ msg[s] \notin lane]

Drop(lane) ==
  /\ up /\ lane \in {Lane(m) : m \in Message}
  /\ CloseSocket(lane)
  /\ Fault
  /\ UNCHANGED <<unlocked, reconcileDue, active, pc, msg, snap, answer, todo,
                 stores, world, up>>

-----------------------------------------------------------------------------
(* onInboundMessage: persist, start the interaction, let the ack go.       *)

\* The put is over, one way or the other, and the interaction starts.
Settled(s) ==
  /\ Goto(s, "dispatch")
  /\ snap' = [snap EXCEPT ![s] = <<>>]
  /\ settled' = settled \cup {msg[s]}

\* The transport owes an ack, if its socket is still there.
OweAck(s) == owed' = IF live[s] THEN owed \cup {msg[s]} ELSE owed

Persist(s) ==
  /\ pc[s] = "persist"
  /\ pending' = Recorded(snap[s], msg[s])
  /\ Settled(s)
  /\ OweAck(s)
  /\ UNCHANGED <<unlocked, reconcileDue, active, msg, live, answer, todo, claims,
                 queue, sent, prompted, approved, up, faults>>

\* The put fails: the interaction runs anyway and the handler rejects, which the
\* DIDComm listener swallows (it acks all the same) and the TSP one does not.
PersistFails(s) ==
  /\ pc[s] = "persist"
  /\ Fault
  /\ Settled(s)
  /\ OweAck(s) \/ owed' = owed
  /\ UNCHANGED <<unlocked, reconcileDue, active, msg, live, answer, todo, stores,
                 queue, sent, prompted, approved, up>>

-----------------------------------------------------------------------------
(* dispatchInbound and handleTaskConsent.                                  *)

\* Not a consent request, or one that fails a check: logged and dropped.
Ignore(s) ==
  /\ pc[s] = "dispatch" /\ msg[s] \notin Consent
  /\ Goto(s, "release")
  /\ UNCHANGED <<owed, unlocked, reconcileDue, active, msg, snap, live, answer, todo,
                 stores, world, up, faults>>

\* claimInboundDocument finds the id: the same document is a duplicate and
\* another one a conflict.  Both return without a prompt, in a drain too.
ClaimTaken(s) ==
  /\ pc[s] = "dispatch" /\ msg[s] \in Consent
  /\ Claimed(claims, Doc(s))
  /\ Goto(s, "release")
  /\ UNCHANGED <<owed, unlocked, reconcileDue, active, msg, snap, live, answer, todo,
                 stores, world, up, faults>>

ReadClaims(s) ==
  /\ pc[s] = "dispatch" /\ msg[s] \in Consent
  /\ ~Claimed(claims, Doc(s))
  /\ Goto(s, "claim")
  /\ snap' = [snap EXCEPT ![s] = claims]
  /\ UNCHANGED <<owed, unlocked, reconcileDue, active, msg, live, answer, todo,
                 stores, world, up, faults>>

\* Mutants of the guard: it is never tested, or set before it is tested.
GuardIgnored(s) == DigestIn(s) \in Digest
GuardSetFirst(s) == DigestIn(s) \notin active \cup {DigestIn(s)}

\* No prompt is open for the digest (activeConsentDigests.has).
DigestFree(s) == DigestIn(s) \notin active

\* The claim is written, then the digest guard is tested and set in one turn.
WriteClaim(s) ==
  /\ pc[s] = "claim"
  /\ claims' = WithClaim(snap[s], Doc(s))
  /\ snap' = [snap EXCEPT ![s] = <<>>]
  /\ \/ /\ ~DigestFree(s)
        /\ Goto(s, "release")
        /\ UNCHANGED <<active, prompted>>
     \/ /\ DigestFree(s)
        /\ active' = active \cup {DigestIn(s)}
        /\ prompted' = prompted \cup {Doc(s)}
        /\ Goto(s, "prompt")
  /\ UNCHANGED <<owed, unlocked, reconcileDue, msg, live, answer, todo, pending,
                 queue, sent, approved, settled, up, faults>>

\* A store read or write throws inside dispatch: handleInbound catches it.
ClaimFails(s) ==
  /\ pc[s] \in {"dispatch", "claim"}
  /\ Fault
  /\ Goto(s, "release")
  /\ snap' = [snap EXCEPT ![s] = <<>>]
  /\ UNCHANGED <<owed, unlocked, reconcileDue, active, msg, live, answer, todo, stores,
                 world, up>>

\* The prompt resolves: an approval, or anything else (deny, closed window).
Answer(s, a) ==
  /\ pc[s] = "prompt"
  /\ Goto(s, "sign")
  /\ answer' = [answer EXCEPT ![s] = a]
  /\ approved' = IF a = "approve" THEN approved \cup {Doc(s)} ELSE approved
  /\ UNCHANGED <<owed, unlocked, reconcileDue, active, msg, snap, live, todo, stores,
                 queue, sent, prompted, settled, up, faults>>

\* Mutant: a prompt ends and its digest stays in the guard set.
EndPromptLeaking(s) ==
  /\ Goto(s, "release")
  /\ active' = active
  /\ answer' = [answer EXCEPT ![s] = None]

\* The `finally` of handleTaskConsent.
EndPrompt(s) ==
  /\ Goto(s, "release")
  /\ active' = active \ {DigestIn(s)}
  /\ answer' = [answer EXCEPT ![s] = None]

\* The service worker dies under the prompt: sendMessage rejects.
PromptFails(s) ==
  /\ pc[s] = "prompt"
  /\ Fault
  /\ EndPrompt(s)
  /\ UNCHANGED <<owed, unlocked, reconcileDue, msg, snap, live, todo, stores, world, up>>

\* Anything other than an explicit approval is a denial.
Decision(a) == IF a = "approve" THEN "approve" ELSE "deny"

SendDecision(s) ==
  /\ pc[s] = "sign" /\ live[s]
  /\ sent' = sent \cup {[doc |-> Doc(s), decision |-> Decision(answer[s])]}
  /\ EndPrompt(s)
  /\ UNCHANGED <<owed, unlocked, reconcileDue, msg, snap, live, todo, stores,
                 queue, prompted, approved, settled, up, faults>>

\* The connection the interaction captured has closed: nothing reaches the
\* executor, and the catch only logs.
SendFails(s) ==
  /\ pc[s] = "sign" /\ ~live[s]
  /\ EndPrompt(s)
  /\ UNCHANGED <<owed, unlocked, reconcileDue, msg, snap, live, todo, stores, world,
                 up, faults>>

-----------------------------------------------------------------------------
(* The `finally` of handleInbound: removePendingInbound.                   *)

Finish(s) ==
  /\ Goto(s, "idle")
  /\ msg' = [msg EXCEPT ![s] = None]
  /\ live' = [live EXCEPT ![s] = FALSE]
  /\ snap' = [snap EXCEPT ![s] = <<>>]
  /\ UNCHANGED <<owed, unlocked, reconcileDue, active, answer, todo, claims, world, up>>

ReadRelease(s) ==
  /\ pc[s] = "release"
  /\ msg[s] \in Range(pending)
  /\ Goto(s, "remove")
  /\ snap' = [snap EXCEPT ![s] = pending]
  /\ UNCHANGED <<owed, unlocked, reconcileDue, active, msg, live, answer, todo,
                 stores, world, up, faults>>

NothingToRelease(s) ==
  /\ pc[s] = "release"
  /\ msg[s] \notin Range(pending)
  /\ Finish(s)
  /\ UNCHANGED <<pending, faults>>

WriteRelease(s) ==
  /\ pc[s] = "remove"
  /\ pending' = Without(snap[s], msg[s])
  /\ Finish(s)
  /\ UNCHANGED faults

ReleaseFails(s) ==
  /\ pc[s] \in {"release", "remove"}
  /\ Fault
  /\ Finish(s)
  /\ UNCHANGED pending

-----------------------------------------------------------------------------
(* Reconcile and drain.                                                    *)

\* The desired set of agents changed, the wallet was unlocked, or a push woke the
\* extension.
AskReconcile ==
  /\ up /\ ~reconcileDue
  /\ reconcileDue' = TRUE
  /\ UNCHANGED <<owed, unlocked, active, pc, msg, snap, live, answer, todo, stores,
                 world, up, faults>>

\* reconcileInbound ends by listing the records outstanding at that moment.
StartDrain(k) ==
  /\ reconcileDue /\ pc[k] = "idle" /\ todo[k] = <<>>
  /\ reconcileDue' = FALSE
  /\ todo' = [todo EXCEPT ![k] = pending]
  /\ UNCHANGED <<owed, unlocked, active, pc, msg, snap, live, answer, stores, world,
                 up, faults>>

\* One record at a time, each run to its end; fromDrain changes nothing.
Redrive(k) ==
  /\ pc[k] = "idle" /\ todo[k] # <<>>
  /\ SessionOpen(Head(todo[k]))
  /\ Goto(k, "dispatch")
  /\ msg' = [msg EXCEPT ![k] = Head(todo[k])]
  /\ live' = [live EXCEPT ![k] = TRUE]
  /\ todo' = [todo EXCEPT ![k] = Tail(@)]
  /\ UNCHANGED <<owed, unlocked, reconcileDue, active, snap, answer, stores, world,
                 up, faults>>

\* A locked approver's record is skipped and stays where it is.
SkipLocked(k) ==
  /\ pc[k] = "idle" /\ todo[k] # <<>>
  /\ Head(todo[k]) \in Approver /\ ~unlocked
  /\ todo' = [todo EXCEPT ![k] = Tail(@)]
  /\ UNCHANGED <<owed, unlocked, reconcileDue, active, pc, msg, snap, live, answer,
                 stores, world, up, faults>>

-----------------------------------------------------------------------------
(* The approver lock and the life of the offscreen document.               *)

Unlock ==
  /\ up /\ ~unlocked
  /\ unlocked' = TRUE
  /\ UNCHANGED <<owed, reconcileDue, active, pc, msg, snap, live, answer, todo, stores,
                 world, up, faults>>

Lock ==
  /\ up /\ unlocked
  /\ unlocked' = FALSE
  /\ CloseSocket(Approver)
  /\ Fault
  /\ UNCHANGED <<reconcileDue, active, pc, msg, snap, answer, todo, stores, world, up>>

\* The browser discards the offscreen document and all it held in memory.
Teardown ==
  /\ up /\ up' = FALSE
  /\ Fault
  /\ owed' = {} /\ unlocked' = FALSE /\ reconcileDue' = FALSE /\ active' = {}
  /\ pc' = [s \in Slot |-> "idle"]
  /\ msg' = [s \in Slot |-> None]
  /\ snap' = [s \in Slot |-> <<>>]
  /\ live' = [s \in Slot |-> FALSE]
  /\ answer' = [s \in Slot |-> None]
  /\ todo' = [k \in Drainer |-> <<>>]
  /\ UNCHANGED <<stores, world>>

Boot ==
  /\ ~up /\ up' = TRUE
  /\ reconcileDue' = TRUE
  /\ UNCHANGED <<owed, unlocked, active, pc, msg, snap, live, answer, todo, stores,
                 world, faults>>

-----------------------------------------------------------------------------
\* What a slot does by itself, with no fault and no human.
Run(s) ==
  \/ Persist(s) \/ Ignore(s) \/ ClaimTaken(s) \/ ReadClaims(s) \/ WriteClaim(s)
  \/ SendDecision(s) \/ SendFails(s)
  \/ ReadRelease(s) \/ NothingToRelease(s) \/ WriteRelease(s)

Break(s) == PersistFails(s) \/ ClaimFails(s) \/ PromptFails(s) \/ ReleaseFails(s)

Drain(k) == StartDrain(k) \/ Redrive(k) \/ SkipLocked(k)

Next ==
  \/ \E s \in Inbox, m \in Message : Deliver(s, m)
  \/ \E m \in Message : Ack(m)
  \/ \E m \in Message : Drop(Lane(m))
  \/ \E s \in Slot : Run(s) \/ Break(s)
  \/ \E s \in Slot, a \in {"approve", "dismiss"} : Answer(s, a)
  \/ \E k \in Drainer : Drain(k)
  \/ AskReconcile \/ Unlock \/ Lock \/ Teardown \/ Boot

Spec == Init /\ [][Next]_vars

\* JavaScript runs every task whose await has completed, the mediator redelivers
\* what is not acked, the browser restarts the extension, and a human who has a
\* prompt in front of them answers or closes it.
Fairness ==
  /\ \A s \in Slot : WF_vars(Run(s)) /\ WF_vars(\E a \in {"approve", "dismiss"} : Answer(s, a))
  /\ \A k \in Drainer : WF_vars(Drain(k))
  /\ \A m \in Message : WF_vars(Ack(m)) /\ SF_vars(\E s \in Inbox : Deliver(s, m))
  /\ WF_vars(Boot)

FairSpec == Spec /\ Fairness

-----------------------------------------------------------------------------
(* Invariants.                                                             *)

PC == {"idle", "persist", "dispatch", "claim", "prompt", "sign", "release", "remove"}

\* Every variable has its type, and the two durable lists keep their bounds.
TypeOK ==
  /\ queue \subseteq Message /\ owed \subseteq Message /\ settled \subseteq Message
  /\ up \in BOOLEAN /\ unlocked \in BOOLEAN /\ reconcileDue \in BOOLEAN
  /\ pending \in Seq(Message) /\ Len(pending) <= MaxPending
  /\ claims \in Seq(Document) /\ Len(claims) <= MaxClaims
  /\ active \subseteq Digest
  /\ pc \in [Slot -> PC]
  /\ msg \in [Slot -> Message \cup {None}]
  /\ snap \in [Slot -> Seq(Message) \cup Seq(Document)]
  /\ live \in [Slot -> BOOLEAN]
  /\ answer \in [Slot -> {"approve", "dismiss", None}]
  /\ todo \in [Drainer -> Seq(Message)]
  /\ sent \subseteq [doc : Document, decision : {"approve", "deny"}]
  /\ prompted \subseteq Document /\ approved \subseteq Document
  /\ faults \in 0..MaxFaults

\* No two elements of a list have the same key.
UniqueBy(q, key) == \A i, j \in DOMAIN q : key[q[i]] = key[q[j]] => i = j
Self == [m \in Message |-> m]

\* What the slots rely on between two steps: a running slot has a message, a
\* snapshot came from the list it will replace, a claim was free when it was
\* read, and an approval in hand was given by the human for this document.
SlotsConsistent ==
  \A s \in Slot :
    /\ pc[s] # "idle" => msg[s] \in Message
    /\ pc[s] \in {"persist", "remove"} =>
         snap[s] \in Seq(Message) /\ Len(snap[s]) <= MaxPending /\ UniqueBy(snap[s], Self)
    /\ pc[s] = "claim" =>
         snap[s] \in Seq(Document) /\ UniqueBy(snap[s], IdOf) /\ ~Claimed(snap[s], Doc(s))
    /\ answer[s] = "approve" => pc[s] = "sign" /\ Doc(s) \in approved

\* An ack is owed only for a message whose put has settled.
OwedIsSettled == owed \subseteq settled

\* A human never has two prompts open for one payload digest, whichever inbox,
\* drain or redelivery the requests came by (the guard in handleTaskConsent).
OnePromptPerDigest ==
  \A s, t \in Slot :
    Prompting(s) /\ Prompting(t) /\ DigestIn(s) = DigestIn(t) => s = t

\* The guard set holds exactly the digests under a prompt: one left behind would
\* silence every later request for that change, one missing would open a second
\* prompt (the `finally` of handleTaskConsent on every way out).
GuardMatchesPrompts == active = {DigestIn(s) : s \in {t \in Slot : Prompting(t)}}

\* An approve decision leaves only for a document a human approved: a closed
\* window, a dead worker or a lost answer is never read as assent.
ApprovalIsHuman ==
  \A x \in sent : x.decision = "approve" => x.doc \in approved

\* The mediator's copy of a message is gone only after the durable put for that
\* message has settled (persist before ack, R1.6).
AckWaitsForPut == Message \ queue \subseteq settled

\* No message has two pending records and no id two claims, however the list
\* writes of concurrent interactions interleave.
UniqueRecords == UniqueBy(pending, Self) /\ UniqueBy(claims, IdOf)

\* The mediator's redelivery of a document a human was asked about raises no second
\* prompt, under whatever transport id and however often the extension restarted in
\* between (first half of section 7.2 item 11, claimInboundDocument).  A drain is not held
\* to this: what it finds was interrupted, and has to be asked again (pending.ts).
ReplayNotPrompted ==
  [][\A s \in Inbox : pc[s] # "prompt" /\ pc'[s] = "prompt" => Doc(s) \notin prompted]_vars

\* Two different documents under one id are never both put to a human (second
\* half of section 7.2 item 11: idConflict).
OneDocumentPerId ==
  \A d, e \in prompted : IdOf[d] = IdOf[e] => d = e

\* A consent request is over when a decision for its payload has left, or when its
\* id belongs to another document.
Concluded(m) ==
  \/ \E x \in sent : DigestOf[x.doc] = DigestOf[DocOf[m]]
  \/ \E d \in Range(claims) : IdOf[d] = IdOf[DocOf[m]] /\ d # DocOf[m]

\* With no faults, every request the mediator holds is concluded.
EveryRequestConcluded ==
  \A m \in Consent \ Approver : m \in queue ~> Concluded(m) \/ faults > 0

-----------------------------------------------------------------------------
(* What the comments promise and the code does not keep.                   *)

\* A drain that re-drives an interrupted request, one no other slot is running,
\* does not give it up: "the dedup check must be bypassed" (offscreen.ts).
DrainRecoversInterrupted ==
  [][\A k \in Drainer :
       /\ pc[k] = "dispatch" /\ ~Concluded(msg[k])
       /\ \A s \in Slot \ {k} : msg[s] # msg[k]
       /\ faults' = faults
       => pc'[k] # "release"]_vars

\* While its prompt is open a message keeps its pending record: "emphatically
\* NOT dropped when the prompt merely opens" (handleInbound).
RecordOutlivesPrompt ==
  \A s \in Slot : Prompting(s) => msg[s] \in Range(pending)

\* A record is removed only by the interaction it belongs to (pending.ts).
OnlyItsOwnRecord ==
  [][\A m \in Message :
       m \in Range(pending) /\ m \notin Range(pending') =>
         \E s \in Slot : msg[s] = m /\ pc[s] = "remove"]_vars

\* A record whose document a human approved is removed only once a decision has
\* left: "a decision sent, a refusal, or an unrecognised message" (handleInbound).
ApprovalNotLost ==
  [][\A m \in Message :
       /\ m \in Range(pending) /\ m \notin Range(pending')
       /\ DocOf[m] \in approved
       => Concluded(m)]_vars

\* A recorded request of a locked approver is re-driven after the unlock: "the
\* record will be drained after they do" (drainPendingInbound).
UnlockDrains ==
  \A m \in Approver :
    (up /\ unlocked /\ m \in Range(pending) /\ \A s \in Slot : msg[s] # m)
      ~> (~up \/ ~unlocked \/ \E s \in Slot : msg[s] = m)

=============================================================================
