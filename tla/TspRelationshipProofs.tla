------------------------ MODULE TspRelationshipProofs ------------------------
(***************************************************************************)
(* The wallet's half of the relationship, for any number of requests and   *)
(* faults.  What the wallet believes is traced to the wire: a relationship *)
(* it holds, and every accept on its way, is one the VTA accepted; while   *)
(* nothing was lost, forgotten or cancelled by its accept, it is also one  *)
(* the VTA still holds or has a cancellation on its way for, behind the    *)
(* accept.  And between two failures without a fault, requests made in     *)
(* turn leave exactly one frame in flight (Orderly).                       *)
(***************************************************************************)
EXTENDS TspRelationship, SequenceTheorems, TLAPS

-----------------------------------------------------------------------------
(* The invariants.                                                         *)

\* Every accept on its way is for an invite the VTA accepted, and a relationship
\* the wallet believes in carries such an invite.
Backed ==
  /\ \A i \in DOMAIN toWallet : toWallet[i].kind = "accept" => toWallet[i].req \in accepted
  /\ rec.state = "bidirectional" => \E q \in accepted : rec.ours = <<q, "invite">>

\* A cancellation that ends the relationship of invite q whatever half we hold.
EndsInvite(f, q) == f.kind = "cancel" /\ f.names \in {None, <<q, "invite">>}

\* The VTA holds the relationship of invite q, or its end is on its way behind the
\* first i frames.
HeldOrEnding(q, i) ==
  vta = q \/ \E j \in DOMAIN toWallet : j > i /\ EndsInvite(toWallet[j], q)

Intact == happened \cap {"loss", "restart", "accept"} = {}

\* What the wallet believes, or is about to, the VTA holds or has called off.
InStep ==
  Intact =>
    /\ \A i \in DOMAIN toWallet :
         toWallet[i].kind = "accept" => HeldOrEnding(toWallet[i].req, i)
    /\ rec.state = "bidirectional" =>
         \E q \in Request : rec.ours = <<q, "invite">> /\ HeldOrEnding(q, 0)

Careful == happened \cap {"overlap", "haste"} = {}

\* Requests made in turn: one is under way at a time.
InTurn ==
  /\ failedAt <= faults
  /\ "overlap" \notin happened => \A q, r \in Request : ~Over(q) /\ ~Over(r) => q = r

OnItsWay(kind, r) == toVta = <<Frame(kind, r)>> /\ toWallet = <<>>
OnItsWayBack(kind, r) == toVta = <<>> /\ toWallet = <<Frame(kind, r)>>

\* The one frame a request in this place has in flight, and what the VTA holds.
InPlace(r) ==
  /\ pc[r] = "packing" => Silence /\ rec.state = "none"
  /\ pc[r] = "handshake" =>
       \/ OnItsWay("invite", r)
       \/ vta # None /\ (Silence \/ OnItsWayBack("accept", r))
  /\ pc[r] = "send" => vta # None /\ Silence
  /\ pc[r] = "waiting" =>
       vta # None /\ (OnItsWay("message", r) \/ OnItsWayBack("reply", r))

\* No fault since the last failure: a record the wallet holds is one the VTA holds.
Orderly ==
  Careful /\ failedAt = faults =>
    /\ \A r \in Request : InPlace(r)
    /\ (\A r \in Request : Over(r)) => Silence
    /\ \/ \E r \in Request : pc[r] = "handshake"
       \/ rec.state = "none" \/ vta # None

-----------------------------------------------------------------------------
(* Wires.                                                                  *)

\* What a reader takes is the first frame; the others move up by one.
LEMMA TailShifts ==
  ASSUME NEW w \in Seq(FrameType), w # <<>>
  PROVE  /\ Head(w) = w[1] /\ 1 \in DOMAIN w /\ Head(w) \in FrameType
         /\ Tail(w) \in Seq(FrameType)
         /\ \A i \in DOMAIN Tail(w) :
              i \in Nat \ {0} /\ i + 1 \in DOMAIN w /\ Tail(w)[i] = w[i + 1]
         /\ \A i \in DOMAIN w : i > 1 => i - 1 \in DOMAIN Tail(w) /\ Tail(w)[i - 1] = w[i]
         /\ DOMAIN w \subseteq Nat \ {0}
<1>1. Len(w) \in Nat \ {0} /\ DOMAIN w = 1..Len(w)
  BY EmptySeq, LenProperties
<1>2. Tail(w) \in Seq(FrameType) /\ Len(Tail(w)) = Len(w) - 1
  BY HeadTailProperties
<1>3. \A i \in 1..Len(Tail(w)) : Tail(w)[i] = w[i + 1]
  BY HeadTailProperties
<1>4. DOMAIN Tail(w) = 1..(Len(w) - 1)
  BY <1>2, LenProperties
<1>5. Head(w) = w[1] /\ Head(w) \in FrameType
  BY HeadTailProperties
<1> QED BY <1>1, <1>2, <1>3, <1>4, <1>5

\* What a sender adds comes last; the others stay where they are.
LEMMA AppendExtends ==
  ASSUME NEW w \in Seq(FrameType), NEW f \in FrameType
  PROVE  /\ Append(w, f) \in Seq(FrameType)
         /\ \A i \in DOMAIN Append(w, f) :
              \/ i \in DOMAIN w /\ Append(w, f)[i] = w[i]
              \/ i = Len(w) + 1 /\ Append(w, f)[i] = f
         /\ \A i \in DOMAIN w : i \in DOMAIN Append(w, f) /\ Append(w, f)[i] = w[i]
         /\ Len(w) + 1 \in DOMAIN Append(w, f) /\ Append(w, f)[Len(w) + 1] = f
         /\ \A i \in DOMAIN w : i \in Nat \ {0} /\ i < Len(w) + 1
         /\ Len(w) \in Nat
<1>1. Len(w) \in Nat /\ DOMAIN w = 1..Len(w)
  BY LenProperties
<1>2. /\ Append(w, f) \in Seq(FrameType) /\ Len(Append(w, f)) = Len(w) + 1
      /\ \A i \in 1..Len(w) : Append(w, f)[i] = w[i]
      /\ Append(w, f)[Len(w) + 1] = f
  BY AppendProperties
<1>3. DOMAIN Append(w, f) = 1..(Len(w) + 1)
  BY <1>2, LenProperties
<1> QED BY <1>1, <1>2, <1>3

\* A frame put on an empty wire is alone there, and leaves it empty when read.
LEMMA SingleFrame ==
  ASSUME NEW f
  PROVE  /\ Append(<<>>, f) = <<f>> /\ <<f>> # <<>>
         /\ Head(<<f>>) = f /\ Tail(<<f>>) = <<>>
OBVIOUS

\* Frames are frames.
LEMMA FrameTyped ==
  ASSUME NEW q \in Request,
         NEW kind \in {"invite", "accept", "cancel", "message", "reply"}
  PROVE  Frame(kind, q) \in FrameType /\ Frame(kind, q).kind = kind /\ Frame(kind, q).req = q
BY DEF Frame, FrameType

\* The frame a cancellation sends.
LEMMA CancelTyped ==
  ASSUME NEW q \in Request, NEW n \in {"invite", "accept", "nothing"}
  PROVE  LET f == [Frame("cancel", q) EXCEPT !.names = IF n = "nothing" THEN None ELSE <<q, n>>]
         IN  /\ f \in FrameType /\ f.kind = "cancel"
             /\ f.names = IF n = "nothing" THEN None ELSE <<q, n>>
BY DEF Frame, FrameType, Digest

-----------------------------------------------------------------------------
(* Types.                                                                  *)

LEMMA TypesStep ==
  ASSUME TypeOK, [Next]_vars
  PROVE  TypeOK'
<1> USE DEF TypeOK, Goto
<1>1. ASSUME NEW r \in Request, Begin(r) PROVE TypeOK'
  BY <1>1 DEF Begin, Noted, wires, Stage
<1>2. ASSUME NEW r \in Request, Invite(r) PROVE TypeOK'
  <2>1. toVta' \in Seq(FrameType)
    BY <1>2, FrameTyped, AppendExtends DEF Invite
  <2> QED BY <1>2, <2>1 DEF Invite, Digest, Stage
<1>3. ASSUME NEW r \in Request, HandshakeTimeout(r) PROVE TypeOK'
  BY <1>3 DEF HandshakeTimeout, Noted, wires, Stage
<1>4. ASSUME NEW r \in Request, SendRequest(r) PROVE TypeOK'
  <2>1. toVta' \in Seq(FrameType)
    BY <1>4, FrameTyped, AppendExtends DEF SendRequest
  <2> QED BY <1>4, <2>1 DEF SendRequest, Stage
<1>5. ASSUME NEW r \in Request, ReplyTimeout(r) PROVE TypeOK'
  BY <1>5 DEF ReplyTimeout, Forget, NoRecord, Noted, wires, Stage
<1>6. ASSUME NEW kind, Receive(kind)
      PROVE  toWallet' \in Seq(FrameType) /\ Head(toWallet) \in FrameType
  BY <1>6, TailShifts DEF Receive
<1>7. ASSUME NEW kind, Receive(kind)
      PROVE  UNCHANGED <<toVta, vta, accepted, faults, failedAt, happened>>
  BY <1>7 DEF Receive
<1>8. CASE ClaimAccept
  <2>1. Head(toWallet).req \in Request
    BY <1>6, <1>8 DEF ClaimAccept, FrameType
  <2>2. rec' \in [state : {"none", "pending", "bidirectional"},
                  ours : Digest \cup {None}, theirs : Digest \cup {None}]
    BY <1>8, <2>1 DEF ClaimAccept, Related, Digest
  <2>3. pc' \in [Request -> Stage]
    BY <1>8, <2>1 DEF ClaimAccept, Stage
  <2> QED BY <1>6, <1>7, <1>8, <2>2, <2>3 DEF ClaimAccept
<1>9. CASE LateAccept
  <2>1. Head(toWallet).req \in Request
    BY <1>6, <1>9 DEF LateAccept, FrameType
  <2>2. rec' \in [state : {"none", "pending", "bidirectional"},
                  ours : Digest \cup {None}, theirs : Digest \cup {None}]
    BY <1>9, <2>1 DEF LateAccept, Adopts, Related, Digest
  <2> QED BY <1>6, <1>7, <1>9, <2>2 DEF LateAccept
<1>10. CASE ReceiveCancel
  BY <1>6, <1>7, <1>10 DEF ReceiveCancel, NoRecord
<1>11. CASE ReceiveReply
  <2>1. pc' \in [Request -> Stage]
    BY <1>11 DEF ReceiveReply, Stage
  <2> QED BY <1>6, <1>7, <1>11, <2>1 DEF ReceiveReply
<1>12. ASSUME NEW kind, VtaReads(kind)
       PROVE  /\ toVta' \in Seq(FrameType) /\ Head(toVta).req \in Request
              /\ UNCHANGED <<rec, pc, faults, failedAt, happened>>
  BY <1>12, TailShifts DEF VtaReads, FrameType
<1>13. CASE VtaInvite
  <2> DEFINE q == Head(toVta).req
  <2>1. q \in Request /\ Frame("accept", q) \in FrameType
    BY <1>12, <1>13, FrameTyped DEF VtaInvite
  <2>2. \/ vta' = q /\ accepted' = accepted \cup {q} /\ toWallet' = Append(toWallet, Frame("accept", q))
        \/ UNCHANGED <<vta, accepted, toWallet>>
    BY <1>13 DEF VtaInvite
  <2>3. toWallet' \in Seq(FrameType)
    BY <2>1, <2>2, AppendExtends
  <2> QED BY <1>12, <1>13, <2>1, <2>2, <2>3 DEF VtaInvite
<1>14. CASE VtaMessage
  <2> DEFINE q == Head(toVta).req
  <2>1. q \in Request /\ Frame("reply", q) \in FrameType
    BY <1>12, <1>14, FrameTyped DEF VtaMessage
  <2>2. toWallet' \in Seq(FrameType)
    BY <1>14, <2>1, AppendExtends DEF VtaMessage
  <2> QED BY <1>12, <1>14, <2>2 DEF VtaMessage
<1>15. ASSUME NEW kind \in {"loss", "restart", "invite", "accept", "nothing"}, Fault(kind)
       PROVE  /\ faults' \in 0..MaxFaults
              /\ happened' \subseteq
                   {"overlap", "haste", "loss", "restart", "invite", "accept", "nothing"}
  BY <1>15, RequestAssumption DEF Fault
<1>16. CASE VtaRestart
  BY <1>15, <1>16 DEF VtaRestart, wires
<1>17. CASE Lose
  BY <1>15, <1>17, TailShifts DEF Lose
<1>18. ASSUME NEW n \in {"invite", "accept", "nothing"}, VtaCancel(n) PROVE TypeOK'
  <2>1. vta \in Request
    BY <1>18 DEF VtaCancel
  <2>2. toWallet' \in Seq(FrameType)
    BY <1>18, <2>1, CancelTyped, AppendExtends DEF VtaCancel
  <2> QED BY <1>15, <1>18, <2>2 DEF VtaCancel
<1>19. CASE UNCHANGED vars
  BY <1>19 DEF vars, wires
<1> QED
  BY <1>1, <1>2, <1>3, <1>4, <1>5, <1>8, <1>9, <1>10, <1>11, <1>13, <1>14, <1>16, <1>17, <1>18,
     <1>19 DEF Next

THEOREM Typed == Spec => []TypeOK
<1>1. Init => TypeOK
  BY RequestAssumption DEF Init, TypeOK, NoRecord, Stage
<1> QED BY <1>1, TypesStep, PTL DEF Spec

-----------------------------------------------------------------------------
(* What the wallet believes was accepted.                                  *)

\* A frame to the wallet was there before, or is no accept, or is one the VTA has
\* just given; and the VTA never takes an acceptance back.
LEMMA AcceptsComeFromVta ==
  ASSUME TypeOK, [Next]_vars
  PROVE  /\ accepted \subseteq accepted'
         /\ \A i \in DOMAIN toWallet' :
              \/ \E j \in DOMAIN toWallet : toWallet[j] = toWallet'[i]
              \/ toWallet'[i].kind = "accept" => toWallet'[i].req \in accepted'
<1> DEFINE Old(w) == \A i \in DOMAIN w : \E j \in DOMAIN toWallet : toWallet[j] = w[i]
<1> USE DEF TypeOK
<1>1. Old(toWallet)
  OBVIOUS
<1>2. toWallet # <<>> => Old(Tail(toWallet))
  BY TailShifts
<1>3. ASSUME NEW f \in FrameType, toWallet' = Append(toWallet, f), accepted \subseteq accepted',
             f.kind = "accept" => f.req \in accepted'
      PROVE  \A i \in DOMAIN toWallet' :
               \/ \E j \in DOMAIN toWallet : toWallet[j] = toWallet'[i]
               \/ toWallet'[i].kind = "accept" => toWallet'[i].req \in accepted'
  BY <1>3, AppendExtends
<1>4. ASSUME NEW r \in Request,
             Begin(r) \/ Invite(r) \/ HandshakeTimeout(r) \/ SendRequest(r) \/ ReplyTimeout(r)
      PROVE  UNCHANGED <<toWallet, accepted>>
  BY <1>4 DEF Begin, Invite, HandshakeTimeout, SendRequest, ReplyTimeout, wires
<1>5. CASE ClaimAccept \/ LateAccept \/ ReceiveCancel \/ ReceiveReply
  <2>1. toWallet # <<>> /\ toWallet' = Tail(toWallet) /\ accepted' = accepted
    BY <1>5 DEF ClaimAccept, LateAccept, ReceiveCancel, ReceiveReply, Receive
  <2> QED BY <1>2, <2>1
<1>6. CASE VtaInvite
  <2> DEFINE q == Head(toVta).req
  <2>1. q \in Request
    BY <1>6, TailShifts DEF VtaInvite, VtaReads, FrameType
  <2>2. \/ accepted' = accepted \cup {q} /\ toWallet' = Append(toWallet, Frame("accept", q))
        \/ UNCHANGED <<accepted, toWallet>>
    BY <1>6 DEF VtaInvite
  <2> QED BY <1>1, <1>3, <2>1, <2>2, FrameTyped
<1>7. CASE VtaMessage
  <2> DEFINE q == Head(toVta).req
  <2>1. q \in Request
    BY <1>7, TailShifts DEF VtaMessage, VtaReads, FrameType
  <2>2. \/ accepted' = accepted /\ toWallet' = Append(toWallet, Frame("reply", q))
        \/ UNCHANGED <<accepted, toWallet>>
    BY <1>7 DEF VtaMessage
  <2> QED BY <1>1, <1>3, <2>1, <2>2, FrameTyped
<1>8. CASE VtaRestart
  BY <1>8 DEF VtaRestart, wires
<1>9. CASE Lose
  <2>1. /\ accepted' = accepted
        /\ toWallet' = toWallet \/ (toWallet # <<>> /\ toWallet' = Tail(toWallet))
    BY <1>9 DEF Lose
  <2> QED BY <1>1, <1>2, <2>1
<1>10. ASSUME NEW n \in {"invite", "accept", "nothing"}, VtaCancel(n)
       PROVE  \E f \in FrameType : /\ toWallet' = Append(toWallet, f) /\ f.kind = "cancel"
                                   /\ accepted' = accepted
  BY <1>10, CancelTyped DEF VtaCancel
<1>11. (\E n \in {"invite", "accept", "nothing"} : VtaCancel(n)) =>
         /\ accepted \subseteq accepted'
         /\ \A i \in DOMAIN toWallet' :
              \/ \E j \in DOMAIN toWallet : toWallet[j] = toWallet'[i]
              \/ toWallet'[i].kind = "accept" => toWallet'[i].req \in accepted'
  BY <1>3, <1>10
<1>12. CASE UNCHANGED vars
  BY <1>12 DEF vars, wires
<1> QED BY <1>4, <1>5, <1>6, <1>7, <1>8, <1>9, <1>11, <1>12 DEF Next

\* The wallet believes only on an accept of its own invite.
LEMMA BeliefComesFromAccept ==
  ASSUME TypeOK, [Next]_vars, rec'.state = "bidirectional"
  PROVE  \/ rec' = rec
         \/ /\ toWallet # <<>> /\ toWallet[1].kind = "accept"
            /\ toWallet' = Tail(toWallet)
            /\ toWallet[1].req \in Request
            /\ rec'.ours = <<toWallet[1].req, "invite">>
            /\ UNCHANGED <<vta, accepted, happened>>
<1> USE DEF TypeOK
<1>1. ASSUME NEW r \in Request,
             Begin(r) \/ HandshakeTimeout(r) \/ SendRequest(r)
      PROVE  rec' = rec
  BY <1>1 DEF Begin, HandshakeTimeout, SendRequest
<1>2. ASSUME NEW r \in Request, Invite(r) \/ ReplyTimeout(r) PROVE FALSE
  BY <1>2 DEF Invite, ReplyTimeout, Forget, NoRecord
<1>3. ASSUME toWallet # <<>>
      PROVE  Head(toWallet) = toWallet[1] /\ toWallet[1].req \in Request
  BY <1>3, TailShifts DEF FrameType
<1>4. CASE ClaimAccept
  BY <1>3, <1>4 DEF ClaimAccept, Receive, Related
<1>5. CASE LateAccept
  BY <1>3, <1>5 DEF LateAccept, Receive, Related, Adopts
<1>6. CASE ReceiveCancel \/ ReceiveReply
  BY <1>6 DEF ReceiveCancel, ReceiveReply, NoRecord
<1>7. CASE VtaInvite \/ VtaMessage \/ VtaRestart \/ Lose
  BY <1>7 DEF VtaInvite, VtaMessage, VtaReads, VtaRestart, Lose
<1>8. ASSUME NEW n \in {"invite", "accept", "nothing"}, VtaCancel(n) PROVE rec' = rec
  BY <1>8 DEF VtaCancel
<1>9. CASE UNCHANGED vars
  BY <1>9 DEF vars
<1> QED BY <1>1, <1>2, <1>4, <1>5, <1>6, <1>7, <1>8, <1>9 DEF Next

LEMMA BackedStep ==
  ASSUME TypeOK, Backed, [Next]_vars
  PROVE  Backed'
<1>1. \A i \in DOMAIN toWallet' : toWallet'[i].kind = "accept" => toWallet'[i].req \in accepted'
  BY AcceptsComeFromVta DEF Backed
<1>2. ASSUME rec'.state = "bidirectional"
      PROVE  \E q \in accepted' : rec'.ours = <<q, "invite">>
  <2>1. CASE rec' = rec
    BY <1>2, <2>1, AcceptsComeFromVta DEF Backed
  <2>2. CASE /\ toWallet # <<>> /\ toWallet[1].kind = "accept"
             /\ rec'.ours = <<toWallet[1].req, "invite">>
             /\ UNCHANGED accepted
    <3>1. 1 \in DOMAIN toWallet
      BY <2>2, TailShifts DEF TypeOK
    <3> QED BY <2>2, <3>1 DEF Backed
  <2> QED BY <1>2, <2>1, <2>2, BeliefComesFromAccept
<1> QED BY <1>1, <1>2 DEF Backed

\* However handshakes, late accepts and cancellations cross, the relationship the
\* wallet believes in is one the VTA accepted (resolveAccept).
THEOREM BeliefIsBacked == Spec => []BelievedWasAccepted
<1>1. Init => Backed
  BY EmptySeq DEF Init, Backed, NoRecord
<1>2. TypeOK /\ Backed /\ [Next]_vars => Backed'
  BY BackedStep
<1>3. Backed => BelievedWasAccepted
  BY DEF Backed, BelievedWasAccepted
<1> QED BY <1>1, <1>2, <1>3, Typed, PTL DEF Spec

-----------------------------------------------------------------------------
(* What the wallet believes the VTA holds, or has called off.              *)

\* The first frame is read: an end behind it is still behind what follows, and an
\* end anywhere is still there unless it was that frame.
LEMMA EndsShift ==
  ASSUME TypeOK, toWallet # <<>>, toWallet' = Tail(toWallet), vta' = vta,
         NEW q \in Request, NEW i \in Nat, HeldOrEnding(q, i),
         i = 0 => ~EndsInvite(toWallet[1], q),
         NEW k \in Nat, k + 1 = i \/ (i = 0 /\ k = 0)
  PROVE  HeldOrEnding(q, k)'
<1>1. CASE vta = q
  BY <1>1 DEF HeldOrEnding
<1>2. ASSUME NEW j \in DOMAIN toWallet, j > i, EndsInvite(toWallet[j], q)
      PROVE  HeldOrEnding(q, k)'
  <2>1. j > 1 /\ j \in Nat
    BY <1>2, TailShifts DEF TypeOK
  <2>2. j - 1 \in DOMAIN toWallet' /\ toWallet'[j - 1] = toWallet[j]
    BY <2>1, TailShifts DEF TypeOK
  <2>3. EndsInvite(toWallet'[j - 1], q) /\ j - 1 > k
    BY <1>2, <2>1, <2>2
  <2> QED BY <2>2, <2>3 DEF HeldOrEnding
<1> QED BY <1>1, <1>2 DEF HeldOrEnding

\* A frame is added: nothing changes for the frames before it, unless the VTA drops
\* the relationship without saying so.
LEMMA EndsExtend ==
  ASSUME TypeOK, NEW f \in FrameType, toWallet' = Append(toWallet, f),
         NEW q \in Request, NEW i \in Nat, i <= Len(toWallet), HeldOrEnding(q, i),
         vta = q => vta' = q \/ EndsInvite(f, q)
  PROVE  HeldOrEnding(q, i)'
<1>1. ASSUME vta = q, vta' # q PROVE HeldOrEnding(q, i)'
  <2>1. /\ Len(toWallet) + 1 \in DOMAIN toWallet' /\ toWallet'[Len(toWallet) + 1] = f
        /\ Len(toWallet) + 1 > i
    BY AppendExtends DEF TypeOK
  <2> QED BY <1>1, <2>1 DEF HeldOrEnding
<1>2. ASSUME NEW j \in DOMAIN toWallet, j > i, EndsInvite(toWallet[j], q)
      PROVE  HeldOrEnding(q, i)'
  <2>1. j \in DOMAIN toWallet' /\ toWallet'[j] = toWallet[j]
    BY AppendExtends DEF TypeOK
  <2> QED BY <1>2, <2>1 DEF HeldOrEnding
<1>3. CASE vta' = q
  BY <1>3 DEF HeldOrEnding
<1> QED BY <1>1, <1>2, <1>3 DEF HeldOrEnding

\* What a frame that is read does to the record.
LEMMA ReadSteps ==
  ASSUME TypeOK, ClaimAccept \/ LateAccept \/ ReceiveCancel \/ ReceiveReply
  PROVE  /\ toWallet # <<>> /\ toWallet' = Tail(toWallet)
         /\ UNCHANGED <<toVta, vta, accepted, happened>>
         /\ rec' = rec => \/ toWallet[1].kind # "cancel"
                          \/ rec.state = "none"
                          \/ toWallet[1].names \notin {None, rec.ours}
<1>1. toWallet # <<>> /\ toWallet' = Tail(toWallet) /\ UNCHANGED <<toVta, vta, accepted, happened>>
  BY DEF ClaimAccept, LateAccept, ReceiveCancel, ReceiveReply, Receive
<1>2. Head(toWallet) = toWallet[1]
  BY <1>1, TailShifts DEF TypeOK
<1>3. CASE ClaimAccept \/ LateAccept \/ ReceiveReply
  BY <1>1, <1>2, <1>3 DEF ClaimAccept, LateAccept, ReceiveReply, Receive
<1>4. CASE ReceiveCancel
  BY <1>1, <1>2, <1>4 DEF ReceiveCancel, Receive, Cancels, NoRecord, TypeOK
<1> QED BY <1>1, <1>3, <1>4

\* A read keeps the wallet in step.
LEMMA InStepRead ==
  ASSUME TypeOK, InStep, ClaimAccept \/ LateAccept \/ ReceiveCancel \/ ReceiveReply
  PROVE  InStep'
<1>0. /\ toWallet # <<>> /\ toWallet' = Tail(toWallet) /\ vta' = vta /\ happened' = happened
  BY ReadSteps
<1> SUFFICES ASSUME Intact
             PROVE  /\ \A i \in DOMAIN toWallet' : toWallet'[i].kind = "accept" =>
                         HeldOrEnding(toWallet[i].req, i)'
                    /\ rec'.state = "bidirectional" =>
                         \E q \in Request : rec'.ours = <<q, "invite">> /\ HeldOrEnding(q, 0)'
  BY <1>0 DEF InStep, Intact
<1>1. ASSUME NEW i \in DOMAIN toWallet', toWallet'[i].kind = "accept"
      PROVE  HeldOrEnding(toWallet[i].req, i)'
  <2> DEFINE q == toWallet'[i].req
  <2>1. i \in Nat \ {0} /\ i + 1 \in DOMAIN toWallet /\ toWallet'[i] = toWallet[i + 1]
    BY <1>0, TailShifts DEF TypeOK
  <2>3. HeldOrEnding(q, i + 1)
    BY <1>1, <2>1 DEF InStep
  <2>4. vta = q \/ \E j \in DOMAIN toWallet : j > i + 1 /\ EndsInvite(toWallet[j], q)
    BY <2>3 DEF HeldOrEnding
  <2>5. vta' = q \/ \E j \in DOMAIN toWallet' : j > i /\ EndsInvite(toWallet'[j], q)
    <3>1. ASSUME NEW j \in DOMAIN toWallet, j > i + 1, EndsInvite(toWallet[j], q)
          PROVE  j - 1 \in DOMAIN toWallet' /\ j - 1 > i /\ EndsInvite(toWallet'[j - 1], q)
      <4>1. j > 1 /\ j \in Nat
        BY <2>1, <3>1, TailShifts, <1>0 DEF TypeOK
      <4>2. j - 1 \in DOMAIN toWallet' /\ toWallet'[j - 1] = toWallet[j]
        BY <1>0, <4>1, TailShifts DEF TypeOK
      <4> QED BY <2>1, <3>1, <4>1, <4>2
    <3> QED BY <1>0, <2>4, <3>1
  <2> QED BY <2>5 DEF HeldOrEnding
<1>2. ASSUME rec'.state = "bidirectional"
      PROVE  \E q \in Request : rec'.ours = <<q, "invite">> /\ HeldOrEnding(q, 0)'
  <2>1. CASE rec' = rec
    <3>1. PICK q \in Request : rec.ours = <<q, "invite">> /\ HeldOrEnding(q, 0)
      BY <1>2, <2>1 DEF InStep
    <3>2. ~EndsInvite(toWallet[1], q)
      BY <1>2, <2>1, <3>1, ReadSteps DEF EndsInvite
    <3> QED BY <1>0, <2>1, <3>1, <3>2, EndsShift
  <2>2. CASE rec' # rec
    <3> DEFINE q == toWallet[1].req
    <3>1. toWallet[1].kind = "accept" /\ q \in Request /\ rec'.ours = <<q, "invite">>
      BY <1>2, <2>2, BeliefComesFromAccept DEF Next
    <3>2. HeldOrEnding(q, 1)
      BY <1>0, <3>1, TailShifts DEF InStep, TypeOK
    <3> QED BY <1>0, <3>1, <3>2, EndsShift
  <2> QED BY <2>1, <2>2
<1> QED BY <1>1, <1>2

\* A frame that the VTA adds keeps it in step.
LEMMA InStepExtend ==
  ASSUME TypeOK, InStep, Intact, rec' = rec,
         NEW f \in FrameType, toWallet' = Append(toWallet, f),
         \A q \in Request : vta = q => vta' = q \/ EndsInvite(f, q),
         f.kind = "accept" => vta' = f.req
  PROVE  InStep'
<1>1. ASSUME NEW q \in Request, NEW i \in Nat, i <= Len(toWallet), HeldOrEnding(q, i)
      PROVE  HeldOrEnding(q, i)'
  BY <1>1, EndsExtend
<1>2. ASSUME NEW i \in DOMAIN toWallet', toWallet'[i].kind = "accept"
      PROVE  HeldOrEnding(toWallet[i].req, i)'
  <2>1. CASE i \in DOMAIN toWallet /\ toWallet'[i] = toWallet[i]
    <3>1. /\ i \in Nat /\ i <= Len(toWallet) /\ toWallet[i] \in FrameType
      BY <2>1, LenProperties DEF TypeOK
    <3>2. PICK q \in Request : q = toWallet[i].req
      BY <3>1 DEF FrameType
    <3>3. HeldOrEnding(q, i)
      BY <1>2, <2>1, <3>2 DEF InStep
    <3>4. HeldOrEnding(q, i)'
      BY <1>1, <3>1, <3>3
    <3>5. q = toWallet'[i].req
      BY <2>1, <3>2
    <3> QED BY <3>4, <3>5 DEF HeldOrEnding
  <2>2. CASE toWallet'[i] = f
    BY <1>2, <2>2 DEF HeldOrEnding
  <2> QED BY <2>1, <2>2, AppendExtends DEF TypeOK
<1>3. ASSUME rec'.state = "bidirectional"
      PROVE  \E q \in Request : rec'.ours = <<q, "invite">> /\ HeldOrEnding(q, 0)'
  <2>1. PICK q \in Request : rec.ours = <<q, "invite">> /\ HeldOrEnding(q, 0)
    BY <1>3 DEF InStep
  <2>2. 0 <= Len(toWallet)
    BY LenProperties DEF TypeOK
  <2>3. HeldOrEnding(q, 0)'
    BY <1>1, <2>1, <2>2
  <2> QED BY <2>1, <2>3
<1> QED BY <1>2, <1>3 DEF InStep

LEMMA InStepStep ==
  ASSUME TypeOK, InStep, [Next]_vars
  PROVE  InStep'
<1> SUFFICES ASSUME Intact' PROVE InStep'
  BY DEF InStep
<1>0. Intact
  <2>1. happened \subseteq happened'
    BY DEF Next, vars, wires, Fault, Noted, Begin, Invite, HandshakeTimeout, SendRequest,
           ReplyTimeout, ClaimAccept, LateAccept, ReceiveCancel, ReceiveReply, Receive,
           VtaInvite, VtaMessage, VtaReads, VtaRestart, Lose, VtaCancel
  <2> QED BY <2>1 DEF Intact
<1>1. ASSUME UNCHANGED <<toWallet, vta>>, rec' = rec \/ rec'.state # "bidirectional"
      PROVE  InStep'
  BY <1>0, <1>1 DEF InStep, HeldOrEnding
<1>2. ASSUME NEW r \in Request,
             Begin(r) \/ Invite(r) \/ HandshakeTimeout(r) \/ SendRequest(r) \/ ReplyTimeout(r)
      PROVE  InStep'
  <2>1. UNCHANGED <<toWallet, vta>>
    BY <1>2 DEF Begin, Invite, HandshakeTimeout, SendRequest, ReplyTimeout, wires
  <2>2. Begin(r) \/ HandshakeTimeout(r) \/ SendRequest(r) => rec' = rec
    BY DEF Begin, HandshakeTimeout, SendRequest
  <2>3. Invite(r) \/ ReplyTimeout(r) => rec'.state # "bidirectional"
    BY DEF Invite, ReplyTimeout, Forget, NoRecord
  <2> QED BY <1>1, <1>2, <2>1, <2>2, <2>3
<1>3. CASE ClaimAccept \/ LateAccept \/ ReceiveCancel \/ ReceiveReply
  BY <1>3, InStepRead
<1>4. CASE VtaInvite
  <2> DEFINE q == Head(toVta).req
  <2>1. q \in Request /\ rec' = rec
    BY <1>4, TailShifts DEF VtaInvite, VtaReads, FrameType, TypeOK
  <2>2. CASE /\ vta = None /\ vta' = q
             /\ toWallet' = Append(toWallet, Frame("accept", q))
    <3>1. \A p \in Request : vta # p
      BY <2>2, RequestAssumption
    <3> QED BY <1>0, <2>1, <2>2, <3>1, FrameTyped, InStepExtend
  <2>3. CASE UNCHANGED <<toWallet, vta>>
    BY <1>1, <2>1, <2>3
  <2> QED BY <1>4, <2>2, <2>3 DEF VtaInvite
<1>5. CASE VtaMessage
  <2> DEFINE q == Head(toVta).req
  <2>1. q \in Request /\ rec' = rec /\ vta' = vta
    BY <1>5, TailShifts DEF VtaMessage, VtaReads, FrameType, TypeOK
  <2>2. CASE toWallet' = Append(toWallet, Frame("reply", q))
    BY <1>0, <2>1, <2>2, FrameTyped, InStepExtend
  <2>3. CASE toWallet' = toWallet
    BY <1>1, <2>1, <2>3
  <2> QED BY <1>5, <2>2, <2>3 DEF VtaMessage
<1>6. ~VtaRestart /\ ~Lose /\ ~VtaCancel("accept")
  <2>1. ASSUME NEW kind \in {"loss", "restart", "accept"} PROVE ~Fault(kind)
    BY DEF Fault, Intact
  <2> QED BY <2>1 DEF VtaRestart, Lose, VtaCancel
<1>7. ASSUME NEW n \in {"invite", "nothing"}, VtaCancel(n) PROVE InStep'
  <2>1. vta \in Request /\ rec' = rec
    BY <1>7 DEF VtaCancel, TypeOK
  <2>2. PICK f \in FrameType :
          /\ toWallet' = Append(toWallet, f) /\ f.kind = "cancel"
          /\ f.names = IF n = "nothing" THEN None ELSE <<vta, n>>
    BY <1>7, <2>1, CancelTyped DEF VtaCancel
  <2>3. \A q \in Request : vta = q => EndsInvite(f, q)
    BY <2>2 DEF EndsInvite
  <2> QED BY <1>0, <2>1, <2>2, <2>3, InStepExtend
<1>8. CASE UNCHANGED vars
  BY <1>1, <1>8 DEF vars, wires
<1> QED BY <1>2, <1>3, <1>4, <1>5, <1>6, <1>7, <1>8 DEF Next

\* With nothing in flight, the wallet believes in no relationship the VTA has called
\* off by its invite or by nothing in particular (applyInboundControl).
THEOREM WalletAgrees == Spec => []Agreement
<1>1. Init => InStep
  BY EmptySeq DEF Init, InStep, NoRecord
<1>2. TypeOK /\ InStep /\ [Next]_vars => InStep'
  BY InStepStep
<1>3. TypeOK /\ InStep => Agreement
  <2> SUFFICES ASSUME TypeOK, InStep, Quiet, Intact, rec.state = "bidirectional"
               PROVE  vta # None
    BY DEF Agreement, Intact
  <2>1. DOMAIN toWallet = {}
    BY EmptySeq, LenProperties DEF Quiet, Silence
  <2> QED BY <2>1, RequestAssumption DEF InStep, HeldOrEnding
<1> QED BY <1>1, <1>2, <1>3, Typed, PTL DEF Spec

-----------------------------------------------------------------------------
(* One fault costs one request.                                            *)

\* Requests made in turn stay in turn: a request that begins beside another is an
\* overlap.
LEMMA InTurnStep ==
  ASSUME TypeOK, InTurn, [Next]_vars
  PROVE  InTurn' /\ happened \subseteq happened'
<1> USE DEF TypeOK, Goto
<1>1. happened \subseteq happened'
  BY DEF Next, vars, wires, Fault, Noted, Begin, Invite, HandshakeTimeout, SendRequest,
         ReplyTimeout, ClaimAccept, LateAccept, ReceiveCancel, ReceiveReply, Receive,
         VtaInvite, VtaMessage, VtaReads, VtaRestart, Lose, VtaCancel
<1>2. failedAt' <= faults'
  <2>1. \/ UNCHANGED <<faults, failedAt>>
        \/ failedAt' = faults /\ faults' = faults
        \/ failedAt' = failedAt /\ faults' = faults + 1
    BY DEF Next, vars, wires, Fault, Begin, Invite, HandshakeTimeout, SendRequest,
           ReplyTimeout, ClaimAccept, LateAccept, ReceiveCancel, ReceiveReply, Receive,
           VtaInvite, VtaMessage, VtaReads, VtaRestart, Lose, VtaCancel
  <2> QED BY <2>1 DEF InTurn
<1>3. ASSUME \A r \in Request : Over(r) => Over(r)'
      PROVE  InTurn'
  BY <1>1, <1>2, <1>3 DEF InTurn
<1>4. ASSUME NEW r \in Request, Begin(r) PROVE InTurn'
  <2>1. CASE \E q \in Request : ~Over(q)
    <3>1. "overlap" \in happened'
      BY <1>4, <2>1 DEF Begin, Noted
    <3> QED BY <1>2, <3>1 DEF InTurn
  <2>2. CASE \A q \in Request : Over(q)
    <3>1. \A q \in Request : ~Over(q)' => q = r
      BY <1>4, <2>2 DEF Begin, Over
    <3>2. \A p, q \in Request : ~Over(p)' /\ ~Over(q)' => p = q
      BY <3>1
    <3> QED BY <1>2, <3>2 DEF InTurn
  <2> QED BY <2>1, <2>2
<1>5. ASSUME NEW r \in Request,
             Invite(r) \/ HandshakeTimeout(r) \/ SendRequest(r) \/ ReplyTimeout(r)
      PROVE  \A q \in Request : Over(q) => Over(q)'
  BY <1>5 DEF Invite, HandshakeTimeout, SendRequest, ReplyTimeout, Over
<1>6. CASE ClaimAccept
  <2>1. PICK q : pc[q] = "handshake" /\ pc' = [pc EXCEPT ![q] = "send"]
    BY <1>6 DEF ClaimAccept
  <2>2. \A p \in Request : Over(p) => Over(p)'
    BY <2>1 DEF Over
  <2> QED BY <1>1, <1>3, <2>2
<1>7. CASE ReceiveReply
  <2>1. PICK q : pc' = [pc EXCEPT ![q] = IF pc[q] = "waiting" THEN "done" ELSE pc[q]]
    BY <1>7 DEF ReceiveReply
  <2>2. \A p \in Request : Over(p) => Over(p)'
    BY <2>1 DEF Over
  <2> QED BY <1>1, <1>3, <2>2
<1>8. CASE LateAccept \/ ReceiveCancel \/ VtaInvite \/ VtaMessage \/ VtaRestart \/ Lose
  <2>1. pc' = pc
    BY <1>8 DEF LateAccept, ReceiveCancel, VtaInvite, VtaMessage, VtaReads, VtaRestart, Lose
  <2> QED BY <1>1, <1>3, <2>1 DEF Over
<1>9. ASSUME NEW n \in {"invite", "accept", "nothing"}, VtaCancel(n) PROVE InTurn'
  <2>1. pc' = pc
    BY <1>9 DEF VtaCancel
  <2> QED BY <1>1, <1>3, <2>1 DEF Over
<1>10. CASE UNCHANGED vars
  <2>1. pc' = pc
    BY <1>10 DEF vars
  <2> QED BY <1>1, <1>3, <2>1 DEF Over
<1> QED BY <1>1, <1>3, <1>4, <1>5, <1>6, <1>7, <1>8, <1>9, <1>10 DEF Next

\* It is enough to look at the one request under way.
LEMMA OrderlyIf ==
  ASSUME NEW r \in Request,
         \A q \in Request : q # r => Over(q)',
         InPlace(r)',
         Over(r)' => Silence',
         pc'[r] = "handshake" \/ rec'.state = "none" \/ vta' # None
  PROVE  Orderly'
<1>1. \A q \in Request : Over(q)' => InPlace(q)'
  BY DEF Over, InPlace
<1> QED BY <1>1 DEF Orderly

\* A request that goes on goes on alone.
LEMMA OrderlyRequest ==
  ASSUME TypeOK, Orderly, InTurn, InTurn', Careful', Careful, failedAt = faults,
         NEW r \in Request,
         Begin(r) \/ Invite(r) \/ HandshakeTimeout(r) \/ SendRequest(r)
  PROVE  Orderly'
<1> USE DEF TypeOK, Goto
<1>1. ~Over(r)'
  BY DEF Begin, Invite, HandshakeTimeout, SendRequest, Over
<1>2. \A q \in Request : q # r => Over(q)'
  BY <1>1 DEF InTurn, Careful
<1>3. InPlace(r) /\ \/ \E q \in Request : pc[q] = "handshake"
                    \/ rec.state = "none" \/ vta # None
  BY DEF Orderly
<1>4. CASE Begin(r)
  <2>1. \A q \in Request : Over(q)
    <3>1. "overlap" \notin happened'
      BY DEF Careful
    <3> QED BY <1>4, <3>1 DEF Begin, Noted
  <2>2. Silence /\ \A q \in Request : pc[q] # "handshake"
    BY <2>1 DEF Orderly, Over
  <2>3. UNCHANGED <<rec, toVta, toWallet, vta>>
    BY <1>4 DEF Begin, wires
  <2>4. rec.state = "none" \/ vta # None
    BY <1>3, <2>2
  <2>5. InPlace(r)'
    <3>1. pc'[r] = IF rec.state = "none" THEN "packing" ELSE "send"
      BY <1>4 DEF Begin
    <3> QED BY <2>2, <2>3, <2>4, <3>1 DEF InPlace, Silence
  <2>6. rec'.state = "none" \/ vta' # None
    BY <2>3, <2>4
  <2> QED BY <1>1, <1>2, <2>5, <2>6, OrderlyIf
<1>5. CASE Invite(r)
  <2>1. Silence
    BY <1>3, <1>5 DEF Invite, InPlace
  <2>2. OnItsWay("invite", r)'
    BY <1>5, <2>1, SingleFrame DEF Invite, OnItsWay, Silence, Frame
  <2>3. pc'[r] = "handshake"
    BY <1>5 DEF Invite
  <2> QED BY <1>1, <1>2, <2>2, <2>3, OrderlyIf DEF InPlace
<1>6. CASE HandshakeTimeout(r)
  <2>1. Silence
    <3>1. "haste" \notin happened'
      BY DEF Careful
    <3> QED BY <1>6, <3>1 DEF HandshakeTimeout, Noted
  <2>2. vta # None
    BY <1>3, <1>6, <2>1, SingleFrame DEF HandshakeTimeout, InPlace, OnItsWay, Silence
  <2>3. pc'[r] = "send" /\ UNCHANGED <<toVta, toWallet, vta>>
    BY <1>6 DEF HandshakeTimeout, wires
  <2>4. InPlace(r)'
    BY <2>1, <2>2, <2>3 DEF InPlace, Silence
  <2> QED BY <1>1, <1>2, <2>2, <2>3, <2>4, OrderlyIf
<1>7. CASE SendRequest(r)
  <2>1. Silence /\ vta # None /\ vta' = vta
    BY <1>3, <1>7 DEF SendRequest, InPlace
  <2>2. OnItsWay("message", r)'
    BY <1>7, <2>1, SingleFrame DEF SendRequest, OnItsWay, Silence, Frame
  <2>3. pc'[r] = "waiting"
    BY <1>7 DEF SendRequest
  <2> QED BY <1>1, <1>2, <2>1, <2>2, <2>3, OrderlyIf DEF InPlace
<1> QED BY <1>4, <1>5, <1>6, <1>7

\* A request that fails patiently leaves silence, and nothing in the record.
LEMMA OrderlyFailure ==
  ASSUME TypeOK, InTurn, Careful', Careful,
         NEW r \in Request, ReplyTimeout(r)
  PROVE  Orderly' /\ Silence
<1> USE DEF TypeOK, Goto
<1>1. Silence
  <2>1. "haste" \notin happened'
    BY DEF Careful
  <2> QED BY <2>1 DEF ReplyTimeout, Noted
<1>2. ~Over(r) /\ pc'[r] = "failed" /\ \A q \in Request : q # r => pc'[q] = pc[q]
  BY DEF ReplyTimeout, Over
<1>3. \A q \in Request : q # r => Over(q)'
  BY <1>2 DEF InTurn, Careful, Over
<1>4. rec'.state = "none" /\ Silence'
  BY <1>1 DEF ReplyTimeout, Forget, NoRecord, wires, Silence
<1>5. InPlace(r)'
  BY <1>2 DEF InPlace
<1> QED BY <1>1, <1>3, <1>4, <1>5, OrderlyIf

\* Reading the one frame there is moves its request on.
LEMMA OrderlyRead ==
  ASSUME TypeOK, Orderly, InTurn, Careful, failedAt = faults,
         ClaimAccept \/ LateAccept \/ ReceiveCancel \/ ReceiveReply \/ VtaInvite \/ VtaMessage
  PROVE  Orderly'
<1> USE DEF TypeOK, Goto
<1>1. ~Silence
  BY DEF ClaimAccept, LateAccept, ReceiveCancel, ReceiveReply, Receive, VtaInvite, VtaMessage,
         VtaReads, Silence
<1>2. PICK r \in Request : ~Over(r)
  BY <1>1 DEF Orderly
<1>3. /\ InPlace(r)
      /\ pc[r] = "handshake" \/ rec.state = "none" \/ vta # None
      /\ \A q \in Request : q # r => Over(q)
  BY <1>2 DEF Orderly, InTurn, Careful, Over
<1>4. \/ pc[r] = "handshake" /\ OnItsWay("invite", r)
      \/ pc[r] = "handshake" /\ vta # None /\ OnItsWayBack("accept", r)
      \/ pc[r] = "waiting" /\ vta # None /\ OnItsWay("message", r)
      \/ pc[r] = "waiting" /\ vta # None /\ OnItsWayBack("reply", r)
  BY <1>1, <1>2, <1>3 DEF InPlace, Over, Stage
<1>5. CASE pc[r] = "handshake" /\ OnItsWay("invite", r)
  <2>1. VtaInvite
    BY <1>5, SingleFrame DEF OnItsWay, Frame, ClaimAccept, LateAccept, ReceiveCancel,
         ReceiveReply, Receive, VtaMessage, VtaReads
  <2>2. pc' = pc /\ toVta' = <<>> /\ Head(toVta).req = r /\ toWallet = <<>>
    BY <1>5, <2>1, SingleFrame DEF VtaInvite, VtaReads, OnItsWay, Frame
  <2>3. /\ vta' # None
        /\ toWallet' = <<>> \/ toWallet' = <<Frame("accept", r)>>
    BY <2>1, <2>2, SingleFrame, RequestAssumption DEF VtaInvite
  <2>4. InPlace(r)'
    BY <1>5, <2>2, <2>3 DEF InPlace, Silence, OnItsWayBack, Frame
  <2> QED BY <1>2, <1>3, <2>2, <2>3, <2>4, OrderlyIf DEF Over
<1>6. CASE pc[r] = "handshake" /\ vta # None /\ OnItsWayBack("accept", r)
  <2>1. ClaimAccept \/ LateAccept
    BY <1>6, SingleFrame DEF OnItsWayBack, Frame, ReceiveCancel, ReceiveReply, Receive,
         VtaInvite, VtaMessage, VtaReads
  <2>2. Head(toWallet).req = r
    BY <1>6, SingleFrame DEF OnItsWayBack, Frame
  <2>3. ClaimAccept
    BY <1>6, <2>1, <2>2 DEF LateAccept
  <2>4. pc' = [pc EXCEPT ![r] = "send"] /\ vta' = vta /\ Silence'
    BY <1>6, <2>2, <2>3, SingleFrame DEF ClaimAccept, Receive, OnItsWayBack, Silence
  <2>5. InPlace(r)'
    BY <1>6, <2>4 DEF InPlace, Silence
  <2>6. \A q \in Request : q # r => Over(q)'
    BY <1>3, <2>4 DEF Over
  <2> QED BY <1>6, <2>4, <2>5, <2>6, OrderlyIf
<1>7. CASE pc[r] = "waiting" /\ vta # None /\ OnItsWay("message", r)
  <2>1. VtaMessage
    BY <1>7, SingleFrame DEF OnItsWay, Frame, ClaimAccept, LateAccept, ReceiveCancel,
         ReceiveReply, Receive, VtaInvite, VtaReads
  <2>2. /\ pc' = pc /\ vta' = vta /\ toVta' = <<>>
        /\ toWallet' = <<Frame("reply", r)>>
    BY <1>7, <2>1, SingleFrame DEF VtaMessage, VtaReads, OnItsWay, Frame
  <2>3. InPlace(r)'
    BY <1>7, <2>2 DEF InPlace, OnItsWayBack, Frame
  <2> QED BY <1>2, <1>3, <1>7, <2>2, <2>3, OrderlyIf DEF Over
<1>8. CASE pc[r] = "waiting" /\ vta # None /\ OnItsWayBack("reply", r)
  <2>1. ReceiveReply
    BY <1>8, SingleFrame DEF OnItsWayBack, Frame, ClaimAccept, LateAccept, ReceiveCancel,
         Receive, VtaInvite, VtaMessage, VtaReads
  <2>2. Head(toWallet).req = r
    BY <1>8, SingleFrame DEF OnItsWayBack, Frame
  <2>3. pc' = [pc EXCEPT ![r] = "done"] /\ vta' = vta /\ Silence'
    BY <1>8, <2>1, <2>2, SingleFrame DEF ReceiveReply, Receive, OnItsWayBack, Silence
  <2>4. InPlace(r)'
    BY <2>3 DEF InPlace
  <2>5. \A q \in Request : q # r => Over(q)'
    BY <1>3, <2>3 DEF Over
  <2> QED BY <1>8, <2>3, <2>4, <2>5, OrderlyIf
<1> QED BY <1>4, <1>5, <1>6, <1>7, <1>8

LEMMA OrderlyStep ==
  ASSUME TypeOK, Orderly, InTurn, [Next]_vars
  PROVE  Orderly'
<1> SUFFICES ASSUME Careful', failedAt' = faults' PROVE Orderly'
  BY DEF Orderly
<1>1. InTurn' /\ Careful
  BY InTurnStep DEF Careful
<1>2. ASSUME NEW r \in Request, ReplyTimeout(r) PROVE Orderly'
  BY <1>1, <1>2, OrderlyFailure
<1>3. ASSUME NEW kind, Fault(kind), failedAt' = failedAt PROVE FALSE
  BY <1>3 DEF Fault, InTurn, TypeOK
<1>4. ~VtaRestart /\ ~Lose /\ \A n : ~VtaCancel(n)
  BY <1>3 DEF VtaRestart, Lose, VtaCancel
<1>5. ASSUME NEW r \in Request,
             Begin(r) \/ Invite(r) \/ HandshakeTimeout(r) \/ SendRequest(r)
      PROVE  Orderly'
  <2>1. failedAt = faults
    BY <1>5 DEF Begin, Invite, HandshakeTimeout, SendRequest
  <2> QED BY <1>1, <1>5, <2>1, OrderlyRequest
<1>6. CASE ClaimAccept \/ LateAccept \/ ReceiveCancel \/ ReceiveReply \/ VtaInvite \/ VtaMessage
  <2>1. failedAt = faults
    BY <1>6 DEF ClaimAccept, LateAccept, ReceiveCancel, ReceiveReply, Receive, VtaInvite,
         VtaMessage, VtaReads
  <2> QED BY <1>1, <1>6, <2>1, OrderlyRead
<1>7. CASE UNCHANGED vars
  BY <1>7 DEF vars, wires, Orderly, Careful, InPlace, OnItsWay, OnItsWayBack, Silence, Over
<1> QED BY <1>2, <1>4, <1>5, <1>6, <1>7 DEF Next

\* A request made in turn with a patient timer fails only on a fault since the last
\* failure: the record that misled it is forgotten, and a retry goes through
\* (forgetOnFailure).
THEOREM RetryGoesThrough == Spec => OneFaultOneFailure
<1> DEFINE FailsOnFault ==
      \A r \in Request :
        pc[r] # "failed" /\ pc'[r] = "failed" /\ happened' \cap {"overlap", "haste"} = {}
          => failedAt < faults
<1>1. Init => InTurn /\ Orderly
  BY DEF Init, InTurn, Orderly, InPlace, Over, Silence, NoRecord
<1>2. TypeOK /\ InTurn /\ Orderly /\ [Next]_vars => InTurn' /\ Orderly'
  BY InTurnStep, OrderlyStep
<1>3. TypeOK /\ InTurn /\ Orderly /\ [Next]_vars => [FailsOnFault]_vars
  <2> SUFFICES ASSUME TypeOK, InTurn, Orderly, Next, Careful',
                      NEW r \in Request, pc[r] # "failed", pc'[r] = "failed"
               PROVE  failedAt < faults
    BY DEF Careful
  <2>1. ReplyTimeout(r)
    <3> USE DEF TypeOK, Goto
    <3>1. ASSUME NEW q \in Request,
                 Begin(q) \/ Invite(q) \/ HandshakeTimeout(q) \/ SendRequest(q)
                   \/ (q # r /\ ReplyTimeout(q))
          PROVE  FALSE
      BY <3>1 DEF Begin, Invite, HandshakeTimeout, SendRequest, ReplyTimeout
    <3>2. ~ClaimAccept /\ ~ReceiveReply
      BY DEF ClaimAccept, ReceiveReply
    <3>3. LateAccept \/ ReceiveCancel \/ VtaInvite \/ VtaMessage \/ VtaRestart \/ Lose => FALSE
      BY DEF LateAccept, ReceiveCancel, VtaInvite, VtaMessage, VtaReads, VtaRestart, Lose
    <3>4. \A n : ~VtaCancel(n)
      BY DEF VtaCancel
    <3> QED BY <3>1, <3>2, <3>3, <3>4 DEF Next
  <2>2. Careful /\ Silence
    BY <2>1, InTurnStep, OrderlyFailure DEF Careful
  <2>3. failedAt # faults
    BY <2>1, <2>2, SingleFrame DEF Orderly, ReplyTimeout, InPlace, OnItsWay, OnItsWayBack, Silence
  <2> QED BY <2>3 DEF InTurn, TypeOK
<1> QED BY <1>1, <1>2, <1>3, Typed, PTL DEF Spec, OneFaultOneFailure
=============================================================================
