------------------------ MODULE InboundConsentProofs ------------------------
(***************************************************************************)
(* The invariants of InboundConsent, for every number of messages, slots   *)
(* and faults, and those of LocalRelay beside it.  What the list operators *)
(* return; the inductive invariant Base of types, snapshots and unique     *)
(* records; on top of it the invariants about prompts, acks and approvals. *)
(* For the relays, what the pipeline's steps do to the guard and to its    *)
(* prompts is reduced to four cases; none of them takes the prompt from    *)
(* under a digest that a relay guards, because a digest that leaves the    *)
(* set has no guard left to answer for.                                    *)
(***************************************************************************)
EXTENDS LocalRelay, SequenceTheorems, FiniteSetTheorems, TLAPS

-----------------------------------------------------------------------------
(* The list operators.                                                     *)

\* `splice` of the oldest entries keeps at most n entries, all of them old
\* ones, and no key twice.
LEMMA NewestProperties ==
  ASSUME NEW S, NEW q \in Seq(S), NEW n \in Nat \ {0}
  PROVE  /\ Newest(q, n) \in Seq(S)
         /\ Len(Newest(q, n)) <= n
         /\ \A key : UniqueBy(q, key) => UniqueBy(Newest(q, n), key)
<1>0. Len(q) \in Nat /\ \A j \in 1..Len(q) : q[j] \in S
  BY ElementOfSeq
<1>1. CASE Len(q) > n
  <2> DEFINE k == Len(q) - n + 1
             T == SubSeq(q, k, Len(q))
  <2>1. k \in 1..Len(q)
    BY <1>0, <1>1
  <2>2. T \in Seq(S) /\ Len(T) = n /\ \A i \in 1..n : T[i] = q[k + i - 1]
    <3>1. \A i \in k..Len(q) : q[i] \in S
      BY <1>0, <2>1
    <3>2. k <= Len(q) /\ Len(q) - k + 1 = n
      BY <1>0, <2>1
    <3> HIDE DEF k
    <3> QED BY <1>0, <2>1, <3>1, <3>2, SubSeqProperties
  <2>3. ASSUME NEW key, UniqueBy(q, key)
        PROVE  UniqueBy(T, key)
    <3> HIDE DEF T
    <3>0. DOMAIN T = 1..n
      BY <2>2
    <3> SUFFICES ASSUME NEW i \in 1..n, NEW j \in 1..n, key[T[i]] = key[T[j]]
                 PROVE  i = j
      BY <3>0 DEF UniqueBy
    <3>1. k + i - 1 \in 1..Len(q) /\ k + j - 1 \in 1..Len(q)
      BY <1>0, <2>1
    <3>2. key[q[k + i - 1]] = key[q[k + j - 1]]
      BY <2>2
    <3> HIDE DEF k
    <3>3. k + i - 1 = k + j - 1
      BY <2>3, <3>1, <3>2 DEF UniqueBy
    <3> QED BY <1>0, <2>1, <3>3
  <2>4. Newest(q, n) = T
    BY <1>1 DEF Newest
  <2> HIDE DEF T
  <2> QED BY <2>2, <2>3, <2>4
<1>2. CASE ~(Len(q) > n)
  BY <1>0, <1>2 DEF Newest
<1> QED BY <1>1, <1>2

LEMMA RemoveAtProperties ==
  ASSUME NEW S, NEW q \in Seq(S), NEW i \in 1..Len(q)
  PROVE  /\ RemoveAt(q, i) \in Seq(S)
         /\ Len(RemoveAt(q, i)) = Len(q) - 1
         /\ \A j \in 1..Len(q) - 1 : RemoveAt(q, i)[j] = IF j < i THEN q[j] ELSE q[j + 1]
<1> DEFINE A == SubSeq(q, 1, i - 1)
           B == SubSeq(q, i + 1, Len(q))
<1>1. Len(q) \in Nat /\ \A j \in 1..Len(q) : q[j] \in S
  BY ElementOfSeq
<1>2. A \in Seq(S) /\ Len(A) = i - 1 /\ \A j \in 1..i - 1 : A[j] = q[j]
  BY <1>1, SubSeqProperties
<1>3. B \in Seq(S) /\ Len(B) = Len(q) - i /\ \A j \in 1..Len(q) - i : B[j] = q[i + j]
  BY <1>1, SubSeqProperties
<1> HIDE DEF A, B
<1>4. /\ A \o B \in Seq(S) /\ Len(A \o B) = Len(A) + Len(B)
      /\ \A j \in 1..Len(A) + Len(B) : (A \o B)[j] = IF j <= Len(A) THEN A[j] ELSE B[j - Len(A)]
  BY <1>2, <1>3, ConcatProperties
<1>5. Len(A) + Len(B) = Len(q) - 1
  BY <1>1, <1>2, <1>3
<1>6. ASSUME NEW j \in 1..Len(q) - 1
      PROVE  (A \o B)[j] = IF j < i THEN q[j] ELSE q[j + 1]
  <2>1. CASE j < i
    BY <1>1, <1>2, <1>4, <1>5, <2>1
  <2>2. CASE ~(j < i)
    <3>1. j - Len(A) \in 1..Len(q) - i /\ i + (j - Len(A)) = j + 1 /\ ~(j <= Len(A))
      BY <1>1, <1>2, <2>2
    <3>2. (A \o B)[j] = B[j - Len(A)]
      BY <1>4, <1>5, <3>1
    <3>3. B[j - Len(A)] = q[i + (j - Len(A))]
      BY <1>3, <3>1
    <3> QED BY <2>2, <3>1, <3>2, <3>3
  <2> QED BY <2>1, <2>2
<1>7. RemoveAt(q, i) = A \o B
  BY DEF RemoveAt, A, B
<1> QED BY <1>4, <1>5, <1>6, <1>7

\* `filter` removes the record of m, shortens the list and repeats nothing.
LEMMA WithoutProperties ==
  ASSUME NEW q \in Seq(Message), UniqueBy(q, Self), NEW m
  PROVE  /\ Without(q, m) \in Seq(Message)
         /\ Len(Without(q, m)) <= Len(q)
         /\ UniqueBy(Without(q, m), Self)
         /\ m \notin Range(Without(q, m))
<1>0. Len(q) \in Nat /\ DOMAIN q = 1..Len(q) /\ \A j \in 1..Len(q) : q[j] \in Message
  BY ElementOfSeq
<1>1. CASE m \in Range(q)
  <2> DEFINE i == CHOOSE j \in DOMAIN q : q[j] = m
             R == RemoveAt(q, i)
  <2>1. i \in 1..Len(q) /\ q[i] = m
    BY <1>0, <1>1 DEF Range
  <2> HIDE DEF i
  <2>2. /\ R \in Seq(Message) /\ Len(R) = Len(q) - 1
        /\ \A j \in 1..Len(q) - 1 : R[j] = IF j < i THEN q[j] ELSE q[j + 1]
    BY <2>1, RemoveAtProperties
  <2> HIDE DEF R
  <2>3. \A j, l \in 1..Len(q) : q[j] = q[l] => j = l
    BY <1>0 DEF UniqueBy, Self
  <2>4. DOMAIN R = 1..Len(q) - 1
    BY <2>2
  <2>5. \A j, l \in 1..Len(q) - 1 : R[j] = R[l] => j = l
    <3> SUFFICES ASSUME NEW j \in 1..Len(q) - 1, NEW l \in 1..Len(q) - 1, R[j] = R[l]
                 PROVE  j = l
      OBVIOUS
    <3> DEFINE x == IF j < i THEN j ELSE j + 1
               y == IF l < i THEN l ELSE l + 1
    <3>1. x \in 1..Len(q) /\ y \in 1..Len(q)
      BY <1>0, <2>1
    <3>2. q[x] = q[y]
      BY <2>2
    <3>3. x = y
      BY <2>3, <3>1, <3>2
    <3> QED BY <1>0, <2>1, <3>3
  <2>6. UniqueBy(R, Self)
    <3>1. \A j \in 1..Len(q) - 1 : R[j] \in Message
      BY <2>2, <2>4, ElementOfSeq
    <3> QED BY <2>4, <2>5, <3>1 DEF UniqueBy, Self
  <2>7. m \notin Range(R)
    <3> SUFFICES ASSUME NEW j \in 1..Len(q) - 1, R[j] = m
                 PROVE  FALSE
      BY <2>4 DEF Range
    <3> DEFINE x == IF j < i THEN j ELSE j + 1
    <3>1. x \in 1..Len(q) /\ x # i
      BY <1>0, <2>1
    <3>2. q[x] = m
      BY <2>2
    <3> QED BY <2>1, <2>3, <3>1, <3>2
  <2>8. Without(q, m) = R
    BY <1>1 DEF Without, i, R
  <2> QED BY <1>0, <2>2, <2>6, <2>7, <2>8
<1>2. CASE m \notin Range(q)
  BY <1>0, <1>2 DEF Without
<1> QED BY <1>1, <1>2

\* Appending an element whose key is new keeps keys unique.
LEMMA AppendUnique ==
  ASSUME NEW S, NEW q \in Seq(S), NEW d \in S, NEW key, UniqueBy(q, key),
         \A i \in DOMAIN q : key[q[i]] # key[d]
  PROVE  Append(q, d) \in Seq(S) /\ UniqueBy(Append(q, d), key)
<1>1. /\ Append(q, d) \in Seq(S)
      /\ Len(q) \in Nat /\ DOMAIN q = 1..Len(q)
      /\ DOMAIN Append(q, d) = 1..Len(q) + 1
      /\ \A i \in 1..Len(q) : Append(q, d)[i] = q[i]
      /\ Append(q, d)[Len(q) + 1] = d
  BY AppendProperties
<1> QED BY <1>1 DEF UniqueBy

\* putPendingInbound writes a bounded list with one record per message.
LEMMA RecordedProperties ==
  ASSUME NEW q \in Seq(Message), UniqueBy(q, Self), NEW m \in Message
  PROVE  /\ Recorded(q, m) \in Seq(Message)
         /\ Len(Recorded(q, m)) <= MaxPending
         /\ UniqueBy(Recorded(q, m), Self)
<1> DEFINE w == Without(q, m)
<1>1. w \in Seq(Message) /\ UniqueBy(w, Self) /\ m \notin Range(w)
  BY WithoutProperties
<1> HIDE DEF w
<1>2. \A i \in DOMAIN w : w[i] \in Message /\ w[i] # m
  BY <1>1, ElementOfSeq DEF Range
<1>3. \A i \in DOMAIN w : Self[w[i]] # Self[m]
  BY <1>2 DEF Self
<1>4. Append(w, m) \in Seq(Message) /\ UniqueBy(Append(w, m), Self)
  BY <1>1, <1>3, AppendUnique
<1> QED BY <1>4, NewestProperties, BoundAssumption DEF Recorded, w

\* claimInboundDocument writes a bounded list with one claim per id.
LEMMA WithClaimProperties ==
  ASSUME NEW q \in Seq(Document), UniqueBy(q, IdOf), NEW d \in Document, ~Claimed(q, d)
  PROVE  /\ WithClaim(q, d) \in Seq(Document)
         /\ Len(WithClaim(q, d)) <= MaxClaims
         /\ UniqueBy(WithClaim(q, d), IdOf)
<1>1. Append(q, d) \in Seq(Document) /\ UniqueBy(Append(q, d), IdOf)
  BY AppendUnique DEF Claimed
<1> QED BY <1>1, NewestProperties, BoundAssumption DEF WithClaim

-----------------------------------------------------------------------------
(* Types, snapshots and unique records.                                    *)

Base == TypeOK /\ SlotsConsistent /\ UniqueRecords

LEMMA BaseInit == Init => Base
<1> SUFFICES ASSUME Init PROVE Base
  OBVIOUS
<1>1. <<>> \in Seq(Message) /\ <<>> \in Seq(Document) /\ Len(<<>>) = 0
  OBVIOUS
<1>2. TypeOK
  <2>1. snap \in [Slot -> Seq(Message) \cup Seq(Document)] /\ todo \in [Drainer -> Seq(Message)]
    BY <1>1 DEF Init
  <2>2. pending \in Seq(Message) /\ Len(pending) <= MaxPending
    BY <1>1, BoundAssumption DEF Init
  <2>3. claims \in Seq(Document) /\ Len(claims) <= MaxClaims
    BY <1>1, BoundAssumption DEF Init
  <2>4. faults \in 0..MaxFaults
    BY BoundAssumption DEF Init
  <2> QED BY <2>1, <2>2, <2>3, <2>4 DEF Init, TypeOK, PC
<1>3. SlotsConsistent
  BY MappingAssumption DEF Init, SlotsConsistent, Slot
<1>4. UniqueRecords
  BY DEF Init, UniqueRecords, UniqueBy
<1> QED BY <1>2, <1>3, <1>4 DEF Base

LEMMA BaseStep == Base /\ [Next]_vars => Base'
<1> SUFFICES ASSUME Base, [Next]_vars PROVE Base'
  OBVIOUS
<1> USE DEF Base, Slot, memory, stores, world, vars, Goto
<1>a. <<>> \in Seq(Message) /\ Len(<<>>) = 0
  OBVIOUS
<1>b. \A s \in Slot : msg[s] \in Message => Doc(s) \in Document /\ DigestIn(s) \in Digest
  BY MappingAssumption DEF Doc, DigestIn
<1>1. ASSUME NEW s \in Inbox, NEW m \in Message, Deliver(s, m) PROVE Base'
  <2>1. TypeOK'
    BY <1>1, <1>a, <1>b DEF Deliver, TypeOK, PC, SlotsConsistent
  <2>2. SlotsConsistent'
    BY <1>1 DEF Deliver, TypeOK, PC, SlotsConsistent, UniqueRecords, Doc
  <2>3. UniqueRecords'
    BY <1>1 DEF Deliver, TypeOK, SlotsConsistent, UniqueRecords, Doc
  <2> QED BY <2>1, <2>2, <2>3
<1>2. ASSUME NEW m \in Message, Ack(m) PROVE Base'
  <2>1. TypeOK'
    BY <1>2, <1>a, <1>b DEF Ack, TypeOK, PC, SlotsConsistent
  <2>2. SlotsConsistent'
    BY <1>2 DEF Ack, TypeOK, PC, SlotsConsistent, UniqueRecords, Doc
  <2>3. UniqueRecords'
    BY <1>2 DEF Ack, TypeOK, SlotsConsistent, UniqueRecords, Doc
  <2> QED BY <2>1, <2>2, <2>3
<1>3. ASSUME NEW m \in Message, Drop(Lane(m)) PROVE Base'
  <2>1. TypeOK'
    BY <1>3, <1>a, <1>b, BoundAssumption DEF Drop, CloseSocket, Fault, TypeOK, PC, SlotsConsistent
  <2>2. SlotsConsistent'
    BY <1>3 DEF Drop, CloseSocket, Fault, TypeOK, PC, SlotsConsistent, UniqueRecords, Doc
  <2>3. UniqueRecords'
    BY <1>3 DEF Drop, CloseSocket, Fault, TypeOK, SlotsConsistent, UniqueRecords, Doc
  <2> QED BY <2>1, <2>2, <2>3
<1>4. ASSUME NEW s \in Slot, Persist(s) PROVE Base'
  <2>1. TypeOK'
    BY <1>4, RecordedProperties, <1>a, <1>b DEF Persist, Settled, OweAck, TypeOK, PC, SlotsConsistent
  <2>2. SlotsConsistent'
    BY <1>4, RecordedProperties DEF Persist, Settled, OweAck, TypeOK, PC, SlotsConsistent, UniqueRecords, Doc
  <2>3. UniqueRecords'
    BY <1>4, RecordedProperties DEF Persist, Settled, OweAck, TypeOK, SlotsConsistent, UniqueRecords, Doc
  <2> QED BY <2>1, <2>2, <2>3
<1>5. ASSUME NEW s \in Slot, PersistFails(s) PROVE Base'
  <2>1. TypeOK'
    BY <1>5, <1>a, <1>b, BoundAssumption DEF PersistFails, Settled, OweAck, Fault, TypeOK, PC, SlotsConsistent
  <2>2. SlotsConsistent'
    BY <1>5 DEF PersistFails, Settled, OweAck, Fault, TypeOK, PC, SlotsConsistent, UniqueRecords, Doc
  <2>3. UniqueRecords'
    BY <1>5 DEF PersistFails, Settled, OweAck, Fault, TypeOK, SlotsConsistent, UniqueRecords, Doc
  <2> QED BY <2>1, <2>2, <2>3
<1>6. ASSUME NEW s \in Slot, Ignore(s) PROVE Base'
  <2>1. TypeOK'
    BY <1>6, <1>a, <1>b DEF Ignore, TypeOK, PC, SlotsConsistent
  <2>2. SlotsConsistent'
    BY <1>6 DEF Ignore, TypeOK, PC, SlotsConsistent, UniqueRecords, Doc
  <2>3. UniqueRecords'
    BY <1>6 DEF Ignore, TypeOK, SlotsConsistent, UniqueRecords, Doc
  <2> QED BY <2>1, <2>2, <2>3
<1>7. ASSUME NEW s \in Slot, ClaimTaken(s) PROVE Base'
  <2>1. TypeOK'
    BY <1>7, <1>a, <1>b DEF ClaimTaken, TypeOK, PC, SlotsConsistent
  <2>2. SlotsConsistent'
    BY <1>7 DEF ClaimTaken, TypeOK, PC, SlotsConsistent, UniqueRecords, Doc
  <2>3. UniqueRecords'
    BY <1>7 DEF ClaimTaken, TypeOK, SlotsConsistent, UniqueRecords, Doc
  <2> QED BY <2>1, <2>2, <2>3
<1>8. ASSUME NEW s \in Slot, ReadClaims(s) PROVE Base'
  <2>1. TypeOK'
    BY <1>8, <1>a, <1>b DEF ReadClaims, TypeOK, PC, SlotsConsistent
  <2>2. SlotsConsistent'
    BY <1>8 DEF ReadClaims, TypeOK, PC, SlotsConsistent, UniqueRecords, Doc
  <2>3. UniqueRecords'
    BY <1>8 DEF ReadClaims, TypeOK, SlotsConsistent, UniqueRecords, Doc
  <2> QED BY <2>1, <2>2, <2>3
<1>9. ASSUME NEW s \in Slot, WriteClaim(s) PROVE Base'
  <2>1. TypeOK'
    BY <1>9, WithClaimProperties, <1>a, <1>b DEF DigestFree, WriteClaim, DigestIn, TypeOK, PC, SlotsConsistent
  <2>2. SlotsConsistent'
    BY <1>9, MappingAssumption, WithClaimProperties DEF DigestFree, WriteClaim, DigestIn, TypeOK, PC, SlotsConsistent, UniqueRecords, Doc
  <2>3. UniqueRecords'
    BY <1>9, MappingAssumption, WithClaimProperties DEF DigestFree, WriteClaim, DigestIn, TypeOK, SlotsConsistent, UniqueRecords, Doc
  <2> QED BY <2>1, <2>2, <2>3
<1>10. ASSUME NEW s \in Slot, ClaimFails(s) PROVE Base'
  <2>1. TypeOK'
    BY <1>10, <1>a, <1>b, BoundAssumption DEF ClaimFails, Fault, TypeOK, PC, SlotsConsistent
  <2>2. SlotsConsistent'
    BY <1>10 DEF ClaimFails, Fault, TypeOK, PC, SlotsConsistent, UniqueRecords, Doc
  <2>3. UniqueRecords'
    BY <1>10 DEF ClaimFails, Fault, TypeOK, SlotsConsistent, UniqueRecords, Doc
  <2> QED BY <2>1, <2>2, <2>3
<1>11. ASSUME NEW s \in Slot, NEW a \in {"approve", "dismiss"}, Answer(s, a) PROVE Base'
  <2>1. TypeOK'
    BY <1>11, <1>a, <1>b DEF Answer, TypeOK, PC, SlotsConsistent
  <2>2. SlotsConsistent'
    BY <1>11, MappingAssumption DEF Answer, TypeOK, PC, SlotsConsistent, UniqueRecords, Doc
  <2>3. UniqueRecords'
    BY <1>11, MappingAssumption DEF Answer, TypeOK, SlotsConsistent, UniqueRecords, Doc
  <2> QED BY <2>1, <2>2, <2>3
<1>12. ASSUME NEW s \in Slot, PromptFails(s) PROVE Base'
  <2>1. TypeOK'
    BY <1>12, <1>a, <1>b, BoundAssumption DEF PromptFails, EndPrompt, Fault, TypeOK, PC, SlotsConsistent
  <2>2. SlotsConsistent'
    BY <1>12, MappingAssumption DEF PromptFails, EndPrompt, Fault, TypeOK, PC, SlotsConsistent, UniqueRecords, Doc
  <2>3. UniqueRecords'
    BY <1>12 DEF PromptFails, EndPrompt, Fault, TypeOK, SlotsConsistent, UniqueRecords, Doc
  <2> QED BY <2>1, <2>2, <2>3
<1>13. ASSUME NEW s \in Slot, SendDecision(s) PROVE Base'
  <2>1. TypeOK'
    BY <1>13, <1>a, <1>b DEF SendDecision, EndPrompt, Decision, TypeOK, PC, SlotsConsistent
  <2>2. SlotsConsistent'
    BY <1>13, MappingAssumption DEF SendDecision, EndPrompt, Decision, TypeOK, PC, SlotsConsistent, UniqueRecords, Doc
  <2>3. UniqueRecords'
    BY <1>13, MappingAssumption DEF SendDecision, EndPrompt, Decision, TypeOK, SlotsConsistent, UniqueRecords, Doc
  <2> QED BY <2>1, <2>2, <2>3
<1>14. ASSUME NEW s \in Slot, SendFails(s) PROVE Base'
  <2>1. TypeOK'
    BY <1>14, <1>a, <1>b DEF SendFails, EndPrompt, TypeOK, PC, SlotsConsistent
  <2>2. SlotsConsistent'
    BY <1>14, MappingAssumption DEF SendFails, EndPrompt, TypeOK, PC, SlotsConsistent, UniqueRecords, Doc
  <2>3. UniqueRecords'
    BY <1>14 DEF SendFails, EndPrompt, TypeOK, SlotsConsistent, UniqueRecords, Doc
  <2> QED BY <2>1, <2>2, <2>3
<1>15. ASSUME NEW s \in Slot, ReadRelease(s) PROVE Base'
  <2>1. TypeOK'
    BY <1>15, <1>a, <1>b DEF ReadRelease, TypeOK, PC, SlotsConsistent
  <2>2. SlotsConsistent'
    BY <1>15 DEF ReadRelease, TypeOK, PC, SlotsConsistent, UniqueRecords, Doc
  <2>3. UniqueRecords'
    BY <1>15 DEF ReadRelease, TypeOK, SlotsConsistent, UniqueRecords, Doc
  <2> QED BY <2>1, <2>2, <2>3
<1>16. ASSUME NEW s \in Slot, NothingToRelease(s) PROVE Base'
  <2>1. TypeOK'
    BY <1>16, <1>a, <1>b DEF NothingToRelease, Finish, TypeOK, PC, SlotsConsistent
  <2>2. SlotsConsistent'
    BY <1>16 DEF NothingToRelease, Finish, TypeOK, PC, SlotsConsistent, UniqueRecords, Doc
  <2>3. UniqueRecords'
    BY <1>16 DEF NothingToRelease, Finish, TypeOK, SlotsConsistent, UniqueRecords, Doc
  <2> QED BY <2>1, <2>2, <2>3
<1>17. ASSUME NEW s \in Slot, WriteRelease(s) PROVE Base'
  <2>1. TypeOK'
    BY <1>17, WithoutProperties, <1>a, <1>b, BoundAssumption DEF WriteRelease, Finish, TypeOK, PC, SlotsConsistent
  <2>2. SlotsConsistent'
    BY <1>17, WithoutProperties DEF WriteRelease, Finish, TypeOK, PC, SlotsConsistent, UniqueRecords, Doc
  <2>3. UniqueRecords'
    BY <1>17, WithoutProperties DEF WriteRelease, Finish, TypeOK, SlotsConsistent, UniqueRecords, Doc
  <2> QED BY <2>1, <2>2, <2>3
<1>18. ASSUME NEW s \in Slot, ReleaseFails(s) PROVE Base'
  <2>1. TypeOK'
    BY <1>18, <1>a, <1>b, BoundAssumption DEF ReleaseFails, Finish, Fault, TypeOK, PC, SlotsConsistent
  <2>2. SlotsConsistent'
    BY <1>18 DEF ReleaseFails, Finish, Fault, TypeOK, PC, SlotsConsistent, UniqueRecords, Doc
  <2>3. UniqueRecords'
    BY <1>18 DEF ReleaseFails, Finish, Fault, TypeOK, SlotsConsistent, UniqueRecords, Doc
  <2> QED BY <2>1, <2>2, <2>3
<1>19. ASSUME NEW k \in Drainer, Drain(k) PROVE Base'
  <2>1. CASE StartDrain(k)
    BY <2>1, <1>19 DEF StartDrain, TypeOK, PC, SlotsConsistent, UniqueRecords, Doc
  <2> SUFFICES ASSUME Redrive(k) \/ SkipLocked(k) PROVE Base'
    BY <1>19, <2>1 DEF Drain
  <2>2. todo[k] \in Seq(Message) /\ todo[k] # <<>>
    BY <1>19 DEF Redrive, SkipLocked, TypeOK
  <2>3. Head(todo[k]) \in Message /\ Tail(todo[k]) \in Seq(Message)
    BY <2>2, HeadTailProperties
  <2>4. CASE Redrive(k)
    BY <2>3, <2>4, <1>19 DEF Redrive, TypeOK, PC, SlotsConsistent, UniqueRecords, Doc
  <2>5. CASE SkipLocked(k)
    BY <2>3, <2>5, <1>19 DEF SkipLocked, TypeOK, PC, SlotsConsistent, UniqueRecords, Doc
  <2> QED BY <2>4, <2>5
<1>20. CASE AskReconcile \/ Unlock \/ Boot
  <2>1. TypeOK'
    BY <1>20, <1>a, <1>b DEF AskReconcile, Unlock, Boot, TypeOK, PC, SlotsConsistent
  <2>2. SlotsConsistent'
    BY <1>20 DEF AskReconcile, Unlock, Boot, TypeOK, PC, SlotsConsistent, UniqueRecords, Doc
  <2>3. UniqueRecords'
    BY <1>20 DEF AskReconcile, Unlock, Boot, TypeOK, SlotsConsistent, UniqueRecords, Doc
  <2> QED BY <2>1, <2>2, <2>3
<1>21. CASE Lock
  <2>1. TypeOK'
    <3>1. faults' \in 0..MaxFaults
      BY <1>21, BoundAssumption DEF Lock, Fault, TypeOK
    <3>2. pc' \in [Slot -> PC] /\ live' \in [Slot -> BOOLEAN] /\ owed' \subseteq Message
      BY <1>21 DEF Lock, CloseSocket, Fault, TypeOK, PC
    <3>3. /\ snap' \in [Slot -> Seq(Message) \cup Seq(Document)]
          /\ msg' \in [Slot -> Message \cup {None}]
          /\ todo' \in [Drainer -> Seq(Message)]
          /\ answer' \in [Slot -> {"approve", "dismiss", None}]
      BY <1>21, <1>a DEF Lock, TypeOK
    <3>4. up' \in BOOLEAN /\ unlocked' \in BOOLEAN /\ reconcileDue' \in BOOLEAN
      BY <1>21 DEF Lock, TypeOK
    <3>5. UNCHANGED <<stores, world>> /\ active' \subseteq Digest
      BY <1>21 DEF Lock, TypeOK
    <3> QED BY <3>1, <3>2, <3>3, <3>4, <3>5 DEF TypeOK
  <2>2. SlotsConsistent'
    BY <1>21 DEF Lock, CloseSocket, Fault, TypeOK, PC, SlotsConsistent, UniqueRecords, Doc
  <2>3. UniqueRecords'
    BY <1>21 DEF Lock, CloseSocket, Fault, TypeOK, SlotsConsistent, UniqueRecords, Doc
  <2> QED BY <2>1, <2>2, <2>3
<1>22. CASE Teardown
  <2>1. TypeOK'
    <3>1. faults' \in 0..MaxFaults
      BY <1>22, BoundAssumption DEF Teardown, Fault, TypeOK
    <3>2. pc' \in [Slot -> PC] /\ live' \in [Slot -> BOOLEAN] /\ owed' \subseteq Message
      BY <1>22 DEF Teardown, Fault, TypeOK, PC
    <3>3. /\ snap' \in [Slot -> Seq(Message) \cup Seq(Document)]
          /\ msg' \in [Slot -> Message \cup {None}]
          /\ todo' \in [Drainer -> Seq(Message)]
          /\ answer' \in [Slot -> {"approve", "dismiss", None}]
      BY <1>22, <1>a DEF Teardown, TypeOK
    <3>4. up' \in BOOLEAN /\ unlocked' \in BOOLEAN /\ reconcileDue' \in BOOLEAN
      BY <1>22 DEF Teardown, TypeOK
    <3>5. UNCHANGED <<stores, world>> /\ active' \subseteq Digest
      BY <1>22 DEF Teardown, TypeOK
    <3> QED BY <3>1, <3>2, <3>3, <3>4, <3>5 DEF TypeOK
  <2>2. SlotsConsistent'
    BY <1>22, MappingAssumption DEF Teardown, Fault, TypeOK, PC, SlotsConsistent, UniqueRecords, Doc
  <2>3. UniqueRecords'
    BY <1>22 DEF Teardown, Fault, TypeOK, SlotsConsistent, UniqueRecords, Doc
  <2> QED BY <2>1, <2>2, <2>3
<1>23. CASE UNCHANGED vars
  <2>1. TypeOK'
    BY <1>23, <1>a, <1>b DEF TypeOK, PC, SlotsConsistent
  <2>2. SlotsConsistent'
    BY <1>23 DEF TypeOK, PC, SlotsConsistent, UniqueRecords, Doc
  <2>3. UniqueRecords'
    BY <1>23 DEF TypeOK, SlotsConsistent, UniqueRecords, Doc
  <2> QED BY <2>1, <2>2, <2>3
<1> QED
  BY <1>1, <1>2, <1>3, <1>4, <1>5, <1>6, <1>7, <1>8, <1>9, <1>10, <1>11, <1>12, <1>13,
     <1>14, <1>15, <1>16, <1>17, <1>18, <1>19, <1>20, <1>21, <1>22, <1>23
  DEF Next, Run, Break

LEMMA BaseInvariant == Spec => []Base
<1> QED BY BaseInit, BaseStep, PTL DEF Spec

\* Types hold, and the two durable lists never outgrow their bounds.
THEOREM TypeCorrect == Spec => []TypeOK
<1>1. Base => TypeOK
  BY DEF Base
<1> QED BY <1>1, BaseInvariant, PTL

\* However concurrent interactions interleave their reads and writes of the two
\* lists, no message has two records and no id two claims.
THEOREM RecordsAreUnique == Spec => []UniqueRecords
<1>1. Base => UniqueRecords
  BY DEF Base
<1> QED BY <1>1, BaseInvariant, PTL

-----------------------------------------------------------------------------
(* Prompts and the guard set.                                              *)

PromptInv == GuardMatchesPrompts /\ OnePromptPerDigest

\* A step that opens and closes no prompt and leaves the guard set alone.
PromptsUnchanged ==
  /\ active' = active
  /\ \A s \in Slot : Prompting(s)' <=> Prompting(s)
  /\ \A s \in Slot : Prompting(s) => msg'[s] = msg[s]

LEMMA PromptFrame == PromptInv /\ PromptsUnchanged => PromptInv'
<1> SUFFICES ASSUME PromptInv, PromptsUnchanged PROVE PromptInv'
  OBVIOUS
<1>1. \A s \in Slot : Prompting(s) => DigestIn(s)' = DigestIn(s)
  BY DEF PromptsUnchanged, DigestIn, Doc
<1>2. GuardMatchesPrompts'
  BY <1>1 DEF PromptInv, PromptsUnchanged, GuardMatchesPrompts
<1>3. OnePromptPerDigest'
  BY <1>1 DEF PromptInv, PromptsUnchanged, OnePromptPerDigest
<1> QED BY <1>2, <1>3 DEF PromptInv

\* A prompt that ends takes exactly its own digest out of the guard set.
LEMMA PromptEnds ==
  ASSUME NEW s \in Slot, Base, PromptInv, Prompting(s), EndPrompt(s), UNCHANGED msg
  PROVE  PromptInv'
<1>1. \A t \in Slot : Prompting(t)' <=> Prompting(t) /\ t # s
  BY DEF Base, TypeOK, EndPrompt, Goto, Prompting
<1>2. \A t \in Slot : DigestIn(t)' = DigestIn(t)
  BY DEF DigestIn, Doc
<1>3. \A t \in Slot : Prompting(t) /\ t # s => DigestIn(t) # DigestIn(s)
  BY DEF PromptInv, OnePromptPerDigest
<1>4. active' = active \ {DigestIn(s)}
  BY DEF EndPrompt
<1>5. GuardMatchesPrompts'
  BY <1>1, <1>2, <1>3, <1>4 DEF PromptInv, GuardMatchesPrompts
<1>6. OnePromptPerDigest'
  BY <1>1, <1>2 DEF PromptInv, OnePromptPerDigest
<1> QED BY <1>5, <1>6 DEF PromptInv

LEMMA PromptStep == Base /\ PromptInv /\ [Next]_vars => PromptInv'
<1> SUFFICES ASSUME Base, PromptInv, [Next]_vars PROVE PromptInv'
  OBVIOUS
<1> USE DEF Base, TypeOK, memory, stores, world, vars, Goto, Slot
<1>1. ASSUME NEW s \in Inbox, NEW m \in Message, Deliver(s, m) PROVE PromptsUnchanged
  BY <1>1 DEF Deliver, PromptsUnchanged, Prompting
<1>2. ASSUME NEW m \in Message, Ack(m) \/ Drop(Lane(m)) PROVE PromptsUnchanged
  BY <1>2 DEF Ack, Drop, CloseSocket, PromptsUnchanged, Prompting
<1>3. ASSUME NEW s \in Slot, Persist(s) \/ PersistFails(s) PROVE PromptsUnchanged
  BY <1>3 DEF Persist, PersistFails, Settled, OweAck, PromptsUnchanged, Prompting
<1>4. ASSUME NEW s \in Slot, Ignore(s) \/ ClaimTaken(s) \/ ReadClaims(s) \/ ClaimFails(s)
      PROVE  PromptsUnchanged
  BY <1>4 DEF Ignore, ClaimTaken, ReadClaims, ClaimFails, PromptsUnchanged, Prompting
<1>5. ASSUME NEW s \in Slot, WriteClaim(s) PROVE PromptInv'
  <2>1. CASE ~DigestFree(s)
    <3>1. PromptsUnchanged
      BY <1>5, <2>1 DEF DigestFree, WriteClaim, PromptsUnchanged, Prompting
    <3> QED BY <3>1, PromptFrame
  <2>2. CASE DigestFree(s)
    <3>1. active' = active \cup {DigestIn(s)} /\ msg' = msg
      BY <1>5, <2>2 DEF DigestFree, WriteClaim
    <3>2. \A t \in Slot : Prompting(t)' <=> Prompting(t) \/ t = s
      BY <1>5, <2>2 DEF DigestFree, WriteClaim, Prompting
    <3>3. \A t \in Slot : DigestIn(t)' = DigestIn(t)
      BY <3>1 DEF DigestIn, Doc
    <3>4. \A t \in Slot : Prompting(t) => DigestIn(t) # DigestIn(s)
      BY <2>2 DEF DigestFree, PromptInv, GuardMatchesPrompts
    <3>5. GuardMatchesPrompts'
      BY <3>1, <3>2, <3>3 DEF PromptInv, GuardMatchesPrompts
    <3>6. OnePromptPerDigest'
      BY <3>2, <3>3, <3>4 DEF PromptInv, OnePromptPerDigest
    <3> QED BY <3>5, <3>6 DEF PromptInv
  <2> QED BY <2>1, <2>2
<1>6. ASSUME NEW s \in Slot, NEW a \in {"approve", "dismiss"}, Answer(s, a) PROVE PromptsUnchanged
  BY <1>6 DEF Answer, PromptsUnchanged, Prompting
<1>7. ASSUME NEW s \in Slot, PromptFails(s) \/ SendDecision(s) \/ SendFails(s) PROVE PromptInv'
  <2>1. Prompting(s) /\ EndPrompt(s) /\ UNCHANGED msg
    BY <1>7 DEF PromptFails, SendDecision, SendFails, Prompting
  <2> QED BY <2>1, PromptEnds
<1>8. ASSUME NEW s \in Slot,
             ReadRelease(s) \/ NothingToRelease(s) \/ WriteRelease(s) \/ ReleaseFails(s)
      PROVE  PromptsUnchanged
  BY <1>8 DEF ReadRelease, NothingToRelease, WriteRelease, ReleaseFails, Finish,
              PromptsUnchanged, Prompting
<1>9. ASSUME NEW k \in Drainer, Drain(k) PROVE PromptsUnchanged
  BY <1>9 DEF Drain, StartDrain, Redrive, SkipLocked, PromptsUnchanged, Prompting
<1>10. CASE AskReconcile \/ Unlock \/ Lock \/ Boot
  <2>1. PromptsUnchanged
    BY <1>10 DEF AskReconcile, Unlock, Lock, CloseSocket, Boot, PromptsUnchanged, Prompting
  <2> QED BY <2>1, PromptFrame
<1>11. CASE Teardown
  BY <1>11 DEF Teardown, PromptInv, GuardMatchesPrompts, OnePromptPerDigest, Prompting
<1>12. CASE UNCHANGED vars
  <2>1. PromptsUnchanged
    BY <1>12 DEF PromptsUnchanged, Prompting
  <2> QED BY <2>1, PromptFrame
<1> QED
  BY PromptFrame, <1>1, <1>2, <1>3, <1>4, <1>5, <1>6, <1>7, <1>8, <1>9, <1>10, <1>11, <1>12
  DEF Next, Run, Break

LEMMA PromptInvariant == Spec => []PromptInv
<1>1. Init => PromptInv
  BY DEF Init, PromptInv, GuardMatchesPrompts, OnePromptPerDigest, Prompting
<1> QED BY <1>1, PromptStep, BaseInvariant, PTL DEF Spec

\* Over the mediator inboxes and the drain a human never has two prompts open for
\* one payload digest.
THEOREM PromptsAreExclusive == Spec => []OnePromptPerDigest
<1>1. PromptInv => OnePromptPerDigest
  BY DEF PromptInv
<1> QED BY <1>1, PromptInvariant, PTL

\* The guard set never leaks a digest and never loses one.
THEOREM GuardIsExact == Spec => []GuardMatchesPrompts
<1>1. PromptInv => GuardMatchesPrompts
  BY DEF PromptInv
<1> QED BY <1>1, PromptInvariant, PTL

-----------------------------------------------------------------------------
(* Acks and approvals.                                                     *)

AckInv == OwedIsSettled /\ AckWaitsForPut

\* The mediator deletes no message whose durable put has not settled.
THEOREM AcksWait == Spec => []AckWaitsForPut
<1>1. Init => AckInv
  BY DEF Init, AckInv, OwedIsSettled, AckWaitsForPut
<1>2. Base /\ AckInv /\ [Next]_vars => AckInv'
  <2> SUFFICES ASSUME Base, AckInv, [Next]_vars PROVE AckInv'
    OBVIOUS
  <2> USE DEF AckInv, OwedIsSettled, AckWaitsForPut, memory, stores, world, vars
  <2>1. ASSUME NEW m \in Message, Ack(m) \/ Drop(Lane(m)) PROVE AckInv'
    BY <2>1 DEF Ack, Drop, CloseSocket
  <2>2. ASSUME NEW s \in Slot, Run(s) \/ Break(s) PROVE AckInv'
    BY <2>2 DEF Run, Break, Persist, PersistFails, Settled, OweAck, Ignore, ClaimTaken, ReadClaims,
                WriteClaim, ClaimFails, PromptFails, SendDecision, SendFails, EndPrompt,
                ReadRelease, NothingToRelease, WriteRelease, ReleaseFails, Finish
  <2>3. CASE Teardown
    BY <2>3 DEF Teardown
  <2>4. CASE UNCHANGED vars
    BY <2>4
  <2>5. ASSUME NEW s \in Slot, NEW m, NEW a,
               Deliver(s, m) \/ Answer(s, a)
        PROVE  AckInv'
    BY <2>5 DEF Deliver, Answer
  <2>6. ASSUME NEW k \in Drainer, Drain(k) PROVE AckInv'
    BY <2>6 DEF Drain, StartDrain, Redrive, SkipLocked
  <2>7. CASE AskReconcile \/ Unlock \/ Lock \/ Boot
    BY <2>7 DEF AskReconcile, Unlock, Lock, CloseSocket, Boot
  <2> QED BY <2>1, <2>2, <2>3, <2>4, <2>5, <2>6, <2>7 DEF Next, Slot
<1>3. AckInv => AckWaitsForPut
  BY DEF AckInv
<1> QED BY <1>1, <1>2, <1>3, BaseInvariant, PTL DEF Spec

LEMMA ApprovalStep ==
  Base /\ ApprovalIsHuman /\ [Next]_vars => ApprovalIsHuman' /\ approved \subseteq approved'
<1> SUFFICES ASSUME Base, ApprovalIsHuman, [Next]_vars
             PROVE  ApprovalIsHuman' /\ approved \subseteq approved'
  OBVIOUS
<1> USE DEF ApprovalIsHuman, memory, stores, world, vars
<1>1. ASSUME NEW s \in Slot, SendDecision(s)
      PROVE  ApprovalIsHuman' /\ approved \subseteq approved'
  <2>1. Decision(answer[s]) = "approve" => Doc(s) \in approved
    BY <1>1 DEF Base, SlotsConsistent, Decision
  <2> QED BY <1>1, <2>1 DEF SendDecision
<1>2. ASSUME NEW s \in Slot, NEW a, Answer(s, a)
      PROVE  ApprovalIsHuman' /\ approved \subseteq approved'
  BY <1>2 DEF Answer
<1>3. (\A s \in Slot : ~SendDecision(s) /\ \A a : ~Answer(s, a)) => UNCHANGED <<sent, approved>>
  BY DEF Next, Slot, Run, Break, Drain, Deliver, Ack, Drop, Persist, PersistFails, Settled, OweAck,
         Ignore, ClaimTaken, ReadClaims, WriteClaim, ClaimFails, PromptFails, SendFails,
         ReadRelease, NothingToRelease, WriteRelease, ReleaseFails, Finish, StartDrain,
         Redrive, SkipLocked, AskReconcile, Unlock, Lock, Teardown, Boot
<1> QED BY <1>1, <1>2, <1>3

\* No approve decision leaves for a document no human approved.
THEOREM ApprovalsAreHuman == Spec => []ApprovalIsHuman
<1>1. Init => ApprovalIsHuman
  BY DEF Init, ApprovalIsHuman
<1>2. Base /\ ApprovalIsHuman /\ [Next]_vars => ApprovalIsHuman'
  BY ApprovalStep
<1> QED BY <1>1, <1>2, BaseInvariant, PTL DEF Spec

-----------------------------------------------------------------------------
(* One document per id, no second prompt for a replay.                     *)
(*                                                                         *)
(* Neither holds as the code stands: the claims are read in one            *)
(* transaction and written in another.  Both hold in every behaviour in    *)
(* which no two interactions are between the two at once and no claim is   *)
(* evicted, whatever else interleaves, fails or restarts; that is what a   *)
(* single read-and-write transaction would have to give.                   *)

ClaimsInTurn == \A s, t \in Slot : pc[s] = "claim" /\ pc[t] = "claim" => s = t
ClaimsKept == [][Range(claims) \subseteq Range(claims')]_claims

\* Every prompted document holds its id, and an id read as free still is.
ClaimInv ==
  /\ prompted \subseteq Range(claims)
  /\ \A s \in Slot : pc[s] = "claim" => ~Claimed(claims, Doc(s))

\* The claims a slot has read are the claims there are.
SnapshotCurrent == \A s \in Slot : pc[s] = "claim" => snap[s] = claims

\* The newest element is never the one that is evicted.
LEMMA NewestKeepsLast ==
  ASSUME NEW S, NEW q \in Seq(S), NEW n \in Nat \ {0}, Len(q) > 0
  PROVE  q[Len(q)] \in Range(Newest(q, n))
<1>0. Len(q) \in Nat /\ DOMAIN q = 1..Len(q) /\ \A j \in 1..Len(q) : q[j] \in S
  BY ElementOfSeq
<1>1. CASE Len(q) > n
  <2> DEFINE k == Len(q) - n + 1
             T == SubSeq(q, k, Len(q))
  <2>1. k \in 1..Len(q) /\ Len(q) - k + 1 = n
    BY <1>0, <1>1
  <2>2. \A i \in k..Len(q) : q[i] \in S
    BY <1>0, <2>1
  <2> HIDE DEF k
  <2>3. T \in Seq(S) /\ Len(T) = n /\ \A i \in 1..n : T[i] = q[k + i - 1]
    BY <1>0, <2>1, <2>2, SubSeqProperties
  <2>4. k + n - 1 = Len(q)
    BY <1>0, <2>1
  <2> HIDE DEF T
  <2>5. n \in DOMAIN T /\ T[n] = q[Len(q)]
    BY <2>3, <2>4
  <2>6. Newest(q, n) = T
    BY <1>1 DEF Newest, T, k
  <2> QED BY <2>5, <2>6 DEF Range
<1>2. CASE ~(Len(q) > n)
  BY <1>0, <1>2 DEF Newest, Range
<1> QED BY <1>1, <1>2

\* The claim a slot writes is in the list it writes.
LEMMA ClaimWritten ==
  ASSUME NEW q \in Seq(Document), NEW d \in Document
  PROVE  d \in Range(WithClaim(q, d))
<1> DEFINE a == Append(q, d)
<1>1. a \in Seq(Document) /\ Len(a) > 0 /\ a[Len(a)] = d
  BY AppendProperties
<1> HIDE DEF a
<1> QED BY <1>1, NewestKeepsLast, BoundAssumption DEF WithClaim, a

\* All that a step does to the claims and to who is about to write them.
LEMMA ClaimSteps ==
  ASSUME Base, [Next]_vars
  PROVE  \/ \E s \in Slot : WriteClaim(s)
         \/ /\ claims' = claims /\ prompted' = prompted
            /\ \A s \in Slot : pc'[s] = "prompt" => pc[s] = "prompt"
            /\ \A s \in Slot : pc'[s] = "claim" =>
                 /\ msg'[s] = msg[s]
                 /\ \/ pc[s] = "claim" /\ snap'[s] = snap[s]
                    \/ ~Claimed(claims, Doc(s)) /\ snap'[s] = claims
<1> DEFINE Quietly ==
      /\ claims' = claims /\ prompted' = prompted
      /\ \A s \in Slot : pc'[s] = "prompt" => pc[s] = "prompt"
      /\ \A s \in Slot : pc'[s] = "claim" =>
           /\ msg'[s] = msg[s]
           /\ \/ pc[s] = "claim" /\ snap'[s] = snap[s]
              \/ ~Claimed(claims, Doc(s)) /\ snap'[s] = claims
<1> SUFFICES ASSUME \A s \in Slot : ~WriteClaim(s) PROVE Quietly
  OBVIOUS
<1> USE DEF Base, TypeOK, memory, stores, world, vars, Goto, Slot
<1>1. ASSUME NEW s \in Inbox, NEW m \in Message, Deliver(s, m) PROVE Quietly
  BY <1>1 DEF Deliver
<1>2. ASSUME NEW m \in Message, Ack(m) \/ Drop(Lane(m)) PROVE Quietly
  BY <1>2 DEF Ack, Drop
<1>3. ASSUME NEW s \in Slot, Persist(s) \/ PersistFails(s) PROVE Quietly
  BY <1>3 DEF Persist, PersistFails, Settled
<1>4. ASSUME NEW s \in Slot, Ignore(s) \/ ClaimTaken(s) \/ ClaimFails(s) PROVE Quietly
  BY <1>4 DEF Ignore, ClaimTaken, ClaimFails
<1>5. ASSUME NEW s \in Slot, ReadClaims(s) PROVE Quietly
  BY <1>5 DEF ReadClaims
<1>6. ASSUME NEW s \in Slot, NEW a \in {"approve", "dismiss"}, Answer(s, a) PROVE Quietly
  BY <1>6 DEF Answer
<1>7. ASSUME NEW s \in Slot, PromptFails(s) \/ SendDecision(s) \/ SendFails(s) PROVE Quietly
  BY <1>7 DEF PromptFails, SendDecision, SendFails, EndPrompt
<1>8. ASSUME NEW s \in Slot,
             ReadRelease(s) \/ NothingToRelease(s) \/ WriteRelease(s) \/ ReleaseFails(s)
      PROVE  Quietly
  BY <1>8 DEF ReadRelease, NothingToRelease, WriteRelease, ReleaseFails, Finish
<1>9. ASSUME NEW k \in Drainer, Drain(k) PROVE Quietly
  BY <1>9 DEF Drain, StartDrain, Redrive, SkipLocked
<1>10. CASE AskReconcile \/ Unlock \/ Lock \/ Boot
  BY <1>10 DEF AskReconcile, Unlock, Lock, Boot
<1>11. CASE Teardown
  BY <1>11 DEF Teardown
<1>12. CASE UNCHANGED vars
  BY <1>12
<1> HIDE DEF Quietly
<1> QED
  BY <1>1, <1>2, <1>3, <1>4, <1>5, <1>6, <1>7, <1>8, <1>9, <1>10, <1>11, <1>12
  DEF Next, Run, Break

\* What a slot that writes its claim does to the others.
LEMMA ClaimWrites ==
  ASSUME Base, NEW s \in Slot, WriteClaim(s)
  PROVE  /\ pc[s] = "claim" /\ pc'[s] # "claim" /\ msg' = msg
         /\ \A t \in Slot \ {s} : pc'[t] = pc[t] /\ snap'[t] = snap[t]
         /\ snap[s] \in Seq(Document) /\ Doc(s) \in Document
         /\ UniqueBy(snap[s], IdOf) /\ ~Claimed(snap[s], Doc(s))
         /\ claims' = WithClaim(snap[s], Doc(s))
         /\ prompted' \in {prompted, prompted \cup {Doc(s)}}
<1>1. /\ snap[s] \in Seq(Document) /\ Doc(s) \in Document
      /\ UniqueBy(snap[s], IdOf) /\ ~Claimed(snap[s], Doc(s))
  BY MappingAssumption DEF WriteClaim, Base, SlotsConsistent, Doc
<1>2. pc[s] = "claim" /\ pc'[s] # "claim" /\ \A t \in Slot \ {s} : pc'[t] = pc[t]
  BY DEF WriteClaim, Goto, Base, TypeOK
<1>3. \A t \in Slot \ {s} : snap'[t] = snap[t]
  BY DEF WriteClaim, Base, TypeOK
<1> QED BY <1>1, <1>2, <1>3 DEF WriteClaim

LEMMA ClaimStep ==
  ASSUME Base, ClaimInv, ClaimsInTurn, [Next]_vars,
         [Range(claims) \subseteq Range(claims')]_claims
  PROVE  /\ ClaimInv'
         /\ \A s \in Slot : pc[s] # "prompt" /\ pc'[s] = "prompt" => Doc(s) \notin prompted
<1>1. CASE \E s \in Slot : WriteClaim(s)
  <2>1. PICK s \in Slot : WriteClaim(s)
    BY <1>1
  <2>2. Doc(s) \in Range(claims') /\ Range(claims) \subseteq Range(claims')
    BY <2>1, ClaimWrites, ClaimWritten
  <2>3. prompted' \subseteq Range(claims')
    BY <2>1, <2>2, ClaimWrites DEF ClaimInv
  <2>4. \A t \in Slot : pc'[t] # "claim"
    BY <2>1, ClaimWrites DEF ClaimsInTurn
  <2>5. Doc(s) \notin prompted
    <3>1. ~Claimed(claims, Doc(s)) /\ prompted \subseteq Range(claims)
      BY <2>1, ClaimWrites DEF ClaimInv
    <3> QED BY <3>1 DEF Claimed, Range
  <2>6. \A t \in Slot : pc[t] # "prompt" /\ pc'[t] = "prompt" => t = s
    BY <2>1, ClaimWrites
  <2> QED BY <2>3, <2>4, <2>5, <2>6 DEF ClaimInv
<1>2. CASE ~\E s \in Slot : WriteClaim(s)
  BY <1>2, ClaimSteps DEF ClaimInv, Claimed, Doc
<1> QED BY <1>1, <1>2

\* Two documents under one id are never both put to a human, unless two interactions
\* read the claims before either wrote them or a claim was evicted.
THEOREM OneDocumentInTurn == Spec /\ []ClaimsInTurn /\ ClaimsKept => []OneDocumentPerId
<1>1. Init => ClaimInv
  BY DEF Init, ClaimInv
<1>2. ClaimInv /\ Base => OneDocumentPerId
  BY DEF ClaimInv, Base, UniqueRecords, UniqueBy, OneDocumentPerId, Range
<1> QED BY <1>1, <1>2, ClaimStep, BaseInvariant, PTL DEF Spec, ClaimsKept

\* A redelivery of a document a human was asked about is absorbed, after any number of
\* restarts, under the same condition.
THEOREM ReplaysAbsorbedInTurn == Spec /\ []ClaimsInTurn /\ ClaimsKept => ReplayNotPrompted
<1> DEFINE Once == \A s \in Inbox : pc[s] # "prompt" /\ pc'[s] = "prompt" => Doc(s) \notin prompted
<1>1. Init => ClaimInv
  BY DEF Init, ClaimInv
<1>2. ASSUME Base, ClaimInv, ClaimsInTurn, [Next]_vars,
             [Range(claims) \subseteq Range(claims')]_claims
      PROVE  ClaimInv' /\ [Once]_vars
  BY <1>2, ClaimStep DEF Slot
<1> HIDE DEF Once
<1>3. Spec /\ []ClaimsInTurn /\ ClaimsKept => [][Once]_vars
  BY <1>1, <1>2, BaseInvariant, PTL DEF Spec, ClaimsKept
<1> QED BY <1>3 DEF ReplayNotPrompted, Once

\* As many ids as claims, at most.
LEMMA ClaimsBounded ==
  ASSUME NEW q \in Seq(Document), UniqueBy(q, IdOf), IsFiniteSet(Id)
  PROVE  Len(q) <= Cardinality(Id)
<1> DEFINE f == [i \in 1..Len(q) |-> IdOf[q[i]]]
<1>1. Len(q) \in Nat /\ DOMAIN q = 1..Len(q) /\ \A j \in 1..Len(q) : IdOf[q[j]] \in Id
  BY ElementOfSeq, MappingAssumption
<1>2. f \in Injection(1..Len(q), Id)
  BY <1>1 DEF Injection, IsInjective, UniqueBy
<1>3. Cardinality(1..Len(q)) <= Cardinality(Id)
  BY <1>2, FS_Injection
<1>4. Cardinality(1..Len(q)) = Len(q)
  BY <1>1, FS_Interval
<1> QED BY <1>3, <1>4

\* The condition is met by interactions that run one at a time over no more ids than
\* the list has room for: the instance the runs check.
THEOREM SerialMeetsCondition ==
  ASSUME \A s, t \in Slot : s = t, IsFiniteSet(Id), Cardinality(Id) <= MaxClaims
  PROVE  Spec => []ClaimsInTurn /\ ClaimsKept
<1>1. ClaimsInTurn
  BY DEF ClaimsInTurn
<1>2. Init => SnapshotCurrent
  BY DEF Init, SnapshotCurrent
<1>3. ASSUME Base, SnapshotCurrent, [Next]_vars
      PROVE  SnapshotCurrent' /\ [Range(claims) \subseteq Range(claims')]_claims
  <2>1. ASSUME NEW s \in Slot, WriteClaim(s)
        PROVE  SnapshotCurrent' /\ Range(claims) \subseteq Range(claims')
    <3>1. \A t \in Slot : pc'[t] # "claim"
      BY <1>3, <2>1, ClaimWrites
    <3> DEFINE a == Append(claims, Doc(s))
    <3>2. /\ claims \in Seq(Document) /\ UniqueBy(claims, IdOf) /\ Doc(s) \in Document
          /\ ~Claimed(claims, Doc(s)) /\ claims' = WithClaim(claims, Doc(s))
      BY <1>3, <2>1, ClaimWrites DEF SnapshotCurrent
    <3>3. a \in Seq(Document) /\ UniqueBy(a, IdOf)
      BY <3>2, AppendUnique DEF Claimed
    <3>4. /\ DOMAIN claims \subseteq DOMAIN a /\ Len(a) \in Nat
          /\ \A i \in DOMAIN claims : a[i] = claims[i]
      BY <3>2, AppendProperties
    <3> HIDE DEF a
    <3>5. Len(a) <= MaxClaims
      <4>1. Len(a) <= Cardinality(Id) /\ Cardinality(Id) \in Nat
        BY <3>3, ClaimsBounded, FS_CardinalityType
      <4> QED BY <3>4, <4>1, BoundAssumption
    <3>6. claims' = a
      BY <3>2, <3>4, <3>5, BoundAssumption DEF WithClaim, Newest, a
    <3> QED BY <3>1, <3>4, <3>6 DEF SnapshotCurrent, Range
  <2>2. CASE ~\E s \in Slot : WriteClaim(s)
    BY <1>3, <2>2, ClaimSteps DEF SnapshotCurrent
  <2> QED BY <2>1, <2>2
<1> QED BY <1>1, <1>2, <1>3, BaseInvariant, PTL DEF Spec, ClaimsKept

-----------------------------------------------------------------------------
(* The pipeline's steps.                                                   *)

\* One of its prompts opens, or ends.
PromptOpens(s) ==
  /\ active' = active \cup {DigestIn(s)} /\ msg' = msg
  /\ \A t \in Slot : Prompting(t)' <=> Prompting(t) \/ t = s

PromptEnded(s) ==
  /\ active' = active \ {DigestIn(s)} /\ msg' = msg
  /\ \A t \in Slot : Prompting(t)' <=> Prompting(t) /\ t # s

\* All that a step of the pipeline does to the guard set.
LEMMA GuardSteps ==
  ASSUME Base, [Next]_vars
  PROVE  \/ PromptsUnchanged /\ up' \in {up, TRUE}
         \/ \E s \in Slot : (PromptOpens(s) \/ PromptEnded(s)) /\ up' = up
         \/ active' = {}
<1> USE DEF Base, TypeOK, memory, stores, world, vars, Goto, Slot
<1>1. ASSUME NEW s \in Inbox, NEW m \in Message, Deliver(s, m) PROVE PromptsUnchanged /\ up' = up
  BY <1>1 DEF Deliver, PromptsUnchanged, Prompting
<1>2. ASSUME NEW m \in Message, Ack(m) \/ Drop(Lane(m)) PROVE PromptsUnchanged /\ up' = up
  BY <1>2 DEF Ack, Drop, CloseSocket, PromptsUnchanged, Prompting
<1>3. ASSUME NEW s \in Slot, Persist(s) \/ PersistFails(s) PROVE PromptsUnchanged /\ up' = up
  BY <1>3 DEF Persist, PersistFails, Settled, OweAck, PromptsUnchanged, Prompting
<1>4. ASSUME NEW s \in Slot, Ignore(s) \/ ClaimTaken(s) \/ ReadClaims(s) \/ ClaimFails(s)
      PROVE  PromptsUnchanged /\ up' = up
  BY <1>4 DEF Ignore, ClaimTaken, ReadClaims, ClaimFails, PromptsUnchanged, Prompting
<1>5. ASSUME NEW s \in Slot, WriteClaim(s)
      PROVE  (PromptsUnchanged \/ PromptOpens(s)) /\ up' = up
  <2>1. CASE ~DigestFree(s)
    BY <1>5, <2>1 DEF DigestFree, WriteClaim, PromptsUnchanged, Prompting
  <2>2. CASE DigestFree(s)
    BY <1>5, <2>2 DEF DigestFree, WriteClaim, PromptOpens, Prompting
  <2> QED BY <2>1, <2>2
<1>6. ASSUME NEW s \in Slot, NEW a \in {"approve", "dismiss"}, Answer(s, a)
      PROVE  PromptsUnchanged /\ up' = up
  BY <1>6 DEF Answer, PromptsUnchanged, Prompting
<1>7. ASSUME NEW s \in Slot, PromptFails(s) \/ SendDecision(s) \/ SendFails(s)
      PROVE  PromptEnded(s) /\ up' = up
  BY <1>7 DEF PromptFails, SendDecision, SendFails, EndPrompt, PromptEnded, Prompting
<1>8. ASSUME NEW s \in Slot,
             ReadRelease(s) \/ NothingToRelease(s) \/ WriteRelease(s) \/ ReleaseFails(s)
      PROVE  PromptsUnchanged /\ up' = up
  BY <1>8 DEF ReadRelease, NothingToRelease, WriteRelease, ReleaseFails, Finish,
              PromptsUnchanged, Prompting
<1>9. ASSUME NEW k \in Drainer, Drain(k) PROVE PromptsUnchanged /\ up' = up
  BY <1>9 DEF Drain, StartDrain, Redrive, SkipLocked, PromptsUnchanged, Prompting
<1>10. CASE AskReconcile \/ Unlock \/ Lock \/ Boot
  BY <1>10 DEF AskReconcile, Unlock, Lock, CloseSocket, Boot, PromptsUnchanged, Prompting
<1>11. CASE Teardown
  BY <1>11 DEF Teardown
<1>12. CASE UNCHANGED vars
  BY <1>12 DEF PromptsUnchanged, Prompting
<1> HIDE DEF Base, TypeOK, memory, stores, world, vars, Goto, Slot
<1>13. ASSUME NEW s \in Slot, Run(s) \/ Break(s)
       PROVE  (PromptsUnchanged \/ PromptOpens(s) \/ PromptEnded(s)) /\ up' = up
  BY <1>3, <1>4, <1>5, <1>7, <1>8, <1>13 DEF Run, Break
<1> QED BY <1>1, <1>2, <1>6, <1>9, <1>10, <1>11, <1>12, <1>13 DEF Next

-----------------------------------------------------------------------------
(* The inductive invariant.                                                *)

\* What a relay is about to sign a human has approved.
SignedIsApproved == \A r \in Relay : rpc[r] = "sign" => rdoc[r] \in approved

\* A teardown leaves no relay behind.
DownIsQuiet == ~up => \A r \in Relay : rpc[r] = "idle" /\ rdoc[r] = None

RelayInv ==
  /\ Base /\ RelayTypeOK
  /\ GuardHasPrompt /\ ApprovalIsHuman
  /\ SignedIsApproved /\ DownIsQuiet

LEMMA RelayStart == RelayInit => RelayInv
<1> SUFFICES ASSUME RelayInit PROVE RelayInv
  OBVIOUS
<1>1. Base
  BY BaseInit DEF RelayInit
<1>2. RelayTypeOK
  BY <1>1 DEF RelayInit, RelayTypeOK, Base
<1>3. GuardHasPrompt /\ ApprovalIsHuman
  BY DEF RelayInit, Init, GuardHasPrompt, ApprovalIsHuman
<1>4. SignedIsApproved /\ DownIsQuiet
  BY DEF RelayInit, SignedIsApproved, DownIsQuiet
<1> QED BY <1>1, <1>2, <1>3, <1>4 DEF RelayInv

\* A step of the pipeline leaves the relays where they are or ends them all.
LEMMA RelaysKept ==
  ASSUME RelayInv, Pipeline
  PROVE  /\ (up' \in {up, TRUE} => UNCHANGED relays)
         /\ (~up' => \A r \in Relay : rpc'[r] = "idle" /\ rdoc'[r] = None)
         /\ (up' => UNCHANGED relays)
<1> USE DEF Pipeline, relays
<1>1. up' => UNCHANGED relays
  OBVIOUS
<1>2. ~up' => \A r \in Relay : rpc'[r] = "idle" /\ rdoc'[r] = None
  OBVIOUS
<1>3. CASE up' = up /\ ~up
  <2>1. rpc = [r \in Relay |-> "idle"] /\ rdoc = [r \in Relay |-> None]
    BY <1>3 DEF RelayInv, DownIsQuiet, RelayTypeOK
  <2> QED BY <1>2, <1>3, <2>1
<1> QED BY <1>1, <1>2, <1>3

LEMMA PipelineStep == RelayInv /\ Pipeline => RelayInv'
<1> SUFFICES ASSUME RelayInv, Pipeline PROVE RelayInv'
  OBVIOUS
<1>1. Base' /\ ApprovalIsHuman' /\ approved \subseteq approved'
  BY BaseStep, ApprovalStep DEF RelayInv, Pipeline
<1>2. RelayTypeOK'
  BY <1>1 DEF RelayInv, RelayTypeOK, Pipeline, Base
<1>3. SignedIsApproved'
  BY <1>1, RelaysKept DEF RelayInv, SignedIsApproved, relays
<1>4. DownIsQuiet'
  BY RelaysKept DEF DownIsQuiet
<1>5. GuardHasPrompt'
  <2>1. CASE active' = {}
    BY <2>1 DEF GuardHasPrompt
  <2>2. CASE PromptsUnchanged /\ up' \in {up, TRUE}
    <3>1. UNCHANGED relays
      BY <2>2, RelaysKept
    <3>2. \A s \in Slot : Prompting(s) => DigestIn(s)' = DigestIn(s)
      BY <2>2 DEF PromptsUnchanged, DigestIn, Doc
    <3> QED BY <2>2, <3>1, <3>2
            DEF RelayInv, GuardHasPrompt, Asked, RelayDigest, RelayPrompting, relays, PromptsUnchanged
  <2>3. CASE \E s \in Slot : (PromptOpens(s) \/ PromptEnded(s)) /\ up' = up
    <3>1. PICK s \in Slot : (PromptOpens(s) \/ PromptEnded(s)) /\ up' = up
      BY <2>3
    <3>2. UNCHANGED relays
      BY <3>1, RelaysKept
    <3>3. \A t \in Slot : DigestIn(t)' = DigestIn(t)
      BY <3>1 DEF PromptOpens, PromptEnded, DigestIn, Doc
    <3>4. CASE PromptOpens(s)
      BY <3>1, <3>2, <3>3, <3>4
      DEF RelayInv, GuardHasPrompt, Asked, RelayDigest, RelayPrompting, relays, PromptOpens
    <3>5. CASE PromptEnded(s)
      BY <3>1, <3>2, <3>3, <3>5
      DEF RelayInv, GuardHasPrompt, Asked, RelayDigest, RelayPrompting, relays, PromptEnded
    <3> QED BY <3>1, <3>4, <3>5
  <2> QED BY <2>1, <2>2, <2>3, GuardSteps DEF RelayInv, Pipeline
<1> QED BY <1>1, <1>2, <1>3, <1>4, <1>5 DEF RelayInv

-----------------------------------------------------------------------------
(* The relays' steps.                                                      *)

\* The pipeline's own invariant hears nothing of them.
LEMMA BaseKept ==
  ASSUME Base, RelayFrame, active' \subseteq Digest, prompted' \subseteq Document,
         approved \subseteq approved', approved' \subseteq Document,
         sent' \subseteq [doc : Document, decision : {"approve", "deny"}]
  PROVE  Base'
<1> USE DEF RelayFrame, stores
<1>1. TypeOK'
  BY DEF Base, TypeOK
<1>2. SlotsConsistent'
  BY DEF Base, SlotsConsistent, Doc
<1>3. UniqueRecords'
  BY DEF Base, UniqueRecords
<1> QED BY <1>1, <1>2, <1>3 DEF Base

\* Its prompts stay open as well.
LEMMA PromptsKept ==
  ASSUME RelayFrame
  PROVE  {DigestIn(s) : s \in {t \in Slot : Prompting(t)}}'
           = {DigestIn(s) : s \in {t \in Slot : Prompting(t)}}
<1> QED BY DEF RelayFrame, DigestIn, Doc, Prompting

LEMMA RelayStep ==
  ASSUME RelayInv, NEW r \in Relay, NEW d \in Document, NEW a \in {"approve", "dismiss"},
         \/ StartRelay(r, d) \/ RefuseRelay(r) \/ OpenRelay(r)
         \/ AnswerRelay(r, a) \/ SignRelay(r)
  PROVE  RelayInv'
<1> USE DEF RelayGoto
<1>a. RelayFrame
  BY DEF StartRelay, RefuseRelay, OpenRelay, AnswerRelay, SignRelay
<1>b. rpc[r] # "idle" => rdoc[r] \in Document /\ RelayDigest(r) \in Digest
  BY MappingAssumption DEF RelayInv, RelayTypeOK, RelayDigest
<1>1. Base'
  <2>1. active' \subseteq Digest
    BY <1>b DEF RelayInv, Base, TypeOK, StartRelay, RefuseRelay, OpenRelay, AnswerRelay,
                SignRelay, EndRelay
  <2>2. prompted' \subseteq Document
    BY <1>b DEF RelayInv, Base, TypeOK, StartRelay, RefuseRelay, OpenRelay, AnswerRelay, SignRelay
  <2>3. approved \subseteq approved' /\ approved' \subseteq Document
    BY <1>b DEF RelayInv, Base, TypeOK, StartRelay, RefuseRelay, OpenRelay, AnswerRelay, SignRelay
  <2>4. sent' \subseteq [doc : Document, decision : {"approve", "deny"}]
    BY <1>b DEF RelayInv, Base, TypeOK, StartRelay, RefuseRelay, OpenRelay, AnswerRelay, SignRelay
  <2> QED BY <1>a, <2>1, <2>2, <2>3, <2>4, BaseKept DEF RelayInv
<1>2. RelayTypeOK'
  BY <1>1, <1>b DEF RelayInv, Base, RelayTypeOK, StartRelay, RefuseRelay, OpenRelay, AnswerRelay,
                    SignRelay, EndRelay
<1>3. SignedIsApproved'
  BY DEF RelayInv, SignedIsApproved, RelayTypeOK, StartRelay, RefuseRelay, OpenRelay, AnswerRelay,
         SignRelay, EndRelay, Assent
<1>4. ApprovalIsHuman'
  BY DEF RelayInv, SignedIsApproved, ApprovalIsHuman, StartRelay, RefuseRelay, OpenRelay,
         AnswerRelay, SignRelay
<1>5. DownIsQuiet'
  BY <1>a DEF RelayInv, DownIsQuiet, RelayTypeOK, RelayFrame, StartRelay, RefuseRelay, OpenRelay,
              AnswerRelay, SignRelay, EndRelay
<1>6. GuardHasPrompt'
  <2>1. Asked' = {DigestIn(s) : s \in {t \in Slot : Prompting(t)}}
                   \cup {RelayDigest(q) : q \in {p \in Relay : RelayPrompting(p)}}'
    BY <1>a, PromptsKept DEF Asked
  <2>2. \A q \in Relay \ {r} : /\ RelayPrompting(q)' <=> RelayPrompting(q)
                               /\ RelayDigest(q)' = RelayDigest(q)
    BY DEF RelayInv, RelayTypeOK, RelayPrompting, RelayDigest, StartRelay, RefuseRelay, OpenRelay,
           AnswerRelay, SignRelay, EndRelay
  <2>3. \/ active' = active /\ (RelayPrompting(r) => RelayPrompting(r)' /\ RelayDigest(r)' = RelayDigest(r))
        \/ active' = active \cup {RelayDigest(r)} /\ RelayPrompting(r)' /\ RelayDigest(r)' = RelayDigest(r)
        \/ active' = active \ {RelayDigest(r)}
    BY DEF RelayInv, RelayTypeOK, RelayPrompting, RelayDigest, StartRelay, RefuseRelay, OpenRelay,
           AnswerRelay, SignRelay, EndRelay
  <2>4. \A g \in active : g \in Asked
    BY DEF RelayInv, GuardHasPrompt
  <2>5. ASSUME NEW g \in active' PROVE g \in Asked'
    <3>1. CASE g = RelayDigest(r) /\ RelayPrompting(r)' /\ RelayDigest(r)' = RelayDigest(r)
      BY <3>1, <2>1
    <3>2. CASE ~(g = RelayDigest(r) /\ RelayPrompting(r)' /\ RelayDigest(r)' = RelayDigest(r))
      <4>1. g \in active
        BY <2>3, <2>5, <3>2
      <4>2. ~(RelayPrompting(r) /\ g = RelayDigest(r))
        BY <2>3, <2>5, <3>2
      <4>3. g \in {DigestIn(s) : s \in {t \in Slot : Prompting(t)}}
            \/ \E q \in Relay \ {r} : RelayPrompting(q) /\ g = RelayDigest(q)
        BY <2>4, <4>1, <4>2 DEF Asked
      <4> QED BY <2>1, <2>2, <4>3
    <3> QED BY <3>1, <3>2
  <2> QED BY <2>5 DEF GuardHasPrompt
<1> QED BY <1>1, <1>2, <1>3, <1>4, <1>5, <1>6 DEF RelayInv

LEMMA RelayStutter == RelayInv /\ UNCHANGED <<vars, relays>> => RelayInv'
<1> SUFFICES ASSUME RelayInv, UNCHANGED <<vars, relays>> PROVE RelayInv'
  OBVIOUS
<1>1. Base' /\ ApprovalIsHuman'
  BY BaseStep, ApprovalStep DEF RelayInv
<1>2. RelayTypeOK' /\ SignedIsApproved' /\ DownIsQuiet'
  BY <1>1 DEF RelayInv, Base, RelayTypeOK, SignedIsApproved, DownIsQuiet, vars, memory, world, relays
<1>3. GuardHasPrompt'
  BY DEF RelayInv, GuardHasPrompt, Asked, Prompting, DigestIn, Doc, RelayPrompting, RelayDigest,
         vars, memory, relays
<1> QED BY <1>1, <1>2, <1>3 DEF RelayInv

LEMMA RelayInvariant == RelaySpec => []RelayInv
<1>1. RelayInv /\ [RelayNext]_<<vars, relays>> => RelayInv'
  <2> SUFFICES ASSUME RelayInv, [RelayNext]_<<vars, relays>> PROVE RelayInv'
    OBVIOUS
  <2>1. CASE Pipeline
    BY <2>1, PipelineStep
  <2>2. CASE UNCHANGED <<vars, relays>>
    BY <2>2, RelayStutter
  <2>3. ASSUME NEW r \in Relay, NEW d \in Document, StartRelay(r, d) PROVE RelayInv'
    BY <2>3, RelayStep
  <2>4. ASSUME NEW r \in Relay, RefuseRelay(r) \/ OpenRelay(r) \/ SignRelay(r) PROVE RelayInv'
    <3>1. rdoc[r] \in Document
      BY <2>4 DEF RefuseRelay, OpenRelay, SignRelay, RelayInv, RelayTypeOK
    <3> QED BY <2>4, <3>1, RelayStep
  <2>5. ASSUME NEW r \in Relay, NEW a \in {"approve", "dismiss"}, AnswerRelay(r, a) PROVE RelayInv'
    <3>1. rdoc[r] \in Document
      BY <2>5 DEF AnswerRelay, RelayInv, RelayTypeOK
    <3> QED BY <2>5, <3>1, RelayStep
  <2> QED BY <2>1, <2>2, <2>3, <2>4, <2>5 DEF RelayNext
<1> QED BY RelayStart, <1>1, PTL DEF RelaySpec

-----------------------------------------------------------------------------
\* Every relay past its first step carries a document, and the pipeline's types
\* hold beside it.
THEOREM RelayTyped == RelaySpec => []RelayTypeOK
<1>1. RelayInv => RelayTypeOK
  BY DEF RelayInv
<1> QED BY <1>1, RelayInvariant, PTL

\* However relays and inbound interactions overlap on one digest, a guarded
\* digest is one a human is being asked about (the two `finally` blocks).
THEOREM GuardHasAPrompt == RelaySpec => []GuardHasPrompt
<1>1. RelayInv => GuardHasPrompt
  BY DEF RelayInv
<1> QED BY <1>1, RelayInvariant, PTL

\* Neither path sends an approval for a document no human approved.
THEOREM RelayApprovalsAreHuman == RelaySpec => []ApprovalIsHuman
<1>1. RelayInv => ApprovalIsHuman
  BY DEF RelayInv
<1> QED BY <1>1, RelayInvariant, PTL
=============================================================================
