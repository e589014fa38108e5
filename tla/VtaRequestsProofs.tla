-------------------------- MODULE VtaRequestsProofs --------------------------
(***************************************************************************)
(* Requests to an agent, for any number of them.  First the connection     *)
(* alone: an inductive invariant places each waiting request in the list   *)
(* no earlier than the loop's index, and from it no unraced reply is lost. *)
(* Then the requests: each of their steps is a step of the connection or   *)
(* leaves it alone, so what holds of it holds here; and the invariants of  *)
(* the bearer and of what was sent are inductive over the whole.           *)
(***************************************************************************)
EXTENDS VtaRequests, SequenceTheorems, TLAPS

-----------------------------------------------------------------------------
(* The list of waiters.                                                    *)

\* Taking one place out keeps the elements of all the others.
LEMMA RemoveAtKeepsOthers ==
  ASSUME NEW S, NEW q \in Seq(S), NEW n \in 1..Len(q)
  PROVE  /\ RemoveAt(q, n) \in Seq(S)
         /\ \A j \in 1..Len(q) : j # n => \E l \in DOMAIN RemoveAt(q, n) : RemoveAt(q, n)[l] = q[j]
<1> DEFINE A == SubSeq(q, 1, n - 1)
           B == SubSeq(q, n + 1, Len(q))
<1>1. Len(q) \in Nat /\ \A j \in 1..Len(q) : q[j] \in S
  BY ElementOfSeq
<1>2. A \in Seq(S) /\ Len(A) = n - 1 /\ \A j \in 1..n - 1 : A[j] = q[j]
  BY <1>1, SubSeqProperties
<1>3. B \in Seq(S) /\ Len(B) = Len(q) - n /\ \A j \in 1..Len(q) - n : B[j] = q[n + j]
  BY <1>1, SubSeqProperties
<1>4. RemoveAt(q, n) = A \o B
  BY DEF RemoveAt
<1> HIDE DEF A, B
<1>5. /\ A \o B \in Seq(S) /\ Len(A \o B) = Len(A) + Len(B)
      /\ \A j \in 1..Len(A) + Len(B) : (A \o B)[j] = IF j <= Len(A) THEN A[j] ELSE B[j - Len(A)]
  BY <1>2, <1>3, ConcatProperties
<1>6. DOMAIN (A \o B) = 1..Len(q) - 1
  BY <1>1, <1>2, <1>3, <1>5
<1>7. ASSUME NEW j \in 1..Len(q), j # n
      PROVE  \E l \in DOMAIN (A \o B) : (A \o B)[l] = q[j]
  <2>1. CASE j < n
    <3>1. j \in 1..Len(A) + Len(B) /\ j <= Len(A)
      BY <1>1, <1>2, <1>3, <2>1
    <3>2. (A \o B)[j] = q[j]
      BY <1>2, <1>5, <3>1
    <3>3. j \in DOMAIN (A \o B)
      BY <1>1, <1>6, <2>1
    <3> QED BY <3>2, <3>3
  <2>2. CASE j > n
    <3> DEFINE l == j - 1
    <3>1. l \in 1..Len(A) + Len(B) /\ ~(l <= Len(A)) /\ l - Len(A) \in 1..Len(q) - n
      BY <1>1, <1>2, <1>3, <2>2
    <3>2. (A \o B)[l] = B[l - Len(A)]
      BY <1>5, <3>1
    <3>3. B[l - Len(A)] = q[n + (l - Len(A))] /\ n + (l - Len(A)) = j
      BY <1>2, <1>3, <3>1
    <3>4. (A \o B)[l] = q[j]
      BY <3>2, <3>3
    <3>5. l \in DOMAIN (A \o B)
      BY <1>1, <1>6, <2>2
    <3> HIDE DEF l
    <3> QED BY <3>4, <3>5
  <2> QED BY <1>7, <2>1, <2>2
<1> QED BY <1>4, <1>5, <1>7

\* The loop's splice, wherever its index stands.
LEMMA SpliceKeepsOthers ==
  ASSUME NEW S, NEW q \in Seq(S), NEW n \in Nat
  PROVE  /\ Splice(q, n) \in Seq(S)
         /\ \A j \in DOMAIN q : j # n => \E l \in DOMAIN Splice(q, n) : Splice(q, n)[l] = q[j]
<1>1. DOMAIN q = 1..Len(q)
  OBVIOUS
<1>2. CASE n \in DOMAIN q
  BY <1>1, <1>2, RemoveAtKeepsOthers DEF Splice
<1>3. CASE n \notin DOMAIN q
  BY <1>3 DEF Splice
<1> QED BY <1>2, <1>3

\* The timer's splice.
LEMMA WithoutKeepsOthers ==
  ASSUME NEW S, NEW q \in Seq(S), NEW r
  PROVE  /\ Without(q, r) \in Seq(S)
         /\ \A j \in DOMAIN q : q[j] # r => \E l \in DOMAIN Without(q, r) : Without(q, r)[l] = q[j]
<1> DEFINE n == CHOOSE n \in DOMAIN q : q[n] = r
<1>1. DOMAIN q = 1..Len(q)
  OBVIOUS
<1>2. CASE r \in Range(q)
  <2>1. n \in DOMAIN q /\ q[n] = r
    BY <1>2 DEF Range
  <2>2. Without(q, r) = RemoveAt(q, n)
    BY <1>2 DEF Without
  <2> HIDE DEF n
  <2> QED BY <1>1, <2>1, <2>2, RemoveAtKeepsOthers
<1>3. CASE r \notin Range(q)
  BY <1>3 DEF Without
<1> QED BY <1>2, <1>3

-----------------------------------------------------------------------------
(* The connection.                                                         *)

\* Unless a timer or a close came between, the waiter that is asked stands at the
\* loop's index, and every waiting request is listed, the one the frame answers
\* no earlier than the index.
InPlace ==
  ~raced =>
    /\ i <= Len(waiters) + 1
    /\ asked # None => i \in DOMAIN waiters /\ waiters[i] = asked
    /\ \A r \in Request : st[r] = "waiting" =>
         \E n \in DOMAIN waiters : waiters[n] = r /\ (frame = r => n >= i)

\* Between frames the loop's index is at the start.
AtRest == frame = None => i = 1

WaiterInv == TypeOK /\ OwnReplyOnly /\ AtRest /\ InPlace

LEMMA WaiterInitially == Init => WaiterInv
<1> SUFFICES ASSUME Init PROVE WaiterInv
  OBVIOUS
<1>1. TypeOK
  <2>1. waiters \in Seq(Request)
    BY EmptySeq DEF Init
  <2>2. st \in [Request -> Outcome] /\ got \in [Request -> Frame \cup {None}]
    BY DEF Init, Outcome
  <2>3. armed \subseteq Request /\ wire \subseteq Frame /\ inbox \subseteq Frame
    BY DEF Init, Frame
  <2>4. open \in BOOLEAN /\ raced \in BOOLEAN
    BY DEF Init
  <2>5. frame = None /\ asked = None /\ i = 1
    BY DEF Init
  <2> QED BY <2>1, <2>2, <2>3, <2>4, <2>5 DEF TypeOK
<1>2. OwnReplyOnly /\ AtRest
  BY DEF Init, OwnReplyOnly, AtRest
<1>3. InPlace
  <2>1. i = 1 /\ asked = None /\ Len(waiters) = 0
    BY EmptySeq DEF Init
  <2>2. \A r \in Request : st[r] # "waiting"
    BY DEF Init
  <2> QED BY <2>1, <2>2 DEF InPlace
<1> QED BY <1>1, <1>2, <1>3 DEF WaiterInv

\* Appending a waiter moves no other.
LEMMA AppendedWaiter ==
  ASSUME TypeOK, NEW r \in Request
  PROVE  /\ Append(waiters, r) \in Seq(Request)
         /\ DOMAIN waiters = 1..Len(waiters) /\ Len(waiters) \in Nat
         /\ DOMAIN Append(waiters, r) = 1..Len(waiters) + 1
         /\ \A n \in DOMAIN waiters : Append(waiters, r)[n] = waiters[n]
         /\ Append(waiters, r)[Len(waiters) + 1] = r
BY AppendProperties DEF TypeOK

LEMMA SendKeepsInv ==
  ASSUME WaiterInv, NEW r \in Request, Send(r) \/ SendFails(r)
  PROVE  WaiterInv'
<1>0. TypeOK /\ OwnReplyOnly /\ AtRest /\ InPlace
  BY DEF WaiterInv
<1>1. waiters' = Append(waiters, r) /\ raced' = raced
  BY DEF Send, SendFails
<1>2. st' \in [Request -> Outcome] /\ \A q \in Request \ {r} : st'[q] = st[q]
  BY <1>0 DEF Send, SendFails, TypeOK, Outcome
<1>3. TypeOK'
  BY <1>0, <1>1, <1>2, AppendedWaiter DEF Send, SendFails, TypeOK, loop
<1>4. OwnReplyOnly' /\ AtRest'
  BY <1>0 DEF Send, SendFails, OwnReplyOnly, AtRest, loop
<1>5. InPlace'
  <2> SUFFICES ASSUME ~raced PROVE InPlace'
    BY <1>1 DEF InPlace
  <2>1. /\ Len(waiters) \in Nat /\ DOMAIN waiters = 1..Len(waiters)
        /\ DOMAIN waiters' = 1..Len(waiters) + 1 /\ Len(waiters') = Len(waiters) + 1
        /\ \A n \in DOMAIN waiters : waiters'[n] = waiters[n]
        /\ waiters'[Len(waiters) + 1] = r
    BY <1>0, <1>1, <1>3, AppendedWaiter, AppendProperties DEF TypeOK
  <2>2. i' = i /\ i \in Nat /\ i <= Len(waiters) + 1 /\ frame' = frame /\ asked' = asked
    BY <1>0 DEF Send, SendFails, loop, TypeOK, InPlace
  <2>3. asked # None => i \in DOMAIN waiters' /\ waiters'[i] = asked
    BY <1>0, <2>1 DEF InPlace
  <2>4. \A q \in Request : st'[q] = "waiting" =>
          \E n \in DOMAIN waiters' : waiters'[n] = q /\ (frame = q => n >= i)
    <3> SUFFICES ASSUME NEW q \in Request, st'[q] = "waiting"
                 PROVE  \E n \in DOMAIN waiters' : waiters'[n] = q /\ (frame = q => n >= i)
      OBVIOUS
    <3>1. CASE q = r
      BY <2>1, <2>2, <3>1
    <3>2. CASE q # r
      <4>1. PICK n \in DOMAIN waiters : waiters[n] = q /\ (frame = q => n >= i)
        BY <1>0, <1>2, <3>2 DEF InPlace
      <4> QED BY <2>1, <4>1
    <3> QED BY <3>1, <3>2
  <2>5. i' <= Len(waiters') + 1
    BY <2>1, <2>2
  <2> QED BY <2>2, <2>3, <2>4, <2>5 DEF InPlace
<1> QED BY <1>3, <1>4, <1>5 DEF WaiterInv

\* A settlement ends a wait and starts none.
LEMMA SettleEnds ==
  ASSUME TypeOK, NEW r \in Request, NEW o \in {"resolved", "timedout"}, Settle(r, o)
  PROVE  /\ st' \in [Request -> Outcome]
         /\ \A q \in Request : st'[q] = "waiting" => q # r /\ st[q] = "waiting"
BY DEF TypeOK, Settle, Outcome

LEMMA TimeoutKeepsInv ==
  ASSUME WaiterInv, NEW r \in Request, Timeout(r)
  PROVE  WaiterInv'
<1>0. TypeOK /\ OwnReplyOnly /\ AtRest /\ InPlace
  BY DEF WaiterInv
<1>1. /\ st' \in [Request -> Outcome]
      /\ \A q \in Request : st'[q] = "waiting" => q # r /\ st[q] = "waiting"
  BY <1>0, SettleEnds DEF Timeout
<1>2. /\ waiters' \in Seq(Request)
      /\ \A j \in DOMAIN waiters : waiters[j] # r =>
           \E l \in DOMAIN waiters' : waiters'[l] = waiters[j]
  BY <1>0, WithoutKeepsOthers DEF Timeout, TypeOK
<1>3. TypeOK'
  BY <1>0, <1>1, <1>2 DEF Timeout, TypeOK, loop
<1>4. OwnReplyOnly' /\ AtRest'
  BY <1>0 DEF Timeout, OwnReplyOnly, AtRest, loop
<1>5. InPlace'
  <2> SUFFICES ASSUME ~raced' PROVE InPlace'
    BY DEF InPlace
  <2>1. ~raced /\ frame = None /\ i = 1 /\ asked = None
        /\ frame' = None /\ i' = 1 /\ asked' = None
    BY <1>0 DEF Timeout, AtRest, TypeOK, loop
  <2>2. ASSUME NEW q \in Request, st'[q] = "waiting"
        PROVE  \E n \in DOMAIN waiters' : waiters'[n] = q /\ (frame' = q => n >= i')
    <3>1. q # r /\ st[q] = "waiting" /\ frame' # q
      BY <1>1, <2>1, <2>2, RequestAssumption
    <3>2. PICK n \in DOMAIN waiters : waiters[n] = q
      BY <1>0, <2>1, <3>1 DEF InPlace
    <3> QED BY <1>2, <3>1, <3>2
  <2>3. i' <= Len(waiters') + 1
    BY <1>2, <2>1, LenProperties
  <2> QED BY <2>1, <2>2, <2>3 DEF InPlace
<1> QED BY <1>3, <1>4, <1>5 DEF WaiterInv

LEMMA CloseKeepsInv ==
  ASSUME WaiterInv, Close
  PROVE  WaiterInv'
<1>0. TypeOK /\ OwnReplyOnly /\ AtRest /\ InPlace
  BY DEF WaiterInv
<1>1. TypeOK'
  BY <1>0, EmptySeq DEF Close, TypeOK, loop, Outcome
<1>2. OwnReplyOnly' /\ AtRest'
  BY <1>0 DEF Close, OwnReplyOnly, AtRest, loop
<1>3. InPlace'
  <2> SUFFICES ASSUME ~raced' PROVE InPlace'
    BY DEF InPlace
  <2>1. ~raced /\ i' = 1 /\ asked' = None /\ waiters' = <<>>
    BY <1>0 DEF Close, AtRest, TypeOK, loop
  <2>2. \A r \in Request : st'[r] # "waiting"
    <3> SUFFICES ASSUME NEW r \in Request, st[r] = "waiting" PROVE r \in Range(waiters)
      BY <1>0 DEF Close, TypeOK
    <3> QED BY <1>0, <2>1 DEF InPlace, Range
  <2> QED BY <2>1, <2>2 DEF InPlace
<1> QED BY <1>1, <1>2, <1>3 DEF WaiterInv

LEMMA FrameKeepsInv ==
  ASSUME WaiterInv,
         \/ \E r \in Request : Reply(r)
         \/ \E f \in Frame : Take(f)
         \/ OnTspFrame
  PROVE  WaiterInv'
<1>0. TypeOK /\ OwnReplyOnly /\ AtRest /\ InPlace
  BY DEF WaiterInv
<1>1. CASE \E r \in Request : Reply(r)
  BY <1>0, <1>1 DEF Reply, WaiterInv, TypeOK, OwnReplyOnly, AtRest, InPlace, loop, Frame
<1>2. ASSUME NEW f \in Frame, Take(f) PROVE WaiterInv'
  <2>1. TypeOK' /\ OwnReplyOnly' /\ AtRest'
    BY <1>0, <1>2, RequestAssumption DEF Take, TypeOK, OwnReplyOnly, AtRest, Frame
  <2>2. InPlace'
    <3>1. /\ raced' = raced /\ asked' = None /\ i' = 1 /\ waiters' = waiters /\ st' = st
          /\ waiters \in Seq(Request)
      BY <1>0, <1>2 DEF Take, TypeOK
    <3>2. Len(waiters) \in Nat /\ \A n \in DOMAIN waiters : n >= 1
      BY <3>1, LenProperties
    <3> QED BY <1>0, <3>1, <3>2 DEF InPlace
  <2> QED BY <2>1, <2>2 DEF WaiterInv
<1>3. CASE Offer
  <2>1. waiters \in Seq(Request) /\ i \in Nat \ {0} /\ i <= Len(waiters) /\ i' = i
    BY <1>0, <1>3 DEF Offer, TypeOK
  <2>2. i \in DOMAIN waiters /\ waiters[i] \in Request
    BY <2>1, ElementOfSeq, LenProperties
  <2>3. TypeOK' /\ OwnReplyOnly' /\ AtRest'
    BY <1>0, <1>3, <2>2 DEF Offer, TypeOK, OwnReplyOnly, AtRest
  <2>4. InPlace'
    BY <1>0, <1>3, <2>1, <2>2 DEF Offer, InPlace
  <2> QED BY <2>3, <2>4 DEF WaiterInv
<1>4. CASE Claimed
  <2>1. asked \in Request /\ frame = asked /\ frame \in Frame /\ i \in Nat
    BY <1>0, <1>4, RequestAssumption DEF Claimed, Claims, TypeOK
  <2>2. /\ st' \in [Request -> Outcome]
        /\ \A q \in Request : st'[q] = "waiting" => q # asked /\ st[q] = "waiting"
    BY <1>0, <1>4, <2>1, SettleEnds DEF Claimed
  <2>3. /\ waiters' \in Seq(Request)
        /\ \A j \in DOMAIN waiters : j # i =>
             \E l \in DOMAIN waiters' : waiters'[l] = waiters[j]
    BY <1>0, <1>4, <2>1, SpliceKeepsOthers DEF Claimed, TypeOK
  <2>4. frame' = None /\ asked' = None /\ i' = 1 /\ raced' = raced
    BY <1>4 DEF Claimed, EndFrame
  <2>5. /\ got' \in [Request -> Frame \cup {None}]
        /\ \A q \in Request : got'[q] \in {got[q], q}
        /\ \A q \in Request : q # asked => got'[q] = got[q]
    BY <1>0, <1>4, <2>1 DEF Claimed, TypeOK
  <2>6. TypeOK'
    BY <1>0, <1>4, <2>2, <2>3, <2>4, <2>5 DEF Claimed, TypeOK
  <2>7. OwnReplyOnly' /\ AtRest'
    BY <1>0, <2>4, <2>5 DEF OwnReplyOnly, AtRest
  <2>8. InPlace'
    <3> SUFFICES ASSUME ~raced PROVE InPlace'
      BY <2>4 DEF InPlace
    <3>1. ASSUME NEW q \in Request, st'[q] = "waiting"
          PROVE  \E n \in DOMAIN waiters' : waiters'[n] = q /\ (frame' = q => n >= i')
      <4>1. q # asked /\ st[q] = "waiting" /\ frame' # q
        BY <2>2, <2>4, <3>1, RequestAssumption
      <4>2. PICK n \in DOMAIN waiters : waiters[n] = q
        BY <1>0, <4>1 DEF InPlace
      <4>3. waiters[i] = asked
        BY <1>0, <2>1, RequestAssumption DEF InPlace
      <4> QED BY <2>3, <4>1, <4>2, <4>3
    <3>2. i' <= Len(waiters') + 1
      BY <2>3, <2>4, LenProperties
    <3> QED BY <2>4, <3>1, <3>2 DEF InPlace
  <2> QED BY <2>6, <2>7, <2>8 DEF WaiterInv
<1>5. CASE Declined
  <2>1. TypeOK' /\ OwnReplyOnly' /\ AtRest'
    BY <1>0, <1>5 DEF Declined, TypeOK, OwnReplyOnly, AtRest
  <2>2. InPlace'
    <3> SUFFICES ASSUME ~raced PROVE InPlace'
      BY <1>5 DEF InPlace, Declined
    <3>1. /\ asked # None /\ asked # frame /\ asked' = None /\ i' = i + 1 /\ i \in Nat
          /\ waiters' = waiters /\ st' = st /\ frame' = frame
          /\ waiters \in Seq(Request)
      BY <1>0, <1>5 DEF Declined, Claims, TypeOK
    <3>2. i \in DOMAIN waiters /\ waiters[i] = asked
      BY <1>0, <3>1 DEF InPlace
    <3>3. Len(waiters) \in Nat /\ DOMAIN waiters = 1..Len(waiters)
      BY <3>1, LenProperties
    <3>4. ASSUME NEW q \in Request, st[q] = "waiting"
          PROVE  \E n \in DOMAIN waiters : waiters[n] = q /\ (frame = q => n >= i + 1)
      <4>1. PICK n \in DOMAIN waiters : waiters[n] = q /\ (frame = q => n >= i)
        BY <1>0, <3>4 DEF InPlace
      <4>2. frame = q => n # i
        BY <3>1, <3>2, <4>1
      <4> QED BY <3>1, <3>3, <4>1, <4>2
    <3>5. i + 1 <= Len(waiters) + 1
      BY <3>2, <3>3
    <3> QED BY <3>1, <3>4, <3>5 DEF InPlace
  <2> QED BY <2>1, <2>2 DEF WaiterInv
<1>6. CASE Unclaimed
  <2>1. TypeOK' /\ OwnReplyOnly' /\ AtRest'
    BY <1>0, <1>6 DEF Unclaimed, EndFrame, TypeOK, OwnReplyOnly, AtRest
  <2>2. /\ raced' = raced /\ asked' = None /\ i' = 1 /\ waiters' = waiters /\ st' = st
        /\ frame' = None /\ waiters \in Seq(Request)
    BY <1>0, <1>6 DEF Unclaimed, EndFrame, TypeOK
  <2>3. Len(waiters) \in Nat
    BY <2>2, LenProperties
  <2>4. InPlace'
    BY <1>0, <2>2, <2>3, RequestAssumption DEF InPlace
  <2> QED BY <2>1, <2>4 DEF WaiterInv
<1> QED BY <1>1, <1>2, <1>3, <1>4, <1>5, <1>6 DEF OnTspFrame

LEMMA WaiterStep ==
  ASSUME WaiterInv, [Next]_vars
  PROVE  WaiterInv'
<1>1. CASE UNCHANGED vars
  BY <1>1 DEF vars, loop, WaiterInv, TypeOK, OwnReplyOnly, AtRest, InPlace
<1>2. CASE Next
  BY <1>2, SendKeepsInv, TimeoutKeepsInv, CloseKeepsInv, FrameKeepsInv DEF Next
<1> QED BY <1>1, <1>2

\* A frame goes to the inbox when no waiter is left to ask; unraced, the request it
\* answers would have stood at or after the loop's index.
LEMMA UnclaimedOnlyIfDone ==
  ASSUME WaiterInv, [Next]_vars, NEW r \in Request, r \notin inbox, r \in inbox'
  PROVE  st[r] # "waiting" \/ raced
<1>1. Unclaimed
  BY DEF vars, Next, Send, SendFails, Reply, Timeout, Take, Close, OnTspFrame, Offer,
         Claimed, Declined
<1>2. frame = r /\ i > Len(waiters) /\ waiters \in Seq(Request) /\ i \in Nat
  BY <1>1 DEF Unclaimed, WaiterInv, TypeOK
<1>3. SUFFICES ASSUME st[r] = "waiting", ~raced PROVE FALSE
  OBVIOUS
<1>4. PICK n \in DOMAIN waiters : n >= i
  BY <1>2, <1>3 DEF WaiterInv, InPlace
<1> QED BY <1>2, <1>4, LenProperties

-----------------------------------------------------------------------------
(* The requests.                                                           *)

\* Every step of a request, a sign-in or the agent is a step of the connection or
\* leaves it alone.
LEMMA VtaStepIsStep ==
  ASSUME [VtaNext]_vtaVars
  PROVE  [Next]_vars
<1>1. ASSUME NEW r \in Request, Sends(r) PROVE [Next]_vars
  <2>1. CASE TspSends(r)
    BY <2>1 DEF TspSends, Next, Fails, Ends
  <2>2. CASE ~TspSends(r)
    BY <1>1, <2>2 DEF Sends, BuildTsp, BuildRest, TspReturns, DidcommSends,
                      DidcommReturns, Bearer, Posts, PostReturns, Reauth
  <2> QED BY <2>1, <2>2
<1>2. ASSUME NEW r \in Request, TspTimesOut(r) PROVE Next
  BY <1>2 DEF TspTimesOut, Next
<1>3. CASE Connection
  BY <1>3 DEF Connection, Next
<1>4. CASE CooldownEnds \/ SignIn \/ Expire \/ Restart
  BY <1>4 DEF CooldownEnds, SignIn, Mint, SignedIn, SignInFails, Expire, Restart
<1>5. CASE UNCHANGED vtaVars
  BY <1>5 DEF vtaVars
<1> QED BY <1>1, <1>2, <1>3, <1>4, <1>5 DEF VtaNext

\* Where a request is while RestChannel carries it.
RestLabel == {"signIn", "bearer", "post", "posted", "refused"}

\* A request has been sent only while its answer is awaited, over one transport;
\* while it tries a channel there is one to try.
SessionInv ==
  /\ services \subseteq {"tsp", "didcomm", "rest"}
  /\ at \in [Request -> Label]
  /\ chain \in [Request -> Seq(services)]
  /\ over \in [Request -> SUBSET services]
  /\ AppliedOnce
  /\ \A r \in Request : at[r] \notin {"tspReply", "reply", "posted"} => over[r] = {}
  /\ \A r \in Request : at[r] = "try" => chain[r] # <<>>
  /\ \A r \in Request : at[r] \in RestLabel => "rest" \in services

\* No token is newer than the agent's newest, and a refused one is older.
BearerInv ==
  /\ tok \in [Request -> Nat] /\ cached \in Nat /\ live \in Nat /\ minted \in Nat
  /\ again \subseteq Request
  /\ signing \in {"no", "asked", "minted"}
  /\ \A r \in Request : tok[r] <= live /\ (at[r] = "refused" => tok[r] # live)
  /\ cached <= live /\ minted <= live

VtaInv == SessionInv /\ BearerInv /\ sits \in BOOLEAN

LEMMA VtaInitially == VtaInit => VtaInv
<1> SUFFICES ASSUME VtaInit PROVE VtaInv
  OBVIOUS
<1>1. SessionInv
  <2>1. chain \in [Request -> Seq(services)]
    BY EmptySeq DEF VtaInit
  <2>2. at \in [Request -> Label] /\ \A r \in Request : at[r] = "new"
    BY DEF VtaInit, Label
  <2>3. /\ services \subseteq {"tsp", "didcomm", "rest"}
        /\ over \in [Request -> SUBSET services]
        /\ \A r \in Request : over[r] = {}
    BY DEF VtaInit
  <2> QED BY <2>1, <2>2, <2>3 DEF SessionInv, AppliedOnce, RestLabel
<1>2. BearerInv
  BY DEF VtaInit, BearerInv
<1>3. sits \in BOOLEAN
  BY DEF VtaInit
<1> QED BY <1>1, <1>2, <1>3 DEF VtaInv

\* A step of one request, by its new label l, channels c and transports o.
LEMMA StepKeepsSession ==
  ASSUME SessionInv, services' = services, NEW r \in Request,
         NEW l \in Label, at' = [at EXCEPT ![r] = l],
         NEW c \in Seq(services), chain' = [chain EXCEPT ![r] = c], l = "try" => c # <<>>,
         NEW o \in SUBSET services, over' = [over EXCEPT ![r] = o],
         \A k, m \in o : k = m, l \notin {"tspReply", "reply", "posted"} => o = {},
         l \in RestLabel => "rest" \in services
  PROVE  SessionInv'
<1>1. at' \in [Request -> Label] /\ chain' \in [Request -> Seq(services)]
      /\ over' \in [Request -> SUBSET services]
  BY DEF SessionInv
<1>2. \A q \in Request : q # r => at'[q] = at[q] /\ chain'[q] = chain[q] /\ over'[q] = over[q]
  BY DEF SessionInv
<1>3. at'[r] = l /\ chain'[r] = c /\ over'[r] = o
  BY DEF SessionInv
<1>4. AppliedOnce'
  BY <1>2, <1>3 DEF SessionInv, AppliedOnce
<1>5. /\ \A q \in Request : at'[q] \notin {"tspReply", "reply", "posted"} => over'[q] = {}
      /\ \A q \in Request : at'[q] = "try" => chain'[q] # <<>>
      /\ \A q \in Request : at'[q] \in RestLabel => "rest" \in services'
  BY <1>2, <1>3 DEF SessionInv
<1>6. services' \subseteq {"tsp", "didcomm", "rest"}
  BY DEF SessionInv
<1> QED BY <1>1, <1>4, <1>5, <1>6 DEF SessionInv

\* The same of a request that stays with its channels, or leaves them.
LEMMA GotoKeepsSession ==
  ASSUME SessionInv, services' = services, NEW r \in Request,
         NEW l \in Label \ {"try", "tspReply", "reply", "posted"}, Goto(r, l),
         l \in RestLabel => "rest" \in services,
         over[r] = {}, over' = over, chain' = chain
  PROVE  SessionInv'
<1>1. chain[r] \in Seq(services) /\ chain' = [chain EXCEPT ![r] = chain[r]]
      /\ over' = [over EXCEPT ![r] = {}]
  BY DEF SessionInv
<1> QED BY <1>1, StepKeepsSession DEF Goto

LEMMA EndKeepsSession ==
  ASSUME SessionInv, services' = services, NEW r \in Request, Fails(r) \/ Returns(r)
  PROVE  SessionInv'
<1>1. PICK l \in {"failed", "done"} : Ends(r, l)
  BY DEF Fails, Returns
<1>2. /\ at' = [at EXCEPT ![r] = l] /\ chain' = [chain EXCEPT ![r] = <<>>]
      /\ over' = [over EXCEPT ![r] = {}]
  BY <1>1 DEF Ends, Goto
<1>3. l \in Label /\ l # "try" /\ l \notin RestLabel /\ <<>> \in Seq(services) /\ {} \in SUBSET services
      /\ \A k, m \in {} : k = m
  BY EmptySeq DEF Label, RestLabel
<1> QED BY <1>2, <1>3, StepKeepsSession

\* A request is sent over the one transport it tries.
LEMMA CarryKeepsSession ==
  ASSUME SessionInv, services' = services, NEW r \in Request, over[r] = {},
         NEW kind \in services, Carry(r, kind),
         NEW l \in {"tspReply", "reply", "posted"}, Goto(r, l), chain' = chain,
         l = "posted" => kind = "rest"
  PROVE  SessionInv'
<1>1. chain[r] \in Seq(services) /\ chain' = [chain EXCEPT ![r] = chain[r]]
      /\ over' = [over EXCEPT ![r] = {kind}] /\ at' = [at EXCEPT ![r] = l]
  BY DEF SessionInv, Carry, Goto
<1>2. /\ l \in Label /\ l # "try" /\ (l \in RestLabel => "rest" \in services)
      /\ {kind} \in SUBSET services /\ \A k, m \in {kind} : k = m
  BY DEF Label, RestLabel
<1> QED BY <1>1, <1>2, StepKeepsSession

\* The next channel is tried, if there is one.
LEMMA UnsupportedKeepsSession ==
  ASSUME SessionInv, services' = services, NEW r \in Request, at[r] = "try",
         Unsupported(r), over' = over
  PROVE  SessionInv'
<1>1. chain[r] \in Seq(services) /\ chain[r] # <<>> /\ over[r] = {}
  BY DEF SessionInv
<1>2. /\ Len(chain[r]) \in Nat /\ Tail(chain[r]) \in Seq(services)
      /\ Len(Tail(chain[r])) = Len(chain[r]) - 1 /\ Len(chain[r]) # 0
  BY <1>1, HeadTailProperties, LenProperties, EmptySeq
<1>3. Len(chain[r]) # 1 => Tail(chain[r]) # <<>>
  <2>1. Len(chain[r]) # 1 => Len(Tail(chain[r])) # 0
    BY <1>2
  <2>2. \A q \in Seq(services) : q = <<>> => Len(q) = 0
    BY EmptySeq
  <2> QED BY <1>2, <2>1, <2>2
<1>4. over' = [over EXCEPT ![r] = {}]
  BY <1>1 DEF SessionInv
<1>5. CASE Len(chain[r]) = 1
  BY <1>2, <1>4, <1>5, StepKeepsSession DEF Unsupported, Goto, Label, RestLabel
<1>6. CASE Len(chain[r]) # 1
  BY <1>2, <1>3, <1>4, <1>6, StepKeepsSession DEF Unsupported, Goto, Label, RestLabel
<1> QED BY <1>5, <1>6

LEMMA BuildKeepsSession ==
  ASSUME SessionInv, NEW r \in Request, BuildTsp(r) \/ BuildRest(r)
  PROVE  SessionInv'
<1>1. ASSUME NEW kind \in {"tsp", "didcomm"}, NEW c \in Built(r, kind) PROVE c \in Seq(services)
  <2>1. chain[r] \in Seq(services)
    BY DEF SessionInv
  <2>2. kind \in services => Append(chain[r], kind) \in Seq(services)
    BY <2>1, AppendProperties
  <2> QED BY <1>1, <2>1, <2>2 DEF Built
<1>2. over' = [over EXCEPT ![r] = {}] /\ services' = services
  BY DEF SessionInv, BuildTsp, BuildRest
<1>3. CASE BuildTsp(r)
  <2>1. PICK c \in Built(r, "tsp") : chain' = [chain EXCEPT ![r] = c]
    BY <1>3 DEF BuildTsp
  <2>2. c \in Seq(services)
    BY <1>1
  <2>3. at' = [at EXCEPT ![r] = "build"] /\ "build" \in Label \ RestLabel
    BY <1>3 DEF BuildTsp, Goto, Label, RestLabel
  <2> QED BY <1>2, <2>1, <2>2, <2>3, StepKeepsSession
<1>4. CASE BuildRest(r)
  <2>1. PICK c \in Built(r, "didcomm") :
          LET all == IF "rest" \in services THEN Append(c, "rest") ELSE c IN
          /\ chain' = [chain EXCEPT ![r] = all]
          /\ Goto(r, IF all = <<>> THEN "failed" ELSE "try")
    BY <1>4 DEF BuildRest
  <2> DEFINE all == IF "rest" \in services THEN Append(c, "rest") ELSE c
  <2>2. c \in Seq(services)
    BY <1>1
  <2>3. all \in Seq(services)
    BY <2>2, AppendProperties
  <2>4. chain' = [chain EXCEPT ![r] = all] /\ Goto(r, IF all = <<>> THEN "failed" ELSE "try")
    BY <2>1
  <2> HIDE DEF all
  <2>5. PICK l \in {"failed", "try"} : at' = [at EXCEPT ![r] = l] /\ (l = "try" => all # <<>>)
    BY <2>4 DEF Goto
  <2>6. l \in Label \ RestLabel
    BY DEF Label, RestLabel
  <2> QED BY <1>2, <2>3, <2>4, <2>5, <2>6, StepKeepsSession
<1> QED BY <1>3, <1>4

\* A step that leaves the bearer alone and refuses no request.
LEMMA QuietKeepsBearer ==
  ASSUME BearerInv, UNCHANGED bearer,
         \A q \in Request : at'[q] = "refused" => at[q] = "refused" \/ tok[q] # live
  PROVE  BearerInv'
BY DEF BearerInv, bearer

\* What each step makes of a request's label.
LEMMA GotoLabels ==
  ASSUME SessionInv, NEW r \in Request, NEW l, Goto(r, l)
  PROVE  at'[r] = l /\ \A q \in Request : q # r => at'[q] = at[q]
BY DEF SessionInv, Goto

\* A request's steps over the connection.
LEMMA ChannelKeepsInv ==
  ASSUME VtaInv, NEW r \in Request,
         \/ BuildTsp(r) \/ BuildRest(r)
         \/ TspSends(r) \/ TspReturns(r) \/ DidcommSends(r) \/ DidcommReturns(r)
  PROVE  VtaInv'
<1>0. SessionInv /\ BearerInv /\ sits \in BOOLEAN
  BY DEF VtaInv
<1>1. UNCHANGED bearer
  BY DEF BuildTsp, BuildRest, TspSends, TspReturns, DidcommSends, DidcommReturns
<1>2. sits' \in BOOLEAN
  BY <1>0 DEF BuildTsp, BuildRest, TspSends, TspReturns, DidcommSends, DidcommReturns
<1>3. PICK l \in Label \ {"refused"} : Goto(r, l)
  BY DEF BuildTsp, BuildRest, TspSends, TspReturns, DidcommSends, DidcommReturns,
         Unsupported, Fails, Returns, Ends, Label
<1>4. BearerInv'
  BY <1>0, <1>1, <1>3, GotoLabels, QuietKeepsBearer
<1>5. SessionInv'
  <2>1. ASSUME NEW kind, Tries(r, kind)
        PROVE  at[r] = "try" /\ kind \in services /\ over[r] = {}
    <3>1. chain[r] \in Seq(services) /\ chain[r] # <<>>
      BY <1>0, <2>1 DEF SessionInv, Tries
    <3>2. Head(chain[r]) \in services
      BY <3>1, HeadTailProperties
    <3> QED BY <1>0, <2>1, <3>2 DEF SessionInv, Tries
  <2>2. CASE BuildTsp(r) \/ BuildRest(r)
    BY <1>0, <2>2, BuildKeepsSession
  <2>3. CASE TspSends(r)
    <3>1. services' = services /\ at[r] = "try" /\ "tsp" \in services /\ over[r] = {}
      BY <2>1, <2>3 DEF TspSends
    <3>2. CASE Carry(r, "tsp") /\ Goto(r, "tspReply") /\ UNCHANGED chain
      BY <1>0, <3>1, <3>2, CarryKeepsSession
    <3>3. CASE Unsupported(r) /\ UNCHANGED over
      BY <1>0, <3>1, <3>3, UnsupportedKeepsSession
    <3>4. CASE Fails(r)
      BY <1>0, <3>1, <3>4, EndKeepsSession
    <3> QED BY <2>3, <3>2, <3>3, <3>4 DEF TspSends
  <2>4. CASE DidcommSends(r)
    <3>1. services' = services /\ "didcomm" \in services /\ over[r] = {}
      BY <2>1, <2>4 DEF DidcommSends
    <3>2. CASE Carry(r, "didcomm") /\ Goto(r, "reply") /\ UNCHANGED chain
      BY <1>0, <3>1, <3>2, CarryKeepsSession
    <3>3. CASE Fails(r)
      BY <1>0, <3>1, <3>3, EndKeepsSession
    <3> QED BY <2>4, <3>2, <3>3 DEF DidcommSends
  <2>5. CASE TspReturns(r) \/ DidcommReturns(r)
    BY <1>0, <2>5, EndKeepsSession DEF TspReturns, DidcommReturns
  <2> QED BY <2>2, <2>3, <2>4, <2>5
<1> QED BY <1>2, <1>4, <1>5 DEF VtaInv

\* A request's steps over REST.
LEMMA RestKeepsInv ==
  ASSUME VtaInv, NEW r \in Request, Bearer(r) \/ Posts(r) \/ PostReturns(r) \/ Reauth(r)
  PROVE  VtaInv'
<1>0. SessionInv /\ BearerInv /\ sits \in BOOLEAN
  BY DEF VtaInv
<1>1. sits' \in BOOLEAN /\ services' = services
  BY <1>0 DEF Bearer, Posts, PostReturns, Reauth
<1>2. CASE Bearer(r)
  <2>1. at[r] \in {"try", "bearer"} /\ over[r] = {} /\ over' = over /\ chain' = chain
    BY <1>0, <1>2 DEF SessionInv, Bearer, Tries
  <2>0. "rest" \in services
    <3>1. CASE Tries(r, "rest")
      BY <1>0, <3>1, HeadTailProperties DEF SessionInv, Tries
    <3>2. CASE at[r] = "bearer"
      BY <1>0, <3>2 DEF SessionInv, RestLabel
    <3> QED BY <1>2, <3>1, <3>2 DEF Bearer
  <2>2. PICK l \in {"post", "signIn"} :
          /\ Goto(r, l)
          /\ l = "post" => cached # 0 /\ tok' = [tok EXCEPT ![r] = cached]
          /\ l = "signIn" => tok' = tok
    BY <1>2 DEF Bearer
  <2>3. l \in Label \ {"try", "tspReply", "reply", "posted"}
    BY DEF Label
  <2>4. SessionInv'
    BY <1>0, <1>1, <2>0, <2>1, <2>2, <2>3, GotoKeepsSession
  <2>5. at'[r] # "refused" /\ \A q \in Request : q # r => at'[q] = at[q]
    BY <1>0, <2>2, GotoLabels
  <2>6. /\ tok' \in [Request -> Nat] /\ tok'[r] <= live
        /\ \A q \in Request : q # r => tok'[q] = tok[q]
    BY <1>0, <2>2 DEF BearerInv
  <2>7. BearerInv'
    BY <1>0, <1>2, <2>5, <2>6 DEF BearerInv, Bearer
  <2> QED BY <1>1, <2>4, <2>7 DEF VtaInv
<1>3. CASE Posts(r)
  <2>1. over[r] = {} /\ "rest" \in services
    BY <1>0, <1>3 DEF SessionInv, Posts, RestLabel
  <2>2. CASE tok[r] = live /\ Goto(r, "posted") /\ Carry(r, "rest") /\ UNCHANGED chain
    <3>2. SessionInv'
      BY <1>0, <1>1, <1>3, <2>1, <2>2, CarryKeepsSession DEF Posts
    <3>3. BearerInv'
      BY <1>0, <1>3, <2>2, GotoLabels, QuietKeepsBearer DEF Posts
    <3> QED BY <1>1, <3>2, <3>3 DEF VtaInv
  <2>3. CASE tok[r] # live /\ Goto(r, "refused") /\ UNCHANGED <<over, chain>>
    <3>1. SessionInv'
      BY <1>0, <1>1, <2>1, <2>3, GotoKeepsSession DEF Label
    <3>2. BearerInv'
      BY <1>0, <1>3, <2>3, GotoLabels, QuietKeepsBearer DEF Posts
    <3> QED BY <1>1, <3>1, <3>2 DEF VtaInv
  <2>4. CASE Fails(r)
    <3>1. BearerInv'
      BY <1>0, <1>3, <2>4, GotoLabels, QuietKeepsBearer DEF Posts, Fails, Ends
    <3> QED BY <1>0, <1>1, <2>4, <3>1, EndKeepsSession DEF VtaInv
  <2> QED BY <1>3, <2>2, <2>3, <2>4 DEF Posts
<1>4. CASE PostReturns(r)
  <2>1. BearerInv'
    BY <1>0, <1>4, GotoLabels, QuietKeepsBearer DEF PostReturns, Fails, Returns, Ends
  <2> QED BY <1>0, <1>1, <1>4, <2>1, EndKeepsSession DEF VtaInv, PostReturns
<1>5. CASE Reauth(r)
  <2>1. over[r] = {} /\ "rest" \in services
    BY <1>0, <1>5 DEF SessionInv, Reauth, RestLabel
  <2>2. CASE Fails(r) /\ UNCHANGED <<again, cached>>
    <3>1. at'[r] # "refused" /\ \A q \in Request : q # r => at'[q] = at[q]
      BY <1>0, <2>2, GotoLabels DEF Fails, Ends
    <3>2. BearerInv'
      BY <1>0, <1>5, <2>2, <3>1 DEF BearerInv, Reauth
    <3> QED BY <1>0, <1>1, <2>2, <3>2, EndKeepsSession DEF VtaInv
  <2>3. CASE /\ Goto(r, "bearer") /\ UNCHANGED <<chain, over>>
             /\ again' = again \cup {r} /\ cached' = Drops(r)
    <3>1. SessionInv'
      BY <1>0, <1>1, <2>1, <2>3, GotoKeepsSession DEF Label
    <3>2. at'[r] # "refused" /\ \A q \in Request : q # r => at'[q] = at[q]
      BY <1>0, <2>3, GotoLabels
    <3>3. BearerInv'
      BY <1>0, <1>5, <2>3, <3>2 DEF BearerInv, Reauth, Drops
    <3> QED BY <1>1, <3>1, <3>3 DEF VtaInv
  <2> QED BY <1>5, <2>2, <2>3 DEF Reauth
<1> QED BY <1>2, <1>3, <1>4, <1>5

\* The sign-in, the agent, the mediator's rest and the connection.
LEMMA OthersKeepInv ==
  ASSUME VtaInv,
         \/ SignIn \/ Expire \/ Restart \/ Connection \/ CooldownEnds
         \/ \E r \in Request : TspTimesOut(r)
  PROVE  VtaInv'
<1>0. SessionInv /\ BearerInv /\ sits \in BOOLEAN
  BY DEF VtaInv
<1>1. CASE Mint \/ Expire \/ Restart
  <2>1. SessionInv' /\ sits' \in BOOLEAN
    BY <1>0, <1>1 DEF Mint, Expire, Restart, session, SessionInv, AppliedOnce, RestLabel
  <2>2. BearerInv'
    BY <1>0, <1>1 DEF Mint, Expire, Restart, session, BearerInv
  <2> QED BY <2>1, <2>2 DEF VtaInv
<1>2. CASE SignedIn
  <2>1. /\ at' \in [Request -> Label]
        /\ \A q \in Request : at'[q] = at[q] \/ (at[q] = "signIn" /\ at'[q] = "post")
    BY <1>0, <1>2 DEF SignedIn, Waits, SessionInv, Label
  <2>2. SessionInv'
    BY <1>0, <1>2, <2>1 DEF SignedIn, SessionInv, AppliedOnce, RestLabel
  <2>3. /\ tok' \in [Request -> Nat]
        /\ \A q \in Request : tok'[q] \in {tok[q], minted}
        /\ \A q \in Request : at[q] # "signIn" => tok'[q] = tok[q]
    BY <1>0, <1>2 DEF SignedIn, Waits, BearerInv
  <2>4. BearerInv'
    BY <1>0, <1>2, <2>1, <2>3 DEF SignedIn, BearerInv
  <2>5. sits' \in BOOLEAN
    BY <1>0, <1>2 DEF SignedIn
  <2> QED BY <2>2, <2>4, <2>5 DEF VtaInv
<1>3. CASE SignInFails
  <2>1. /\ at' \in [Request -> Label]
        /\ \A q \in Request : at'[q] = at[q] \/ (at[q] = "signIn" /\ at'[q] = "failed")
    BY <1>0, <1>3 DEF SignInFails, Waits, SessionInv, Label
  <2>2. /\ chain' \in [Request -> Seq(services)]
        /\ \A q \in Request : at[q] # "signIn" => chain'[q] = chain[q]
    BY <1>0, <1>3, EmptySeq DEF SignInFails, Waits, SessionInv
  <2>3. SessionInv'
    BY <1>0, <1>3, <2>1, <2>2 DEF SignInFails, SessionInv, AppliedOnce, RestLabel
  <2>4. BearerInv'
    BY <1>0, <1>3, <2>1 DEF SignInFails, BearerInv
  <2>5. sits' \in BOOLEAN
    BY <1>0, <1>3 DEF SignInFails
  <2> QED BY <2>3, <2>4, <2>5 DEF VtaInv
<1>4. CASE Connection \/ CooldownEnds \/ \E r \in Request : TspTimesOut(r)
  <2>1. UNCHANGED session /\ UNCHANGED bearer
    BY <1>4 DEF Connection, CooldownEnds, TspTimesOut
  <2>2. sits' \in BOOLEAN
    BY <1>0, <1>4 DEF Connection, CooldownEnds, TspTimesOut
  <2>3. SessionInv' /\ BearerInv'
    BY <1>0, <2>1 DEF session, bearer, SessionInv, AppliedOnce, RestLabel, BearerInv
  <2> QED BY <2>2, <2>3 DEF VtaInv
<1> QED BY <1>1, <1>2, <1>3, <1>4 DEF SignIn

LEMMA VtaStep ==
  ASSUME VtaInv, [VtaNext]_vtaVars
  PROVE  VtaInv'
<1>1. CASE UNCHANGED vtaVars
  BY <1>1 DEF vtaVars, session, bearer, VtaInv, SessionInv, AppliedOnce, RestLabel, BearerInv
<1>2. ASSUME NEW r \in Request, Sends(r) PROVE VtaInv'
  BY <1>2, ChannelKeepsInv, RestKeepsInv DEF Sends
<1>3. CASE VtaNext
  BY <1>2, <1>3, OthersKeepInv DEF VtaNext
<1> QED BY <1>1, <1>3

\* A request leaves its refusal by Reauth alone, and the token it holds is not live.
LEMMA RefusalKeepsLiveToken ==
  ASSUME VtaInv, [VtaNext]_vtaVars,
         NEW r \in Request, at[r] = "refused", at'[r] # "refused", cached = live
  PROVE  cached' = cached
<1>1. ASSUME NEW q \in Request, Sends(q), q # r PROVE at'[r] = at[r]
  BY <1>1 DEF VtaInv, SessionInv, Sends, BuildTsp, BuildRest, TspSends, TspReturns,
              DidcommSends, DidcommReturns, Bearer, Posts, PostReturns, Reauth,
              Unsupported, Fails, Returns, Ends, Goto
<1>2. CASE Sends(r)
  <2>1. Reauth(r)
    BY <1>2 DEF Sends, BuildTsp, BuildRest, TspSends, TspReturns, DidcommSends,
                DidcommReturns, Bearer, Posts, PostReturns, Tries
  <2> QED BY <2>1 DEF Reauth, Drops, VtaInv, BearerInv
<1>3. ASSUME NEW q \in Request, TspTimesOut(q) PROVE at' = at
  BY <1>3 DEF TspTimesOut, session
<1>4. CASE Connection \/ CooldownEnds \/ Mint \/ Expire \/ Restart
  BY <1>4 DEF Connection, CooldownEnds, Mint, Expire, Restart, session
<1>5. CASE SignedIn \/ SignInFails
  BY <1>5 DEF SignedIn, SignInFails, Waits, VtaInv, SessionInv
<1>6. CASE UNCHANGED vtaVars
  BY <1>6 DEF vtaVars, session
<1> QED BY <1>1, <1>2, <1>3, <1>4, <1>5, <1>6 DEF VtaNext, SignIn

-----------------------------------------------------------------------------
(* The theorems.                                                           *)

\* The requests use the connection as TspWaiters says it is used.
THEOREM RequestsImplementConnection == VtaSpec => Spec
<1>1. VtaInit => Init
  BY DEF VtaInit
<1>2. [VtaNext]_vtaVars => [Next]_vars
  BY VtaStepIsStep
<1> QED BY <1>1, <1>2, PTL DEF VtaSpec, Spec

\* The invariant of the connection, and with it that a request resolves with its own
\* reply or not at all.
LEMMA WaiterInvariant == Spec => []WaiterInv
BY WaiterInitially, WaiterStep, PTL DEF Spec

THEOREM RepliesAreOwn == VtaSpec => []OwnReplyOnly
<1>1. WaiterInv => OwnReplyOnly
  BY DEF WaiterInv
<1> QED BY <1>1, RequestsImplementConnection, WaiterInvariant, PTL

\* A reply that no timer or close raced reaches the request that waits for it.
THEOREM RepliesReachRequests == VtaSpec => UnracedReplyReachesRequest
<1>1. WaiterInv /\ [Next]_vars
        => [\A r \in Request : r \notin inbox /\ r \in inbox' => st[r] # "waiting" \/ raced]_vars
  BY UnclaimedOnlyIfDone
<1> QED BY <1>1, RequestsImplementConnection, WaiterInvariant, PTL
        DEF Spec, UnracedReplyReachesRequest

LEMMA VtaInvariant == VtaSpec => []VtaInv
BY VtaInitially, VtaStep, PTL DEF VtaSpec

THEOREM RequestsTyped == VtaSpec => []VtaTypeOK
<1>1. VtaInv => VtaTypeOK
  BY DEF VtaInv, SessionInv, BearerInv, VtaTypeOK
<1> QED BY <1>1, VtaInvariant, PTL

\* No request goes out over a second transport once it may have arrived by a first.
THEOREM SentOverOneTransport == VtaSpec => []AppliedOnce
<1>1. VtaInv => AppliedOnce
  BY DEF VtaInv, SessionInv
<1> QED BY <1>1, VtaInvariant, PTL

\* No refusal throws away the live token, however many requests were refused.
THEOREM LiveTokensStay == VtaSpec => LiveTokenKept
<1>1. VtaInv /\ [VtaNext]_vtaVars
        => [\A r \in Request : at[r] = "refused" /\ at'[r] # "refused" /\ cached = live
              => cached' = cached]_vtaVars
  BY RefusalKeepsLiveToken
<1> QED BY <1>1, VtaInvariant, PTL DEF VtaSpec, LiveTokenKept
=============================================================================
