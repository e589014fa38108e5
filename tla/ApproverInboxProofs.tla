------------------------- MODULE ApproverInboxProofs -------------------------
(***************************************************************************)
(* The approver inbox implements the scheduler it is composed with: every  *)
(* step of the pool, its callers, the network and the operator is a step   *)
(* of the scheduler or leaves it alone, so what is proved of the scheduler *)
(* alone holds in the composition.  And an inbox that has been up comes    *)
(* back: the pool, the callers and the count of attempts keep what a lost  *)
(* session needs to be brought up again (BringsBack).                      *)
(***************************************************************************)
EXTENDS ApproverInbox, ReconnectProofs

-----------------------------------------------------------------------------
(* The inbox.                                                              *)

\* A caller that is answered makes a scheduler step at most.
LEMMA ReturnIsSchedStep ==
  ASSUME NEW c \in Caller, NEW ok \in BOOLEAN, Return(c, ok)
  PROVE  [SchedNext]_schedVars
<1>1. CASE c \notin Flight
  BY <1>1 DEF Return
<1>2. CASE c \in Flight
  <2>1. c[1] \in Entry /\ (Succeeded(c[1]) \/ Failed(c[1]))
    BY <1>2, FlightOf DEF Return
  <2> QED BY <2>1 DEF SchedNext
<1> QED BY <1>1, <1>2

\* Creating a connection leaves the scheduler alone unless it fails at once.
LEMMA CreateIsSchedStep ==
  ASSUME NEW c \in Caller, Create(c)
  PROVE  [SchedNext]_schedVars
<1>1. CASE Return(c, FALSE)
  BY <1>1, ReturnIsSchedStep
<1>2. CASE UNCHANGED schedVars
  BY <1>2
<1> QED BY <1>1, <1>2 DEF Create

\* Every step of the inbox maps to a scheduler step or a stutter.
LEMMA StepIsSchedStep ==
  ASSUME [ApproverNext]_approverVars
  PROVE  [SchedNext]_schedVars
<1>1. ASSUME NEW c \in Caller, LookUp(c) PROVE [SchedNext]_schedVars
  BY <1>1, CreateIsSchedStep DEF LookUp
<1>2. ASSUME NEW c \in Caller, Resume(c) PROVE [SchedNext]_schedVars
  <2>1. CASE Return(c, TRUE)
    BY <2>1, ReturnIsSchedStep
  <2>2. CASE Create(c)
    BY <2>2, CreateIsSchedStep
  <2> QED BY <1>2, <2>1, <2>2 DEF Resume
<1>3. ASSUME NEW c \in Caller, Created(c) PROVE [SchedNext]_schedVars
  <2>1. Return(c, cs[awaits[c]] # "failed") /\ (cs[awaits[c]] # "failed") \in BOOLEAN
    BY <1>3 DEF Created
  <2> QED BY <2>1, ReturnIsSchedStep
<1>4. ASSUME NEW n \in Conn, Connect(n) \/ ConnectFails(n) \/ Drop(n)
      PROVE UNCHANGED schedVars
  BY <1>4 DEF Connect, ConnectFails, Drop
<1>5. ASSUME NEW h \in onClose, CloseHandled(h) PROVE [SchedNext]_schedVars
  BY <1>5 DEF CloseHandled, SchedNext
<1>6. ASSUME NEW e \in Entry, Attempt(e) PROVE SchedNext
  BY <1>6 DEF Attempt, SchedNext
<1>7. CASE LockApprovers
  BY <1>7 DEF LockApprovers, SchedNext
<1>8. CASE Unlock
  BY <1>8 DEF Unlock, SchedNext
<1>9. CASE Drain
  BY <1>9 DEF Drain
<1>10. CASE UNCHANGED approverVars
  BY <1>10 DEF approverVars
<1> QED
  BY <1>1, <1>2, <1>3, <1>4, <1>5, <1>6, <1>7, <1>8, <1>9, <1>10 DEF ApproverNext

-----------------------------------------------------------------------------
\* The composition implements the scheduler's specification.
THEOREM InboxImplementsScheduler == ApproverSpec => SchedulerSteps
<1>1. ApproverInit => SchedInit
  BY DEF ApproverInit
<1>2. [ApproverNext]_approverVars => [SchedNext]_schedVars
  BY StepIsSchedStep
<1> QED BY <1>1, <1>2, PTL DEF ApproverSpec, SchedulerSteps, SchedSpec

\* In the composition, too, a locked approver has no retry queued.
THEOREM LockedInboxIsQuiet == ApproverSpec => []LockWins
BY InboxImplementsScheduler, LockAlwaysWins, PTL DEF SchedulerSteps

-----------------------------------------------------------------------------
(* What the inbox needs to come back.                                      *)

\* The pool's connection was made, and no lock has doomed it.
PoolSound == pool # None => pool \notin doomed /\ cs[pool] # "unused"

\* A caller waits for a connection that was made; an attempt that no lock and no
\* unlock has crossed, for one that no lock will have closed.
AwaitsSound ==
  /\ \A c \in Caller : awaits[c] # None <=> pc[c] \in {"wait", "own"}
  /\ \A c \in Caller : awaits[c] # None => cs[awaits[c]] # "unused"
  /\ ~crossed => \A c \in Flight : awaits[c] # None =>
                   awaits[c] \notin doomed /\ cs[awaits[c]] # "closed"

\* The attempts that are under way; each entry's are counted.
Underway == {c \in Flight : pc[c] # "idle"}

FlightsCounted == Counts(flying, Underway)

\* The close handler will arm the loop: the pool held nothing else, or something that
\* failed, or something that will be open or fail.
Rearms(h) ==
  \/ h[2] \in {None, h[1]}
  \/ cs[h[2]] = "failed"
  \/ cs[h[2]] = "connecting" /\ h[2] \notin doomed

\* An inbox that has been up is up, or its loop is in the map, or a close handler is
\* about to put it there.
BringsBack ==
  gate /\ heard /\ ~crossed =>
    \/ \E n \in Conn : cs[n] = "open"
    \/ current # None
    \/ \E h \in onClose : Rearms(h)

InboxParts == PoolSound /\ DeadEntryNoticed /\ AwaitsSound /\ FlightsCounted /\ BringsBack

InboxInv == SchedInv /\ ApproverTypeOK /\ InboxParts

-----------------------------------------------------------------------------
(* The three things a caller's step does.                                  *)

\* It has its answer, and if it is an attempt the scheduler hears of it.
Answered(c) ==
  /\ pc[c] # "idle"
  /\ pc' = [pc EXCEPT ![c] = "idle"] /\ awaits' = [awaits EXCEPT ![c] = None]
  /\ cs' = cs /\ pool' \in {pool, None}
  /\ \/ c \notin Flight /\ UNCHANGED schedVars
     \/ c \in Flight /\ Failed(c[1])
     \/ /\ c \in Flight /\ Succeeded(c[1])
        /\ awaits[c] # None /\ cs[awaits[c]] \in {"unused", "open", "closed"}

\* It makes a connection and waits for it.
Opened(c) ==
  /\ pc[c] \in {"look", "wait"}
  /\ \E n \in Fresh : /\ cs' = [cs EXCEPT ![n] = "connecting"] /\ pool' = n
                      /\ awaits' = [awaits EXCEPT ![c] = n]
  /\ pc' = [pc EXCEPT ![c] = "own"]
  /\ UNCHANGED schedVars

\* It waits for the pool's connection.
Joined(c) ==
  /\ Quiet /\ pc[c] = "look" /\ pool # None
  /\ pc' = [pc EXCEPT ![c] = "wait"] /\ awaits' = [awaits EXCEPT ![c] = pool]
  /\ UNCHANGED <<schedVars, pool, cs>>

LEMMA CallerSteps ==
  ASSUME ApproverTypeOK, AwaitsSound, NEW c \in Caller, LookUp(c) \/ Resume(c) \/ Created(c)
  PROVE  /\ UNCHANGED <<gate, doomed, onClose, heard, crossed>>
         /\ Answered(c) \/ Opened(c) \/ Joined(c)
<1>1. UNCHANGED <<doomed, onClose, heard, crossed>>
  BY DEF LookUp, Resume, Created
<1>0. Answered(c) \/ Opened(c) \/ Joined(c) => gate' = gate
  BY DEF Answered, Opened, Joined, schedVars, Failed, Succeeded, Landed
<1> SUFFICES Answered(c) \/ Opened(c) \/ Joined(c)
  BY <1>0, <1>1
<1>2. ASSUME Create(c), pc[c] \in {"look", "wait"} PROVE Answered(c) \/ Opened(c)
  <2>1. CASE ~gate /\ pool' = None /\ Return(c, FALSE) /\ UNCHANGED cs
    BY <1>2, <2>1 DEF Return, Answered
  <2>2. CASE /\ gate
             /\ \E n \in Fresh : /\ cs' = [cs EXCEPT ![n] = "connecting"]
                                 /\ pool' = n
                                 /\ awaits' = [awaits EXCEPT ![c] = n]
             /\ pc' = [pc EXCEPT ![c] = "own"]
             /\ UNCHANGED schedVars
    BY <1>2, <2>2 DEF Opened
  <2> QED BY <1>2, <2>1, <2>2 DEF Create
<1>3. CASE LookUp(c)
  <2>1. CASE pool = None /\ Create(c)
    BY <1>2, <1>3, <2>1 DEF LookUp
  <2>2. CASE pool # None
    BY <1>3, <2>2 DEF LookUp, Joined
  <2> QED BY <1>3, <2>1, <2>2 DEF LookUp
<1>4. ASSUME NEW ok \in BOOLEAN, Return(c, ok), pc[c] \in {"wait", "own"},
             ok => cs[awaits[c]] # "failed", Settled(awaits[c]), UNCHANGED <<pool, cs>>
      PROVE  Answered(c)
  <2>1. awaits[c] \in Conn /\ awaits[c] # None
    BY <1>4 DEF AwaitsSound, ApproverTypeOK
  <2>2. ok => cs[awaits[c]] \in {"unused", "open", "closed"}
    BY <1>4, <2>1 DEF Settled, ApproverTypeOK
  <2> QED BY <1>4, <2>1, <2>2 DEF Return, Answered
<1>5. CASE Resume(c)
  <2>1. CASE cs[awaits[c]] = "open" /\ Return(c, TRUE) /\ UNCHANGED <<pool, cs>>
    <3>1. pc[c] \in {"wait", "own"} /\ Settled(awaits[c])
      BY <1>5 DEF Resume
    <3>2. Answered(c)
      BY <1>4, <2>1, <3>1
    <3> QED BY <3>2
  <2>2. CASE Create(c)
    BY <1>2, <1>5, <2>2 DEF Resume
  <2> QED BY <1>5, <2>1, <2>2 DEF Resume
<1>6. CASE Created(c)
  <2> DEFINE ok == cs[awaits[c]] # "failed"
  <2>1. ok \in BOOLEAN
    OBVIOUS
  <2>2. /\ pc[c] \in {"wait", "own"} /\ Settled(awaits[c]) /\ UNCHANGED <<pool, cs>>
        /\ Return(c, ok)
    BY <1>6 DEF Created
  <2>3. ok => cs[awaits[c]] # "failed"
    OBVIOUS
  <2> HIDE DEF ok
  <2>4. Answered(c)
    BY <1>4, <2>1, <2>2, <2>3
  <2> QED BY <2>4
<1> QED BY <1>3, <1>5, <1>6

-----------------------------------------------------------------------------
\* The counts hold after a step that begins and ends no attempt.
LEMMA CountsKept ==
  ASSUME FlightsCounted, flying' = flying,
         \A c \in Flight : pc'[c] = "idle" <=> pc[c] = "idle"
  PROVE  FlightsCounted'
<1>1. Underway' = Underway
  BY DEF Underway
<1> QED BY <1>1 DEF FlightsCounted, Counts, NumbersOf

\* They hold after an attempt has ended, and after one has begun.
LEMMA CountsAfterEnd ==
  ASSUME ApproverTypeOK, FlightsCounted, NEW c \in Flight, pc[c] # "idle",
         pc' = [pc EXCEPT ![c] = "idle"], flying' = [flying EXCEPT ![c[1]] = @ - 1]
  PROVE  FlightsCounted'
<1>1. Underway' = Underway \ {c} /\ c \in Flight \cap Underway
  BY DEF Underway, ApproverTypeOK, Caller
<1>2. flying \in [Entry -> 0..MaxFlying] /\ Counts(flying, Underway)
  BY DEF ApproverTypeOK, SchedTypeOK, FlightsCounted
<1>3. Counts([flying EXCEPT ![c[1]] = @ - 1], Underway \ {c})
  BY <1>1, <1>2, CountedOut
<1> QED BY <1>1, <1>3 DEF FlightsCounted, Counts, NumbersOf

LEMMA CountsAfterStart ==
  ASSUME ApproverTypeOK, FlightsCounted, NEW c \in Flight, pc[c] = "idle",
         pc' = [pc EXCEPT ![c] = "look"], flying' = [flying EXCEPT ![c[1]] = @ + 1]
  PROVE  FlightsCounted'
<1>1. Underway' = Underway \cup {c} /\ c \notin Underway
  BY DEF Underway, ApproverTypeOK, Caller
<1>2. flying \in [Entry -> 0..MaxFlying] /\ Counts(flying, Underway)
  BY DEF ApproverTypeOK, SchedTypeOK, FlightsCounted
<1>3. Counts([flying EXCEPT ![c[1]] = @ + 1], Underway \cup {c})
  BY <1>1, <1>2, CountedIn
<1> QED BY <1>1, <1>3 DEF FlightsCounted, Counts, NumbersOf

\* No attempt is counted exactly when every attempt's caller is idle.
LEMMA NoneUnderway ==
  ASSUME FlightsCounted, ~\E e \in Entry : flying[e] > 0, ApproverTypeOK
  PROVE  \A c \in Flight : pc[c] = "idle"
<1> SUFFICES ASSUME NEW c \in Flight, pc[c] # "idle" PROVE FALSE
  OBVIOUS
<1>1. flying \in [Entry -> 0..MaxFlying] /\ Counts(flying, Underway)
  BY DEF ApproverTypeOK, SchedTypeOK, FlightsCounted
<1>2. c \in Flight \cap Underway /\ c[1] \in Entry
  BY FlightOf DEF Underway
<1> QED BY <1>1, <1>2, CountPositive

-----------------------------------------------------------------------------
(* A caller's steps keep the invariant's parts.                            *)

LEMMA AnsweredKeeps ==
  ASSUME InboxInv, SchedTypeOK', NEW c \in Caller, Answered(c),
         UNCHANGED <<gate, doomed, onClose, heard, crossed>>
  PROVE  ApproverTypeOK' /\ InboxParts'
<1> USE DEF InboxInv, InboxParts
<1>1. /\ cs' = cs /\ pool' \in {pool, None}
      /\ pc' = [pc EXCEPT ![c] = "idle"] /\ awaits' = [awaits EXCEPT ![c] = None]
      /\ pc[c] # "idle"
  BY DEF Answered
<1>2. ApproverTypeOK'
  BY <1>1 DEF ApproverTypeOK
<1>3. PoolSound' /\ DeadEntryNoticed'
  BY <1>1 DEF PoolSound, DeadEntryNoticed
<1>4. AwaitsSound'
  <2>1. /\ \A d \in Caller : pc'[d] = IF d = c THEN "idle" ELSE pc[d]
        /\ \A d \in Caller : awaits'[d] = IF d = c THEN None ELSE awaits[d]
    BY <1>1 DEF ApproverTypeOK
  <2> QED BY <1>1, <2>1 DEF AwaitsSound, Caller
<1>5. FlightsCounted'
  <2>1. CASE c \in Flight
    <3>1. Landed(c[1])
      BY <2>1 DEF Answered, Failed, Succeeded
    <3> QED BY <1>1, <2>1, <3>1, CountsAfterEnd DEF Landed
  <2>2. CASE c \notin Flight
    <3>1. flying' = flying
      BY <2>2 DEF Answered, schedVars
    <3>2. \A d \in Flight : pc'[d] = pc[d]
      BY <1>1, <2>2 DEF ApproverTypeOK, Caller
    <3> QED BY <3>1, <3>2, CountsKept
  <2> QED BY <2>1, <2>2
<1>6. BringsBack'
  <2> SUFFICES ASSUME gate, heard, ~crossed
               PROVE  \/ \E n \in Conn : cs[n] = "open"
                      \/ current' # None
                      \/ \E h \in onClose : Rearms(h)
    BY <1>1 DEF BringsBack, Rearms
  <2>1. CASE current' = current
    BY <2>1 DEF BringsBack
  <2>2. CASE c \in Flight /\ Failed(c[1])
    <3>1. current' = current \/ current' = c[1]
      BY <2>2 DEF Failed, Rearm
    <3>2. c[1] # None
      BY <2>2, FlightOf, EntryAssumption
    <3> QED BY <2>1, <3>1, <3>2
  <2>3. CASE c \in Flight /\ awaits[c] # None /\ cs[awaits[c]] \in {"unused", "open", "closed"}
    <3>1. awaits[c] \in Conn
      BY <2>3 DEF ApproverTypeOK
    <3>2. cs[awaits[c]] = "open"
      BY <2>3 DEF AwaitsSound
    <3> QED BY <3>1, <3>2
  <2> QED BY <2>1, <2>2, <2>3 DEF Answered, schedVars
<1> QED BY <1>2, <1>3, <1>4, <1>5, <1>6

LEMMA OpenedKeeps ==
  ASSUME InboxInv, SchedTypeOK', NEW c \in Caller, Opened(c),
         UNCHANGED <<gate, doomed, onClose, heard, crossed>>
  PROVE  ApproverTypeOK' /\ InboxParts'
<1> USE DEF InboxInv, InboxParts
<1>1. PICK n \in Fresh : /\ cs' = [cs EXCEPT ![n] = "connecting"] /\ pool' = n
                         /\ awaits' = [awaits EXCEPT ![c] = n]
  BY DEF Opened
<1>2. pc[c] \in {"look", "wait"} /\ pc' = [pc EXCEPT ![c] = "own"] /\ UNCHANGED schedVars
  BY DEF Opened
<1>3. /\ n \in Conn /\ cs[n] \in {"unused", "failed", "closed"}
      /\ \A d \in Caller : awaits[d] # n
      /\ \A h \in onClose : n \notin {h[1], h[2]}
  BY DEF Fresh
<1>4. /\ \A m \in Conn : cs'[m] = IF m = n THEN "connecting" ELSE cs[m]
      /\ \A d \in Caller : pc'[d] = IF d = c THEN "own" ELSE pc[d]
      /\ \A d \in Caller : awaits'[d] = IF d = c THEN n ELSE awaits[d]
  BY <1>1, <1>2, <1>3 DEF ApproverTypeOK
<1>5. ApproverTypeOK'
  <2>1. /\ pool' \in Conn /\ awaits' \in [Caller -> Conn \cup {None}]
        /\ pc' \in [Caller -> {"idle", "look", "wait", "own"}]
        /\ cs' \in [Conn -> {"unused", "connecting", "open", "failed", "closed"}]
    BY <1>1, <1>2, <1>3 DEF ApproverTypeOK
  <2>2. doomed' \subseteq {m \in Conn : cs'[m] = "connecting"}
    BY <1>4 DEF ApproverTypeOK
  <2> QED BY <2>1, <2>2 DEF ApproverTypeOK
<1>6. n \notin doomed /\ n # None
  BY <1>3, ConnAssumption DEF ApproverTypeOK
<1>7. PoolSound' /\ DeadEntryNoticed'
  BY <1>1, <1>3, <1>4, <1>6 DEF PoolSound, DeadEntryNoticed
<1>8. AwaitsSound'
  <2>1. \A d \in Caller : awaits'[d] # None <=> pc'[d] \in {"wait", "own"}
    BY <1>4, <1>6 DEF AwaitsSound
  <2>2. ASSUME NEW d \in Caller, awaits'[d] # None, awaits'[d] # n
        PROVE  awaits'[d] = awaits[d] /\ cs'[awaits'[d]] = cs[awaits[d]]
    BY <1>4, <2>2 DEF ApproverTypeOK
  <2>3. \A d \in Caller : awaits'[d] # None => cs'[awaits'[d]] # "unused"
    <3>1. SUFFICES ASSUME NEW d \in Caller, awaits'[d] # None PROVE cs'[awaits'[d]] # "unused"
      OBVIOUS
    <3>2. CASE awaits'[d] = n
      BY <1>3, <1>4, <3>2
    <3>3. CASE awaits'[d] # n
      BY <2>2, <3>1, <3>3 DEF AwaitsSound
    <3> QED BY <3>2, <3>3
  <2>4. ~crossed => \A d \in Flight : awaits'[d] # None =>
                      awaits'[d] \notin doomed /\ cs'[awaits'[d]] # "closed"
    <3>1. SUFFICES ASSUME ~crossed, NEW d \in Flight, awaits'[d] # None
                   PROVE  awaits'[d] \notin doomed /\ cs'[awaits'[d]] # "closed"
      OBVIOUS
    <3>2. CASE awaits'[d] = n
      BY <1>3, <1>4, <1>6, <3>2
    <3>3. CASE awaits'[d] # n
      <4>1. d \in Caller
        BY DEF Caller
      <4> QED BY <2>2, <3>1, <3>3, <4>1 DEF AwaitsSound
    <3> QED BY <3>2, <3>3
  <2> QED BY <2>1, <2>3, <2>4 DEF AwaitsSound
<1>9. FlightsCounted'
  <2>1. \A d \in Flight : pc'[d] = "idle" <=> pc[d] = "idle"
    BY <1>2, <1>4 DEF Caller
  <2> QED BY <1>2, <2>1, CountsKept DEF schedVars
<1>10. BringsBack'
  <2> SUFFICES ASSUME gate, heard, ~crossed
               PROVE  \/ \E m \in Conn : cs'[m] = "open"
                      \/ current' # None
                      \/ \E h \in onClose : Rearms(h)'
    BY DEF BringsBack
  <2>1. CASE \E m \in Conn : cs[m] = "open"
    BY <1>3, <1>4, <2>1
  <2>2. CASE current # None
    BY <1>2, <2>2 DEF schedVars
  <2>3. ASSUME NEW h \in onClose, Rearms(h) PROVE Rearms(h)'
    <3>1. h[2] \in Conn \cup {None} /\ h[2] # n
      BY <1>3 DEF ApproverTypeOK
    <3> QED BY <1>4, <2>3, <3>1 DEF Rearms
  <2> QED BY <2>1, <2>2, <2>3 DEF BringsBack
<1> QED BY <1>5, <1>7, <1>8, <1>9, <1>10

LEMMA JoinedKeeps ==
  ASSUME InboxInv, SchedTypeOK', NEW c \in Caller, Joined(c),
         UNCHANGED <<gate, doomed, onClose, heard, crossed>>
  PROVE  ApproverTypeOK' /\ InboxParts'
<1> USE DEF InboxInv, InboxParts
<1>1. /\ Quiet /\ pc[c] = "look" /\ pool # None
      /\ pc' = [pc EXCEPT ![c] = "wait"] /\ awaits' = [awaits EXCEPT ![c] = pool]
      /\ UNCHANGED <<schedVars, pool, cs>>
  BY DEF Joined
<1>2. /\ \A d \in Caller : pc'[d] = IF d = c THEN "wait" ELSE pc[d]
      /\ \A d \in Caller : awaits'[d] = IF d = c THEN pool ELSE awaits[d]
  BY <1>1 DEF ApproverTypeOK
<1>3. ApproverTypeOK'
  BY <1>1 DEF ApproverTypeOK
<1>4. PoolSound' /\ DeadEntryNoticed'
  BY <1>1 DEF PoolSound, DeadEntryNoticed
<1>5. pool \in Conn /\ pool \notin doomed /\ cs[pool] # "unused"
  BY <1>1 DEF ApproverTypeOK, PoolSound
<1>6. cs[pool] # "closed"
  <2> SUFFICES ASSUME cs[pool] = "closed" PROVE FALSE
    OBVIOUS
  <2>1. <<pool, pool>> \in onClose
    BY <1>1 DEF DeadEntryNoticed
  <2> QED BY <1>1, <2>1 DEF Quiet, Settled
<1>7. AwaitsSound'
  BY <1>1, <1>2, <1>5, <1>6 DEF AwaitsSound, Caller
<1>8. FlightsCounted'
  <2>1. \A d \in Flight : pc'[d] = "idle" <=> pc[d] = "idle"
    BY <1>1, <1>2 DEF Caller
  <2> QED BY <1>1, <2>1, CountsKept DEF schedVars
<1>9. BringsBack'
  BY <1>1 DEF BringsBack, Rearms, schedVars
<1> QED BY <1>3, <1>4, <1>7, <1>8, <1>9

-----------------------------------------------------------------------------
(* The network's steps keep the invariant's parts.                         *)

LEMMA ConnectKeeps ==
  ASSUME InboxInv, SchedTypeOK', NEW n \in Conn, Connect(n)
  PROVE  ApproverTypeOK' /\ InboxParts'
<1> USE DEF InboxInv, InboxParts
<1>1. /\ cs[n] = "connecting" /\ doomed' = doomed \ {n}
      /\ cs' = [cs EXCEPT ![n] = IF n \in doomed THEN "closed" ELSE "open"]
      /\ heard' = (heard \/ n \notin doomed)
      /\ UNCHANGED <<schedVars, pool, pc, awaits, onClose, crossed>>
  BY DEF Connect
<1>2. \A m \in Conn : cs'[m] = IF m # n THEN cs[m]
                               ELSE IF n \in doomed THEN "closed" ELSE "open"
  BY <1>1 DEF ApproverTypeOK
<1>3. ApproverTypeOK'
  <2>1. doomed' \subseteq {m \in Conn : cs'[m] = "connecting"} /\ heard' \in BOOLEAN
    BY <1>1, <1>2 DEF ApproverTypeOK
  <2>2. cs' \in [Conn -> {"unused", "connecting", "open", "failed", "closed"}]
    BY <1>1 DEF ApproverTypeOK
  <2> QED BY <1>1, <2>1, <2>2 DEF ApproverTypeOK
<1>4. PoolSound' /\ DeadEntryNoticed'
  BY <1>1, <1>2 DEF PoolSound, DeadEntryNoticed, ApproverTypeOK
<1>5. AwaitsSound'
  <2>1. \A d \in Caller : awaits[d] # None => awaits[d] \in Conn
    BY DEF ApproverTypeOK
  <2> QED BY <1>1, <1>2, <2>1 DEF AwaitsSound, Caller
<1>6. FlightsCounted'
  BY <1>1, CountsKept DEF schedVars
<1>7. BringsBack'
  <2> SUFFICES ASSUME gate', heard', ~crossed'
               PROVE  \/ \E m \in Conn : cs'[m] = "open"
                      \/ current' # None
                      \/ \E h \in onClose' : Rearms(h)'
    BY DEF BringsBack
  <2>1. CASE n \notin doomed
    BY <1>2, <2>1
  <2>2. CASE n \in doomed
    <3>1. gate /\ heard /\ ~crossed /\ current' = current /\ onClose' = onClose
      BY <1>1, <2>2 DEF schedVars
    <3>2. CASE \E m \in Conn : cs[m] = "open"
      BY <1>1, <1>2, <3>2
    <3>3. ASSUME NEW h \in onClose, Rearms(h) PROVE Rearms(h)'
      <4>1. h[2] \in Conn \cup {None}
        BY DEF ApproverTypeOK
      <4> QED BY <1>1, <1>2, <2>2, <3>3, <4>1, ConnAssumption DEF Rearms
    <3> QED BY <3>1, <3>2, <3>3 DEF BringsBack
  <2> QED BY <2>1, <2>2
<1> QED BY <1>3, <1>4, <1>5, <1>6, <1>7

LEMMA ConnectFailsKeeps ==
  ASSUME InboxInv, SchedTypeOK', NEW n \in Conn, ConnectFails(n)
  PROVE  ApproverTypeOK' /\ InboxParts'
<1> USE DEF InboxInv, InboxParts
<1>1. /\ cs[n] = "connecting" /\ doomed' = doomed \ {n} /\ pool' = None
      /\ cs' = [cs EXCEPT ![n] = "failed"]
      /\ UNCHANGED <<schedVars, pc, awaits, onClose, heard, crossed>>
  BY DEF ConnectFails
<1>2. \A m \in Conn : cs'[m] = IF m = n THEN "failed" ELSE cs[m]
  BY <1>1 DEF ApproverTypeOK
<1>3. ApproverTypeOK'
  <2>1. doomed' \subseteq {m \in Conn : cs'[m] = "connecting"}
    BY <1>1, <1>2 DEF ApproverTypeOK
  <2>2. cs' \in [Conn -> {"unused", "connecting", "open", "failed", "closed"}]
    BY <1>1 DEF ApproverTypeOK
  <2> QED BY <1>1, <2>1, <2>2 DEF ApproverTypeOK
<1>4. PoolSound' /\ DeadEntryNoticed'
  BY <1>1 DEF PoolSound, DeadEntryNoticed
<1>5. AwaitsSound'
  <2>1. \A d \in Caller : awaits[d] # None => awaits[d] \in Conn
    BY DEF ApproverTypeOK
  <2> QED BY <1>1, <1>2, <2>1 DEF AwaitsSound, Caller
<1>6. FlightsCounted'
  BY <1>1, CountsKept DEF schedVars
<1>7. BringsBack'
  <2> SUFFICES ASSUME gate, heard, ~crossed
               PROVE  \/ \E m \in Conn : cs'[m] = "open"
                      \/ current' # None
                      \/ \E h \in onClose : Rearms(h)'
    BY <1>1 DEF BringsBack, schedVars
  <2>1. CASE \E m \in Conn : cs[m] = "open"
    BY <1>1, <1>2, <2>1
  <2>2. ASSUME NEW h \in onClose, Rearms(h) PROVE Rearms(h)'
    <3>1. h[2] \in Conn \cup {None}
      BY DEF ApproverTypeOK
    <3> QED BY <1>1, <1>2, <2>2, <3>1, ConnAssumption DEF Rearms
  <2> QED BY <1>1, <2>1, <2>2 DEF BringsBack, schedVars
<1> QED BY <1>3, <1>4, <1>5, <1>6, <1>7

LEMMA DropKeeps ==
  ASSUME InboxInv, SchedTypeOK', NEW n \in Conn, Drop(n)
  PROVE  ApproverTypeOK' /\ InboxParts'
<1> USE DEF InboxInv, InboxParts
<1>1. /\ Quiet /\ cs[n] = "open"
      /\ cs' = [cs EXCEPT ![n] = "closed"]
      /\ onClose' = onClose \cup {<<n, pool>>}
      /\ UNCHANGED <<schedVars, pool, doomed, pc, awaits, heard, crossed>>
  BY DEF Drop
<1>2. \A m \in Conn : cs'[m] = IF m = n THEN "closed" ELSE cs[m]
  BY <1>1 DEF ApproverTypeOK
<1>3. ApproverTypeOK'
  <2>1. doomed' \subseteq {m \in Conn : cs'[m] = "connecting"}
    BY <1>1, <1>2 DEF ApproverTypeOK
  <2>2. cs' \in [Conn -> {"unused", "connecting", "open", "failed", "closed"}]
    BY <1>1 DEF ApproverTypeOK
  <2>3. onClose' \subseteq Conn \X (Conn \cup {None})
    BY <1>1 DEF ApproverTypeOK
  <2> QED BY <1>1, <2>1, <2>2, <2>3 DEF ApproverTypeOK
<1>4. PoolSound' /\ DeadEntryNoticed'
  <2>1. pool # None => pool \in Conn
    BY DEF ApproverTypeOK
  <2> QED BY <1>1, <1>2, <2>1 DEF PoolSound, DeadEntryNoticed
<1>5. AwaitsSound'
  <2>1. \A d \in Caller : awaits[d] # None =>
          awaits[d] \in Conn /\ cs'[awaits[d]] = cs[awaits[d]]
    BY <1>1, <1>2 DEF Quiet, Settled, ApproverTypeOK
  <2> QED BY <1>1, <2>1 DEF AwaitsSound, Caller
<1>6. FlightsCounted'
  BY <1>1, CountsKept DEF schedVars
<1>7. BringsBack'
  <2> SUFFICES \/ \E m \in Conn : cs'[m] = "open"
               \/ \E h \in onClose' : Rearms(h)'
    BY DEF BringsBack
  <2>1. PICK h \in onClose' : h[1] = n /\ h[2] = pool
    <3>1. <<n, pool>> \in onClose' /\ <<n, pool>>[1] = n /\ <<n, pool>>[2] = pool
      BY <1>1
    <3> QED BY <3>1
  <2>2. CASE pool \in {None, n}
    BY <2>1, <2>2 DEF Rearms
  <2>3. CASE pool \notin {None, n}
    <3>1. pool \in Conn /\ pool \notin doomed' /\ cs'[pool] = cs[pool]
      BY <1>1, <1>2, <2>3 DEF ApproverTypeOK, PoolSound
    <3>2. cs[pool] # "closed"
      <4> SUFFICES ASSUME cs[pool] = "closed" PROVE FALSE
        OBVIOUS
      <4>1. <<pool, pool>> \in onClose
        BY <2>3 DEF DeadEntryNoticed
      <4> QED BY <1>1, <4>1 DEF Quiet, Settled
    <3>3. cs[pool] \in {"connecting", "open"}
      BY <2>3, <3>1, <3>2 DEF ApproverTypeOK, PoolSound, DeadEntryNoticed
    <3>4. CASE cs[pool] = "open"
      BY <3>1, <3>4
    <3>5. CASE cs[pool] = "connecting"
      <4>1. Rearms(h)'
        BY <2>1, <3>1, <3>5 DEF Rearms
      <4> QED BY <4>1
    <3> QED BY <3>3, <3>4, <3>5
  <2> QED BY <2>2, <2>3
<1> QED BY <1>3, <1>4, <1>5, <1>6, <1>7

LEMMA CloseHandledKeeps ==
  ASSUME InboxInv, SchedTypeOK', NEW h \in onClose, CloseHandled(h)
  PROVE  ApproverTypeOK' /\ InboxParts'
<1> USE DEF InboxInv, InboxParts
<1>1. /\ h[2] # None => Settled(h[2])
      /\ onClose' = onClose \ {h}
      /\ UNCHANGED <<cs, doomed, pc, awaits, heard, crossed>>
  BY DEF CloseHandled
<1>2. /\ Superseded(h) => UNCHANGED <<pool, schedVars>>
      /\ ~Superseded(h) => /\ pool' = IF pool = h[2] THEN None ELSE pool
                           /\ gate => Schedule
                           /\ ~gate => UNCHANGED schedVars
  BY DEF CloseHandled
<1>3. flying' = flying /\ gate' = gate /\ pool' \in {pool, None}
  BY <1>2 DEF Schedule, schedVars
<1>4. ApproverTypeOK'
  BY <1>1, <1>3 DEF ApproverTypeOK
<1>5. PoolSound'
  BY <1>1, <1>3 DEF PoolSound
<1>6. DeadEntryNoticed'
  <2> SUFFICES ASSUME pool' # None, cs[pool'] = "closed" PROVE <<pool', pool'>> \in onClose'
    BY <1>1, <1>3 DEF DeadEntryNoticed
  <2>1. pool' = pool /\ <<pool, pool>> \in onClose
    BY <1>3 DEF DeadEntryNoticed
  <2>2. h # <<pool, pool>>
    <3> SUFFICES ASSUME h = <<pool, pool>> PROVE FALSE
      OBVIOUS
    <3>1. h[1] = pool /\ h[2] = pool
      OBVIOUS
    <3>2. ~Superseded(h)
      BY <3>1 DEF Superseded
    <3> QED BY <1>2, <2>1, <3>1, <3>2
  <2> QED BY <1>1, <2>1, <2>2
<1>7. AwaitsSound'
  BY <1>1 DEF AwaitsSound
<1>8. FlightsCounted'
  BY <1>1, <1>3, CountsKept
<1>9. BringsBack'
  <2> SUFFICES ASSUME gate, heard, ~crossed
               PROVE  \/ \E m \in Conn : cs[m] = "open"
                      \/ current' # None
                      \/ \E g \in onClose' : Rearms(g)
    BY <1>1, <1>3 DEF BringsBack, Rearms
  <2>1. CASE Superseded(h)
    <3>1. current' = current
      BY <1>2, <2>1 DEF schedVars
    <3>2. ~Rearms(h)
      BY <1>1, <2>1 DEF Superseded, Settled, Rearms
    <3> QED BY <1>1, <3>1, <3>2 DEF BringsBack
  <2>2. CASE ~Superseded(h)
    <3>1. Arm
      BY <1>2, <2>2 DEF Schedule
    <3>2. current' # None
      BY <3>1, EntryAssumption DEF Arm, ArmKept, ArmNew
    <3> QED BY <3>2
  <2> QED BY <2>1, <2>2
<1> QED BY <1>4, <1>5, <1>6, <1>7, <1>8, <1>9

-----------------------------------------------------------------------------
(* What the operator and the timers do keeps the invariant's parts.        *)

LEMMA LockKeeps ==
  ASSUME InboxInv, SchedTypeOK', LockApprovers
  PROVE  ApproverTypeOK' /\ InboxParts'
<1> USE DEF InboxInv, InboxParts
<1>1. /\ LockKey /\ pool' = None /\ Crossed
      /\ cs' = [n \in Conn |-> IF n = pool /\ cs[n] = "open" THEN "closed" ELSE cs[n]]
      /\ doomed' = doomed \cup {n \in Conn : n = pool /\ cs[n] = "connecting"}
      /\ UNCHANGED <<pc, awaits, onClose, heard>>
  BY DEF LockApprovers
<1>2. \A n \in Conn : cs'[n] = IF n = pool /\ cs[n] = "open" THEN "closed" ELSE cs[n]
  BY <1>1
<1>3. ApproverTypeOK'
  <2>1. doomed' \subseteq {n \in Conn : cs'[n] = "connecting"}
    BY <1>1, <1>2 DEF ApproverTypeOK
  <2>2. cs' \in [Conn -> {"unused", "connecting", "open", "failed", "closed"}]
    <3>1. \A n \in Conn : (IF n = pool /\ cs[n] = "open" THEN "closed" ELSE cs[n])
                             \in {"unused", "connecting", "open", "failed", "closed"}
      BY DEF ApproverTypeOK
    <3> QED BY <1>1, <3>1
  <2>3. crossed' \in BOOLEAN
    BY <1>1 DEF Crossed
  <2> QED BY <1>1, <2>1, <2>2, <2>3 DEF ApproverTypeOK
<1>4. PoolSound' /\ DeadEntryNoticed'
  BY <1>1 DEF PoolSound, DeadEntryNoticed
<1>5. AwaitsSound'
  <2>1. \A d \in Caller : awaits[d] # None => cs'[awaits[d]] # "unused"
    BY <1>2 DEF AwaitsSound, ApproverTypeOK
  <2>2. ~crossed' => \A d \in Flight : awaits[d] = None
    <3> SUFFICES ASSUME ~crossed', NEW d \in Flight PROVE awaits[d] = None
      OBVIOUS
    <3>1. pc[d] = "idle"
      BY <1>1, NoneUnderway DEF Crossed
    <3> QED BY <3>1 DEF AwaitsSound, Caller
  <2> QED BY <1>1, <2>1, <2>2 DEF AwaitsSound
<1>6. FlightsCounted'
  BY <1>1, CountsKept DEF LockKey
<1>7. BringsBack'
  BY <1>1 DEF BringsBack, LockKey
<1> QED BY <1>3, <1>4, <1>5, <1>6, <1>7

LEMMA UnlockKeeps ==
  ASSUME InboxInv, SchedTypeOK', Unlock
  PROVE  ApproverTypeOK' /\ InboxParts'
<1> USE DEF InboxInv, InboxParts
<1>1. /\ UnlockKey /\ pc[Unlocker] = "idle" /\ heard' = FALSE /\ Crossed
      /\ pc' = [pc EXCEPT ![Unlocker] = "look"]
      /\ UNCHANGED <<pool, cs, doomed, awaits, onClose>>
  BY DEF Unlock
<1>2. /\ Unlocker \in Caller /\ Unlocker \notin Flight
      /\ \A d \in Caller : pc'[d] = IF d = Unlocker THEN "look" ELSE pc[d]
  BY <1>1, ConnAssumption DEF Caller, ApproverTypeOK
<1>3. ApproverTypeOK'
  BY <1>1 DEF ApproverTypeOK, Crossed
<1>4. PoolSound' /\ DeadEntryNoticed'
  BY <1>1 DEF PoolSound, DeadEntryNoticed
<1>5. AwaitsSound'
  <2>1. ~crossed' => \A d \in Flight : awaits[d] = None
    <3> SUFFICES ASSUME ~crossed', NEW d \in Flight PROVE awaits[d] = None
      OBVIOUS
    <3>1. pc[d] = "idle"
      BY <1>1, NoneUnderway DEF Crossed
    <3> QED BY <3>1 DEF AwaitsSound, Caller
  <2> QED BY <1>1, <1>2, <2>1 DEF AwaitsSound
<1>6. FlightsCounted'
  <2>1. \A d \in Flight : pc'[d] = pc[d]
    BY <1>2 DEF Caller
  <2> QED BY <1>1, <2>1, CountsKept DEF UnlockKey
<1>7. BringsBack'
  BY <1>1 DEF BringsBack
<1> QED BY <1>3, <1>4, <1>5, <1>6, <1>7

LEMMA DrainKeeps ==
  ASSUME InboxInv, SchedTypeOK', Drain
  PROVE  ApproverTypeOK' /\ InboxParts'
<1> USE DEF InboxInv, InboxParts
<1>1. /\ pc[Drainer] = "idle" /\ pc' = [pc EXCEPT ![Drainer] = "look"]
      /\ UNCHANGED <<schedVars, pool, cs, doomed, awaits, onClose, heard, crossed>>
  BY DEF Drain
<1>2. /\ Drainer \in Caller /\ Drainer \notin Flight
      /\ \A d \in Caller : pc'[d] = IF d = Drainer THEN "look" ELSE pc[d]
  BY <1>1, ConnAssumption DEF Caller, ApproverTypeOK
<1>3. ApproverTypeOK'
  BY <1>1 DEF ApproverTypeOK
<1>4. PoolSound' /\ DeadEntryNoticed'
  BY <1>1 DEF PoolSound, DeadEntryNoticed
<1>5. AwaitsSound'
  BY <1>1, <1>2 DEF AwaitsSound
<1>6. FlightsCounted'
  <2>1. \A d \in Flight : pc'[d] = pc[d]
    BY <1>2 DEF Caller
  <2> QED BY <1>1, <2>1, CountsKept DEF schedVars
<1>7. BringsBack'
  BY <1>1 DEF BringsBack, Rearms, schedVars
<1> QED BY <1>3, <1>4, <1>5, <1>6, <1>7

LEMMA AttemptKeeps ==
  ASSUME InboxInv, SchedTypeOK', NEW e \in Entry, Attempt(e)
  PROVE  ApproverTypeOK' /\ InboxParts'
<1> USE DEF InboxInv, InboxParts
<1>1. /\ Fire(e)
      /\ UNCHANGED <<pool, cs, doomed, awaits, onClose, heard, crossed>>
  BY DEF Attempt
<1>2. PICK c \in Flight : c[1] = e /\ pc[c] = "idle" /\ pc' = [pc EXCEPT ![c] = "look"]
  BY DEF Attempt
<1>3. c \in Caller /\ \A d \in Caller : pc'[d] = IF d = c THEN "look" ELSE pc[d]
  BY <1>2 DEF Caller, ApproverTypeOK
<1>4. ApproverTypeOK'
  BY <1>1, <1>2 DEF ApproverTypeOK
<1>5. PoolSound' /\ DeadEntryNoticed'
  BY <1>1 DEF PoolSound, DeadEntryNoticed
<1>6. AwaitsSound'
  BY <1>1, <1>2, <1>3 DEF AwaitsSound
<1>7. FlightsCounted'
  <2>1. flying' = [flying EXCEPT ![c[1]] = @ + 1]
    BY <1>1, <1>2 DEF Fire
  <2> QED BY <1>2, <2>1, CountsAfterStart
<1>8. BringsBack'
  BY <1>1 DEF BringsBack, Rearms, Fire
<1> QED BY <1>4, <1>5, <1>6, <1>7, <1>8

-----------------------------------------------------------------------------
LEMMA InboxInitInv == ApproverInit => InboxInv
<1> SUFFICES ASSUME ApproverInit PROVE InboxInv
  OBVIOUS
<1>1. SchedInv
  BY SchedInitInv DEF ApproverInit
<1>2. ApproverTypeOK
  BY <1>1 DEF ApproverInit, ApproverTypeOK, SchedInv
<1>3. PoolSound /\ DeadEntryNoticed /\ AwaitsSound /\ BringsBack
  BY ConnAssumption
     DEF ApproverInit, PoolSound, DeadEntryNoticed, AwaitsSound, BringsBack, Caller
<1>4. FlightsCounted
  <2>1. Underway = {} /\ flying = [e \in Entry |-> 0]
    BY DEF ApproverInit, SchedInit, Underway, Caller
  <2> QED BY <2>1, CountsNothing DEF FlightsCounted
<1> QED BY <1>1, <1>2, <1>3, <1>4 DEF InboxInv, InboxParts

LEMMA InboxStep ==
  ASSUME InboxInv, [ApproverNext]_approverVars
  PROVE  InboxInv'
<1>1. SchedInv' /\ SchedTypeOK'
  BY StepIsSchedStep, SchedStep DEF InboxInv, SchedInv
<1> SUFFICES ApproverTypeOK' /\ InboxParts'
  BY <1>1 DEF InboxInv
<1>2. ASSUME NEW c \in Caller, LookUp(c) \/ Resume(c) \/ Created(c)
      PROVE  ApproverTypeOK' /\ InboxParts'
  <2>1. /\ UNCHANGED <<gate, doomed, onClose, heard, crossed>>
        /\ Answered(c) \/ Opened(c) \/ Joined(c)
    BY <1>2, CallerSteps DEF InboxInv, InboxParts
  <2> QED BY <1>1, <2>1, AnsweredKeeps, OpenedKeeps, JoinedKeeps
<1>3. ASSUME NEW n \in Conn, Connect(n) \/ ConnectFails(n) \/ Drop(n)
      PROVE  ApproverTypeOK' /\ InboxParts'
  BY <1>1, <1>3, ConnectKeeps, ConnectFailsKeeps, DropKeeps
<1>4. ASSUME NEW h \in onClose, CloseHandled(h) PROVE ApproverTypeOK' /\ InboxParts'
  BY <1>1, <1>4, CloseHandledKeeps
<1>5. ASSUME NEW e \in Entry, Attempt(e) PROVE ApproverTypeOK' /\ InboxParts'
  BY <1>1, <1>5, AttemptKeeps
<1>6. CASE LockApprovers \/ Unlock \/ Drain
  BY <1>1, <1>6, LockKeeps, UnlockKeeps, DrainKeeps
<1>7. CASE UNCHANGED approverVars
  <2>1. /\ UNCHANGED <<pool, cs, doomed, pc, awaits, onClose, heard, crossed>>
        /\ UNCHANGED <<gate, current, flying>>
    BY <1>7 DEF approverVars, inboxVars, schedVars
  <2>2. ApproverTypeOK' /\ PoolSound' /\ DeadEntryNoticed' /\ AwaitsSound' /\ BringsBack'
    BY <1>1, <2>1
       DEF InboxInv, InboxParts, ApproverTypeOK, PoolSound, DeadEntryNoticed, AwaitsSound,
           BringsBack, Rearms
  <2>3. FlightsCounted'
    BY <2>1, CountsKept DEF InboxInv, InboxParts
  <2> QED BY <2>2, <2>3 DEF InboxParts
<1> QED BY <1>2, <1>3, <1>4, <1>5, <1>6, <1>7 DEF ApproverNext

\* The inductive invariant of the inbox: its scheduler's, its pool's and its callers'.
THEOREM InboxInvariant == ApproverSpec => []InboxInv
<1> QED BY InboxInitInv, InboxStep, PTL DEF ApproverSpec

\* Every field of the inbox has its type, and only a connecting session is doomed.
THEOREM InboxTyped == ApproverSpec => []ApproverTypeOK
<1>1. InboxInv => ApproverTypeOK
  BY DEF InboxInv
<1> QED BY <1>1, InboxInvariant, PTL

\* The pool keeps a dead connection only while its close handler is at work.
THEOREM DeadEntriesAreNoticed == ApproverSpec => []DeadEntryNoticed
<1>1. InboxInv => DeadEntryNoticed
  BY DEF InboxInv, InboxParts
<1> QED BY <1>1, InboxInvariant, PTL

\* Once it has been up, an unlocked approver's inbox is up or being brought back, as
\* long as no attempt outlived a lock or an unlock.
THEOREM InboxComesBack == ApproverSpec => []NeverDeafAgain
<1>1. InboxInv => NeverDeafAgain
  <2> SUFFICES ASSUME InboxInv, gate, heard, ~crossed PROVE Recovering
    BY DEF NeverDeafAgain
  <2>1. CASE current # None
    <3>1. current \in Entry /\ (current \in timers \/ flying[current] > 0)
      BY <2>1 DEF InboxInv, SchedInv, SchedTypeOK, NeverStranded
    <3>2. CASE flying[current] > 0
      <4>1. flying \in [Entry -> 0..MaxFlying] /\ Counts(flying, Underway)
        BY DEF InboxInv, InboxParts, SchedInv, SchedTypeOK, FlightsCounted
      <4>2. \E c \in Flight \cap Underway : c[1] = current
        BY <3>1, <3>2, <4>1, CountPositive
      <4> QED BY <4>2 DEF Recovering, Caller, Underway
    <3> QED BY <3>1, <3>2 DEF Recovering
  <2>2. CASE (\E n \in Conn : cs[n] = "open") \/ onClose # {}
    BY <2>2 DEF Recovering
  <2> QED BY <2>1, <2>2 DEF InboxInv, InboxParts, BringsBack
<1> QED BY <1>1, InboxInvariant, PTL
=============================================================================
