----------------------------- MODULE WarmPoolProofs -----------------------------
(***************************************************************************)
(* The warm session of an agent's inbox comes back, for every number of    *)
(* connections, requests and reconnect attempts.  As in the approver's     *)
(* inbox the pool makes only steps of the scheduler; what the invariant    *)
(* adds is that a retired connection is one that had expired, that once    *)
(* the inbox has been up whatever stands in the pool carries it, and that  *)
(* a lost session always leaves a live one, a loop, an eviction or a close *)
(* handler behind (BringsBack).                                            *)
(***************************************************************************)
EXTENDS WarmPool, ReconnectProofs

\* A late close or a late lost reply of an old connection leaves the live replacement
\* in the pool.
THEOREM LateSignalsAreHarmless == WarmSpec => LateSignalsHarmless
<1>1. ASSUME NEW n \in Conn, pool \notin {n, None}, cs[pool] = "open",
             NEW h \in onClose, h[1] = n, CloseHandled(h)
      PROVE  pool' = pool
  <2>1. CASE Superseded(h)
    BY <1>1, <2>1 DEF CloseHandled
  <2>2. CASE ~Superseded(h)
    <3>1. pool # h[2]
      BY <1>1, <2>2 DEF Superseded
    <3> QED BY <1>1, <2>2, <3>1 DEF CloseHandled
  <2> QED BY <2>1, <2>2
<1>2. ASSUME NEW n \in Conn, pool \notin {n, None}, NEW x \in evicting, x[1] = n, Evicted(x)
      PROVE  pool' = pool
  <2>1. ~Evictable(x)
    BY <1>2 DEF Evictable
  <2> QED BY <1>2, <2>1 DEF Evicted
<1>3. [WarmNext]_warmVars =>
        [\A n \in Conn :
           /\ pool \notin {n, None} /\ cs[pool] = "open"
           /\ \/ \E h \in onClose : h[1] = n /\ CloseHandled(h)
              \/ \E x \in evicting : x[1] = n /\ Evicted(x)
           => pool' = pool]_warmVars
  BY <1>1, <1>2
<1> QED BY <1>3, PTL DEF WarmSpec, LateSignalsHarmless

-----------------------------------------------------------------------------
(* What the inbox needs to come back.                                      *)

\* The pool's connection has not been doomed and is not being retired.
PoolSound == pool # None => pool \notin doomed \cup retiring

\* A retired connection was expired; it may have closed by itself since.
RetiredOld == \A n \in retiring : cs[n] \in {"stale", "closed"}

\* A caller waits for a connection exactly while it has one to wait for, and hears
\* from the one it made before that one can expire.
AwaitsSound ==
  \A c \in Caller : /\ awaits[c] # None <=> pc[c] \in {"wait", "own"}
                    /\ pc[c] = "own" => cs[awaits[c]] # "stale"

\* Once the inbox has been up, what stands in the pool carries it.
PoolCarries == wanted /\ inbox /\ held /\ pool # None => pool \in listening

\* The close handler will arm the loop: the connection carried the inbox, and the pool
\* held nothing else, or something that failed, or something that carries the inbox
\* and will be open or fail.
Rearms(h) ==
  /\ h[1] \in listening
  /\ \/ h[2] \in {None, h[1]}
     \/ cs[h[2]] = "failed"
     \/ cs[h[2]] = "connecting" /\ h[2] \in listening \ (doomed \cup retiring)

\* An inbox that has been up is up, or its loop is in the map, or an eviction or a
\* close handler is about to put it there.
BringsBack ==
  wanted /\ inbox /\ held =>
    \/ \E n \in listening \ retiring : IsOpen(n)
    \/ current # None
    \/ rearming
    \/ \E h \in onClose : Rearms(h)

\* The attempts that are under way; each entry's are counted.
Underway == {c \in Flight : pc[c] # "idle"}

FlightsCounted == Counts(flying, Underway)

PoolParts ==
  /\ PoolSound /\ RetiredOld /\ DeadEntryNoticed /\ AwaitsSound
  /\ FlightsCounted /\ PoolCarries /\ BringsBack

WarmInv == SchedInv /\ WarmTypeOK /\ PoolParts

-----------------------------------------------------------------------------
(* The scheduler.                                                          *)

\* A drop or an eviction that re-arms puts the loop in the map.
LEMMA ScheduleArms ==
  ASSUME ScheduleInbound
  PROVE  current' # None /\ flying' = flying /\ gate' = gate
BY EntryAssumption DEF ScheduleInbound, Arm, ArmKept, ArmNew

LEMMA ScheduleIsSchedStep ==
  ASSUME gate, ScheduleInbound \/ (ClearInbound /\ gate = TRUE)
  PROVE  SchedNext
BY DEF ScheduleInbound, ClearInbound, SchedNext, Schedule, UnlockKey

LEMMA ReturnIsSchedStep ==
  ASSUME WarmTypeOK, NEW c \in Caller, NEW ok \in BOOLEAN, Return(c, ok)
  PROVE  [SchedNext]_schedVars
<1>0. gate = TRUE
  BY DEF WarmTypeOK, SchedTypeOK
<1>1. CASE c \in Request /\ UNCHANGED schedVars
  BY <1>1
<1>2. CASE c \in Flight /\ IF ok THEN Succeeded(c[1]) ELSE Failed(c[1])
  <2>1. c[1] \in Entry
    BY <1>2, FlightOf
  <2> QED BY <1>2, <2>1 DEF SchedNext
<1>3. CASE c = Reconciler /\ IF ok THEN ClearInbound ELSE ScheduleInbound
  BY <1>0, <1>3, ScheduleIsSchedStep
<1> QED BY <1>1, <1>2, <1>3 DEF Return

\* Every step of the pool maps to a scheduler step or a stutter.
LEMMA StepIsSchedStep ==
  ASSUME WarmTypeOK, [WarmNext]_warmVars
  PROVE  [SchedNext]_schedVars
<1>0. gate = TRUE
  BY DEF WarmTypeOK, SchedTypeOK
<1>1. ASSUME NEW c \in Caller, LookUp(c) PROVE [SchedNext]_schedVars
  BY <1>1 DEF LookUp, Create
<1>2. ASSUME NEW c \in Caller, StartInbound(c) PROVE [SchedNext]_schedVars
  <2>1. CASE Return(c, FALSE)
    BY <2>1, ReturnIsSchedStep
  <2> QED BY <1>1, <1>2, <2>1 DEF StartInbound
<1>3. ASSUME NEW c \in Caller, Resume(c) PROVE [SchedNext]_schedVars
  <2>1. CASE Return(c, TRUE)
    BY <2>1, ReturnIsSchedStep
  <2>2. CASE Create(c)
    BY <2>2 DEF Create
  <2> QED BY <1>3, <2>1, <2>2 DEF Resume
<1>4. ASSUME NEW c \in Caller, Created(c) PROVE [SchedNext]_schedVars
  <2>1. Return(c, cs[awaits[c]] # "failed") /\ (cs[awaits[c]] # "failed") \in BOOLEAN
    BY <1>4 DEF Created
  <2> QED BY <2>1, ReturnIsSchedStep
<1>5. ASSUME NEW r \in Request, Use(r) PROVE [SchedNext]_schedVars
  BY <1>5, <1>1 DEF Use, Caller
<1>6. ASSUME NEW e \in Entry, Attempt(e) PROVE SchedNext
  BY <1>6 DEF Attempt, SchedNext
<1>7. CASE Reconcile \/ ReconcileWanted \/ Forget \/ Add \/ Wake
  BY <1>7 DEF Reconcile, ReconcileWanted, Forget, Add, Wake
<1>8. CASE CloseExtras
  BY <1>0, <1>8, ScheduleIsSchedStep DEF CloseExtras
<1>9. ASSUME NEW n \in Conn,
             \/ ReadInbox(n) \/ Connect(n) \/ ConnectFails(n) \/ Expire(n)
             \/ Retire(n) \/ Drop(n) \/ ReplyTimeout(n)
      PROVE  UNCHANGED schedVars
  BY <1>9 DEF ReadInbox, Connect, ConnectFails, Expire, Retire, Drop, ReplyTimeout
<1>10. ASSUME NEW h \in onClose, CloseHandled(h) PROVE [SchedNext]_schedVars
  BY <1>0, <1>10, ScheduleIsSchedStep DEF CloseHandled
<1>11. ASSUME NEW x \in evicting, Evicted(x) PROVE UNCHANGED schedVars
  BY <1>11 DEF Evicted
<1>12. CASE RearmEvicted
  BY <1>0, <1>12, ScheduleIsSchedStep DEF RearmEvicted
<1>13. CASE UNCHANGED warmVars
  BY <1>13 DEF warmVars
<1> QED
  BY <1>2, <1>3, <1>4, <1>5, <1>6, <1>7, <1>8, <1>9, <1>10, <1>11, <1>12, <1>13 DEF WarmNext

-----------------------------------------------------------------------------
(* Counting.                                                               *)

\* The counts hold after a step that begins and ends no attempt.
LEMMA CountsKept ==
  ASSUME FlightsCounted, flying' = flying,
         \A c \in Flight : pc'[c] = "idle" <=> pc[c] = "idle"
  PROVE  FlightsCounted'
<1>1. Underway' = Underway
  BY DEF Underway
<1> QED BY <1>1 DEF FlightsCounted, Counts, NumbersOf

\* They hold after an attempt has ended, and after one has begun.
LEMMA CountsAfterEnd ==
  ASSUME WarmTypeOK, FlightsCounted, NEW c \in Flight, pc[c] # "idle",
         pc' = [pc EXCEPT ![c] = "idle"], flying' = [flying EXCEPT ![c[1]] = @ - 1]
  PROVE  FlightsCounted'
<1>1. Underway' = Underway \ {c} /\ c \in Flight \cap Underway
  BY DEF Underway, WarmTypeOK, Caller
<1>2. flying \in [Entry -> 0..MaxFlying] /\ Counts(flying, Underway)
  BY DEF WarmTypeOK, SchedTypeOK, FlightsCounted
<1>3. Counts([flying EXCEPT ![c[1]] = @ - 1], Underway \ {c})
  BY <1>1, <1>2, CountedOut
<1> QED BY <1>1, <1>3 DEF FlightsCounted, Counts, NumbersOf

LEMMA CountsAfterStart ==
  ASSUME WarmTypeOK, FlightsCounted, NEW c \in Flight, pc[c] = "idle",
         pc' = [pc EXCEPT ![c] = "look"], flying' = [flying EXCEPT ![c[1]] = @ + 1]
  PROVE  FlightsCounted'
<1>1. Underway' = Underway \cup {c} /\ c \notin Underway
  BY DEF Underway, WarmTypeOK, Caller
<1>2. flying \in [Entry -> 0..MaxFlying] /\ Counts(flying, Underway)
  BY DEF WarmTypeOK, SchedTypeOK, FlightsCounted
<1>3. Counts([flying EXCEPT ![c[1]] = @ + 1], Underway \cup {c})
  BY <1>1, <1>2, CountedIn
<1> QED BY <1>1, <1>3 DEF FlightsCounted, Counts, NumbersOf

-----------------------------------------------------------------------------
(* The three things a caller's step does.                                  *)

\* It has its answer.  An attempt or a reconcile that is content clears the loop, and
\* then the session it is content with is up and carries the inbox, or the history
\* variable says that it need not.
Answered(c) ==
  /\ pc[c] # "idle"
  /\ pc' = [pc EXCEPT ![c] = "idle"] /\ awaits' = [awaits EXCEPT ![c] = None]
  /\ held' \in {held, FALSE}
  /\ UNCHANGED <<pool, cs, listening, retiring>>
  /\ \/ c \in Request /\ UNCHANGED schedVars
     \/ c \in Flight /\ Failed(c[1])
     \/ c = Reconciler /\ ScheduleInbound
     \/ /\ \/ c \in Flight /\ Succeeded(c[1])
           \/ c = Reconciler /\ ClearInbound
        /\ held' => awaits[c] \in listening /\ cs[awaits[c]] = "open"

\* It makes a connection and waits for it, having retired an expired one, if at all.
Opened(c) ==
  /\ c \in Flight => pc[c] # "idle"
  /\ \E n \in Fresh : /\ cs' = [cs EXCEPT ![n] = "connecting"]
                      /\ listening' = IF inbox THEN listening \cup {n} ELSE listening \ {n}
                      /\ pool' = n
                      /\ awaits' = [awaits EXCEPT ![c] = n]
  /\ pc' = [pc EXCEPT ![c] = "own"]
  /\ \/ UNCHANGED <<retiring, held>>
     \/ /\ awaits[c] \in Conn /\ cs[awaits[c]] = "stale"
        /\ retiring' = retiring \cup {awaits[c]} /\ held' = FALSE
  /\ UNCHANGED schedVars

\* It waits for the pool's connection.
Joined(c) ==
  /\ c \in Flight => pc[c] # "idle"
  /\ pool # None
  /\ pc' = [pc EXCEPT ![c] = "wait"] /\ awaits' = [awaits EXCEPT ![c] = pool]
  /\ UNCHANGED <<schedVars, pool, cs, listening, retiring, held>>

LEMMA CallerSteps ==
  ASSUME WarmTypeOK, AwaitsSound, NEW c \in Caller,
         StartInbound(c) \/ Resume(c) \/ Created(c) \/ (c \in Request /\ Use(c))
  PROVE  /\ UNCHANGED <<doomed, onClose, evicting, rearming, wanted, inbox>>
         /\ Answered(c) \/ Opened(c) \/ Joined(c)
<1>1. UNCHANGED <<doomed, onClose, evicting, rearming, wanted, inbox>>
  BY DEF StartInbound, Resume, Created, Use, poolVars
<1> SUFFICES Answered(c) \/ Opened(c) \/ Joined(c)
  BY <1>1
<1>2. ASSUME LookUp(c), UNCHANGED <<retiring, held>>, c \in Flight => pc[c] # "idle"
      PROVE  Opened(c) \/ Joined(c)
  <2>1. CASE pool = None /\ Create(c)
    BY <1>2, <2>1 DEF Create, Opened
  <2>2. CASE pool # None
    BY <1>2, <2>2 DEF LookUp, Joined
  <2> QED BY <1>2, <2>1, <2>2 DEF LookUp
<1>3. ASSUME NEW ok \in BOOLEAN, Return(c, ok), pc[c] # "idle",
             UNCHANGED <<pool, cs, listening, retiring>>, held' \in {held, FALSE},
             ok /\ held' /\ c \notin Request => awaits[c] \in listening /\ cs[awaits[c]] = "open"
      PROVE  Answered(c)
  <2>1. CASE c \in Request /\ UNCHANGED schedVars
    BY <1>3, <2>1 DEF Return, Answered
  <2>2. CASE c \in Flight /\ IF ok THEN Succeeded(c[1]) ELSE Failed(c[1])
    <3>1. c \notin Request
      BY <2>2, WarmAssumption
    <3> QED BY <1>3, <2>2, <3>1 DEF Return, Answered
  <2>3. CASE c = Reconciler /\ IF ok THEN ClearInbound ELSE ScheduleInbound
    <3>1. c \notin Request
      BY <2>3, WarmAssumption
    <3> QED BY <1>3, <2>3, <3>1 DEF Return, Answered
  <2> QED BY <1>3, <2>1, <2>2, <2>3 DEF Return
<1>4. CASE StartInbound(c)
  <2>1. pc[c] = "look" /\ UNCHANGED <<retiring, held>>
    BY <1>4 DEF StartInbound
  <2>2. CASE Return(c, FALSE) /\ UNCHANGED <<pool, cs, listening>>
    <3>1. Answered(c)
      BY <1>3, <2>1, <2>2 DEF WarmTypeOK
    <3> QED BY <3>1
  <2>3. CASE LookUp(c)
    BY <1>2, <2>1, <2>3
  <2> QED BY <1>4, <2>2, <2>3 DEF StartInbound
<1>5. ASSUME pc[c] \in {"wait", "own"}
      PROVE  awaits[c] \in Conn /\ awaits[c] # None
  BY <1>5 DEF AwaitsSound, WarmTypeOK
<1>6. CASE Resume(c)
  <2>1. pc[c] = "wait" /\ Settled(awaits[c]) /\ awaits[c] \in Conn
    BY <1>5, <1>6 DEF Resume
  <2>2. CASE /\ cs[awaits[c]] = "open" /\ Return(c, TRUE)
             /\ held' = (held /\ (c \in Request \/ Carries(awaits[c])))
             /\ UNCHANGED <<pool, cs, listening, retiring>>
    <3>1. held' \in {held, FALSE}
      BY <2>2 DEF WarmTypeOK
    <3>2. held' /\ c \notin Request => awaits[c] \in listening
      BY <2>2 DEF Carries
    <3>3. Answered(c)
      BY <1>3, <2>1, <2>2, <3>1, <3>2
    <3> QED BY <3>3
  <2>3. CASE /\ cs[awaits[c]] # "open" /\ Create(c)
             /\ retiring' = retiring \cup {n \in Conn : n = awaits[c] /\ IsOpen(n)}
             /\ held' = (held /\ ~IsOpen(awaits[c]))
    <3>1. \/ UNCHANGED <<retiring, held>>
          \/ /\ awaits[c] \in Conn /\ cs[awaits[c]] = "stale"
             /\ retiring' = retiring \cup {awaits[c]} /\ held' = FALSE
      BY <2>1, <2>3 DEF IsOpen, WarmTypeOK
    <3>2. Opened(c)
      BY <2>1, <2>3, <3>1 DEF Create, Opened
    <3> QED BY <3>2
  <2> QED BY <1>6, <2>2, <2>3 DEF Resume
<1>7. CASE Created(c)
  <2> DEFINE ok == cs[awaits[c]] # "failed"
  <2>1. pc[c] = "own" /\ Settled(awaits[c]) /\ awaits[c] \in Conn
    BY <1>5, <1>7 DEF Created
  <2>2. /\ Return(c, ok) /\ UNCHANGED <<pool, cs, listening, retiring>>
        /\ held' = (held /\ (c \in Request \/ ~ok \/ Carries(awaits[c])))
    BY <1>7 DEF Created, poolVars
  <2>3. ok \in BOOLEAN /\ held' \in {held, FALSE}
    BY <2>2 DEF WarmTypeOK
  <2>4. ok /\ held' /\ c \notin Request => awaits[c] \in listening /\ cs[awaits[c]] = "open"
    BY <2>1, <2>2 DEF Carries, Settled, AwaitsSound, WarmTypeOK
  <2> HIDE DEF ok
  <2>5. Answered(c)
    BY <1>3, <2>1, <2>2, <2>3, <2>4
  <2> QED BY <2>5
<1>8. CASE c \in Request /\ Use(c)
  <2>1. c \notin Flight
    BY <1>8, WarmAssumption
  <2> QED BY <1>2, <1>8, <2>1 DEF Use
<1> QED BY <1>4, <1>6, <1>7, <1>8
-----------------------------------------------------------------------------
(* A caller's steps keep the invariant's parts.                            *)

LEMMA AnsweredKeeps ==
  ASSUME WarmInv, SchedTypeOK', NEW c \in Caller, Answered(c),
         UNCHANGED <<doomed, onClose, evicting, rearming, wanted, inbox>>
  PROVE  WarmTypeOK' /\ PoolParts'
<1> USE DEF WarmInv, PoolParts
<1>1. /\ UNCHANGED <<pool, cs, listening, retiring>> /\ held' \in {held, FALSE}
      /\ pc' = [pc EXCEPT ![c] = "idle"] /\ awaits' = [awaits EXCEPT ![c] = None]
      /\ pc[c] # "idle"
  BY DEF Answered
<1>2. gate' = gate
  BY DEF Answered, schedVars, Failed, Succeeded, Landed, ScheduleInbound, ClearInbound
<1>3. WarmTypeOK'
  <2>1. /\ pc' \in [Caller -> {"idle", "look", "wait", "own", "start", "close"}]
        /\ awaits' \in [Caller -> Conn \cup {None}] /\ held' \in BOOLEAN
    BY <1>1 DEF WarmTypeOK
  <2> QED BY <1>1, <1>2, <2>1 DEF WarmTypeOK
<1>4. PoolSound' /\ RetiredOld' /\ DeadEntryNoticed' /\ PoolCarries'
  <2>1. held' => held
    BY <1>1
  <2>2. PoolCarries'
    BY <1>1, <2>1 DEF PoolCarries
  <2> QED BY <1>1, <2>2 DEF PoolSound, RetiredOld, DeadEntryNoticed
<1>5. AwaitsSound'
  <2>1. /\ \A d \in Caller : pc'[d] = IF d = c THEN "idle" ELSE pc[d]
        /\ \A d \in Caller : awaits'[d] = IF d = c THEN None ELSE awaits[d]
    BY <1>1 DEF WarmTypeOK
  <2> QED BY <1>1, <2>1 DEF AwaitsSound
<1>6. FlightsCounted'
  <2>1. CASE c \in Flight
    <3>1. c # Reconciler /\ c \notin Request
      BY <2>1, WarmAssumption
    <3>2. Landed(c[1])
      BY <3>1 DEF Answered, Failed, Succeeded
    <3> QED BY <1>1, <2>1, <3>2, CountsAfterEnd DEF Landed
  <2>2. CASE c \notin Flight
    <3>1. flying' = flying
      BY <2>2, ScheduleArms DEF Answered, schedVars, ClearInbound
    <3>2. \A d \in Flight : pc'[d] = pc[d]
      BY <1>1, <2>2 DEF WarmTypeOK, Caller
    <3> QED BY <3>1, <3>2, CountsKept
  <2> QED BY <2>1, <2>2
<1>7. BringsBack'
  <2> SUFFICES ASSUME wanted, inbox, held'
               PROVE  \/ \E n \in listening \ retiring : IsOpen(n)
                      \/ current' # None
                      \/ rearming
                      \/ \E h \in onClose : Rearms(h)
    BY <1>1 DEF BringsBack, Rearms, IsOpen
  <2>0. held
    BY <1>1
  <2>1. CASE current' = current
    BY <2>0, <2>1 DEF BringsBack
  <2>2. CASE c \in Flight /\ Failed(c[1])
    <3>1. current' = current \/ current' = c[1]
      BY <2>2 DEF Failed, Rearm, WarmTypeOK
    <3>2. c[1] # None
      BY <2>2, FlightOf, EntryAssumption
    <3> QED BY <2>1, <3>1, <3>2
  <2>3. CASE c = Reconciler /\ ScheduleInbound
    BY <2>3, ScheduleArms
  <2>4. CASE awaits[c] \in listening /\ cs[awaits[c]] = "open"
    <3>1. awaits[c] \notin retiring
      BY <2>4 DEF RetiredOld
    <3> QED BY <2>4, <3>1 DEF IsOpen
  <2> QED BY <2>1, <2>2, <2>3, <2>4 DEF Answered, schedVars
<1> QED BY <1>3, <1>4, <1>5, <1>6, <1>7

LEMMA OpenedKeeps ==
  ASSUME WarmInv, SchedTypeOK', NEW c \in Caller, Opened(c),
         UNCHANGED <<doomed, onClose, evicting, rearming, wanted, inbox>>
  PROVE  WarmTypeOK' /\ PoolParts'
<1> USE DEF WarmInv, PoolParts
<1>1. PICK n \in Fresh :
        /\ cs' = [cs EXCEPT ![n] = "connecting"] /\ pool' = n
        /\ listening' = IF inbox THEN listening \cup {n} ELSE listening \ {n}
        /\ awaits' = [awaits EXCEPT ![c] = n]
  BY DEF Opened
<1>2. /\ c \in Flight => pc[c] # "idle"
      /\ pc' = [pc EXCEPT ![c] = "own"] /\ UNCHANGED schedVars
  BY DEF Opened
<1>3. \/ UNCHANGED <<retiring, held>>
      \/ /\ awaits[c] \in Conn /\ cs[awaits[c]] = "stale"
         /\ retiring' = retiring \cup {awaits[c]} /\ held' = FALSE
  BY DEF Opened
<1>4. /\ n \in Conn /\ cs[n] \in {"failed", "closed"} /\ n \notin retiring
      /\ \A d \in Caller : awaits[d] # n
      /\ \A h \in onClose : n \notin {h[1], h[2]}
  BY DEF Fresh
<1>5. /\ \A m \in Conn : cs'[m] = IF m = n THEN "connecting" ELSE cs[m]
      /\ \A d \in Caller : pc'[d] = IF d = c THEN "own" ELSE pc[d]
      /\ \A d \in Caller : awaits'[d] = IF d = c THEN n ELSE awaits[d]
  BY <1>1, <1>2, <1>4 DEF WarmTypeOK
<1>6. WarmTypeOK'
  <2>1. /\ pool' \in Conn /\ awaits' \in [Caller -> Conn \cup {None}]
        /\ pc' \in [Caller -> {"idle", "look", "wait", "own", "start", "close"}]
        /\ cs' \in [Conn -> {"connecting", "open", "stale", "failed", "closed"}]
    BY <1>1, <1>2, <1>4 DEF WarmTypeOK
  <2>2. doomed' \subseteq {m \in Conn : cs'[m] = "connecting"}
    BY <1>5 DEF WarmTypeOK
  <2>3. retiring' \subseteq Conn /\ held' \in BOOLEAN
    BY <1>3 DEF WarmTypeOK
  <2>4. listening' \subseteq Conn
    BY <1>1, <1>4 DEF WarmTypeOK
  <2> QED BY <1>2, <2>1, <2>2, <2>3, <2>4 DEF WarmTypeOK, schedVars
<1>7. n \notin doomed /\ n # None /\ n \notin retiring'
  BY <1>3, <1>4, WarmAssumption DEF WarmTypeOK
<1>8. PoolSound' /\ DeadEntryNoticed'
  BY <1>1, <1>4, <1>5, <1>7 DEF PoolSound, DeadEntryNoticed
<1>9. RetiredOld'
  BY <1>3, <1>4, <1>5 DEF RetiredOld, WarmTypeOK
<1>10. AwaitsSound'
  <2> SUFFICES ASSUME NEW d \in Caller
               PROVE  /\ awaits'[d] # None <=> pc'[d] \in {"wait", "own"}
                      /\ pc'[d] = "own" => cs'[awaits'[d]] # "stale"
    BY DEF AwaitsSound
  <2>1. CASE d = c
    BY <1>4, <1>5, <1>7, <2>1
  <2>2. CASE d # c
    <3>1. pc'[d] = pc[d] /\ awaits'[d] = awaits[d] /\ awaits[d] \in Conn \cup {None}
      BY <1>5, <2>2 DEF WarmTypeOK
    <3>2. awaits[d] # None => cs'[awaits[d]] = cs[awaits[d]]
      BY <1>4, <1>5, <3>1
    <3> QED BY <3>1, <3>2 DEF AwaitsSound
  <2> QED BY <2>1, <2>2
<1>11. FlightsCounted'
  <2>1. \A d \in Flight : pc'[d] = "idle" <=> pc[d] = "idle"
    BY <1>2, <1>5 DEF Caller
  <2> QED BY <1>2, <2>1, CountsKept DEF schedVars
<1>12. PoolCarries'
  BY <1>1 DEF PoolCarries
<1>13. BringsBack'
  <2> SUFFICES ASSUME wanted, inbox, held'
               PROVE  \/ \E m \in listening' \ retiring' : IsOpen(m)'
                      \/ current' # None
                      \/ rearming
                      \/ \E h \in onClose : Rearms(h)'
    BY DEF BringsBack
  <2>0. held /\ retiring' = retiring
    BY <1>3
  <2>1. ASSUME NEW m \in listening \ retiring, IsOpen(m)
        PROVE  m \in listening' \ retiring' /\ IsOpen(m)'
    <3>1. m \in Conn /\ m # n
      BY <1>4, <2>1 DEF IsOpen, WarmTypeOK
    <3> QED BY <1>1, <1>5, <2>0, <2>1, <3>1 DEF IsOpen
  <2>2. CASE current # None
    BY <1>2, <2>2 DEF schedVars
  <2>3. ASSUME NEW h \in onClose, Rearms(h) PROVE Rearms(h)'
    <3>1. h[2] \in Conn \cup {None} /\ h[2] # n /\ h[1] # n
      BY <1>4 DEF WarmTypeOK
    <3>2. h[1] \in listening' /\ (h[2] \in listening => h[2] \in listening')
      BY <1>1, <2>3, <3>1 DEF Rearms
    <3>3. h[2] # None => cs'[h[2]] = cs[h[2]]
      BY <1>5, <3>1
    <3> QED BY <2>0, <2>3, <3>1, <3>2, <3>3 DEF Rearms
  <2> QED BY <2>0, <2>1, <2>2, <2>3 DEF BringsBack
<1> QED BY <1>6, <1>8, <1>9, <1>10, <1>11, <1>12, <1>13

LEMMA JoinedKeeps ==
  ASSUME WarmInv, SchedTypeOK', NEW c \in Caller, Joined(c),
         UNCHANGED <<doomed, onClose, evicting, rearming, wanted, inbox>>
  PROVE  WarmTypeOK' /\ PoolParts'
<1> USE DEF WarmInv, PoolParts
<1>1. /\ c \in Flight => pc[c] # "idle"
      /\ pool # None
      /\ pc' = [pc EXCEPT ![c] = "wait"] /\ awaits' = [awaits EXCEPT ![c] = pool]
      /\ UNCHANGED <<schedVars, pool, cs, listening, retiring, held>>
  BY DEF Joined
<1>2. /\ \A d \in Caller : pc'[d] = IF d = c THEN "wait" ELSE pc[d]
      /\ \A d \in Caller : awaits'[d] = IF d = c THEN pool ELSE awaits[d]
  BY <1>1 DEF WarmTypeOK
<1>3. WarmTypeOK'
  <2>1. /\ pc' \in [Caller -> {"idle", "look", "wait", "own", "start", "close"}]
        /\ awaits' \in [Caller -> Conn \cup {None}]
    BY <1>1 DEF WarmTypeOK
  <2> QED BY <1>1, <2>1 DEF WarmTypeOK, schedVars
<1>4. PoolSound' /\ RetiredOld' /\ DeadEntryNoticed' /\ PoolCarries'
  BY <1>1 DEF PoolSound, RetiredOld, DeadEntryNoticed, PoolCarries
<1>5. AwaitsSound'
  BY <1>1, <1>2 DEF AwaitsSound
<1>6. FlightsCounted'
  <2>1. \A d \in Flight : pc'[d] = "idle" <=> pc[d] = "idle"
    BY <1>1, <1>2 DEF Caller
  <2> QED BY <1>1, <2>1, CountsKept DEF schedVars
<1>7. BringsBack'
  BY <1>1 DEF BringsBack, Rearms, IsOpen, schedVars
<1> QED BY <1>3, <1>4, <1>5, <1>6, <1>7
-----------------------------------------------------------------------------
(* The network's steps keep the invariant's parts.                         *)

\* A reading while the inbox is on record adds a listener; without one the two
\* properties of an inbox that has been up say nothing.
LEMMA ReadInboxKeeps ==
  ASSUME WarmInv, SchedTypeOK', NEW n \in Conn, ReadInbox(n)
  PROVE  WarmTypeOK' /\ PoolParts'
<1> USE DEF WarmInv, PoolParts
<1>1. /\ UNCHANGED <<schedVars, pool, cs, doomed, retiring, onClose, evicting, rearming, pc,
                     awaits, wanted, inbox, held>>
      /\ inbox => listening \subseteq listening'
      /\ listening' \subseteq listening \cup {n}
  BY DEF ReadInbox, callVars
<1>2. WarmTypeOK'
  BY <1>1 DEF WarmTypeOK, schedVars
<1>3. PoolSound' /\ RetiredOld' /\ DeadEntryNoticed' /\ AwaitsSound' /\ PoolCarries'
  BY <1>1 DEF PoolSound, RetiredOld, DeadEntryNoticed, AwaitsSound, PoolCarries
<1>4. FlightsCounted'
  BY <1>1, CountsKept DEF schedVars
<1>5. BringsBack'
  <2> SUFFICES ASSUME wanted, inbox, held, current = None, ~rearming
               PROVE  \/ \E m \in listening' \ retiring : IsOpen(m)
                      \/ \E h \in onClose : Rearms(h)'
    BY <1>1 DEF BringsBack, IsOpen, schedVars
  <2>1. \/ \E m \in listening \ retiring : IsOpen(m)
        \/ \E h \in onClose : Rearms(h)
    BY DEF BringsBack
  <2>2. ASSUME NEW h \in onClose, Rearms(h) PROVE Rearms(h)'
    BY <1>1, <2>2 DEF Rearms
  <2> QED BY <1>1, <2>1, <2>2
<1> QED BY <1>2, <1>3, <1>4, <1>5

LEMMA ConnectKeeps ==
  ASSUME WarmInv, SchedTypeOK', NEW n \in Conn, Connect(n)
  PROVE  WarmTypeOK' /\ PoolParts'
<1> USE DEF WarmInv, PoolParts
<1>1. /\ cs[n] = "connecting" /\ doomed' = doomed \ {n}
      /\ cs' = [cs EXCEPT ![n] = IF n \in doomed THEN "closed" ELSE "open"]
      /\ held' = (held \/ (n = pool /\ n \in listening))
      /\ UNCHANGED <<schedVars, pool, listening, retiring, onClose, evicting, rearming, pc,
                     awaits, wanted, inbox>>
  BY DEF Connect, callVars
<1>2. \A m \in Conn : cs'[m] = IF m # n THEN cs[m]
                               ELSE IF n \in doomed THEN "closed" ELSE "open"
  BY <1>1 DEF WarmTypeOK
<1>3. WarmTypeOK'
  <2>1. doomed' \subseteq {m \in Conn : cs'[m] = "connecting"} /\ held' \in BOOLEAN
    BY <1>1, <1>2 DEF WarmTypeOK
  <2>2. cs' \in [Conn -> {"connecting", "open", "stale", "failed", "closed"}]
    BY <1>1 DEF WarmTypeOK
  <2> QED BY <1>1, <2>1, <2>2 DEF WarmTypeOK, schedVars
<1>4. PoolSound' /\ DeadEntryNoticed' /\ RetiredOld'
  <2>1. n \notin retiring
    BY <1>1 DEF RetiredOld
  <2>2. RetiredOld'
    BY <1>1, <1>2, <2>1 DEF RetiredOld, WarmTypeOK
  <2> QED BY <1>1, <1>2, <2>2 DEF PoolSound, DeadEntryNoticed, WarmTypeOK
<1>5. AwaitsSound'
  <2>1. \A d \in Caller : awaits[d] # None => awaits[d] \in Conn
    BY DEF WarmTypeOK
  <2> QED BY <1>1, <1>2, <2>1 DEF AwaitsSound
<1>6. FlightsCounted'
  BY <1>1, CountsKept DEF schedVars
<1>7. PoolCarries' /\ BringsBack'
  <2>1. CASE n = pool /\ n \in listening
    <3>1. n \in listening \ retiring /\ cs'[n] = "open" /\ n \notin doomed
      BY <1>2, <2>1, WarmAssumption DEF PoolSound
    <3>2. n \in listening' \ retiring' /\ IsOpen(n)'
      BY <1>1, <3>1 DEF IsOpen
    <3> QED BY <1>1, <2>1, <3>2 DEF PoolCarries, BringsBack
  <2>2. CASE ~(n = pool /\ n \in listening)
    <3>1. held' <=> held
      BY <1>1, <2>2
    <3>2. PoolCarries'
      BY <1>1, <3>1 DEF PoolCarries
    <3>3. SUFFICES ASSUME wanted, inbox, held
                   PROVE  \/ \E m \in listening \ retiring : IsOpen(m)'
                          \/ current # None
                          \/ rearming
                          \/ \E h \in onClose : Rearms(h)'
      BY <1>1, <3>1, <3>2 DEF BringsBack, schedVars
    <3>4. ASSUME NEW m \in listening \ retiring, IsOpen(m) PROVE IsOpen(m)'
      BY <1>1, <1>2, <3>4 DEF IsOpen, WarmTypeOK
    <3>5. ASSUME NEW h \in onClose, Rearms(h), h[2] # n PROVE Rearms(h)'
      <4>1. h[2] # None => h[2] \in Conn /\ cs'[h[2]] = cs[h[2]]
        BY <1>2, <3>5 DEF WarmTypeOK
      <4>2. h[2] \in doomed' => h[2] \in doomed
        BY <1>1
      <4> QED BY <1>1, <3>5, <4>1, <4>2, WarmAssumption DEF Rearms, WarmTypeOK
    <3>6. ASSUME NEW h \in onClose, Rearms(h), h[2] = n
          PROVE  Rearms(h)' \/ \E m \in listening \ retiring : IsOpen(m)'
      <4>1. CASE h[2] \in {None, h[1]}
        BY <1>1, <3>6, <4>1 DEF Rearms
      <4>2. CASE h[2] \notin {None, h[1]}
        <5>1. n \in listening \ (doomed \cup retiring)
          BY <1>1, <3>6, <4>2 DEF Rearms
        <5>2. cs'[n] = "open"
          BY <1>2, <5>1
        <5> QED BY <5>1, <5>2 DEF IsOpen
      <4> QED BY <4>1, <4>2
    <3> QED BY <3>3, <3>4, <3>5, <3>6 DEF BringsBack
  <2> QED BY <2>1, <2>2
<1> QED BY <1>3, <1>4, <1>5, <1>6, <1>7

LEMMA ConnectFailsKeeps ==
  ASSUME WarmInv, SchedTypeOK', NEW n \in Conn, ConnectFails(n)
  PROVE  WarmTypeOK' /\ PoolParts'
<1> USE DEF WarmInv, PoolParts
<1>1. /\ cs[n] = "connecting" /\ doomed' = doomed \ {n} /\ pool' = None
      /\ cs' = [cs EXCEPT ![n] = "failed"]
      /\ UNCHANGED <<schedVars, listening, retiring, onClose, evicting, rearming, pc, awaits,
                     wanted, inbox, held>>
  BY DEF ConnectFails, callVars
<1>2. \A m \in Conn : cs'[m] = IF m = n THEN "failed" ELSE cs[m]
  BY <1>1 DEF WarmTypeOK
<1>3. WarmTypeOK'
  <2>1. doomed' \subseteq {m \in Conn : cs'[m] = "connecting"}
    BY <1>1, <1>2 DEF WarmTypeOK
  <2>2. cs' \in [Conn -> {"connecting", "open", "stale", "failed", "closed"}]
    BY <1>1 DEF WarmTypeOK
  <2> QED BY <1>1, <2>1, <2>2 DEF WarmTypeOK, schedVars
<1>4. PoolSound' /\ DeadEntryNoticed' /\ PoolCarries'
  BY <1>1 DEF PoolSound, DeadEntryNoticed, PoolCarries
<1>5. RetiredOld'
  <2>1. n \notin retiring
    BY <1>1 DEF RetiredOld
  <2> QED BY <1>1, <1>2, <2>1 DEF RetiredOld, WarmTypeOK
<1>6. AwaitsSound'
  <2>1. \A d \in Caller : awaits[d] # None => awaits[d] \in Conn
    BY DEF WarmTypeOK
  <2> QED BY <1>1, <1>2, <2>1 DEF AwaitsSound
<1>7. FlightsCounted'
  BY <1>1, CountsKept DEF schedVars
<1>8. BringsBack'
  <2> SUFFICES ASSUME wanted, inbox, held
               PROVE  \/ \E m \in listening \ retiring : IsOpen(m)'
                      \/ current # None
                      \/ rearming
                      \/ \E h \in onClose : Rearms(h)'
    BY <1>1 DEF BringsBack, schedVars
  <2>1. ASSUME NEW m \in listening \ retiring, IsOpen(m) PROVE IsOpen(m)'
    BY <1>1, <1>2, <2>1 DEF IsOpen, WarmTypeOK
  <2>2. ASSUME NEW h \in onClose, Rearms(h) PROVE Rearms(h)'
    <3>1. h[2] # None => h[2] \in Conn
      BY DEF WarmTypeOK
    <3> QED BY <1>1, <1>2, <2>2, <3>1 DEF Rearms
  <2> QED BY <2>1, <2>2 DEF BringsBack
<1> QED BY <1>3, <1>4, <1>5, <1>6, <1>7, <1>8

\* The token of an open connection that nobody awaits runs out.
LEMMA ExpireKeeps ==
  ASSUME WarmInv, SchedTypeOK', NEW n \in Conn, Expire(n)
  PROVE  WarmTypeOK' /\ PoolParts'
<1> USE DEF WarmInv, PoolParts
<1>1. /\ Quiet /\ cs[n] = "open"
      /\ cs' = [cs EXCEPT ![n] = "stale"]
      /\ UNCHANGED <<schedVars, pool, listening, doomed, retiring, onClose, evicting, rearming,
                     pc, awaits, wanted, inbox, held>>
  BY DEF Expire, callVars
<1>2. \A m \in Conn : cs'[m] = IF m = n THEN "stale" ELSE cs[m]
  BY <1>1 DEF WarmTypeOK
<1>3. WarmTypeOK'
  <2>1. doomed' \subseteq {m \in Conn : cs'[m] = "connecting"}
    BY <1>1, <1>2 DEF WarmTypeOK
  <2>2. cs' \in [Conn -> {"connecting", "open", "stale", "failed", "closed"}]
    BY <1>1 DEF WarmTypeOK
  <2> QED BY <1>1, <2>1, <2>2 DEF WarmTypeOK, schedVars
<1>4. PoolSound' /\ DeadEntryNoticed' /\ PoolCarries'
  BY <1>1, <1>2 DEF PoolSound, DeadEntryNoticed, PoolCarries, WarmTypeOK
<1>5. RetiredOld'
  BY <1>1, <1>2 DEF RetiredOld, WarmTypeOK
<1>6. AwaitsSound'
  <2>1. \A d \in Caller : awaits[d] # None =>
          awaits[d] \in Conn /\ cs'[awaits[d]] = cs[awaits[d]]
    BY <1>1, <1>2 DEF Quiet, Settled, WarmTypeOK
  <2> QED BY <1>1, <2>1 DEF AwaitsSound
<1>7. FlightsCounted'
  BY <1>1, CountsKept DEF schedVars
<1>8. BringsBack'
  <2> SUFFICES ASSUME wanted, inbox, held
               PROVE  \/ \E m \in listening \ retiring : IsOpen(m)'
                      \/ current # None
                      \/ rearming
                      \/ \E h \in onClose : Rearms(h)'
    BY <1>1 DEF BringsBack, schedVars
  <2>1. ASSUME NEW m \in listening \ retiring, IsOpen(m) PROVE IsOpen(m)'
    BY <1>1, <1>2, <2>1 DEF IsOpen, WarmTypeOK
  <2>2. ASSUME NEW h \in onClose, Rearms(h) PROVE Rearms(h)'
    <3>1. h[2] # None => h[2] \in Conn
      BY DEF WarmTypeOK
    <3> QED BY <1>1, <1>2, <2>2, <3>1 DEF Rearms
  <2> QED BY <2>1, <2>2 DEF BringsBack
<1> QED BY <1>3, <1>4, <1>5, <1>6, <1>7, <1>8
\* A retired connection closes; it is not the pool's.
LEMMA RetireKeeps ==
  ASSUME WarmInv, SchedTypeOK', NEW n \in Conn, Retire(n)
  PROVE  WarmTypeOK' /\ PoolParts'
<1> USE DEF WarmInv, PoolParts
<1>1. /\ n \in retiring /\ retiring' = retiring \ {n}
      /\ cs' = [cs EXCEPT ![n] = IF IsOpen(n) THEN "closed" ELSE @]
      /\ UNCHANGED <<schedVars, pool, listening, doomed, onClose, evicting, rearming, pc,
                     awaits, wanted, inbox, held>>
  BY DEF Retire, callVars
<1>2. cs[n] \in {"stale", "closed"} /\ n # pool
  BY <1>1, WarmAssumption DEF RetiredOld, PoolSound, WarmTypeOK
<1>3. \A m \in Conn : cs'[m] = IF m = n THEN "closed" ELSE cs[m]
  BY <1>1, <1>2 DEF WarmTypeOK, IsOpen
<1>4. WarmTypeOK'
  <2>1. doomed' \subseteq {m \in Conn : cs'[m] = "connecting"} /\ retiring' \subseteq Conn
    BY <1>1, <1>2, <1>3 DEF WarmTypeOK
  <2>2. cs' \in [Conn -> {"connecting", "open", "stale", "failed", "closed"}]
    BY <1>1, <1>2 DEF WarmTypeOK, IsOpen
  <2> QED BY <1>1, <2>1, <2>2 DEF WarmTypeOK, schedVars
<1>5. PoolSound' /\ DeadEntryNoticed' /\ PoolCarries'
  BY <1>1, <1>2, <1>3 DEF PoolSound, DeadEntryNoticed, PoolCarries, WarmTypeOK
<1>6. RetiredOld'
  BY <1>1, <1>3 DEF RetiredOld, WarmTypeOK
<1>7. AwaitsSound'
  <2>1. \A d \in Caller : awaits[d] # None => awaits[d] \in Conn
    BY DEF WarmTypeOK
  <2> QED BY <1>1, <1>3, <2>1 DEF AwaitsSound
<1>8. FlightsCounted'
  BY <1>1, CountsKept DEF schedVars
<1>9. BringsBack'
  <2> SUFFICES ASSUME wanted, inbox, held
               PROVE  \/ \E m \in listening \ retiring' : IsOpen(m)'
                      \/ current # None
                      \/ rearming
                      \/ \E h \in onClose : Rearms(h)'
    BY <1>1 DEF BringsBack, schedVars
  <2>1. ASSUME NEW m \in listening \ retiring, IsOpen(m)
        PROVE  m \in listening \ retiring' /\ IsOpen(m)'
    BY <1>1, <1>3, <2>1 DEF IsOpen, WarmTypeOK
  <2>2. ASSUME NEW h \in onClose, Rearms(h) PROVE Rearms(h)'
    <3>1. h[2] # None => h[2] \in Conn
      BY DEF WarmTypeOK
    <3> QED BY <1>1, <1>2, <1>3, <2>2, <3>1 DEF Rearms
  <2> QED BY <2>1, <2>2 DEF BringsBack
<1> QED BY <1>4, <1>5, <1>6, <1>7, <1>8, <1>9

\* What drops leaves another live connection of the inbox in the pool, or one that
\* is connecting, or a close handler that will arm the loop.
LEMMA DropKeeps ==
  ASSUME WarmInv, SchedTypeOK', NEW n \in Conn, Drop(n)
  PROVE  WarmTypeOK' /\ PoolParts'
<1> USE DEF WarmInv, PoolParts
<1>1. /\ Quiet /\ IsOpen(n)
      /\ cs' = [cs EXCEPT ![n] = "closed"]
      /\ onClose' = onClose \cup {<<n, pool>>}
      /\ UNCHANGED <<schedVars, pool, listening, doomed, retiring, evicting, rearming, pc,
                     awaits, wanted, inbox, held>>
  BY DEF Drop, callVars
<1>2. /\ cs[n] \in {"open", "stale"}
      /\ \A m \in Conn : cs'[m] = IF m = n THEN "closed" ELSE cs[m]
  BY <1>1 DEF IsOpen, WarmTypeOK
<1>3. WarmTypeOK'
  <2>1. doomed' \subseteq {m \in Conn : cs'[m] = "connecting"}
    BY <1>1, <1>2 DEF WarmTypeOK
  <2>2. cs' \in [Conn -> {"connecting", "open", "stale", "failed", "closed"}]
    BY <1>1 DEF WarmTypeOK
  <2>3. onClose' \subseteq Conn \X (Conn \cup {None})
    BY <1>1 DEF WarmTypeOK
  <2> QED BY <1>1, <2>1, <2>2, <2>3 DEF WarmTypeOK, schedVars
<1>4. PoolSound' /\ DeadEntryNoticed' /\ PoolCarries' /\ RetiredOld'
  <2>1. pool # None => pool \in Conn
    BY DEF WarmTypeOK
  <2>2. RetiredOld'
    BY <1>1, <1>2 DEF RetiredOld, WarmTypeOK
  <2> QED BY <1>1, <1>2, <2>1, <2>2 DEF PoolSound, DeadEntryNoticed, PoolCarries
<1>5. AwaitsSound'
  <2>1. \A d \in Caller : awaits[d] # None => awaits[d] \in Conn
    BY DEF WarmTypeOK
  <2> QED BY <1>1, <1>2, <2>1 DEF AwaitsSound
<1>6. FlightsCounted'
  BY <1>1, CountsKept DEF schedVars
<1>7. BringsBack'
  <2> SUFFICES ASSUME wanted, inbox, held
               PROVE  \/ \E m \in listening \ retiring : IsOpen(m)'
                      \/ current # None
                      \/ rearming
                      \/ \E h \in onClose' : Rearms(h)'
    BY <1>1 DEF BringsBack, schedVars
  <2>1. ASSUME NEW m \in listening \ retiring, IsOpen(m), m # n PROVE IsOpen(m)'
    BY <1>2, <2>1 DEF IsOpen, WarmTypeOK
  <2>2. ASSUME NEW h \in onClose, Rearms(h) PROVE h \in onClose' /\ Rearms(h)'
    <3>1. h[2] # None => h[2] \in Conn
      BY DEF WarmTypeOK
    <3> QED BY <1>1, <1>2, <2>2, <3>1 DEF Rearms
  <2>3. ASSUME n \in listening \ retiring
        PROVE  \/ \E m \in listening \ retiring : IsOpen(m)'
               \/ \E h \in onClose' : Rearms(h)'
    <3>1. PICK h \in onClose' : h[1] = n /\ h[2] = pool
      <4>1. <<n, pool>> \in onClose' /\ <<n, pool>>[1] = n /\ <<n, pool>>[2] = pool
        BY <1>1
      <4> QED BY <4>1
    <3>2. CASE pool \in {None, n}
      <4>1. Rearms(h)'
        BY <1>1, <2>3, <3>1, <3>2 DEF Rearms
      <4> QED BY <4>1
    <3>3. CASE pool \notin {None, n}
      <4>1. pool \in Conn /\ pool \in listening \ (doomed \cup retiring) /\ cs'[pool] = cs[pool]
        BY <1>2, <3>3 DEF WarmTypeOK, PoolSound, PoolCarries
      <4>2. cs[pool] # "closed"
        <5> SUFFICES ASSUME cs[pool] = "closed" PROVE FALSE
          OBVIOUS
        <5>1. <<pool, pool>> \in onClose
          BY <3>3 DEF DeadEntryNoticed
        <5> QED BY <1>1, <5>1 DEF Quiet, Settled
      <4>3. cs[pool] \in {"connecting", "open", "stale"}
        BY <3>3, <4>1, <4>2 DEF WarmTypeOK, DeadEntryNoticed
      <4>4. CASE cs[pool] \in {"open", "stale"}
        BY <4>1, <4>4 DEF IsOpen
      <4>5. CASE cs[pool] = "connecting"
        <5>1. Rearms(h)'
          BY <1>1, <2>3, <3>1, <4>1, <4>5 DEF Rearms
        <5> QED BY <5>1
      <4> QED BY <4>3, <4>4, <4>5
    <3> QED BY <3>2, <3>3
  <2> QED BY <2>1, <2>2, <2>3 DEF BringsBack
<1> QED BY <1>3, <1>4, <1>5, <1>6, <1>7

LEMMA CloseHandledKeeps ==
  ASSUME WarmInv, SchedTypeOK', NEW h \in onClose, CloseHandled(h)
  PROVE  WarmTypeOK' /\ PoolParts'
<1> USE DEF WarmInv, PoolParts
<1>1. /\ h[2] # None => Settled(h[2])
      /\ onClose' = onClose \ {h}
      /\ UNCHANGED <<cs, listening, doomed, retiring, evicting, rearming, pc, awaits, wanted,
                     inbox, held>>
  BY DEF CloseHandled, callVars
<1>2. /\ Superseded(h) => UNCHANGED <<pool, schedVars>>
      /\ ~Superseded(h) => /\ pool' = IF pool = h[2] THEN None ELSE pool
                           /\ h[1] \in listening => ScheduleInbound
                           /\ h[1] \notin listening => UNCHANGED schedVars
  BY DEF CloseHandled
<1>3. flying' = flying /\ gate' = gate /\ pool' \in {pool, None}
  BY <1>2, ScheduleArms DEF schedVars
<1>4. WarmTypeOK'
  BY <1>1, <1>3 DEF WarmTypeOK
<1>5. PoolSound' /\ RetiredOld' /\ PoolCarries'
  BY <1>1, <1>3 DEF PoolSound, RetiredOld, PoolCarries
<1>6. DeadEntryNoticed'
  <2> SUFFICES ASSUME pool' # None, cs[pool'] = "closed" PROVE <<pool', pool'>> \in onClose'
    BY <1>1, <1>3 DEF DeadEntryNoticed
  <2>1. pool' = pool /\ <<pool, pool>> \in onClose
    BY <1>3 DEF DeadEntryNoticed
  <2>2. h # <<pool, pool>>
    <3> SUFFICES ASSUME h = <<pool, pool>> PROVE FALSE
      OBVIOUS
    <3>1. h[1] = pool /\ h[2] = pool
      OBVIOUS
    <3>2. ~Superseded(h)
      BY <3>1 DEF Superseded
    <3> QED BY <1>2, <2>1, <3>1, <3>2
  <2> QED BY <1>1, <2>1, <2>2
<1>7. AwaitsSound'
  BY <1>1 DEF AwaitsSound
<1>8. FlightsCounted'
  BY <1>1, <1>3, CountsKept
<1>9. BringsBack'
  <2> SUFFICES ASSUME wanted, inbox, held
               PROVE  \/ \E m \in listening \ retiring : IsOpen(m)
                      \/ current' # None
                      \/ rearming
                      \/ \E g \in onClose' : Rearms(g)
    BY <1>1 DEF BringsBack, Rearms, IsOpen
  <2>1. CASE Superseded(h)
    <3>1. current' = current
      BY <1>2, <2>1 DEF schedVars
    <3>2. ~Rearms(h)
      BY <1>1, <2>1 DEF Superseded, Settled, Rearms
    <3> QED BY <1>1, <3>1, <3>2 DEF BringsBack
  <2>2. CASE ~Superseded(h) /\ h[1] \in listening
    BY <1>2, <2>2, ScheduleArms
  <2>3. CASE ~Superseded(h) /\ h[1] \notin listening
    <3>1. current' = current /\ ~Rearms(h)
      BY <1>2, <2>3 DEF schedVars, Rearms
    <3> QED BY <1>1, <3>1 DEF BringsBack
  <2> QED BY <2>1, <2>2, <2>3
<1> QED BY <1>4, <1>5, <1>6, <1>7, <1>8, <1>9
\* An eviction that starts is noted beside the rest.
LEMMA SuspectKeeps ==
  ASSUME WarmInv, SchedTypeOK', Wake \/ \E n \in Conn : ReplyTimeout(n)
  PROVE  WarmTypeOK' /\ PoolParts'
<1> USE DEF WarmInv, PoolParts
<1>1. /\ evicting' \subseteq Conn \X Conn
      /\ UNCHANGED <<schedVars, pool, cs, listening, doomed, retiring, onClose, rearming, pc,
                     awaits, wanted, inbox, held>>
  <2>1. pool # None => pool \in Conn
    BY DEF WarmTypeOK
  <2> QED BY <2>1 DEF Wake, ReplyTimeout, callVars, WarmTypeOK
<1>2. WarmTypeOK'
  BY <1>1 DEF WarmTypeOK, schedVars
<1>3. PoolSound' /\ RetiredOld' /\ DeadEntryNoticed' /\ AwaitsSound' /\ PoolCarries'
  BY <1>1 DEF PoolSound, RetiredOld, DeadEntryNoticed, AwaitsSound, PoolCarries
<1>4. FlightsCounted'
  BY <1>1, CountsKept DEF schedVars
<1>5. BringsBack'
  BY <1>1 DEF BringsBack, Rearms, IsOpen, schedVars
<1> QED BY <1>2, <1>3, <1>4, <1>5

\* An eviction that closes the pool's connection goes on to arm the loop.
LEMMA EvictedKeeps ==
  ASSUME WarmInv, SchedTypeOK', NEW x \in evicting, Evicted(x)
  PROVE  WarmTypeOK' /\ PoolParts'
<1> USE DEF WarmInv, PoolParts
<1>1. /\ Settled(x[2]) /\ evicting' = evicting \ {x}
      /\ UNCHANGED <<schedVars, listening, doomed, retiring, onClose, pc, awaits, wanted, inbox,
                     held>>
  BY DEF Evicted, callVars
<1>2. CASE ~Evictable(x)
  <2>1. UNCHANGED <<pool, cs, rearming>>
    BY <1>2 DEF Evicted
  <2>2. WarmTypeOK'
    BY <1>1, <2>1 DEF WarmTypeOK, schedVars
  <2>3. PoolSound' /\ RetiredOld' /\ DeadEntryNoticed' /\ AwaitsSound' /\ PoolCarries'
    BY <1>1, <2>1 DEF PoolSound, RetiredOld, DeadEntryNoticed, AwaitsSound, PoolCarries
  <2>4. FlightsCounted'
    BY <1>1, CountsKept DEF schedVars
  <2>5. BringsBack'
    BY <1>1, <2>1 DEF BringsBack, Rearms, IsOpen, schedVars
  <2> QED BY <2>2, <2>3, <2>4, <2>5
<1>3. CASE Evictable(x)
  <2>1. /\ pool' = None /\ rearming' = TRUE
        /\ cs' = [cs EXCEPT ![x[1]] = IF IsOpen(x[1]) THEN "closed" ELSE @]
    BY <1>3 DEF Evicted
  <2>2. x[1] \in Conn /\ x[1] = x[2] /\ cs[x[1]] # "connecting"
    BY <1>1, <1>3 DEF WarmTypeOK, Evictable, Settled
  <2>3. \A m \in Conn : cs'[m] = IF m = x[1] /\ IsOpen(m) THEN "closed" ELSE cs[m]
    BY <2>1, <2>2 DEF WarmTypeOK
  <2>4. WarmTypeOK'
    <3>1. doomed' \subseteq {m \in Conn : cs'[m] = "connecting"}
      BY <1>1, <2>2, <2>3 DEF WarmTypeOK
    <3>2. cs' \in [Conn -> {"connecting", "open", "stale", "failed", "closed"}]
      BY <2>1, <2>2 DEF WarmTypeOK
    <3> QED BY <1>1, <2>1, <3>1, <3>2 DEF WarmTypeOK, schedVars
  <2>5. PoolSound' /\ DeadEntryNoticed' /\ PoolCarries' /\ BringsBack'
    BY <2>1 DEF PoolSound, DeadEntryNoticed, PoolCarries, BringsBack
  <2>6. RetiredOld'
    BY <1>1, <2>3 DEF RetiredOld, WarmTypeOK
  <2>7. AwaitsSound'
    <3>1. \A d \in Caller : awaits[d] # None => awaits[d] \in Conn
      BY DEF WarmTypeOK
    <3> QED BY <1>1, <2>3, <3>1 DEF AwaitsSound
  <2>8. FlightsCounted'
    BY <1>1, CountsKept DEF schedVars
  <2> QED BY <2>4, <2>5, <2>6, <2>7, <2>8
<1> QED BY <1>2, <1>3

LEMMA RearmEvictedKeeps ==
  ASSUME WarmInv, SchedTypeOK', RearmEvicted
  PROVE  WarmTypeOK' /\ PoolParts'
<1> USE DEF WarmInv, PoolParts
<1>1. /\ rearming' = FALSE
      /\ inbox => ScheduleInbound
      /\ ~inbox => UNCHANGED schedVars
      /\ UNCHANGED <<pool, cs, listening, doomed, retiring, onClose, evicting, pc, awaits,
                     wanted, inbox, held>>
  BY DEF RearmEvicted, callVars
<1>2. flying' = flying /\ gate' = gate
  BY <1>1, ScheduleArms DEF schedVars
<1>3. WarmTypeOK'
  BY <1>1, <1>2 DEF WarmTypeOK
<1>4. PoolSound' /\ RetiredOld' /\ DeadEntryNoticed' /\ AwaitsSound' /\ PoolCarries'
  BY <1>1 DEF PoolSound, RetiredOld, DeadEntryNoticed, AwaitsSound, PoolCarries
<1>5. FlightsCounted'
  BY <1>1, <1>2, CountsKept
<1>6. BringsBack'
  <2>1. inbox => current' # None
    BY <1>1, ScheduleArms
  <2> QED BY <1>1, <2>1 DEF BringsBack
<1> QED BY <1>3, <1>4, <1>5, <1>6

-----------------------------------------------------------------------------
(* What the operator and the timers do keeps the invariant's parts.        *)

LEMMA AttemptKeeps ==
  ASSUME WarmInv, SchedTypeOK', NEW e \in Entry, Attempt(e)
  PROVE  WarmTypeOK' /\ PoolParts'
<1> USE DEF WarmInv, PoolParts
<1>1. /\ Fire(e)
      /\ UNCHANGED <<pool, cs, listening, doomed, retiring, onClose, evicting, rearming, awaits,
                     wanted, inbox, held>>
  BY DEF Attempt, poolVars
<1>2. PICK c \in Flight : c[1] = e /\ pc[c] = "idle" /\ pc' = [pc EXCEPT ![c] = "look"]
  BY DEF Attempt
<1>3. c \in Caller /\ \A d \in Caller : pc'[d] = IF d = c THEN "look" ELSE pc[d]
  BY <1>2 DEF Caller, WarmTypeOK
<1>4. WarmTypeOK'
  <2>1. pc' \in [Caller -> {"idle", "look", "wait", "own", "start", "close"}]
    BY <1>2 DEF WarmTypeOK
  <2> QED BY <1>1, <2>1 DEF WarmTypeOK, Fire
<1>5. PoolSound' /\ RetiredOld' /\ DeadEntryNoticed' /\ PoolCarries'
  BY <1>1 DEF PoolSound, RetiredOld, DeadEntryNoticed, PoolCarries
<1>6. AwaitsSound'
  BY <1>1, <1>2, <1>3 DEF AwaitsSound
<1>7. FlightsCounted'
  <2>1. flying' = [flying EXCEPT ![c[1]] = @ + 1]
    BY <1>1, <1>2 DEF Fire
  <2> QED BY <1>2, <2>1, CountsAfterStart
<1>8. BringsBack'
  BY <1>1 DEF BringsBack, Rearms, IsOpen, Fire
<1> QED BY <1>4, <1>5, <1>6, <1>7, <1>8

\* A reconcile that reads the set of agents or the inboxes.
LEMMA ReconcileKeeps ==
  ASSUME WarmInv, SchedTypeOK', Reconcile \/ ReconcileWanted
  PROVE  WarmTypeOK' /\ PoolParts'
<1> USE DEF WarmInv, PoolParts
<1>1. /\ pc[Reconciler] \in {"idle", "start"}
      /\ \E s \in {"idle", "look", "start", "close"} : pc' = [pc EXCEPT ![Reconciler] = s]
      /\ UNCHANGED <<schedVars, pool, cs, listening, doomed, retiring, onClose, evicting,
                     rearming, awaits, wanted, inbox, held>>
  BY DEF Reconcile, ReconcileWanted, poolVars
<1>2. PICK s \in {"idle", "look", "start", "close"} : pc' = [pc EXCEPT ![Reconciler] = s]
  BY <1>1
<1>3. /\ Reconciler \in Caller /\ Reconciler \notin Flight
      /\ \A d \in Caller : pc'[d] = IF d = Reconciler THEN s ELSE pc[d]
  BY <1>2, WarmAssumption DEF Caller, WarmTypeOK
<1>4. WarmTypeOK'
  <2>1. pc' \in [Caller -> {"idle", "look", "wait", "own", "start", "close"}]
    BY <1>2 DEF WarmTypeOK
  <2> QED BY <1>1, <2>1 DEF WarmTypeOK, schedVars
<1>5. PoolSound' /\ RetiredOld' /\ DeadEntryNoticed' /\ PoolCarries'
  BY <1>1 DEF PoolSound, RetiredOld, DeadEntryNoticed, PoolCarries
<1>6. AwaitsSound'
  BY <1>1, <1>3 DEF AwaitsSound
<1>7. FlightsCounted'
  <2>1. \A d \in Flight : pc'[d] = pc[d]
    BY <1>3 DEF Caller
  <2> QED BY <1>1, <2>1, CountsKept DEF schedVars
<1>8. BringsBack'
  BY <1>1 DEF BringsBack, Rearms, IsOpen, schedVars
<1> QED BY <1>4, <1>5, <1>6, <1>7, <1>8

\* A reconcile that finds the agent forgotten.
LEMMA CloseExtrasKeeps ==
  ASSUME WarmInv, SchedTypeOK', CloseExtras
  PROVE  WarmTypeOK' /\ PoolParts'
<1> USE DEF WarmInv, PoolParts
<1>1. /\ pc[Reconciler] = "close" /\ pc' = [pc EXCEPT ![Reconciler] = "idle"]
      /\ UNCHANGED <<listening, retiring, awaits, onClose, evicting, rearming, wanted, held>>
  BY DEF CloseExtras
<1>2. /\ Reconciler \in Caller /\ Reconciler \notin Flight
      /\ \A d \in Caller : pc'[d] = IF d = Reconciler THEN "idle" ELSE pc[d]
  BY <1>1, WarmAssumption DEF Caller, WarmTypeOK
<1>3. pc' \in [Caller -> {"idle", "look", "wait", "own", "start", "close"}]
  BY <1>1 DEF WarmTypeOK
<1>4. CASE pool = None \/ ~inbox
  <2>1. UNCHANGED <<schedVars, pool, cs, doomed, inbox>>
    BY <1>4 DEF CloseExtras
  <2>2. WarmTypeOK'
    BY <1>1, <1>3, <2>1 DEF WarmTypeOK, schedVars
  <2>3. PoolSound' /\ RetiredOld' /\ DeadEntryNoticed' /\ PoolCarries' /\ AwaitsSound'
    BY <1>1, <1>2, <2>1 DEF PoolSound, RetiredOld, DeadEntryNoticed, PoolCarries, AwaitsSound
  <2>4. FlightsCounted'
    <3>1. \A d \in Flight : pc'[d] = pc[d]
      BY <1>2 DEF Caller
    <3> QED BY <2>1, <3>1, CountsKept DEF schedVars
  <2>5. BringsBack'
    BY <1>1, <2>1 DEF BringsBack, Rearms, IsOpen, schedVars
  <2> QED BY <2>2, <2>3, <2>4, <2>5
<1>5. CASE ~(pool = None \/ ~inbox)
  <2>1. /\ ClearInbound /\ pool' = None /\ inbox' = FALSE
        /\ cs' = [n \in Conn |-> IF n = pool /\ IsOpen(n) THEN "closed" ELSE cs[n]]
        /\ doomed' = doomed \cup {n \in Conn : n = pool /\ cs[n] = "connecting"}
    BY <1>5 DEF CloseExtras
  <2>2. \A n \in Conn : cs'[n] = IF n = pool /\ IsOpen(n) THEN "closed" ELSE cs[n]
    BY <2>1
  <2>3. WarmTypeOK'
    <3>1. doomed' \subseteq {n \in Conn : cs'[n] = "connecting"}
      BY <2>1, <2>2 DEF WarmTypeOK, IsOpen
    <3>2. cs' \in [Conn -> {"connecting", "open", "stale", "failed", "closed"}]
      <4>1. \A n \in Conn : (IF n = pool /\ IsOpen(n) THEN "closed" ELSE cs[n])
                               \in {"connecting", "open", "stale", "failed", "closed"}
        BY DEF WarmTypeOK
      <4> QED BY <2>1, <4>1
    <3>3. gate' = gate
      BY <2>1 DEF ClearInbound
    <3> QED BY <1>1, <1>3, <2>1, <3>1, <3>2, <3>3 DEF WarmTypeOK
  <2>4. PoolSound' /\ DeadEntryNoticed' /\ PoolCarries' /\ BringsBack'
    BY <2>1 DEF PoolSound, DeadEntryNoticed, PoolCarries, BringsBack
  <2>5. RetiredOld'
    BY <1>1, <2>2 DEF RetiredOld, WarmTypeOK
  <2>6. AwaitsSound'
    <3>1. \A d \in Caller : awaits[d] # None => awaits[d] \in Conn
      BY DEF WarmTypeOK
    <3> QED BY <1>1, <1>2, <2>2, <3>1 DEF AwaitsSound
  <2>7. FlightsCounted'
    <3>1. \A d \in Flight : pc'[d] = pc[d]
      BY <1>2 DEF Caller
    <3> QED BY <2>1, <3>1, CountsKept DEF ClearInbound
  <2> QED BY <2>3, <2>4, <2>5, <2>6, <2>7
<1> QED BY <1>4, <1>5

LEMMA OperatorKeeps ==
  ASSUME WarmInv, SchedTypeOK', Forget \/ Add
  PROVE  WarmTypeOK' /\ PoolParts'
<1> USE DEF WarmInv, PoolParts
<1>1. /\ ~wanted' \/ ~held'
      /\ wanted' \in BOOLEAN /\ inbox' \in BOOLEAN /\ held' \in BOOLEAN
      /\ UNCHANGED <<schedVars, pool, cs, listening, doomed, retiring, onClose, evicting,
                     rearming, pc, awaits>>
  BY DEF Forget, Add, poolVars, callVars, WarmTypeOK
<1>2. WarmTypeOK'
  BY <1>1 DEF WarmTypeOK, schedVars
<1>3. PoolSound' /\ RetiredOld' /\ DeadEntryNoticed' /\ AwaitsSound'
  BY <1>1 DEF PoolSound, RetiredOld, DeadEntryNoticed, AwaitsSound
<1>4. FlightsCounted'
  BY <1>1, CountsKept DEF schedVars
<1>5. PoolCarries' /\ BringsBack'
  BY <1>1 DEF PoolCarries, BringsBack
<1> QED BY <1>2, <1>3, <1>4, <1>5

-----------------------------------------------------------------------------
LEMMA WarmInitInv == WarmInit => WarmInv
<1> SUFFICES ASSUME WarmInit PROVE WarmInv
  OBVIOUS
<1>1. BaseMs \in BaseMs..MaxMs /\ 0 \in 0..MaxFlying
  BY DelayAssumption
<1>2. SchedTypeOK
  BY <1>1 DEF WarmInit, SchedTypeOK
<1>3. SchedInv
  BY <1>2 DEF WarmInit, SchedInv, OneTimer, LockWins, NeverStranded
<1>4. WarmTypeOK
  BY <1>2 DEF WarmInit, WarmTypeOK
<1>5. PoolSound /\ RetiredOld /\ DeadEntryNoticed /\ AwaitsSound /\ PoolCarries /\ BringsBack
  BY DEF WarmInit, PoolSound, RetiredOld, DeadEntryNoticed, AwaitsSound, PoolCarries, BringsBack
<1>6. FlightsCounted
  <2>1. Underway = {} /\ flying = [e \in Entry |-> 0]
    BY DEF WarmInit, Underway, Caller
  <2> QED BY <2>1, CountsNothing DEF FlightsCounted
<1> QED BY <1>3, <1>4, <1>5, <1>6 DEF WarmInv, PoolParts

LEMMA WarmStep ==
  ASSUME WarmInv, [WarmNext]_warmVars
  PROVE  WarmInv'
<1>1. SchedInv' /\ SchedTypeOK'
  BY StepIsSchedStep, SchedStep DEF WarmInv, SchedInv
<1> SUFFICES WarmTypeOK' /\ PoolParts'
  BY <1>1 DEF WarmInv
<1>2. ASSUME NEW c \in Caller,
             StartInbound(c) \/ Resume(c) \/ Created(c) \/ (c \in Request /\ Use(c))
      PROVE  WarmTypeOK' /\ PoolParts'
  <2>1. /\ UNCHANGED <<doomed, onClose, evicting, rearming, wanted, inbox>>
        /\ Answered(c) \/ Opened(c) \/ Joined(c)
    BY <1>2, CallerSteps DEF WarmInv, PoolParts
  <2> QED BY <1>1, <2>1, AnsweredKeeps, OpenedKeeps, JoinedKeeps
<1>3. ASSUME NEW r \in Request, Use(r) PROVE WarmTypeOK' /\ PoolParts'
  <2>1. r \in Caller
    BY DEF Caller
  <2> QED BY <1>2, <1>3, <2>1
<1>4. ASSUME NEW n \in Conn,
             \/ ReadInbox(n) \/ Connect(n) \/ ConnectFails(n) \/ Expire(n)
             \/ Retire(n) \/ Drop(n) \/ ReplyTimeout(n)
      PROVE  WarmTypeOK' /\ PoolParts'
  BY <1>1, <1>4, ReadInboxKeeps, ConnectKeeps, ConnectFailsKeeps, ExpireKeeps, RetireKeeps, DropKeeps,
     SuspectKeeps
<1>5. ASSUME NEW h \in onClose, CloseHandled(h) PROVE WarmTypeOK' /\ PoolParts'
  BY <1>1, <1>5, CloseHandledKeeps
<1>6. ASSUME NEW x \in evicting, Evicted(x) PROVE WarmTypeOK' /\ PoolParts'
  BY <1>1, <1>6, EvictedKeeps
<1>7. ASSUME NEW e \in Entry, Attempt(e) PROVE WarmTypeOK' /\ PoolParts'
  BY <1>1, <1>7, AttemptKeeps
<1>8. CASE Wake \/ RearmEvicted
  BY <1>1, <1>8, SuspectKeeps, RearmEvictedKeeps
<1>9. CASE Reconcile \/ ReconcileWanted \/ CloseExtras \/ Forget \/ Add
  BY <1>1, <1>9, ReconcileKeeps, CloseExtrasKeeps, OperatorKeeps
<1>10. CASE UNCHANGED warmVars
  <2>1. UNCHANGED <<gate, current, flying, pool, cs, listening, doomed, retiring, onClose,
                    evicting, rearming, pc, awaits, wanted, inbox, held>>
    BY <1>10 DEF warmVars, schedVars, poolVars, callVars
  <2>2. WarmTypeOK'
    BY <1>1, <2>1 DEF WarmInv, WarmTypeOK
  <2>3. PoolSound' /\ RetiredOld' /\ DeadEntryNoticed' /\ AwaitsSound' /\ PoolCarries'
    BY <2>1
       DEF WarmInv, PoolParts, PoolSound, RetiredOld, DeadEntryNoticed, AwaitsSound, PoolCarries
  <2>4. BringsBack'
    BY <2>1 DEF WarmInv, PoolParts, BringsBack, Rearms, IsOpen
  <2>5. FlightsCounted'
    BY <2>1, CountsKept DEF WarmInv, PoolParts
  <2> QED BY <2>2, <2>3, <2>4, <2>5 DEF PoolParts
<1> QED BY <1>2, <1>3, <1>4, <1>5, <1>6, <1>7, <1>8, <1>9, <1>10 DEF WarmNext

\* The inductive invariant of the warm pool: its scheduler's, its connections' and its
\* callers'.
THEOREM WarmInvariant == WarmSpec => []WarmInv
BY WarmInitInv, WarmStep, PTL DEF WarmSpec

\* Every field of the pool has its type, and only a connecting session is doomed.
THEOREM WarmTyped == WarmSpec => []WarmTypeOK
<1>1. WarmInv => WarmTypeOK
  BY DEF WarmInv
<1> QED BY <1>1, WarmInvariant, PTL

\* In the warm pool, too, timers never stack (scheduleInboundReconnect).
THEOREM WarmTimersNeverStack == WarmSpec => []OneTimer
<1>1. WarmInv => OneTimer
  BY DEF WarmInv, SchedInv
<1> QED BY <1>1, WarmInvariant, PTL

\* A backoff cancelled while an attempt is in flight, say because the agent was
\* forgotten, is not brought back by it (scheduleInboundReconnect).
THEOREM WarmCancelSticks == WarmSpec => CancelledStaysCancelled
<1> DEFINE Sticks == \A e \in Entry : current # e /\ current' = e => flying[e] = 0
<1>1. WarmInv /\ [WarmNext]_warmVars => [Sticks]_schedVars
  BY StepIsSchedStep, NewLoopsAreIdle DEF WarmInv
<1> QED BY <1>1, WarmInvariant, PTL DEF WarmSpec, CancelledStaysCancelled

\* The pool keeps a dead connection only while its close handler is at work.
THEOREM DeadEntriesAreNoticed == WarmSpec => []DeadEntryNoticed
<1>1. WarmInv => DeadEntryNoticed
  BY DEF WarmInv, PoolParts
<1> QED BY <1>1, WarmInvariant, PTL

\* Once it has been up, the inbox of an agent that is kept is up or being brought back.
THEOREM WarmInboxComesBack == WarmSpec => []InboxRecovers
<1>1. WarmInv => InboxRecovers
  <2> SUFFICES ASSUME WarmInv, wanted, inbox, held PROVE Recovering
    BY DEF InboxRecovers
  <2>1. CASE current # None
    <3>1. current \in Entry /\ (current \in timers \/ flying[current] > 0)
      BY <2>1 DEF WarmInv, SchedInv, SchedTypeOK, NeverStranded
    <3>2. CASE flying[current] > 0
      <4>1. flying \in [Entry -> 0..MaxFlying] /\ Counts(flying, Underway)
        BY DEF WarmInv, PoolParts, SchedInv, SchedTypeOK, FlightsCounted
      <4>2. \E c \in Flight \cap Underway : c[1] = current
        BY <3>1, <3>2, <4>1, CountPositive
      <4> QED BY <4>2 DEF Recovering, Caller, Underway
    <3> QED BY <3>1, <3>2 DEF Recovering
  <2>2. CASE (\E n \in listening \ retiring : IsOpen(n)) \/ rearming \/ onClose # {}
    BY <2>2 DEF Recovering
  <2> QED BY <2>1, <2>2 DEF WarmInv, PoolParts, BringsBack
<1> QED BY <1>1, WarmInvariant, PTL
=============================================================================
