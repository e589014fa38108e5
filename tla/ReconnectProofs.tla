---------------------------- MODULE ReconnectProofs ----------------------------
(***************************************************************************)
(* The scheduler's invariants for every number of entries, attempts and    *)
(* every pair of delays.  Their conjunction is inductive: OneTimer needs   *)
(* the types (a timer is an entry's, so none is armed when the map is      *)
(* empty), LockWins needs OneTimer (clearing the map's entry clears every  *)
(* timer), NeverStranded needs LockWins (a failure under a lock leaves     *)
(* nothing behind) and OneTimer.  The last section counts attempts, for    *)
(* the modules in which each attempt is a caller.                          *)
(***************************************************************************)
EXTENDS Reconnect, FiniteSetTheorems, TLAPS

SchedInv == SchedTypeOK /\ OneTimer /\ LockWins /\ NeverStranded

\* Doubling keeps a delay between the base and the ceiling.
LEMMA DoubledInRange ==
  ASSUME NEW ms \in BaseMs..MaxMs
  PROVE  Doubled(ms) \in BaseMs..MaxMs
BY DelayAssumption DEF Doubled

\* The initial state satisfies the invariant.
LEMMA SchedInitInv == SchedInit => SchedInv
<1> SUFFICES ASSUME SchedInit PROVE SchedInv
  OBVIOUS
<1>1. BaseMs \in BaseMs..MaxMs /\ 0 \in 0..MaxFlying
  BY DelayAssumption
<1>2. SchedTypeOK
  BY <1>1 DEF SchedInit, SchedTypeOK
<1>3. OneTimer /\ LockWins /\ NeverStranded
  BY DEF SchedInit, OneTimer, LockWins, NeverStranded
<1> QED BY <1>2, <1>3 DEF SchedInv

\* Clearing leaves no timer at all: the one that may be armed is the map's.
LEMMA ClearEmpties ==
  ASSUME OneTimer, Clear
  PROVE  current' = None /\ timers' = {}
BY DEF OneTimer, Clear

\* Types, step by step.
LEMMA SchedTypes ==
  ASSUME SchedTypeOK, [SchedNext]_schedVars
  PROVE  SchedTypeOK'
<1> USE DEF SchedTypeOK
<1> USE EntryAssumption, DelayAssumption
<1>1. CASE Schedule
  BY <1>1 DEF Schedule, Arm, ArmKept, ArmNew, Clear
<1>2. ASSUME NEW e \in Entry, Fire(e) PROVE SchedTypeOK'
  BY <1>2 DEF Fire
<1>3. ASSUME NEW e \in Entry, Succeeded(e) PROVE SchedTypeOK'
  BY <1>3 DEF Succeeded, Landed, Clear
<1>4. ASSUME NEW e \in Entry, Failed(e) PROVE SchedTypeOK'
  <2>1. Landed(e)
    BY <1>4 DEF Failed
  <2>2. gate' \in BOOLEAN /\ flying' \in [Entry -> 0..MaxFlying]
    BY <2>1 DEF Landed
  <2>3. current' \in Entry \cup {None} /\ timers' \subseteq Entry
    BY <1>4 DEF Failed, Clear, Rearm
  <2>4. Doubled(delay[e]) \in BaseMs..MaxMs
    BY DoubledInRange
  <2>5. delay' \in [Entry -> BaseMs..MaxMs]
    BY <1>4, <2>4 DEF Failed, Rearm
  <2> QED BY <2>2, <2>3, <2>5
<1>5. CASE LockKey
  BY <1>5 DEF LockKey, Clear
<1>6. CASE UnlockKey
  BY <1>6 DEF UnlockKey, Clear
<1>7. CASE UNCHANGED schedVars
  BY <1>7 DEF schedVars
<1> QED BY <1>1, <1>2, <1>3, <1>4, <1>5, <1>6, <1>7 DEF SchedNext

\* One timer, nothing under a lock, nothing stranded, step by step.
LEMMA SchedStep ==
  ASSUME SchedInv, [SchedNext]_schedVars
  PROVE  SchedInv'
<1>0. SchedTypeOK' /\ SchedTypeOK /\ OneTimer /\ LockWins /\ NeverStranded
  BY SchedTypes DEF SchedInv
<1> SUFFICES OneTimer' /\ LockWins' /\ NeverStranded'
  BY <1>0 DEF SchedInv
<1>a. ASSUME Clear PROVE OneTimer' /\ LockWins' /\ NeverStranded'
  BY <1>a, <1>0, ClearEmpties DEF OneTimer, LockWins, NeverStranded
<1>1. CASE Schedule
  <2>1. CASE gate /\ Arm
    <3>1. gate' = gate
      BY <1>1 DEF Schedule
    <3>2. CASE ArmKept
      BY <2>1, <3>1, <3>2, <1>0
         DEF ArmKept, OneTimer, LockWins, NeverStranded
    <3>3. CASE current = None /\ ArmNew
      <4>1. timers = {}
        BY <3>3, <1>0, EntryAssumption DEF OneTimer, SchedTypeOK
      <4>2. PICK e \in Entry : current' = e /\ timers' = timers \cup {e}
        BY <3>3 DEF ArmNew
      <4> QED BY <2>1, <3>1, <4>1, <4>2 DEF OneTimer, LockWins, NeverStranded
    <3> QED BY <2>1, <3>2, <3>3 DEF Arm
  <2>2. CASE ~gate /\ Clear
    BY <2>2, <1>a
  <2> QED BY <1>1, <2>1, <2>2 DEF Schedule
<1>2. ASSUME NEW e \in Entry, Fire(e)
      PROVE OneTimer' /\ LockWins' /\ NeverStranded'
  <2>1. e = current /\ e # None
    BY <1>2, <1>0, EntryAssumption DEF Fire, OneTimer
  <2>2. flying'[e] > 0 /\ current' = current /\ gate' = gate /\ timers' \subseteq timers
    BY <1>2, <1>0 DEF Fire, SchedTypeOK
  <2> QED BY <2>1, <2>2, <1>0 DEF OneTimer, LockWins, NeverStranded
<1>3. ASSUME NEW e \in Entry, Succeeded(e)
      PROVE OneTimer' /\ LockWins' /\ NeverStranded'
  BY <1>3, <1>a DEF Succeeded
<1>4. ASSUME NEW e \in Entry, Failed(e)
      PROVE OneTimer' /\ LockWins' /\ NeverStranded'
  <2>1. CASE ~gate /\ Clear
    BY <2>1, <1>a
  <2>2. CASE gate /\ current # e /\ UNCHANGED <<current, timers, delay>>
    <3>1. gate' = gate /\ flying' = [flying EXCEPT ![e] = @ - 1]
      BY <1>4 DEF Failed, Landed
    <3>2. current # None => flying'[current] = flying[current]
      BY <2>2, <3>1, <1>0 DEF SchedTypeOK
    <3> QED BY <2>2, <3>1, <3>2, <1>0 DEF OneTimer, LockWins, NeverStranded
  <2>3. CASE gate /\ current = e /\ Rearm(e)
    <3>1. gate' = gate
      BY <1>4 DEF Failed, Landed
    <3> QED BY <2>3, <3>1, <1>0 DEF Rearm, OneTimer, LockWins, NeverStranded
  <2> QED BY <1>4, <2>1, <2>2, <2>3 DEF Failed
<1>5. CASE LockKey
  BY <1>5, <1>a DEF LockKey
<1>6. CASE UnlockKey
  BY <1>6, <1>a DEF UnlockKey
<1>7. CASE UNCHANGED schedVars
  BY <1>7, <1>0 DEF schedVars, OneTimer, LockWins, NeverStranded
<1> QED BY <1>1, <1>2, <1>3, <1>4, <1>5, <1>6, <1>7 DEF SchedNext

-----------------------------------------------------------------------------
\* The inductive invariant holds in every behaviour of the scheduler.
THEOREM SchedInvariant == SchedSpec => []SchedInv
<1>1. SchedInit => SchedInv
  BY SchedInitInv
<1>2. SchedInv /\ [SchedNext]_schedVars => SchedInv'
  BY SchedStep
<1> QED BY <1>1, <1>2, PTL DEF SchedSpec

\* Every delay stays between the base and the ceiling, and every field has its
\* type (ReconnectScheduler.schedule).
THEOREM SchedTyped == SchedSpec => []SchedTypeOK
<1>1. SchedInv => SchedTypeOK
  BY DEF SchedInv
<1> QED BY <1>1, SchedInvariant, PTL

\* At most one timer is armed for a key, however attempts and drops overlap.
THEOREM TimersNeverStack == SchedSpec => []OneTimer
<1>1. SchedInv => OneTimer
  BY DEF SchedInv
<1> QED BY <1>1, SchedInvariant, PTL

\* A lock leaves nothing queued, and no attempt in flight queues anything after it.
THEOREM LockAlwaysWins == SchedSpec => []LockWins
<1>1. SchedInv => LockWins
  BY DEF SchedInv
<1> QED BY <1>1, SchedInvariant, PTL

\* A loop that was begun and not cancelled always has a timer or an attempt.
THEOREM LoopNeverStranded == SchedSpec => []NeverStranded
<1>1. SchedInv => NeverStranded
  BY DEF SchedInv
<1> QED BY <1>1, SchedInvariant, PTL

\* What a step puts in the map has no attempt in flight.
LEMMA NewLoopsAreIdle ==
  ASSUME SchedInv, [SchedNext]_schedVars, NEW e \in Entry, current # e, current' = e
  PROVE  flying[e] = 0
<1>1. current' # current /\ current' # None
  BY EntryAssumption
<1>2. CASE Schedule
  BY <1>1, <1>2 DEF Schedule, Arm, ArmKept, ArmNew, Clear
<1>3. ASSUME NEW f \in Entry, Fire(f) \/ Succeeded(f) \/ Failed(f) PROVE FALSE
  BY <1>1, <1>3 DEF Fire, Succeeded, Failed, Clear, Rearm
<1>4. CASE LockKey \/ UnlockKey
  BY <1>1, <1>4 DEF LockKey, UnlockKey, Clear
<1>5. CASE UNCHANGED schedVars
  BY <1>1, <1>5 DEF schedVars
<1> QED BY <1>2, <1>3, <1>4, <1>5 DEF SchedNext

\* A loop cancelled during an attempt is not brought back by that attempt.
THEOREM CancelSticks == SchedSpec => CancelledStaysCancelled
<1> DEFINE Sticks == \A e \in Entry : current # e /\ current' = e => flying[e] = 0
<1>1. SchedInv /\ [SchedNext]_schedVars => [Sticks]_schedVars
  BY NewLoopsAreIdle
<1> QED BY <1>1, SchedInvariant, PTL DEF SchedSpec, CancelledStaysCancelled

-----------------------------------------------------------------------------
(* Counting attempts: S is the set of those under way.                     *)

NumbersOf(e, S) == {i \in 1..MaxFlying : <<e, i>> \in S}

Counts(count, S) == \A e \in Entry : count[e] = Cardinality(NumbersOf(e, S))

\* An attempt is the pair <<e, i>> of its entry and its number.
LEMMA FlightOf ==
  ASSUME NEW c \in Flight
  PROVE  c = <<c[1], c[2]>> /\ c[1] \in Entry /\ c[2] \in 1..MaxFlying
BY DEF Flight

LEMMA NumbersFinite ==
  ASSUME NEW e, NEW S
  PROVE  IsFiniteSet(NumbersOf(e, S))
<1>1. IsFiniteSet(1..MaxFlying)
  BY FS_Interval, DelayAssumption
<1>2. NumbersOf(e, S) \in SUBSET (1..MaxFlying)
  BY DEF NumbersOf
<1> QED BY <1>1, <1>2, FS_Subset

\* An attempt that ends is counted out.
LEMMA CountedOut ==
  ASSUME NEW count \in [Entry -> 0..MaxFlying], NEW S, NEW c \in Flight \cap S,
         Counts(count, S)
  PROVE  Counts([count EXCEPT ![c[1]] = @ - 1], S \ {c})
<1> SUFFICES ASSUME NEW e \in Entry
             PROVE  [count EXCEPT ![c[1]] = @ - 1][e] = Cardinality(NumbersOf(e, S \ {c}))
  BY DEF Counts
<1>1. count[e] = Cardinality(NumbersOf(e, S)) /\ IsFiniteSet(NumbersOf(e, S))
  BY NumbersFinite DEF Counts
<1>2. CASE e = c[1]
  <2>1. c[2] \in NumbersOf(e, S) /\ NumbersOf(e, S \ {c}) = NumbersOf(e, S) \ {c[2]}
    BY <1>2, FlightOf DEF NumbersOf
  <2>2. Cardinality(NumbersOf(e, S) \ {c[2]}) = Cardinality(NumbersOf(e, S)) - 1
    <3>1. IsFiniteSet(NumbersOf(e, S))
      BY <1>1
    <3> QED BY <2>1, <3>1, FS_RemoveElement
  <2> QED BY <1>1, <1>2, <2>1, <2>2
<1>3. CASE e # c[1]
  <2>1. NumbersOf(e, S \ {c}) = NumbersOf(e, S)
    BY <1>3, FlightOf DEF NumbersOf
  <2> QED BY <1>1, <1>3, <2>1
<1> QED BY <1>2, <1>3

\* An attempt that begins is counted in.
LEMMA CountedIn ==
  ASSUME NEW count \in [Entry -> 0..MaxFlying], NEW S, NEW c \in Flight, c \notin S,
         Counts(count, S)
  PROVE  Counts([count EXCEPT ![c[1]] = @ + 1], S \cup {c})
<1> SUFFICES ASSUME NEW e \in Entry
             PROVE  [count EXCEPT ![c[1]] = @ + 1][e] = Cardinality(NumbersOf(e, S \cup {c}))
  BY DEF Counts
<1>1. count[e] = Cardinality(NumbersOf(e, S)) /\ IsFiniteSet(NumbersOf(e, S))
  BY NumbersFinite DEF Counts
<1>2. CASE e = c[1]
  <2>1. c[2] \notin NumbersOf(e, S) /\ NumbersOf(e, S \cup {c}) = NumbersOf(e, S) \cup {c[2]}
    BY <1>2, FlightOf DEF NumbersOf
  <2>2. Cardinality(NumbersOf(e, S) \cup {c[2]}) = Cardinality(NumbersOf(e, S)) + 1
    <3>1. IsFiniteSet(NumbersOf(e, S))
      BY <1>1
    <3> QED BY <2>1, <3>1, FS_AddElement
  <2> QED BY <1>1, <1>2, <2>1, <2>2
<1>3. CASE e # c[1]
  <2>1. NumbersOf(e, S \cup {c}) = NumbersOf(e, S)
    BY <1>3, FlightOf DEF NumbersOf
  <2> QED BY <1>1, <1>3, <2>1
<1> QED BY <1>2, <1>3

\* While an entry's count is positive one of its attempts is under way, and the other
\* way round.
LEMMA CountPositive ==
  ASSUME NEW count \in [Entry -> 0..MaxFlying], NEW S, NEW e \in Entry, Counts(count, S)
  PROVE  count[e] > 0 <=> \E c \in Flight \cap S : c[1] = e
<1>1. count[e] = Cardinality(NumbersOf(e, S)) /\ IsFiniteSet(NumbersOf(e, S))
  BY NumbersFinite DEF Counts
<1>2. count[e] > 0 <=> NumbersOf(e, S) # {}
  <2>1. Cardinality(NumbersOf(e, S)) = 0 <=> NumbersOf(e, S) = {}
    BY <1>1, FS_EmptySet
  <2> QED BY <1>1, <2>1
<1>3. ASSUME NEW i \in NumbersOf(e, S) PROVE \E c \in Flight \cap S : c[1] = e
  <2>1. <<e, i>> \in Flight \cap S /\ <<e, i>>[1] = e
    BY DEF NumbersOf, Flight
  <2> QED BY <2>1
<1>4. ASSUME NEW c \in Flight \cap S, c[1] = e PROVE c[2] \in NumbersOf(e, S)
  BY <1>4, FlightOf DEF NumbersOf
<1> QED BY <1>2, <1>3, <1>4

\* Nothing is counted while nothing is under way.
LEMMA CountsNothing ==
  ASSUME NEW S, S \cap Flight = {}
  PROVE  Counts([e \in Entry |-> 0], S)
<1> SUFFICES ASSUME NEW e \in Entry PROVE 0 = Cardinality(NumbersOf(e, S))
  BY DEF Counts
<1>1. NumbersOf(e, S) = {}
  BY DEF NumbersOf, Flight
<1> QED BY <1>1, FS_EmptySet
=============================================================================
