------------------------------ MODULE Reconnect ------------------------------
(***************************************************************************)
(* ReconnectScheduler for one key: a backoff that retries for ever, whose  *)
(* timer, attempt and cancellation overlap.  An entry is an object the     *)
(* scheduler's closures keep: an attempt may come back to find that its    *)
(* entry is no longer the one in the map.                                  *)
(***************************************************************************)
EXTENDS Integers, FiniteSets

CONSTANTS
  Entry,      \* entry objects
  None,       \* no entry in the map
  BaseMs,     \* first delay
  MaxMs,      \* ceiling of the doubling delay
  MaxFlying   \* bound on the attempts one entry has in flight

ASSUME EntryAssumption == IsFiniteSet(Entry) /\ None \notin Entry
ASSUME DelayAssumption ==
  /\ BaseMs \in Nat \ {0} /\ MaxMs \in Nat /\ BaseMs <= MaxMs
  /\ MaxFlying \in Nat \ {0}

VARIABLES
  gate,     \* shouldRetry: the operator has not locked the key
  current,  \* the map's entry
  timers,   \* entries whose timer is armed
  delay,    \* delayMs of each entry
  flying    \* attempts each entry has in flight

schedVars == <<gate, current, timers, delay, flying>>

\* An entry may have several attempts under way; each is a caller of its own where the
\* scheduler is composed with what it calls.
Flight == Entry \X (1..MaxFlying)

SchedInit ==
  /\ gate = FALSE
  /\ current = None
  /\ timers = {}
  /\ delay = [e \in Entry |-> BaseMs]
  /\ flying = [e \in Entry |-> 0]

-----------------------------------------------------------------------------
\* clear: the timer is cancelled and the entry dropped; an attempt goes on.
Clear ==
  /\ current' = None
  /\ timers' = timers \ {current}

\* schedule, past its gate, for the entry in the map: an armed timer is left alone.
ArmKept ==
  /\ current # None
  /\ timers' = timers \cup {current}
  /\ UNCHANGED <<current, delay>>

\* schedule, past its gate, with nothing in the map: a new entry.
ArmNew ==
  \E e \in Entry :
    /\ e \notin timers /\ flying[e] = 0 /\ e # current
    /\ current' = e
    /\ timers' = timers \cup {e}
    /\ delay' = [delay EXCEPT ![e] = BaseMs]

Arm == ArmKept \/ (current = None /\ ArmNew)

\* schedule, called when a session drops.
Schedule ==
  /\ \/ gate /\ Arm
     \/ ~gate /\ Clear /\ UNCHANGED delay
  /\ UNCHANGED <<gate, flying>>

\* The timer fires and starts an attempt.
Fire(e) ==
  /\ e \in timers /\ flying[e] < MaxFlying
  /\ timers' = timers \ {e}
  /\ flying' = [flying EXCEPT ![e] = @ + 1]
  /\ UNCHANGED <<gate, current, delay>>

\* An attempt of this entry has an answer.
Landed(e) ==
  /\ flying[e] > 0
  /\ flying' = [flying EXCEPT ![e] = @ - 1]
  /\ UNCHANGED gate

Succeeded(e) == Landed(e) /\ Clear /\ UNCHANGED delay

Doubled(ms) == IF 2 * ms > MaxMs THEN MaxMs ELSE 2 * ms

\* Mutant: the failure grows the delay and queues nothing.
GiveUp(e) ==
  /\ delay' = [delay EXCEPT ![e] = Doubled(@)]
  /\ UNCHANGED <<current, timers>>

Rearm(e) ==
  /\ delay' = [delay EXCEPT ![e] = Doubled(@)]
  /\ current' = e
  /\ timers' = timers \cup {e}

\* Mutant: a cancellation during the attempt is not looked at.
FailedReviving(e) ==
  /\ Landed(e)
  /\ \/ ~gate /\ Clear /\ UNCHANGED delay
     \/ gate /\ Rearm(e)

\* The attempt failed: a lock wins, then a cancellation, then the retry.
Failed(e) ==
  /\ Landed(e)
  /\ \/ ~gate /\ Clear /\ UNCHANGED delay
     \/ gate /\ current # e /\ UNCHANGED <<current, timers, delay>>
     \/ gate /\ current = e /\ Rearm(e)

\* The operator locks (clearAll) or unlocks (a fresh start) the key.
LockKey ==
  /\ gate' = FALSE
  /\ Clear
  /\ UNCHANGED <<delay, flying>>

UnlockKey ==
  /\ gate' = TRUE
  /\ Clear
  /\ UNCHANGED <<delay, flying>>

-----------------------------------------------------------------------------
SchedNext ==
  \/ Schedule
  \/ \E e \in Entry : Fire(e) \/ Succeeded(e) \/ Failed(e)
  \/ LockKey
  \/ UnlockKey

SchedSpec == SchedInit /\ [][SchedNext]_schedVars

-----------------------------------------------------------------------------
\* Types, and every delay between the base and the ceiling.
SchedTypeOK ==
  /\ gate \in BOOLEAN
  /\ current \in Entry \cup {None}
  /\ timers \subseteq Entry
  /\ delay \in [Entry -> BaseMs..MaxMs]
  /\ flying \in [Entry -> 0..MaxFlying]

\* Timers never stack: only the entry in the map has one, however attempts,
\* cancellations and drops overlap ("never stack timers for one key").
OneTimer == timers \subseteq {current}

\* While the key is locked nothing is queued, and no attempt in flight queues
\* anything ("a lock during the attempt wins over the retry").
LockWins == ~gate => current = None /\ timers = {}

\* An entry in the map has its timer armed or an attempt in flight: one that had
\* neither would stay in the map and never retry ("retry forever").
NeverStranded == current # None => current \in timers \/ flying[current] > 0

\* An attempt whose loop was cancelled while it was in flight does not bring the
\* loop back ("don't resurrect a backoff cancelled while this attempt was in
\* flight").
CancelledStaysCancelled ==
  [][\A e \in Entry : current # e /\ current' = e => flying[e] = 0]_schedVars

=============================================================================
