---------------------------- MODULE ApproverInbox ----------------------------
(***************************************************************************)
(* The approver's inbox session for one agent: the pool entry of           *)
(* getApproverWarmSession, the connections behind it, the callers that     *)
(* share it (an unlock, a drain, the scheduler's attempts), the close      *)
(* handler and the operator's lock.  Composes with ReconnectScheduler      *)
(* (module Reconnect), whose shouldRetry is "the identity is held".        *)
(*                                                                         *)
(* The offscreen document is one JavaScript thread: what a settled promise *)
(* sets off runs before the next event.  Quiet says nothing of the kind is *)
(* left to run; every event waits for it.                                  *)
(***************************************************************************)
EXTENDS Reconnect

CONSTANTS
  Conn,              \* connections, and the pool's promises for them
  Unlocker, Drainer  \* the callers besides the scheduler's attempts

Caller == Flight \cup {Unlocker, Drainer}

ASSUME ConnAssumption ==
  /\ IsFiniteSet(Conn) /\ None \notin Conn
  /\ Unlocker \notin Flight /\ Drainer \notin Flight

VARIABLES
  pool,     \* the entry of approverPool under this agent's key
  cs,       \* what has become of each connection
  doomed,   \* connecting when the operator locked: closed as soon as they open
  pc,       \* where each caller stands in getApproverWarmSession
  awaits,   \* the promise it awaits there
  onClose,  \* close handlers at work: <<connection, entry it found in the pool>>
  heard,    \* a session has been open since the last unlock
  crossed   \* history: an attempt in flight began before the last lock or unlock

inboxVars == <<pool, cs, doomed, pc, awaits, onClose, heard, crossed>>
approverVars == <<schedVars, inboxVars>>

ApproverInit ==
  /\ SchedInit
  /\ pool = None
  /\ cs = [n \in Conn |-> "unused"]
  /\ doomed = {}
  /\ pc = [c \in Caller |-> "idle"]
  /\ awaits = [c \in Caller |-> None]
  /\ onClose = {}
  /\ heard = FALSE
  /\ crossed = FALSE

-----------------------------------------------------------------------------
Settled(n) == cs[n] # "connecting"

\* Something settled that a caller or a close handler was waiting for.
Quiet ==
  /\ \A c \in Caller : awaits[c] # None => ~Settled(awaits[c])
  /\ \A h \in onClose : h[2] # None /\ ~Settled(h[2])

\* Connection objects nothing refers to any more stand for new ones.
Fresh ==
  {n \in Conn : /\ cs[n] \in {"unused", "failed", "closed"}
                /\ pool # n
                /\ \A c \in Caller : awaits[c] # n
                /\ \A h \in onClose : n \notin {h[1], h[2]}}

\* The caller has its answer; an attempt of the scheduler hears of it.
Return(c, ok) ==
  /\ pc' = [pc EXCEPT ![c] = "idle"]
  /\ awaits' = [awaits EXCEPT ![c] = None]
  /\ IF c \notin Flight THEN UNCHANGED schedVars
     ELSE IF ok THEN Succeeded(c[1]) ELSE Failed(c[1])

\* The rest of getApproverWarmSession once nothing usable is in the pool: without
\* the identity it rejects and leaves the pool empty.
Create(c) ==
  \/ /\ ~gate
     /\ pool' = None
     /\ Return(c, FALSE)
     /\ UNCHANGED cs
  \/ /\ gate
     /\ \E n \in Fresh :
          /\ cs' = [cs EXCEPT ![n] = "connecting"]
          /\ pool' = n
          /\ awaits' = [awaits EXCEPT ![c] = n]
     /\ pc' = [pc EXCEPT ![c] = "own"]
     /\ UNCHANGED schedVars

\* The mediator is known; the pool is looked at.
LookUp(c) ==
  /\ Quiet
  /\ pc[c] = "look"
  /\ \/ pool = None /\ Create(c)
     \/ /\ pool # None
        /\ pc' = [pc EXCEPT ![c] = "wait"]
        /\ awaits' = [awaits EXCEPT ![c] = pool]
        /\ UNCHANGED <<schedVars, pool, cs>>
  /\ UNCHANGED <<doomed, onClose, heard, crossed>>

\* The entry found in the pool has settled: it is used if it is open, and else
\* dropped and replaced, whatever the pool holds by now.
Resume(c) ==
  /\ pc[c] = "wait" /\ Settled(awaits[c])
  /\ \/ cs[awaits[c]] = "open" /\ Return(c, TRUE) /\ UNCHANGED <<pool, cs>>
     \/ cs[awaits[c]] # "open" /\ Create(c)
  /\ UNCHANGED <<doomed, onClose, heard, crossed>>

\* The connection the caller created itself has connected or failed.
Created(c) ==
  /\ pc[c] = "own" /\ Settled(awaits[c])
  /\ Return(c, cs[awaits[c]] # "failed")
  /\ UNCHANGED <<pool, cs, doomed, onClose, heard, crossed>>

-----------------------------------------------------------------------------
(* The mediator and the network.                                           *)

\* The session is up; a lock that came while it connected closes it at once.
Connect(n) ==
  /\ Quiet
  /\ cs[n] = "connecting"
  /\ cs' = [cs EXCEPT ![n] = IF n \in doomed THEN "closed" ELSE "open"]
  /\ heard' = (heard \/ n \notin doomed)
  /\ doomed' = doomed \ {n}
  /\ UNCHANGED <<schedVars, pool, pc, awaits, onClose, crossed>>

\* The connection could not be made; the pool's entry is deleted unlooked at.
ConnectFails(n) ==
  /\ Quiet
  /\ cs[n] = "connecting"
  /\ cs' = [cs EXCEPT ![n] = "failed"]
  /\ pool' = None
  /\ doomed' = doomed \ {n}
  /\ UNCHANGED <<schedVars, pc, awaits, onClose, heard, crossed>>

\* The socket drops, be it that the mediator made room for a newer session.
Drop(n) ==
  /\ Quiet
  /\ cs[n] = "open"
  /\ cs' = [cs EXCEPT ![n] = "closed"]
  /\ onClose' = onClose \cup {<<n, pool>>}
  /\ UNCHANGED <<schedVars, pool, doomed, pc, awaits, heard, crossed>>

\* isSuperseded: the entry holds another connection than the one that closed.
Superseded(h) == h[2] # None /\ cs[h[2]] # "failed" /\ h[2] # h[1]

\* onClose, once the entry it found has settled.
CloseHandled(h) ==
  /\ h \in onClose
  /\ h[2] # None => Settled(h[2])
  /\ onClose' = onClose \ {h}
  /\ IF Superseded(h)
     THEN UNCHANGED <<pool, schedVars>>
     ELSE /\ pool' = IF pool = h[2] THEN None ELSE pool
          /\ IF gate THEN Schedule ELSE UNCHANGED schedVars
  /\ UNCHANGED <<cs, doomed, pc, awaits, heard, crossed>>

-----------------------------------------------------------------------------
(* What the operator and the document do.                                  *)

Crossed == crossed' = \E e \in Entry : flying[e] > 0

\* Mutant: the lock leaves the scheduler alone.
LockKeepingTimers ==
  /\ Quiet /\ gate
  /\ gate' = FALSE
  /\ pool' = None
  /\ cs' = [n \in Conn |-> IF n = pool /\ cs[n] = "open" THEN "closed" ELSE cs[n]]
  /\ doomed' = doomed \cup {n \in Conn : n = pool /\ cs[n] = "connecting"}
  /\ Crossed
  /\ UNCHANGED <<current, timers, delay, flying, pc, awaits, onClose, heard>>

\* lockApprovers: the pool's session is closed, or will be when it has opened.
LockApprovers ==
  /\ Quiet /\ gate
  /\ LockKey
  /\ pool' = None
  /\ cs' = [n \in Conn |-> IF n = pool /\ cs[n] = "open" THEN "closed" ELSE cs[n]]
  /\ doomed' = doomed \cup {n \in Conn : n = pool /\ cs[n] = "connecting"}
  /\ Crossed
  /\ UNCHANGED <<pc, awaits, onClose, heard>>

\* doUnlockApprover: hold the identity, forget the backoff, bring the inbox up.
Unlock ==
  /\ Quiet
  /\ pc[Unlocker] = "idle"
  /\ UnlockKey
  /\ pc' = [pc EXCEPT ![Unlocker] = "look"]
  /\ heard' = FALSE
  /\ Crossed
  /\ UNCHANGED <<pool, cs, doomed, awaits, onClose>>

\* drainApproverInbox wants the session for the records it found.
Drain ==
  /\ Quiet
  /\ gate /\ pc[Drainer] = "idle"
  /\ pc' = [pc EXCEPT ![Drainer] = "look"]
  /\ UNCHANGED <<schedVars, pool, cs, doomed, awaits, onClose, heard, crossed>>

\* The scheduler's timer fires: startApprover.
Attempt(e) ==
  /\ Quiet
  /\ Fire(e)
  /\ \E c \in Flight : /\ c[1] = e /\ pc[c] = "idle"
                       /\ pc' = [pc EXCEPT ![c] = "look"]
  /\ UNCHANGED <<pool, cs, doomed, awaits, onClose, heard, crossed>>

-----------------------------------------------------------------------------
ApproverNext ==
  \/ \E c \in Caller : LookUp(c) \/ Resume(c) \/ Created(c)
  \/ \E n \in Conn : Connect(n) \/ ConnectFails(n) \/ Drop(n)
  \/ \E h \in onClose : CloseHandled(h)
  \/ \E e \in Entry : Attempt(e)
  \/ LockApprovers \/ Unlock \/ Drain

ApproverSpec == ApproverInit /\ [][ApproverNext]_approverVars

-----------------------------------------------------------------------------
\* Types.
ApproverTypeOK ==
  /\ SchedTypeOK
  /\ pool \in Conn \cup {None}
  /\ cs \in [Conn -> {"unused", "connecting", "open", "failed", "closed"}]
  /\ doomed \subseteq {n \in Conn : cs[n] = "connecting"}
  /\ pc \in [Caller -> {"idle", "look", "wait", "own"}]
  /\ awaits \in [Caller -> Conn \cup {None}]
  /\ onClose \subseteq Conn \X (Conn \cup {None})
  /\ heard \in BOOLEAN /\ crossed \in BOOLEAN

\* The pool keeps no dead connection except while its close handler is at work:
\* with the handler done, a caller would find it and the loop would not be armed.
DeadEntryNoticed ==
  pool # None => /\ cs[pool] # "failed"
                 /\ cs[pool] = "closed" => <<pool, pool>> \in onClose

\* Somebody is at work on getting the inbox back, or it is up.
Recovering ==
  \/ \E n \in Conn : cs[n] \in {"connecting", "open"}
  \/ timers # {}
  \/ onClose # {}
  \/ \E c \in Caller : pc[c] # "idle"

\* Once it has been up, an unlocked approver's inbox is up or being brought back, if
\* no attempt outlived a lock or an unlock (reconnect.ts).
NeverDeafAgain == gate /\ heard /\ ~crossed => Recovering

\* The same with no such exception ("retry forever", reconnect.ts).
RetriesForever == gate /\ heard => Recovering

\* The same from the unlock on ("re-arm on EVERY failure, including the
\* first-connect case where no session ever opened", reconnect.ts).
NeverDeaf == gate => Recovering

\* A locked approver has no session ("Drop every held approver identity + close its
\* sessions", lockApprovers).
LockedMeansDeaf == ~gate => \A n \in Conn : cs[n] # "open"

\* Whatever the pool, the callers and the operator do to it, the scheduler makes
\* only steps of its own: what is proved of it holds in this composition.
SchedulerSteps == SchedSpec
=============================================================================
