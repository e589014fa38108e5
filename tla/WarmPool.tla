------------------------------- MODULE WarmPool -------------------------------
(***************************************************************************)
(* The worker's warm session to one agent's inbox relay: the pool entry    *)
(* and its connections, the requests and the reconnects that share them,   *)
(* expiry and retirement, eviction on a lost reply or a wake, the close    *)
(* handler, and the reconcile that follows the operator's set of agents.   *)
(* The inbound backoff is ReconnectScheduler's loop without its lock       *)
(* (gate stays TRUE).  As in ApproverInbox, what a settled promise sets    *)
(* off runs before the next event (Quiet).                                 *)
(***************************************************************************)
EXTENDS Reconnect

CONSTANTS
  Conn,        \* connections, and the pool's promises for them
  Request,     \* requests that want the session
  Reconciler   \* reconcileInbound

Caller == Flight \cup Request \cup {Reconciler}

ASSUME WarmAssumption ==
  /\ IsFiniteSet(Conn) /\ None \notin Conn
  /\ Flight \cap (Request \cup {Reconciler}) = {} /\ Reconciler \notin Request

VARIABLES
  pool,      \* warmPool's entry for this (mediator, agent) pair
  cs,        \* what has become of each connection; "stale": open, token run out
  listening, \* connections that found the inbox on record as they were made: they carry it
  doomed,    \* connecting when their agent was forgotten
  retiring,  \* replaced, closed when the grace period ends
  pc,        \* where each caller stands
  awaits,    \* the promise it awaits
  onClose,   \* close handlers at work: <<connection, entry it found>>
  evicting,  \* evictions at work: <<connection, entry it found>>
  rearming,  \* an eviction is reading where the inbox is
  wanted,    \* the operator keeps this agent
  inbox,     \* the agent's inbox relay is on record
  held       \* history: the pool's session has opened and carried the inbox since the
             \* agent was added, an expired session was replaced, or an attempt or a
             \* reconcile was content with a session that does not carry it

poolVars == <<pool, cs, listening, doomed, retiring, onClose, evicting, rearming>>
callVars == <<pc, awaits>>
warmVars == <<schedVars, poolVars, callVars, wanted, inbox, held>>

WarmInit ==
  /\ gate = TRUE /\ current = None /\ timers = {}
  /\ delay = [e \in Entry |-> BaseMs] /\ flying = [e \in Entry |-> 0]
  /\ pool = None
  /\ cs = [n \in Conn |-> "closed"]
  /\ listening = {} /\ doomed = {} /\ retiring = {}
  /\ pc = [c \in Caller |-> "idle"] /\ awaits = [c \in Caller |-> None]
  /\ onClose = {} /\ evicting = {} /\ rearming = FALSE
  /\ wanted = TRUE /\ inbox = TRUE /\ held = FALSE

-----------------------------------------------------------------------------
IsOpen(n) == cs[n] \in {"open", "stale"}
Settled(n) == cs[n] # "connecting"

Quiet ==
  /\ \A c \in Caller : awaits[c] # None => ~Settled(awaits[c])
  /\ \A h \in onClose : h[2] # None /\ ~Settled(h[2])
  /\ \A x \in evicting : ~Settled(x[2])

\* Connection objects nothing refers to any more stand for new ones.
Fresh ==
  {n \in Conn : /\ cs[n] \in {"failed", "closed"}
                /\ pool # n /\ n \notin retiring
                /\ \A c \in Caller : awaits[c] # n
                /\ \A h \in onClose \cup evicting : n \notin {h[1], h[2]}}

\* scheduleInboundReconnect and clearInboundBackoff.
ScheduleInbound == Arm /\ UNCHANGED <<gate, flying>>
ClearInbound == Clear /\ UNCHANGED <<gate, delay, flying>>

\* The caller has its session or an error: a retry or a reconcile acts on it.
Return(c, ok) ==
  /\ pc' = [pc EXCEPT ![c] = "idle"]
  /\ awaits' = [awaits EXCEPT ![c] = None]
  /\ \/ c \in Request /\ UNCHANGED schedVars
     \/ c \in Flight /\ IF ok THEN Succeeded(c[1]) ELSE Failed(c[1])
     \/ c = Reconciler /\ IF ok THEN ClearInbound ELSE ScheduleInbound

\* The rest of getWarmSession once the entry it looked at is of no use: a new
\* connection takes the pair's place in the pool, whatever stands there.
Create(c) ==
  /\ \E n \in Fresh :
       /\ cs' = [cs EXCEPT ![n] = "connecting"]
       /\ listening' = IF inbox THEN listening \cup {n} ELSE listening \ {n}
       /\ pool' = n
       /\ awaits' = [awaits EXCEPT ![c] = n]
  /\ pc' = [pc EXCEPT ![c] = "own"]
  /\ UNCHANGED schedVars

\* getWarmSession looks at the pool.
LookUp(c) ==
  \/ pool = None /\ Create(c)
  \/ /\ pool # None
     /\ pc' = [pc EXCEPT ![c] = "wait"]
     /\ awaits' = [awaits EXCEPT ![c] = pool]
     /\ UNCHANGED <<schedVars, pool, cs, listening>>

\* What an attempt or a reconcile is content with is up and carries the inbox.
Carries(n) == cs[n] # "closed" /\ n \in listening

\* The entry it found has settled: used if reusable, else retired and replaced.
Resume(c) ==
  /\ pc[c] = "wait" /\ Settled(awaits[c])
  /\ \/ /\ cs[awaits[c]] = "open" /\ Return(c, TRUE)
        /\ held' = (held /\ (c \in Request \/ Carries(awaits[c])))
        /\ UNCHANGED <<pool, cs, listening, retiring>>
     \/ /\ cs[awaits[c]] # "open"
        /\ Create(c)
        /\ retiring' = retiring \cup {n \in Conn : n = awaits[c] /\ IsOpen(n)}
        /\ held' = (held /\ ~IsOpen(awaits[c]))
  /\ UNCHANGED <<doomed, onClose, evicting, rearming, wanted, inbox>>

Created(c) ==
  /\ pc[c] = "own" /\ Settled(awaits[c])
  /\ Return(c, cs[awaits[c]] # "failed")
  /\ held' = (held /\ (c \in Request \/ cs[awaits[c]] = "failed" \/ Carries(awaits[c])))
  /\ UNCHANGED <<poolVars, wanted, inbox>>

-----------------------------------------------------------------------------
(* Callers.                                                                *)

Use(r) ==
  /\ Quiet
  /\ pc[r] = "idle"
  /\ LookUp(r)
  /\ UNCHANGED <<doomed, retiring, onClose, evicting, rearming, wanted, inbox, held>>

\* The backoff's timer fires: startInbound asks where the inbox is.
Attempt(e) ==
  /\ Quiet
  /\ Fire(e)
  /\ \E c \in Flight : /\ c[1] = e /\ pc[c] = "idle"
                       /\ pc' = [pc EXCEPT ![c] = "look"]
  /\ UNCHANGED <<poolVars, awaits, wanted, inbox, held>>

\* startInbound: no inbox on record is a failure, else the session is brought up.
StartInbound(c) ==
  /\ Quiet
  /\ pc[c] = "look"
  /\ \/ ~inbox /\ Return(c, FALSE) /\ UNCHANGED <<pool, cs, listening>>
     \/ inbox /\ LookUp(c)
  /\ UNCHANGED <<doomed, retiring, onClose, evicting, rearming, wanted, inbox, held>>

\* reconcileInbound, with the set of agents as it is now.
Reconcile ==
  /\ Quiet
  /\ pc[Reconciler] = "idle"
  /\ pc' = [pc EXCEPT ![Reconciler] = IF wanted THEN "start" ELSE "close"]
  /\ UNCHANGED <<schedVars, poolVars, awaits, wanted, inbox, held>>

\* The inboxes are read; a wanted agent without one is left alone.
ReconcileWanted ==
  /\ Quiet
  /\ pc[Reconciler] = "start"
  /\ pc' = [pc EXCEPT ![Reconciler] = IF inbox THEN "look" ELSE "idle"]
  /\ UNCHANGED <<schedVars, poolVars, awaits, wanted, inbox, held>>

\* The inboxes are read; a forgotten agent's inbox session is closed, if the pool
\* holds one, and with it go its backoff and its inbox record.
CloseExtras ==
  /\ Quiet
  /\ pc[Reconciler] = "close"
  /\ pc' = [pc EXCEPT ![Reconciler] = "idle"]
  /\ IF pool = None \/ ~inbox
     THEN UNCHANGED <<schedVars, pool, cs, doomed, inbox>>
     ELSE /\ ClearInbound
          /\ pool' = None
          /\ cs' = [n \in Conn |-> IF n = pool /\ IsOpen(n) THEN "closed" ELSE cs[n]]
          /\ doomed' = doomed \cup {n \in Conn : n = pool /\ cs[n] = "connecting"}
          /\ inbox' = FALSE
  /\ UNCHANGED <<listening, retiring, awaits, onClose, evicting, rearming, wanted, held>>

\* The operator forgets the agent, or adds it anew with its inbox.
Forget ==
  /\ Quiet /\ wanted
  /\ wanted' = FALSE
  /\ UNCHANGED <<schedVars, poolVars, callVars, inbox, held>>

Add ==
  /\ Quiet /\ ~wanted
  /\ wanted' = TRUE /\ inbox' = TRUE /\ held' = FALSE
  /\ UNCHANGED <<schedVars, poolVars, callVars>>

-----------------------------------------------------------------------------
(* Connections.                                                            *)

\* createWarmSession asks where the inbox is before it connects, at a moment of its own:
\* of the readings from Create on, the last one stands for it.
ReadInbox(n) ==
  /\ Quiet
  /\ cs[n] = "connecting"
  /\ listening' = IF inbox THEN listening \cup {n} ELSE listening \ {n}
  /\ UNCHANGED <<schedVars, pool, cs, doomed, retiring, onClose, evicting, rearming, callVars,
                 wanted, inbox, held>>

Connect(n) ==
  /\ Quiet
  /\ cs[n] = "connecting"
  /\ cs' = [cs EXCEPT ![n] = IF n \in doomed THEN "closed" ELSE "open"]
  /\ held' = (held \/ (n = pool /\ n \in listening))
  /\ doomed' = doomed \ {n}
  /\ UNCHANGED <<schedVars, pool, listening, retiring, onClose, evicting, rearming, callVars,
                 wanted, inbox>>

\* The session could not be opened; the pool's entry is deleted unlooked at.
ConnectFails(n) ==
  /\ Quiet
  /\ cs[n] = "connecting"
  /\ cs' = [cs EXCEPT ![n] = "failed"]
  /\ pool' = None
  /\ doomed' = doomed \ {n}
  /\ UNCHANGED <<schedVars, listening, retiring, onClose, evicting, rearming, callVars, wanted,
                 inbox, held>>

\* The token runs out (less the margin); the socket still reads open.
Expire(n) ==
  /\ Quiet
  /\ cs[n] = "open"
  /\ cs' = [cs EXCEPT ![n] = "stale"]
  /\ UNCHANGED <<schedVars, pool, listening, doomed, retiring, onClose, evicting, rearming,
                 callVars, wanted, inbox, held>>

\* A retired connection's grace period ends: a deliberate close, no handler.
Retire(n) ==
  /\ Quiet
  /\ n \in retiring
  /\ retiring' = retiring \ {n}
  /\ cs' = [cs EXCEPT ![n] = IF IsOpen(n) THEN "closed" ELSE @]
  /\ UNCHANGED <<schedVars, pool, listening, doomed, onClose, evicting, rearming, callVars,
                 wanted, inbox, held>>

\* The socket drops, be it that the mediator made room for a newer session.
Drop(n) ==
  /\ Quiet
  /\ IsOpen(n)
  /\ cs' = [cs EXCEPT ![n] = "closed"]
  /\ onClose' = onClose \cup {<<n, pool>>}
  /\ UNCHANGED <<schedVars, pool, listening, doomed, retiring, evicting, rearming, callVars,
                 wanted, inbox, held>>

Superseded(h) == h[2] # None /\ cs[h[2]] # "failed" /\ h[2] # h[1]

CloseHandled(h) ==
  /\ h \in onClose
  /\ h[2] # None => Settled(h[2])
  /\ onClose' = onClose \ {h}
  /\ IF Superseded(h)
     THEN UNCHANGED <<pool, schedVars>>
     ELSE /\ pool' = IF pool = h[2] THEN None ELSE pool
          /\ IF h[1] \in listening THEN ScheduleInbound ELSE UNCHANGED schedVars
  /\ UNCHANGED <<cs, listening, doomed, retiring, evicting, rearming, callVars, wanted, inbox,
                 held>>

\* A request on it got no reply in time.
ReplyTimeout(n) ==
  /\ Quiet
  /\ IsOpen(n) /\ pool # None
  /\ evicting' = evicting \cup {<<n, pool>>}
  /\ UNCHANGED <<schedVars, pool, listening, cs, doomed, retiring, onClose, rearming, callVars,
                 wanted, inbox, held>>

\* The machine woke: the pool's connection is evicted, once it is up if need be.
Wake ==
  /\ Quiet
  /\ pool # None
  /\ evicting' = evicting \cup {<<pool, pool>>}
  /\ UNCHANGED <<schedVars, pool, listening, cs, doomed, retiring, onClose, rearming, callVars,
                 wanted, inbox, held>>

\* Mutant: the entry is not looked at again after the await.
EvictableUnchecked(x) == cs[x[2]] # "failed"

\* evictWarmSession's two checks: the entry is this connection's, and still there.
Evictable(x) == cs[x[2]] # "failed" /\ x[2] = x[1] /\ pool = x[2]

Evicted(x) ==
  /\ x \in evicting
  /\ Settled(x[2])
  /\ evicting' = evicting \ {x}
  /\ IF Evictable(x)
     THEN /\ pool' = None
          /\ cs' = [cs EXCEPT ![x[1]] = IF IsOpen(x[1]) THEN "closed" ELSE @]
          /\ rearming' = TRUE
     ELSE UNCHANGED <<pool, cs, rearming>>
  /\ UNCHANGED <<schedVars, listening, doomed, retiring, onClose, callVars, wanted, inbox, held>>

\* The inbox relay of the evicted session has been read.
RearmEvicted ==
  /\ Quiet
  /\ rearming
  /\ rearming' = FALSE
  /\ IF inbox THEN ScheduleInbound ELSE UNCHANGED schedVars
  /\ UNCHANGED <<pool, cs, listening, doomed, retiring, onClose, evicting, callVars, wanted,
                 inbox, held>>

-----------------------------------------------------------------------------
WarmNext ==
  \/ \E r \in Request : Use(r)
  \/ \E c \in Caller : StartInbound(c) \/ Resume(c) \/ Created(c)
  \/ \E e \in Entry : Attempt(e)
  \/ Reconcile \/ ReconcileWanted \/ CloseExtras \/ Forget \/ Add
  \/ \E n \in Conn :
       \/ ReadInbox(n) \/ Connect(n) \/ ConnectFails(n) \/ Expire(n)
       \/ Retire(n) \/ Drop(n) \/ ReplyTimeout(n)
  \/ \E h \in onClose : CloseHandled(h)
  \/ \E x \in evicting : Evicted(x)
  \/ Wake \/ RearmEvicted

WarmSpec == WarmInit /\ [][WarmNext]_warmVars

-----------------------------------------------------------------------------
\* Types.
WarmTypeOK ==
  /\ SchedTypeOK /\ gate
  /\ pool \in Conn \cup {None}
  /\ cs \in [Conn -> {"connecting", "open", "stale", "failed", "closed"}]
  /\ listening \subseteq Conn
  /\ doomed \subseteq {n \in Conn : cs[n] = "connecting"}
  /\ retiring \subseteq Conn
  /\ pc \in [Caller -> {"idle", "look", "wait", "own", "start", "close"}]
  /\ awaits \in [Caller -> Conn \cup {None}]
  /\ onClose \subseteq Conn \X (Conn \cup {None})
  /\ evicting \subseteq Conn \X Conn
  /\ rearming \in BOOLEAN /\ wanted \in BOOLEAN /\ inbox \in BOOLEAN
  /\ held \in BOOLEAN

\* The pool keeps no dead connection except while its close handler is at work,
\* whatever retirement, eviction, expiry and the mediator closed it.
DeadEntryNoticed ==
  pool # None => /\ cs[pool] # "failed"
                 /\ cs[pool] = "closed" => <<pool, pool>> \in onClose

\* A late signal about an old connection, its close or its lost reply, leaves the
\* live replacement in the pool ("cannot evict its replacement", evictWarmSession).
LateSignalsHarmless ==
  [][\A n \in Conn :
       /\ pool \notin {n, None} /\ cs[pool] = "open"
       /\ \/ \E h \in onClose : h[1] = n /\ CloseHandled(h)
          \/ \E x \in evicting : x[1] = n /\ Evicted(x)
       => pool' = pool]_warmVars

\* A session is open, or something at work will open one.
Recovering ==
  \/ \E n \in listening : cs[n] = "connecting" \/ IsOpen(n)
  \/ timers # {}
  \/ onClose # {} \/ evicting # {} \/ rearming
  \/ \E c \in Caller : pc[c] # "idle"

\* The inbox of an agent that has been connected is up or being brought back ("keeps a
\* listener recovering across a mediator outage of any length"), as long as no expired
\* session has been replaced and no session without the inbox has been taken for it.
InboxRecovers == wanted /\ inbox /\ held => Recovering

\* A retired session is closed when the one that was to take its place is there or
\* is being brought up ("the connection opened below is this pair's replacement").
RetiredIsReplaced ==
  [][wanted /\ inbox /\ (\E n \in retiring : IsOpen(n) /\ Retire(n))
       => Recovering']_warmVars

\* A caller that replaces an expired connection does not replace the fresh one
\* another caller has put there ("A concurrent caller may already have replaced it
\* with a fresh connection", getWarmSession).
FreshNotReplaced ==
  [][pool # None /\ cs[pool] \in {"connecting", "open"} => pool' \in {pool, None}]_warmVars

\* A reconcile that finds the agent forgotten leaves no retry queued for it
\* (clearInboundBackoff: "Called ... when a VTA is forgotten").
ForgottenHasNoRetry == [][CloseExtras => timers' = {}]_warmVars
=============================================================================
