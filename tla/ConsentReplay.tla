----------------------------- MODULE ConsentReplay -----------------------------
(***************************************************************************)
(* requestTask from pages: each request is confirmed by the human, except  *)
(* the one replay that completes a consent ceremony.  The ledger of those  *)
(* exemptions lives in the worker; refusals reach it by the handlers that  *)
(* sent the requests, grants by notices from the agent, in any order.      *)
(***************************************************************************)
EXTENDS Naturals, FiniteSets, Sequences

CONSTANTS
  Handler,     \* handleRequestTask invocations at a time
  Key,         \* origin and params of a request (replayKey)
  Digest,      \* the agent's salted digests, a new one with each refusal
  MaxEntries,  \* MAX_REPLAY_ENTRIES
  Ttl,         \* REPLAY_TTL_MS, in ticks
  MaxTime,     \* bound on the clock
  Nothing

ASSUME ReplayAssumption ==
  /\ MaxEntries \in Nat \ {0} /\ Ttl \in Nat \ {0} /\ MaxTime \in Nat
  /\ Nothing \notin Key \cup Digest

VARIABLES
  ledger,    \* consentReplays: the entry of each request in the Map
  order,    \* the Map's order: <<j, k>> when j comes before k
  now,
  pc, key,   \* each handler
  reply,     \* the digest of the refusal a handler has been given
  owner,     \* the request each digest was issued for, Nothing while it is unused
  approved,  \* digests an approver has signed off
  told,      \* history: grants announced to the pages since the worker started
  late,      \* history: refusals recorded after their grant was announced
  skips      \* history: each exemption taken, and how old its entry was

handlers == <<pc, key, reply>>
agent    == <<owner, approved>>
replays  == <<ledger, order>>
replayVars     == <<replays, now, handlers, agent, told, late, skips>>

Entry == [digest : Digest, granted : BOOLEAN, at : 0..MaxTime]
NoEntries == [k \in {} |-> Nothing]

ReplayInit ==
  /\ ledger = NoEntries /\ order = {} /\ now = 0
  /\ pc = [h \in Handler |-> "idle"]
  /\ key = [h \in Handler |-> Nothing] /\ reply = [h \in Handler |-> Nothing]
  /\ owner = [g \in Digest |-> Nothing] /\ approved = {}
  /\ told = {} /\ late = {} /\ skips = <<>>

-----------------------------------------------------------------------------
(* ConsentReplayLedger.                                                    *)

\* What #prune leaves.
Live == {k \in DOMAIN ledger : ledger[k].at + Ttl > now}

InOrder(K) == {p \in order : p[1] \in K /\ p[2] \in K}
Keep(K) == ledger' = [k \in K |-> ledger[k]] /\ order' = InOrder(K)

\* The Map's first entry, when a new key finds it full.
First == {k \in Live : \A j \in Live : <<j, k>> \notin order}
Evicted(k) == IF k \notin Live /\ Cardinality(Live) >= MaxEntries THEN First ELSE {}

\* Map.set: a key that is there keeps its place, a new one goes last.
Put(k, e, kept) ==
  /\ ledger' = [j \in kept \cup {k} |-> IF j = k THEN e ELSE ledger[j]]
  /\ order' = InOrder(kept) \cup ((kept \ {k}) \X ({k} \ kept))

\* Mutant: an entry stays granted when refused again.
RecordKeepingGrant(k, g) ==
  Put(k, [digest |-> g, granted |-> k \in Live /\ ledger[k].granted, at |-> now],
      Live \ Evicted(k))

\* recordConsentRequired.
Record(k, g) ==
  Put(k, [digest |-> g, granted |-> FALSE, at |-> now], Live \ Evicted(k))

\* Mutant: only the entry at the end of the Map is looked at.
GrantedLast(g) ==
  /\ ledger' = [k \in Live |->
       [ledger[k] EXCEPT !.granted =
          @ \/ (ledger[k].digest = g /\ \A j \in Live : <<k, j>> \notin order)]]
  /\ order' = InOrder(Live)

\* recordGranted.
Granted(g) ==
  /\ ledger' = [k \in Live |-> [ledger[k] EXCEPT !.granted = @ \/ ledger[k].digest = g]]
  /\ order' = InOrder(Live)

\* The request has a granted entry.
Armed(k) == k \in Live /\ ledger[k].granted

\* Mutant: the entry stays.
Unconsumed(k) == Keep(Live)

\* consumeIfArmed: the entry that exempts the request is deleted.
Consumed(k) == Keep(IF Armed(k) THEN Live \ {k} ELSE Live)

-----------------------------------------------------------------------------
(* handleRequestTask.                                                      *)

Submit(h, k) ==
  /\ pc[h] = "idle"
  /\ key' = [key EXCEPT ![h] = k]
  /\ Consumed(k)
  /\ pc' = [pc EXCEPT ![h] = IF Armed(k) THEN "sent" ELSE "confirm"]
  /\ skips' = IF ~Armed(k) THEN skips
              ELSE Append(skips, [key |-> k, digest |-> ledger[k].digest,
                                  age |-> now - ledger[k].at])
  /\ UNCHANGED <<now, reply, agent, told, late>>

\* requestConsent comes back.
Confirm(h, yes) ==
  /\ pc[h] = "confirm"
  /\ pc' = [pc EXCEPT ![h] = IF yes THEN "sent" ELSE "idle"]
  /\ UNCHANGED <<replays, now, key, reply, agent, told, late, skips>>

\* A refusal pending consent came back: remember it, and tell the page.
Refused(h) ==
  /\ pc[h] = "refused"
  /\ pc' = [pc EXCEPT ![h] = "idle"]
  /\ Record(key[h], reply[h])
  /\ reply' = [reply EXCEPT ![h] = Nothing]
  /\ late' = late \cup ({reply[h]} \cap told)
  /\ UNCHANGED <<now, key, agent, told, skips>>

\* RUNTIME_EMIT_WALLET_EVENT "consentgranted": arm the replay, then tell the pages.
\* The notice comes by a mediator, late or more than once.
Notice(g) ==
  /\ g \in approved
  /\ Granted(g)
  /\ told' = told \cup {g}
  /\ UNCHANGED <<now, handlers, agent, late, skips>>

\* The worker is evicted; handlers and ledger are gone.
Restart ==
  /\ ledger' = NoEntries /\ order' = {} /\ told' = {} /\ late' = {}
  /\ pc' = [h \in Handler |-> "idle"] /\ reply' = [h \in Handler |-> Nothing]
  /\ UNCHANGED <<now, key, agent, skips>>

Elapse ==
  /\ now < MaxTime
  /\ now' = now + 1
  /\ UNCHANGED <<replays, handlers, agent, told, late, skips>>

-----------------------------------------------------------------------------
(* The agent and the approver.                                             *)

\* The agent runs the task, or fails it for another reason.
AgentConcludes(h) ==
  /\ pc[h] = "sent"
  /\ pc' = [pc EXCEPT ![h] = "idle"]
  /\ UNCHANGED <<replays, now, key, reply, agent, told, late, skips>>

AgentRefuses(h, g) ==
  /\ pc[h] = "sent" /\ owner[g] = Nothing
  /\ owner' = [owner EXCEPT ![g] = key[h]]
  /\ pc' = [pc EXCEPT ![h] = "refused"]
  /\ reply' = [reply EXCEPT ![h] = g]
  /\ UNCHANGED <<replays, now, key, approved, told, late, skips>>

Approve(g) ==
  /\ owner[g] # Nothing /\ g \notin approved
  /\ approved' = approved \cup {g}
  /\ UNCHANGED <<replays, now, handlers, owner, told, late, skips>>

-----------------------------------------------------------------------------
ReplayNext ==
  \/ \E h \in Handler :
       \/ \E k \in Key : Submit(h, k)
       \/ \E yes \in BOOLEAN : Confirm(h, yes)
       \/ Refused(h) \/ AgentConcludes(h) \/ \E g \in Digest : AgentRefuses(h, g)
  \/ \E g \in Digest : Approve(g) \/ Notice(g)
  \/ Restart \/ Elapse

ReplaySpec == ReplayInit /\ [][ReplayNext]_replayVars

-----------------------------------------------------------------------------
\* Types; the ledger is bounded, and its order is one of all its entries.
ReplayTypeOK ==
  /\ DOMAIN ledger \subseteq Key /\ \A k \in DOMAIN ledger : ledger[k] \in Entry
  /\ Cardinality(DOMAIN ledger) <= MaxEntries
  /\ order \subseteq (DOMAIN ledger) \X (DOMAIN ledger)
  /\ \A j, k \in DOMAIN ledger : j # k => (<<j, k>> \in order <=> <<k, j>> \notin order)
  /\ now \in 0..MaxTime
  /\ pc \in [Handler -> {"idle", "confirm", "sent", "refused"}]
  /\ key \in [Handler -> Key \cup {Nothing}]
  /\ reply \in [Handler -> Digest \cup {Nothing}]
  /\ \A h \in Handler : pc[h] = "refused" => reply[h] # Nothing
  /\ owner \in [Digest -> Key \cup {Nothing}]
  /\ approved \subseteq Digest /\ told \subseteq approved /\ late \subseteq told

\* Every request that skips the confirm was refused before for this very request, an
\* approver has signed off the digest of that refusal, and the refusal is younger
\* than the TTL, whatever order refusals, grants and restarts come in ("What the
\* exemption is bound to", consent-replay.ts).
SkipIsBacked ==
  \A i \in DOMAIN skips :
    /\ owner[skips[i].digest] = skips[i].key
    /\ skips[i].digest \in approved
    /\ skips[i].age < Ttl

\* One approval exempts one replay, however often its notice comes ("It is single-use
\* and TTL-bounded").
OneSkipPerApproval ==
  \A i, j \in DOMAIN skips : skips[i].digest = skips[j].digest => i = j

\* A page that hears of a grant finds its replay exempt ("so the re-submit this event
\* triggers does not race the ledger"): no entry of an announced grant waits for its
\* grant, but for a refusal that came in after the announcement.
AnnouncedIsArmed ==
  \A k \in DOMAIN ledger : ledger[k].digest \in told \ late => ledger[k].granted

\* What is evicted for a new request is the oldest entry ("Oldest entries are evicted
\* first", MAX_REPLAY_ENTRIES).
EvictsOldest ==
  [][\A h \in Handler : Refused(h) =>
       \A j \in Live \ DOMAIN ledger', k \in DOMAIN ledger' : ledger[j].at <= ledger'[k].at]_replayVars
=============================================================================
