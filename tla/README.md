# Star Key: models, model checks and proofs

Star Key is a Manifest V3 browser extension (with a TypeScript core library) that acts
as a wallet towards *verifiable trust agents* (VTAs).  Agents reach the wallet through
message mediators, ask its human to approve tasks, and answer the requests that pages
and the wallet's own console make.

This directory holds TLA+ models of the parts of that program where the order of events
decides whether it is right, TLC configurations that check them on small instances, and
TLAPS proofs of the results that matter most.  Paths below are relative to
`src/packages/`; `ext/` abbreviates `extension/src/` and `core/` abbreviates `core/src/`.

1. [The system](#1-the-system)
2. [Plan](#2-plan)
3. [Modules](#3-modules)
4. [Runs](#4-runs)
5. [Proofs](#5-proofs)
6. [What the code does not keep](#6-what-the-code-does-not-keep)
7. [Assumptions and abstractions](#7-assumptions-and-abstractions)
8. [Not modelled](#8-not-modelled)
9. [Running the tools](#9-running-the-tools)

---------------------------------------------------------------------------------------

## 1. The system

### Where it runs

| Context | File | Lifetime | State that matters here |
|---|---|---|---|
| service worker | `ext/background.ts` | evicted by Chrome when idle | `pendingConsents`, `consentReplays`, badge |
| offscreen document | `ext/offscreen.ts` | torn down with the browser or an update | connection pools, backoffs, `activeConsentDigests`, unlocked approver keys, `tspRelationships` |
| consent popup | `ext/consent-result.ts` and UI | one window per question | the decision sent |
| sign-in window | `ext/sign-in-view.tsx` | one per flow | the step shown, the phone poll |
| pages, content scripts | `ext/provider.ts`, `ext/content.ts` | per page | none that is modelled |
| IndexedDB | `core/store/kv-store.ts` | durable | pending inbound records, claims, settings |
| `chrome.storage` local, session | `ext/origin-pin.ts`, `trusted-sites.ts`, `site-identity.ts` | durable; the browser's session | pins, trust ticks, site identities; flow records, issued statements |

The contexts talk by `chrome.runtime` messages.  Each is one JavaScript thread: only an
`await` lets another task in, but nearly every handler here awaits (IndexedDB, sockets,
a human), so the handlers of one context interleave.

### Components, their state and what makes them correct

| Component | State | Operations | Correct when |
|---|---|---|---|
| **Inbound consent pipeline** (`offscreen.ts` `handleInbound`, `handleTaskConsent`, `drainPendingInbound`; `core/inbound/pending.ts`, `dedup.ts`) | two bounded IndexedDB lists, the guard set of digests under a prompt, the interactions under way | record, acknowledge, dispatch, claim, guard, prompt, decide, release, reconcile, drain, lock, unlock, teardown | the mediator's copy goes only after the durable put; a change is never before the human twice at once; no decision is made without the human; without faults every request is concluded |
| **Local relay** (`maybeRelayConsentLocally`) | shares the guard set | verify, prompt, sign, send | its guard is always lifted |
| **Consent windows** (`consent-window.ts`, `consent-result.ts`, `requestTaskConsent` and the other openers) | `pendingConsents`, listeners, grace timers | ask, window created or not, result, acknowledgement, removal, grace | what the human clicked is the verdict; silence is a denial; every prompt settles |
| **Replay ledger** (`consent-replay.ts`, `handleRequestTask`) | bounded map of refused requests | record a refusal, arm on a grant, consume | a skipped confirm is backed by one fresh approval of that very request |
| **Reconnect scheduler** (`core/inbound/reconnect.ts`) | one backoff per key | schedule, fire, succeed, fail, clear | one timer per key; a lock wins; a cancelled loop stays cancelled; no loop is stranded |
| **Approver inbox** (`getApproverWarmSession`, `approverReconnect`, `lockApprovers`) | pool entry, connections, close handlers | look up, create, connect, fail, drop, unlock, lock, drain | no dead entry goes unnoticed; an inbox that was up comes back |
| **Warm pool** (`getWarmSession`, `retireConnection`, `evictWarmSession`, `reconcileInbound`) | the same for the worker's own inbox, with expiry, retirement, eviction and the operator's set of agents | as above, and retire, evict, wake, reconcile, forget, add | a late signal about an old connection never hurts its replacement; the inbox comes back |
| **Mediator session** (`core/didcomm/index.ts`) | list of TSP waiters and their timers | send, time out, close, offer a frame | a request resolves with its own reply; no reply is lost |
| **TSP relationship** (`core/vta/tsp-relationship.ts`, `tsp-channel.ts`) | one record per pair, shared by all requests | invite, accept, cancel, forget | the wallet believes only in what the VTA accepted; one fault costs one request |
| **VTA session** (`core/vta/session.ts`, `rest-channel.ts`, `auth.ts`, `tsp-mediator-transport.ts`), **mediator fallback** (`ext/mediator-fallback.ts`) | channels in order, the cached bearer and the sign-in in flight, a mediator's rest | build, send, fall back, time out, sign in, re-authenticate | a request that may have been applied is not sent over another transport; a refusal does not sign the others out; every request ends |
| **Site consent and page calls** (`background.ts` handlers of page calls, `gatedConsent`, `origin-pin.ts`, `trusted-sites.ts`, `site-identity.ts`) | per origin: pin, trust tick, chosen identity, issued statements | login, proxied login, sign, attest, response, step-up, list, profile; forget a site | what goes out goes where the human let it go, as whom they chose, and only what they saw |
| **Sign-in flows** (`sign-in-flows.ts`, `handleSignInStep`, `endSignInFlow`, `sign-in-view.tsx`) | the flow with its key, the worker's record of it, the window | prepare, join, manifest, submit, claim, adopt, prove, challenge, approve, remote, decline, cancel, poll, close | a community is addressed only once its domain is confirmed; a claim is concluded or cancelled; nothing new is begun after an answer; the vault agrees with the answer |
| **Settings store** (`ext/config.ts`) | one record, read and written whole | set, forget | no write is lost |
| **Rooms, onboarding, provisioning, administration, vault, credentials** | mostly a request and its reply | | |
| **Star figures, κ registry** (`kappa-merkle.ts`, `star-hold.ts`) | pure computation; `FORMAL.md` names existing proofs of it | | |

`PROJECT.json` lists every component with its sources and how far it is modelled.

### How they interact

```
 mediator ──frames──▶ mediator session ──▶ inbound pipeline ──prompt──▶ consent window ──▶ human
    ▲                     │      ▲                │  ▲                       │
    │ ack                 │      │ replies        │  │ guard set             │ result / removal
    └─────────────────────┘   TSP channel         │ local relay ◀── rejected task
                                 ▲                ▼
   page ─▶ handleRequestTask ────┘        decision ─▶ agent ─▶ consentgranted ─▶ replay ledger
               │                                                                    ▲
               └────────────────────────────────────────────────────────────────────┘
   page ─▶ login, sign, step-up … ─▶ pin, trust, identity ─▶ consent window ─▶ VTA session
   sign-in window ─▶ worker's record ─▶ sign-in flow (offscreen) ─▶ community, VTA session
   VTA session: TSP channel, DIDComm channel (one mediator session), REST channel (bearer)
   reconnect scheduler ◀─▶ approver inbox, warm pool ─▶ the sessions all of the above use
```

### What is hard

* *Snapshots over awaits.*  Claims and records are read in one IndexedDB transaction and
  written in another; the waiter list is indexed before an `await` and spliced after it;
  the relay tests the guard before an `await` and sets it after; the connection a
  decision leaves by is captured minutes before it is used; a login reads the pin before
  its prompt and writes it after; a sign-in step takes the claim's key before a signature
  and uses it after, and what it signed may wait out a rate limiter and go again.
* *Late answers.*  A timer races a reply, a removal races a result, a close of a replaced
  connection comes after its replacement, an attempt outlives a lock.
* *Outliving the window.*  A step of a sign-in flow runs to its end whatever becomes of the
  window that asked for it; the close and a phone poll run beside it.
* *Uncertain outcomes.*  A request without a reply may have been applied: it may be neither
  repeated over another transport nor taken for undone.
* *Losses.*  The worker is evicted under a prompt, the document torn down under an
  interaction, frames are lost, redelivered, or overtake each other.
* *Bounds.*  Claims, records and the ledger drop their oldest entries.
* *Recovery.*  After any of these an inbox must come back and a request be answered.

The hazards are listed one by one, at their lines, in `PROJECT.json`.

---------------------------------------------------------------------------------------

## 2. Plan

Done, in this order (each was checked before the next was begun):

1. `InboundConsent`: the path from a pushed message to a human decision.
2. `LocalRelay`, which extends it with the second way to a prompt;
   `InboundConsentProofs`, about both.
3. `Reconnect`, `ReconnectProofs`; then `ApproverInbox` and `WarmPool`, which compose the
   scheduler with the two connection pools, `ApproverInboxProofs` and `WarmPoolProofs`.
4. `TspWaiters` and `TspRelationship`, the two layers under a TSP request;
   `TspRelationshipProofs`.
5. `ConsentPromise`, the abstract prompt; `ConsentWindow`, which implements it;
   `ConsentReplay`.
6. `VtaRequests`, which composes `TspWaiters` with the channels, the rest of a mediator and
   the bearer; `VtaRequestsProofs`.
7. `PageCalls`; `PageCallsProofs`, about what a page sets off in the worker: its calls,
   their prompts, the ledger.
8. `SignInFlow`, `SignInFlowProofs`.

Next:

1. *Settings store*: `setInbox`, `forgetInbox`, `setSettings` as read-modify-write over
   one record, composed with the warm pool's `Forget` and `Add`.
2. *The prompt inside the pipeline and the page calls*: their prompts as instances of
   `ConsentPromise`, so that both are checked against the abstract prompt that
   `ConsentWindow` is proved to implement.
3. *Offscreen document's creation* (`ensureOffscreenDocument`) and the decisions the
   wallet awaits an outcome for (`awaitingDecisions`).
4. *Rooms' file chunks, the onboarding swap, the Merkle construction.*
5. *Proofs*: the refinements of step 2, step by step.

---------------------------------------------------------------------------------------

## 3. Modules

`PROJECT.json` "map" gives the source lines of every definition.  Definitions whose
comment begins with *Mutant* are deliberate mistakes: substituted for the definition that
follows them they make a property fail, which shows that the property depends on it.
An `MC*` module only gives constants their values and states symmetries.

### InboundConsent

*Code.*  A frame is unpacked and `handleInbound` runs without being awaited; the
transport acknowledges once the promise of the durable put settles.  `handleInbound`
puts a record, dispatches, and in its `finally` removes the record.
`handleTaskConsent` claims the document's id (`dedup.ts`), looks at the guard set,
prompts, signs and sends.  `drainPendingInbound` re-drives the records one by one.

*Model.*  An interaction occupies a *slot*, of a socket (`Inbox`) or of a drain
(`Drainer`), and passes through `persist → dispatch → claim → prompt → sign → release →
remove`.  A label stands for an `await`: `persist`, `claim` and `remove` each hold in
`snap` the list that was read, and write a list computed from that snapshot, however the
stored list has changed since.  `active` is `activeConsentDigests`; `owed` the
acknowledgements of settled puts.

| Action | Code |
|---|---|
| `Deliver` | `onInboundMessage`, start of `handleInbound`, read of the records |
| `Persist`, `PersistFails` | write of the record; both settle the promise the ack waits for |
| `Ack`, `Drop` | the mediator deletes its copy; a socket closes |
| `Ignore` | messages that are no consent request, or one `parseTaskConsentRequest` refuses |
| `ReadClaims`, `ClaimTaken`, `WriteClaim`, `ClaimFails` | `claimInboundDocument` in its two transactions, and the guard |
| `Answer`, `PromptFails` | the human approves or closes; the worker dies under the prompt |
| `SendDecision`, `SendFails` | signing and sending over the connection captured at delivery (`live`) |
| `ReadRelease`, `NothingToRelease`, `WriteRelease`, `ReleaseFails` | `removePendingInbound` |
| `AskReconcile`, `StartDrain`, `Redrive`, `SkipLocked` | `reconcileInbound`, `drainPendingInbound` |
| `Lock`, `Unlock`, `Teardown`, `Boot` | the approver identity; the document's life |

### LocalRelay

`InboundConsent` with `maybeRelayConsentLocally` beside it: `StartRelay` tests the guard,
`RefuseRelay`/`OpenRelay` end the verification, `AnswerRelay` and `SignRelay` the prompt.
`OpenRelay` does not look at the guard again, as in the code.  The whole of the pipeline's
`Next` runs beside it.

### ConsentPromise, ConsentWindow

`ConsentPromise` says what a caller may rely on: a question is asked once, has one
verdict, is approved only after the human approved, and is lost with the worker.
`ConsentWindow` is how the extension does it: `windows.create` and its callback
(`Created`, `CreateFails`), the popup's `send`, await, close (`Click`, `CloseAcked`,
`SendFails`), the worker's settle and acknowledgement (`Result`), the removal event and
the grace (`Removed`, `GraceEnds`), eviction.  All openers in `background.ts` (site, task,
disclosure, step-up and so on) use the same function in the same way; `requestTaskConsent` stands
for them.  The refinement maps `verdict` and `clicked` to themselves.

### ConsentReplay

The ledger is a function from keys to entries with the Map's order beside it, the set of
pairs `<<j, k>>` with `j` before `k`: a key that is set again keeps its place.  `Record`,
`Granted`, `Armed`, `Consumed` are its methods, each over what `#prune` leaves (`Live`, `Keep`).
`Submit`, `Confirm` and `Refused` are `handleRequestTask` between its awaits, `Notice` the
`consentgranted` message.  The clock advances at any moment (`Elapse`).

`ConsentWindow` and `ConsentReplay` name their specifications apart (`WindowSpec`,
`ReplaySpec`), because one module of proofs extends them both.

### Reconnect, ApproverInbox, WarmPool

`Reconnect` is `ReconnectScheduler` for one key.  An entry object outlives its place in
the map, since the closures of attempts keep it: `flying` counts the attempts of each
entry, `current` is the one in the map.  `gate` is `shouldRetry`.  An attempt under way is a
*flight*, the pair of its entry and a number: where the scheduler is composed with what it calls, each
flight is a caller with a place of its own.

`ApproverInbox` and `WarmPool` EXTEND it and add the pools.  A caller of
`getApproverWarmSession`/`getWarmSession` is `look`ing, `wait`ing on another's promise or
`own`ing one; a close handler is a pair of the connection and the entry it found in the
pool (both `await` that entry).  *Quiet*: what a settled promise sets off runs before the
next event, so events (a connect, a drop, a timer, a lock) are guarded by there being no
such continuation left.  `WarmPool` adds expiry (`stale`), retirement, evictions after a
lost reply or a wake, `reconcileInbound` in its parts and the operator's forgetting and
adding of the agent; its backoff has no lock, so `gate` stays TRUE.  `Fresh` takes a
connection that is neither in use nor remembered by anybody; when none is left, creation
waits, which bounds the connections alive at once and nothing else.

Whether a warm session carries the inbox is decided while it is being created (`listening`,
`createWarmSession`'s `isInbox`, which `ReadInbox` reads at a moment of its own), and its close
re-arms the loop only then.  A session made
for a request before its agent's inbox was on record is reused by a later retry or reconcile
(`isReusable` does not ask), and a session that a forget closed while it was connecting still
resolves; either way `startInbound` reports success, the loop is cleared, and nothing listens.
`held` records the one thing `InboxRecovers` supposes: the pool's session has carried the
inbox since the agent was added, no expired session was replaced since, and no attempt or
reconcile was content with one that does not carry it (`Carries`).

### TspWaiters

One session of `connectMediatorSession`: `Send`/`SendFails` register a waiter with its
timer, `Timeout` and `Close` take waiters off, `Take`, `Offer`, `Claimed`, `Declined`,
`Unclaimed` are the loop of `onTspFrame`, which keeps only an index over its `await`
(`Splice` acts on whatever stands there).

### TspRelationship

`ensureRelationship`, `TspChannel.send`, `forgetOnFailure` and `applyInboundControl` for
requests that share one record, against a VTA that accepts, restarts, cancels by naming
the invite, the accept or nothing, over wires that lose frames.

### VtaRequests

`TspWaiters` with the requests around it, for one connection's life.  A request builds its
chain of channels (`BuildTsp`, `BuildRest`: an advertised transport is left out while the
mediator rests or when it cannot connect), and tries them in order.  Only `unsupported`
moves on (`Unsupported`), and of the modelled failures only a TSP frame that the socket
refused is that (`SendFails`).  `TspSends`/`TspReturns` use the waiters,
`DidcommSends`/`DidcommReturns` the transport library's, which are one choice.
`TspTimesOut` is a waiter's timer with its `onReplyTimeout`, which puts the mediator to rest
(`sits`) until `CooldownEnds`.  REST takes a bearer (`Bearer`): the cached one, the sign-in
under way, or a new one (`Mint`, `SignedIn`, `SignInFails`); `Posts` may find it refused,
and `Reauth` drops that token and asks once more.  Tokens are numbered; the agent honours
only the newest, as an agent that keeps one session per holder does.

### PageCalls

The worker's handlers of what one origin's pages ask for.  A call is at a point of its
route, each point an `await`; `memo` is what it carries over it.

| Action | Code |
|---|---|
| `Arrive` | the message listener, with any of eight kinds of call |
| `Resolve` | `resolveProfileEntry`, `ownProfile` |
| `Check`, `Verified` | the read of the pin: to warn of a change, to refuse, and again once a step-up was verified |
| `Gate`, `Settled` | `gatedConsent`/`requestConsent` and the human's answer; the tick is stored before the call goes on |
| `PinOrigin`, `Store` | `pinOrigin`, whose read and write are apart when the login names no base |
| `ListEntries`, `Prefer`, `Chosen`, `Bind`, `Forget`, `Tick` | `resolveLoginIdentity`, the identity prompt, `bindProfileEntry`, and what is remembered of it |
| `Issue`, `Fetch`, `Spend` | an approver statement: signed and remembered, looked up, spent |
| `Untrust`, `Evict` | the options page; the worker's eviction, which ends the calls and keeps the stores |

`Init` ranges over what earlier calls may have left: any pin and tick, the holder's record, a
persona's entry, a statement for any audience.  `before` keeps what of it the properties refer
to.  A prompt is one step here, because `ConsentWindow` is proved to implement one.

### SignInFlow

One flow, with three callers of the offscreen document: the `window`'s own step, its phone
`poll`, and the `close` the worker sends.  `Step`, `Back`, `Poll`, `Dismiss` are the window,
`EndSignInFlow`, `Relay` and `Evict` the worker with its session-storage `record`, and the
other actions the offscreen document.  `Arrive` is `step`, with each handler's own test of
the phase; then one action stands for the code from each `await` to the next (`Prepared`,
`Linkage`, `Bound`, `Manifested`, `Listed`, `Answered`, `Unbound`, `Signed`, `Claimed`,
`Renamed`, `Numbered`, `Proved`, `Identified`, `Responded`, `Cancelled`).  `Cancels` and
`Fails` are `cancel` and `fail`, `Ended` and `Dropped` are `end` and the removal from the
map.

A message to the community is `sendOob`: the step is `outgoing` while the message is signed with
the key it was given, `Posted` puts it out, and the step is at the `exchange` until its reply or
failure.  There `Limited` is `postCommunityTask`'s answer 429: the same document goes out again
after a wait, up to `MaxRetries` times, and nothing on that path looks at the flow or its key.
A community refuses, does not answer, or answers with something that does not check
out (`Failure`).  A site's document, the agent's signature, and the uv ceremony are choices.

---------------------------------------------------------------------------------------

## 4. Runs

Times are for two workers.  Deadlock is not checked in any run: in every model all
requests may be answered and nothing more arrive, which is a proper end.

| Run | Instance | Size | What it shows |
|---|---|---|---|
| `inbound` | 2 messages (one for the approver) with one digest, a live slot beside a drain, `MaxClaims` 1, `MaxPending` 2, 1 fault | 2.1 M states, 140 s | prompts exclusive per digest, the guard exact, persist before ack, records unique, with every interleaving of reads and writes |
| `inbound_serial` | 4 messages: a request, its redelivery under another transport id, another document with the same id, no request at all; one slot; `MaxPending` 1; 1 fault; fairness | 164 k states, 170 s | a redelivery or replay over a live socket raises no second prompt, never two documents under one id, and every request concluded if no fault intervenes |
| `relay_guard` | 2 relays, a live slot and a drain over one digest, 1 fault | 1.9 M states, 160 s | no guard is left behind; nothing is approved without a human, by either path |
| `consent_window` | 2 prompts; fairness | 4.5 k states, 3 s | a decision in time wins, an open prompt is not denied, every prompt settles, refinement of `ConsentPromise` |
| `consent_replay` | 2 handlers, 3 payloads, 3 digests, a ledger of 2, TTL 2 ticks of a clock that ends at 2 | 1 M states, 130 s | a skipped confirm is backed, an approval is used once, an announced grant is armed |
| `approver_inbox` | 2 entries, 3 connections, delays 2..3 (so that the ceiling is reached by capping), 1 attempt per entry | 763 k states, 55 s | the composition's steps are the scheduler's, what was cancelled stays so, the inbox returns |
| `warm_pool` | 2 entries, 2 connections, 1 request, the reconcile | 2.4 M states, 90 s | late signals harmless, the inbox returns |
| `vta_requests` | 2 requests over one connection, every set of advertised transports, 3 tokens; fairness | 435 k states, 160 s | no request over two transports, no unraced reply lost, no live token thrown away, every request ends |
| `rel_requests` | 3 requests, 2 faults | 958 k states, 40 s | belief only in what was accepted, agreement after a cancellation, one failure per fault |
| `page_calls` | 2 calls of any kind, 2 relying parties, 2 base URLs, after earlier calls | 3.6 M states, 60 s | the pin's base is its party's, step-ups go where a login went, silence was ticked for, identities were chosen, statements were shown for their audience, changes warn |
| `sign_in` | every kind of site, an evictable worker, 2 approvals begun, 1 resend of each message; fairness | 859 k states, 170 s | linkage before anything is sent, the vault agrees with the answer, a mismatch is read, a claim is concluded, nothing new after an answer, the key forgotten |
| `inbound_drain_dedup` | the smallest instance that shows it | 1.3 k states, 1 s | a counterexample, section 6 |

### Why the bounds are enough to be interesting

* *inbound.*  The races are between two interactions.  A live slot and a drain with two
  messages give every overlap of two read-modify-writes on both lists, including the two
  on the same message; `MaxClaims` 1 makes the claim list drop its older entry.  One fault
  may be any of a failed put, claim, prompt, send or removal, a dropped socket, a lock or
  a teardown, at any moment.
* *inbound_serial.*  The traffic holds the three pairs section 7.2 item 11 of the
  specification the code cites distinguishes, and a pending list of one record.
* *approver_inbox.*  The three connections are one that died, its replacement and the
  replacement's rival; with two, a rival cannot be created while the close handler of the
  first is at work.  Two entries let an attempt outlive its loop and meet the next one.
* *warm_pool.*  Two entries again, so that an attempt of a cancelled loop can clear the next
  one: without `held`'s exception for such an attempt this run finds `InboxRecovers` violated.
  Two connections are an old session and its replacement; a third, which the proofs cover,
  adds rivals (`warm_strict.cfg` has three).
* *vta_requests.*  The bearer's race is between two requests refused together; the
  mediator's rest needs one request that times out and one that is being built.  Three
  tokens let a refusal follow a sign-in that followed a refusal.  The waiters alone, with
  the third request that index errors need and with frames nobody asked for, are checked by
  `tsp_waiters.cfg`; what `vta_requests` checks of them is proved for any number.
* *page_calls.*  Each property is about one call and one other that changes the stores
  between its awaits; a longer history is in the initial stores.  Two relying parties and two
  base URLs are what a mixture needs.
* *sign_in.*  One flow shares nothing with another.  `MaxGrant` 2 lets the person begin an
  approval, go back and begin another while the first is being signed.  `MaxRetries` 1 (the code
  allows `RATE_LIMIT_RETRIES`) has a message wait while the flow is answered, cancelled or closed.
* *rel_requests.*  Three requests: one whose invite is outstanding, one that overlaps it,
  and one that comes after both; two faults let a cancellation follow a restart.
* *consent_window.*  Two prompts suffice for one's removal to meet another's listener.
* *consent_replay.*  A ledger of two with three payloads evicts; the TTL can run out.

### Fairness

| Specification | Assumed | Why the code justifies it |
|---|---|---|
| `InboundConsent!FairSpec` | weak fairness of each slot's own steps, of a drain, of acks and of the boot; of the human answering an open prompt; strong fairness of delivery | an `await` that completes resumes; the transport redelivers what is not acked whenever a socket is free; the wallet has no timeout on a prompt, so a liveness property must suppose that the human answers or closes it; the browser restarts the document |
| `VtaRequests!VtaFairSpec` | a request that has begun goes on, its timers fire, a sign-in ends | every wait has a timer: TSP waiters and DIDComm requests the reply timeout, HTTP its own abort; replies are not assumed |
| `SignInFlow!FairSpec` | weak fairness of each caller's run in the offscreen document and of the worker's handling of the close | the requests time out, the agent answers or fails.  The person need do nothing |
| `TspWaiters!FairSpec` (`tsp_waiters.cfg`) | timers fire, a frame taken is handled, frames that have arrived are taken | the event loop.  Replies and closes are not assumed |
| `ConsentWindow!FairSpec` | events that are queued are handled, the browser opens or fails to open a window, grace timers fire, an acknowledged popup closes | the event loop.  The human need not click |

No other run of the table uses fairness.

### Exceptions written into properties

A property the code keeps only outside a named circumstance says so, with a history
variable that records that circumstance; nothing else reads it.

| Property | Excepts | The case excepted is shown by |
|---|---|---|
| `EveryRequestConcluded` | a fault has happened (`faults > 0`) | `inbound_drain_dedup`, `inbound_closed_session` |
| `UnracedReplyReachesRequest` (and `WaitersMatchTimers` of `tsp_waiters.cfg`) | a timer or close ran while a frame was being offered (`raced`) | `tsp_lost_reply.cfg` |
| `Agreement` | a frame was lost, the VTA restarted, or a cancellation named the accept (`happened`) | `rel_strict.cfg` `AgreementOnEither` for the last; the others leave the wallet no way to know |
| `OneFaultOneFailure` | requests overlapped, or a timer fired with frames under way | `rel_strict.cfg` `OneInviteAtATime` |
| `NeverDeafAgain` | an attempt was under way at a lock or unlock (`crossed`); nothing was open since the unlock (`heard`) | `approver_strict.cfg` `RetriesForever`, `NeverDeaf` |
| `InboxRecovers` | no session that carries the inbox was open since the agent was added, or since an expired one was replaced, or since a session without the inbox was taken for it (`held`) | `warm_strict.cfg` `RetiredIsReplaced`; the last by section 3 |
| `DecisionWins` | the result was lost, or came after the grace had ended (`missed`) | the grace is one second, by design |
| `AnnouncedIsArmed` | the refusal was recorded after its grant was announced (`late`) | costs one more confirm |
| `ChangeIsLoud` | the pin moved after the call had read it (`seen # pin`) | `EveryChangeIsLoud`, stated beside it |
| `ClaimConcluded` | the community could not be reached (`unreached`) | `sign_in_strict.cfg` `UnrefusedClaimIsCancelled` |
| `NothingNewOnceConcluded` | a message that was on its way before the answer | `sign_in_strict.cfg` `NeverResendOnceConcluded` |
| `ReplayNotPrompted` | a drain, which is to prompt again | `inbound_drain_dedup` shows that it does not |
| `KeyForgotten` | the worker no longer heard the close (`heard`); the claim went out after its flow had ended (`late`) | `sign_in_strict.cfg` `ClosedWindowForgetsKey` |
| `EntryFollowsAnswer` | the entry's removal failed (`stuck`); a lost answer counts as a refusal | the removal is best effort, by design |

`TspWaiters!TypeOK` is checked by adding it to a run's configuration; the type invariants of
the other modules, and the pools' `DeadEntryNoticed`, are proved.

---------------------------------------------------------------------------------------

## 5. Proofs

Eight modules, checked by TLAPS for every value of the constants that satisfies the named
assumptions (finite message set, disjoint slots, positive bounds, delays with
`BaseMs <= MaxMs`, and `None` outside the data).

**InboundConsentProofs.**  The inductive invariant is built in layers.

1. What the list operators return: `Newest` keeps at most `n` old entries, `Without`
   removes one, `Recorded` and `WithClaim` keep lists bounded and without repeats.
2. `Base == TypeOK /\ SlotsConsistent /\ UniqueRecords`.  `UniqueRecords` is not inductive
   alone: a write replaces a list by one computed from a *snapshot*, so `SlotsConsistent`
   says that every snapshot a slot will write from is itself bounded and without repeats,
   and that the id being claimed was free in it.  It also ties an approval in hand to the
   document it was given for.
3. On `Base`: `PromptInv` (`GuardMatchesPrompts` and `OnePromptPerDigest`, which need one
   another: the guard being exact is why a new prompt's digest has no other prompt, and
   prompts being exclusive is why ending one may delete the digest); `AckInv` (an ack owed is
   of a settled put); and `ApprovalIsHuman`.

Results: `TypeCorrect`, `RecordsAreUnique`, `PromptsAreExclusive`, `GuardIsExact`,
`AcksWait`, `ApprovalsAreHuman`.

*With the relay beside the pipeline.*  `GuardSteps` reduces the pipeline's whole `Next` to what
it does to the guard set: nothing, open a prompt, end one, or lose everything with the
document.  Then `RelayInv` is `Base` of the pipeline, `GuardHasPrompt`, `ApprovalIsHuman`, that
what a relay is about to sign a human approved, and that no relay survives a teardown.
`GuardMatchesPrompts` is *not* preserved beside relays (a relay's `finally` may delete a digest
another prompt guards); `GuardHasPrompt` is, because a digest that leaves the set has no guard
left to answer for.  Results: `RelayTyped`, `GuardHasAPrompt`, `RelayApprovalsAreHuman`.

*One document per id, no prompt for a replay.*  Neither is a theorem of the specification:
`inbound_id_conflict.cfg` has two interactions that both read the claims before either writes,
and a full claim list forgets.  What is proved says exactly what is missing:
`OneDocumentInTurn` and `ReplaysAbsorbedInTurn` give both properties, for any number of slots,
faults, redeliveries, drains and restarts, in every behaviour in which no two interactions are
between the read and the write of a claim at once (`ClaimsInTurn`) and no claim is evicted
(`ClaimsKept`).  The first is what one read-and-write transaction would have to give.  The
hypotheses are not empty: `SerialMeetsCondition` proves them of every instance with one slot
and no more ids than the claim list holds, which is the instance of `inbound_serial`.

**ReconnectProofs.**  `SchedInv == SchedTypeOK /\ OneTimer /\ LockWins /\ NeverStranded` is
inductive as a whole; `LockWins` needs `OneTimer`, because `clear` cancels only the timer of
the map's entry.  Results: the four conjuncts, and the action property `CancelSticks`.  The
module also counts: `Counts(flying, S)` says that each entry's number of attempts is the
cardinality of its flights in `S`, and `CountedIn`, `CountedOut`, `CountPositive` are what the
two pools need of it.

**ApproverInboxProofs.**  `InboxImplementsScheduler`: every step of the composition is a
scheduler step or a stutter of the scheduler's variables; with it what is proved of the
scheduler holds in the composition, and `LockedInboxIsQuiet` draws that conclusion for the
lock.

`InboxComesBack` (`NeverDeafAgain`) needs more, since it speaks of both.  `BringsBack` is its
inductive form: an unlocked inbox that has been up is up, or the scheduler's loop is in the
map, or a close handler is at work that will put it there (`Rearms`: it found nothing in the
pool, itself, something that has failed, or something still connecting that no lock has
doomed).  The loop being in the map is enough because `NeverStranded` gives it a timer or an
attempt counted by `flying`, and `FlightsCounted` says that what is counted is a caller at
work.  That no step takes the last of these away rests on `AwaitsSound` (an attempt that no
lock crossed waits for a connection that can still be used, so that its success, which clears
the loop, means an open connection) and on `DeadEntryNoticed`.

**WarmPoolProofs.**  The same argument, with four complications.  A retired session was
expired (`RetiredOld`), so one that is up and not retiring counts.  An eviction's re-arming may
be under way (`rearming`).  Not every session carries the inbox, so `BringsBack` and `Rearms`
ask for one that does, and `PoolCarries` says that once `held`, whatever stands in the pool
does.  And a caller that made its own session hears of it before it can expire
(`AwaitsSound`).  Trying to prove it is what showed that `held` needs its last exception: an
attempt or a reconcile content with a session that carries no inbox clears the loop (section 3).
Results: `WarmTyped`, `DeadEntriesAreNoticed`, `WarmTimersNeverStack`, `WarmCancelSticks`,
`WarmInboxComesBack`, and `LateSignalsAreHarmless`, which follows from the tests of
`isSuperseded` and `evictWarmSession` alone.

**TspRelationshipProofs.**  `BeliefIsBacked`: `Backed` traces belief to the wire, since an
accept on its way is for an invite the VTA accepted.  `WalletAgrees` (`Agreement`): while
nothing was lost, restarted or cancelled by its accept, every accept on its way is for the
relationship the VTA still holds, *or* a frame that ends it is behind that accept on the same
wire (`HeldOrEnding`); the position on the wire is the point, as a cancellation that overtook
its accept would leave the wallet believing.  `RetryGoesThrough` (`OneFaultOneFailure`):
requests made in turn leave at most one frame in flight, and `InPlace` says which, for each
place a request can stand; after a failure, and until the next fault, the record is gone or
the VTA holds it.  Results: those three and `Typed`.

**VtaRequestsProofs.**  First the connection alone.  `UnracedReplyReachesRequest` needs
`InPlace`: while nothing raced, every waiting request stands in the list, and the one that the
frame in hand answers stands no earlier than the loop's index.  Then
`RequestsImplementConnection`: every step of the requests is a step of `TspWaiters` or leaves
it alone, so those results carry over.  Over the whole, `SessionInv` (a request has been
carried only while its answer is awaited, by one transport) gives `SentOverOneTransport`,
`BearerInv` (no token is newer than the agent's newest; a refused one is older) gives
`LiveTokensStay`: had the refused request's token been the cached live one, it would not have
been refused.

**PageCallsProofs.**  `PageInv` says what each call's place on its route has established:
which kinds may be there (`Route`), who let it come this far (`Consented`), what a call nobody
was asked about rests on (`Unasked`), and which login named the base it holds or whom its
statement was shown to (`Holds`).  The argument against interleaving is one lemma, `Lasting`:
these facts are about approvals and requests made, which only grow (`Grows`), so no step of
another call takes one back.  Results: `PageTyped` and one theorem for each of the six
properties of `page_calls`.

*The prompts.*  `PromptInv` adds `WindowInv` to the three invariants of `ConsentWindow`: what
was clicked for a waiting prompt is in the mail or missed; a grace runs only for a window that
is gone; a window still requested has had no verdict; an approval was clicked.  Without the
first a grace could end on a decision the model had lost sight of; without the second and third
a denial could meet a window on screen.  Results: `WindowTyped`, `TimelyDecisionWins`,
`OpenPromptsAreSafe`, and `WindowsKeepPromise`, the refinement of `ConsentPromise`.

*The ledger.*  Types need the order: the Map's order is strict and total on the entries
(`Ordered`), a finite strictly ordered set has a first element (`FirstElement`), so a full
ledger always has something to evict and keeps its bound (`Bounded`).  `SkipsAreBacked` follows
from `Backing`: what is in the ledger was issued for the request it stands under, and what is
granted was approved.  `ApprovalsAreSingleUse` follows from `OnePlace`: a digest is in one
place, the refusal a handler is about to record, an entry, or a skip, and each step moves it on.
`AnnouncementsAreTrue` is inductive with the types.  Results: these three and `LedgerTyped`.

**SignInFlowProofs.**  Each action is first reduced to its effect on a handful of facts: the
flow's key, phase and linkage, where the window's step stands, and where the poll and the
close stand, which take few of the paths.  `FactInv` is then a conjunction over these facts:
`Placed` (which step may be where), `LinkInv`, `ReadInv`, `LoadInv`, `ClaimInv` (no key before
the claim, no join after it), `CancelInv` (a flow that ended with its claim out and its key
kept has a cancel yet to go out, and once it went the claim was withdrawn), `SpentInv`,
`ConcludedInv`, `EntryInv`; `CloseInv` adds that the close's call is idle while the worker still
listens for it.  `NothingNewOnceConcluded` follows because a conclusion takes the key and no
step sets out to send without it; what had set out before may still go out, and a 429 sends
it again.  Results: `SignInTyped`, `LinkedBeforeSent`, `EntryKeptWithAnswer`,
`WarningAnswered`, `ClaimIsConcluded`, `NothingBegunAfterAnswer`, with `FlowInvariant` for the
whole.

*Only model-checked.*  The four liveness properties (`EveryRequestConcluded`, `EveryRequestEnds`,
`EveryPromptSettles`, `KeyForgotten`), since TLAPS has no rule for fairness or `ENABLED` here;
and, without the two conditions above, `OneDocumentPerId` and `ReplayNotPrompted`.  Every other
property of a passing run is a theorem.

---------------------------------------------------------------------------------------

## 6. What the code does not keep

One disagreement between the code and what its own comments say is a regular run that
must find a violation (`PROJECT.json` "findings"):

* **`inbound_drain_dedup`** (`offscreen.ts:4383`).  The drain exists to finish an
  interaction a teardown interrupted, and its comment says that the dedup check must be
  bypassed for it.  The claim is made unconditionally, so the drain meets the claim of its
  own first run, returns "duplicate" and removes the record.

Further configurations are kept beside the regular runs.  Each is expected to end in a
counterexample, and documents the limit of a property that is stated elsewhere with an
exception, or of a comment.  Those named `*_strict` hold several properties; each fails by
itself, so one line is checked at a time.  (`tsp_waiters.cfg` is not one of them: it passes.)

| Configuration | Property | Shows |
|---|---|---|
| `inbound_redelivery.cfg` | `RecordOutlivesPrompt` | a redelivery absorbed as a duplicate removes the record the first delivery still needs |
| `inbound_lost_update.cfg` | `OnlyItsOwnRecord` | two list writes from stale snapshots erase a record |
| `inbound_id_conflict.cfg` | `OneDocumentPerId` | two concurrent interactions both find an id free |
| `inbound_closed_session.cfg` | `ApprovalNotLost` | the connection has closed by the time the human approves; the approval is dropped with its record |
| `inbound_unlock.cfg` | `UnlockDrains` | a record skipped for a locked approver waits for a reconcile; the unlock drives nothing by itself |
| `relay_two_popups.cfg` | `OnePopupPerChange` | a relay and an inbox prompt for the same digest |
| `tsp_lost_reply.cfg` | `ReplyReachesRequest` | a timer that fires while a later waiter is being asked shifts the list under the loop's index (`core/didcomm/index.ts:824`): a reply whose request still waits goes to the inbox handler |
| `vta_false_alarm.cfg` | `NoReplyIsEvidence` | a request whose socket write failed has gone on over another transport, but its orphaned waiter's timer still puts the mediator to rest (`tsp-mediator-transport.ts:102`) |
| `rel_strict.cfg` | `OneInviteAtATime` | two requests both find no record and both invite |
| | `AgreementOnEither` | a cancellation that names an accept a handshake claimed is not recognised |
| `approver_strict.cfg` | `NeverDeaf` | the first connect after an unlock fails and nothing re-arms |
| | `LockedMeansDeaf` | an old connection that fails removes a newer one's pool entry, so a lock does not find that one, and it opens under the lock |
| | `RetriesForever` | an attempt that outlives a lock and an unlock reports success for a closed session |
| `warm_strict.cfg` | `RetiredIsReplaced` | a request retires an expired connection before its replacement has connected (`offscreen.ts:3185`); if that fails, the retired one is closed deliberately, no close handler re-arms the backoff, and the inbox is dark until the next wake or reconcile |
| | `FreshNotReplaced` | two callers that awaited one unusable connection each put a new one |
| | `ForgottenHasNoRetry` | a forgotten agent whose entry had dropped keeps its retry |
| `sign_in_strict.cfg` | `NeverResendOnceConcluded` | a document that met a 429 goes out again after the community had its answer (`core/src/vtc/oob-sign-in.ts:589`), against `end`'s comment "Never resend after a request has ended" (`sign-in-flows.ts:1587`) |
| | `ClaimStaysCancelled` | a claim that waited, or met a 429, goes out behind the cancel of its own flow |
| | `UnrefusedClaimIsCancelled` | a community that could not be reached counts as one that refused: no cancel is sent for a claim it may hold |
| | `ClosedWindowForgetsKey` | a claim that waited for its linkage goes out after the flow ended, with a key nobody forgets; or the worker was evicted and did not hear the close |
| | `BackWithdraws` | "Approval cancelled" is the window's own state: an approval being signed still goes out |
| `replay_eviction.cfg` | `EvictsOldest` | a key recorded again keeps its place in the Map, so a younger entry is evicted first |

Three more are stated in `PageCalls`, in the words of the comments they come from, and fail
when put into `page_calls.cfg`:

| Property | Shows |
|---|---|
| `PageCalls!OneSignaturePerStatement` | two requests both read a statement before either removes it (`background.ts:2841`, `2856`): both are signed |
| `PageCalls!PinWasApproved` | a remembered site's login is let through unasked, and pins |
| `PageCalls!EveryChangeIsLoud` | the pin moves while a login waits for its answer: the change it then makes was in no warning |

One more was met in reading: onboarding asks for DIDComm to lead (`offscreen.ts:1552`), but
`VtaSession`'s constructor sorts the channels by `CHANNEL_PRIORITY` again
(`core/vta/session.ts`), which puts TSP first.  Onboarding's session is not modelled.

---------------------------------------------------------------------------------------

## 7. Assumptions and abstractions

*Outside the repository, modelled from how the code uses it.*

* The transport hands over one frame at a time and acknowledges when the handler's promise
  settles; an unacknowledged message is delivered again.
* Chrome reports a window's creation to its opener before the window's removal, gives each
  window an id of its own, and may evict the worker and tear the document down at any time.
* An agent honours the bearer of the last sign-in of a holder and no other; a REST request
  with another bearer is refused before it is acted on.
* A community refuses, answers, answers wrongly, or is not reached, to every message.
* A VTA drops what comes from a peer it has no relationship with, accepts an invite when it
  has none, and refuses one otherwise; it issues a fresh salted digest with each refusal
  pending consent (the ledger's own test, `consent-replay.test.mts`, refuses again with the same
  one; `ApprovalsAreSingleUse` rests on the fresh one).
* Signatures and encryption do what they are for.  A request's verification is one choice,
  to accept or refuse; a TSP frame threads to the request it answers.

*Data.*  Messages, documents, ids and digests are model values; `DocOf`, `IdOf`, `DigestOf`
say which message carries what.  Delays keep their arithmetic; other times are events that
may happen at any moment, so every actual duration is covered, and so are some that are not
possible; safety holds for all of them.

*Left out of modelled components.*  `InboundConsent`: inbound messages other than consent
requests (one `Ignore`), badges, notifications.  `InboundConsent` and `LocalRelay`:
`chrome.runtime.connect` between the guard's add and the `try` (`offscreen.ts:2212`, `4425`) is
taken not to throw; if it did, the guard would stay.  `LocalRelay`: the digest of the outcome,
which the guard is set by, and that of the request it carries, which the decision answers, are
taken as one (`offscreen.ts:2173`, `2254`).  `WarmPool`: `mediatorState`, which is only
displayed; device enrolment in the background; several agents at once (the pool is keyed by
the pair, and the loops by the agent).  `TspRelationship`: a socket that fails before
sending.  `ConsentWindow`: the record in `chrome.storage.session` a popup reads its text
from.  `VtaRequests`: `notify`, the probes, a connection's replacement (the pools are modelled
apart, so a closed connection stays closed here), the quiet window of the notification.
`PageCalls`: several origins and agents (the stores are keyed by the origin), a failing store,
the shape and freshness of a task, the wallet's defaults.  `SignInFlow`: the times of the
waits, the texts, several flows at once; a uv ceremony is one choice; `signTrustTask`
(`core/src/trust-tasks/sign.ts:62`) reads the key after two digests, so a key wiped between would
sign with zeros, and the model counts that message as sent.  `ConsentReplay`: the text of
the confirm; a confirm's window is `ConsentWindow`.

*Bounds in the models.*  `MaxFaults` (InboundConsent, TspRelationship), `MaxFlying`
(Reconnect), `MaxTime` (ConsentReplay), `MaxToken` (VtaRequests), `MaxGrant`
and `MaxRetries` (SignInFlow; the code's `RATE_LIMIT_RETRIES`), and the sets of connections, entries, requests and
digests.  `MaxClaims`, `MaxPending`, `MaxEntries`, `BaseMs` and `MaxMs` are the code's own.

---------------------------------------------------------------------------------------

## 8. Not modelled

* *Planned* (section 2): settings store, creation of the offscreen document, outcomes of
  decisions, rooms' file chunks, the onboarding swap.  `config.ts:299`
  is listed as a hazard without a property until then.
* *Straight-line protocol clients*: administration, vault, VTC, credentials, provisioning.  A
  request and its reply, with validation; no shared state.  Their transport is `VtaRequests`.
* *Builders and validators* of the sign-in messages (`rp-login`): `SignInFlow` takes their
  outcome as a choice.
* *Pure decisions*: the approver's and the page policy's tests of a task's shape and freshness;
  unit tests reach them.
* *Browser interfaces*: site access (permissions, script registration) and the bridge between
  page, content script and worker, relays whose only state is a map of pending calls.
* *Cryptography and parsing*: tsp-js (but for its relationship transitions), DID resolution,
  WebVH, HTTP egress, key wrapping, the holder's, approver's and personas' identities.
* *User interface, demonstrations, figures*: the console, the popups' views, the demo relying
  party and reviewers, star figures.  `FORMAL.md` names existing proofs about the star-hold
  Merkle construction.

Most of the repository's lines are of the last five kinds; the map covers the code in which
the order of events decides.

---------------------------------------------------------------------------------------

## 9. Running the tools

```
tlasany InboundConsent.tla                                  # parse
tlc -workers 2 -config inbound.cfg MCInboundConsent         # check a run
tlapm InboundConsentProofs.tla                              # check the proofs
```

Each run's module and configuration are in `PROJECT.json`; a further configuration of
section 6 belongs to the `MC` module of its subject.
