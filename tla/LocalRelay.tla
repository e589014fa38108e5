----------------------------- MODULE LocalRelay -----------------------------
(***************************************************************************)
(* The inbound pipeline with the second way a consent request reaches the  *)
(* approver: a rejected task is handed to the co-located approver identity *)
(* (maybeRelayConsentLocally).  It shares the guard set of the pipeline,   *)
(* but tests it before an await and sets it after.                         *)
(***************************************************************************)
EXTENDS InboundConsent

CONSTANT Relay  \* relays that may run at once, one per rejected task

ASSUME RelayAssumption == IsFiniteSet(Relay)

VARIABLES
  rpc,   \* where each relay is
  rdoc   \* the consent request it relays

relays == <<rpc, rdoc>>

RelayDigest(r) == DigestOf[rdoc[r]]
RelayPrompting(r) == rpc[r] \in {"prompt", "sign"}

RelayGoto(r, l) == rpc' = [rpc EXCEPT ![r] = l]

RelayInit ==
  /\ Init
  /\ rpc = [r \in Relay |-> "idle"]
  /\ rdoc = [r \in Relay |-> None]

-----------------------------------------------------------------------------
\* What a relay leaves alone.
RelayFrame ==
  UNCHANGED <<owed, unlocked, reconcileDue, pc, msg, snap, live, answer, todo, stores,
              queue, settled, up, faults>>

\* A task is rejected with a request for the local approver, and no prompt is
\* open for its digest; the request is then parsed and verified, which awaits.
StartRelay(r, d) ==
  /\ up /\ rpc[r] = "idle"
  /\ DigestOf[d] \notin active
  /\ RelayGoto(r, "verify")
  /\ rdoc' = [rdoc EXCEPT ![r] = d]
  /\ UNCHANGED <<active, sent, prompted, approved>>
  /\ RelayFrame

RefuseRelay(r) ==
  /\ rpc[r] = "verify"
  /\ RelayGoto(r, "idle")
  /\ rdoc' = [rdoc EXCEPT ![r] = None]
  /\ UNCHANGED <<active, sent, prompted, approved>>
  /\ RelayFrame

\* The digest is guarded and the human is asked; the guard is not looked at again.
OpenRelay(r) ==
  /\ rpc[r] = "verify"
  /\ RelayGoto(r, "prompt")
  /\ active' = active \cup {RelayDigest(r)}
  /\ prompted' = prompted \cup {rdoc[r]}
  /\ UNCHANGED <<rdoc, sent, approved>>
  /\ RelayFrame

\* Mutant: the guard outlives the relay.
EndRelayLeaking(r) ==
  /\ RelayGoto(r, "idle")
  /\ rdoc' = [rdoc EXCEPT ![r] = None]
  /\ UNCHANGED active

\* The `finally` of maybeRelayConsentLocally.
EndRelay(r) ==
  /\ RelayGoto(r, "idle")
  /\ rdoc' = [rdoc EXCEPT ![r] = None]
  /\ active' = active \ {RelayDigest(r)}

\* Mutant: a closed window passes for an approval.
AnyAnswer(a) == a # None

\* Only an approval that carries the biometric's output is signed.
Assent(a) == a = "approve"

\* The human approves, declines or closes the window, or the worker dies.
AnswerRelay(r, a) ==
  /\ rpc[r] = "prompt"
  /\ approved' = IF a = "approve" THEN approved \cup {rdoc[r]} ELSE approved
  /\ \/ Assent(a) /\ RelayGoto(r, "sign") /\ UNCHANGED <<active, rdoc>>
     \/ ~Assent(a) /\ EndRelay(r)
  /\ UNCHANGED <<sent, prompted>>
  /\ RelayFrame

\* The approver key is loaded, the decision signed and sent over the worker's
\* session; a key that is gone or a session that has closed ends it unsent.
SignRelay(r) ==
  /\ rpc[r] = "sign"
  /\ \/ sent' = sent \cup {[doc |-> rdoc[r], decision |-> "approve"]}
     \/ UNCHANGED sent
  /\ EndRelay(r)
  /\ UNCHANGED <<prompted, approved>>
  /\ RelayFrame

\* A step of the pipeline; a teardown ends the relays with everything else.
Pipeline ==
  /\ Next
  /\ rpc' = IF up' THEN rpc ELSE [r \in Relay |-> "idle"]
  /\ rdoc' = IF up' THEN rdoc ELSE [r \in Relay |-> None]

RelayNext ==
  \/ Pipeline
  \/ \E r \in Relay, d \in Document : StartRelay(r, d)
  \/ \E r \in Relay : RefuseRelay(r) \/ OpenRelay(r) \/ SignRelay(r)
  \/ \E r \in Relay, a \in {"approve", "dismiss"} : AnswerRelay(r, a)

RelaySpec == RelayInit /\ [][RelayNext]_<<vars, relays>>

-----------------------------------------------------------------------------
RelayTypeOK ==
  /\ TypeOK
  /\ rpc \in [Relay -> {"idle", "verify", "prompt", "sign"}]
  /\ rdoc \in [Relay -> Document \cup {None}]
  /\ \A r \in Relay : rpc[r] # "idle" => rdoc[r] \in Document

\* Digests a human is being asked about, by either path.
Asked ==
  {DigestIn(s) : s \in {t \in Slot : Prompting(t)}}
    \cup {RelayDigest(r) : r \in {q \in Relay : RelayPrompting(q)}}

\* Every guarded digest has a prompt behind it, whichever path set it and
\* whichever ended first: a guard with nothing behind it would silence that
\* change until the document is torn down (the two `finally` blocks).
GuardHasPrompt == active \subseteq Asked

-----------------------------------------------------------------------------
\* A change that arrives both by relay and by the approver's inbox does not open
\* two popups (comment above activeConsentDigests).
OnePopupPerChange ==
  \A r \in Relay : RelayPrompting(r) =>
    /\ \A s \in Slot : Prompting(s) => DigestIn(s) # RelayDigest(r)
    /\ \A q \in Relay \ {r} : RelayPrompting(q) => RelayDigest(q) # RelayDigest(r)

=============================================================================
