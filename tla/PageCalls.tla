------------------------------ MODULE PageCalls ------------------------------
(***************************************************************************)
(* The calls one web origin makes of the wallet, as the service worker     *)
(* runs them: each reads and writes the origin's pin, its trust record,    *)
(* its identity and its issued statements across awaits.  A prompt is one  *)
(* step here, the human's answer: ConsentWindow is how it comes about.     *)
(***************************************************************************)
EXTENDS SequencesExt

CONSTANTS
  Call,   \* calls, each made once
  Rp,     \* relying parties
  Base,   \* their base URLs
  None

ASSUME PageAssumption == None \notin Call \cup Rp \cup Base

VARIABLES
  \* What is stored for the origin, in the wallet, in the vault and for the session.
  pin,      \* origin-pin: the relying party and the base URL
  trusted,  \* trusted-site
  holder,   \* site-identity: signs in as the wallet's own identity
  entries,  \* the calls that bound a persona, oldest entry first; None: an earlier call
  issued,   \* the statements stored and unspent: which call's, for which audience
  before,   \* the pin, the trust and the holder's record earlier calls left
  \* The calls.
  req, at, memo

site  == <<pin, trusted, holder, entries, issued, before>>
vars  == <<site, req, at, memo>>

\* A DIDComm login names no base; a proxied login may name no relying party.
Request ==
  [kind : {"login", "stepUp"}, rp : Rp, base : Base, key : {FALSE}]
    \cup [kind : {"login"}, rp : Rp, base : Base, key : {TRUE}]
    \cup [kind : {"login", "sign", "attest"}, rp : Rp, base : {None}, key : {FALSE}]
    \cup [kind : {"proxy"}, rp : Rp \cup {None}, base : {None}, key : {FALSE}]
    \cup [kind : {"list", "profile", "response"}, rp : {None}, base : {None}, key : {FALSE}]

Kind(c) == req[c].kind

\* What a call keeps across its awaits; "yes" holds the questions the human approved.
Blank == [seen |-> None, found |-> FALSE, of |-> None, silent |-> FALSE, yes |-> {}]

Init ==
  /\ pin \in {None} \cup [rp : Rp, base : Base \cup {None}]
  /\ trusted \in BOOLEAN /\ holder \in BOOLEAN /\ entries \in {<<>>, <<None>>}
  /\ issued \in {{}} \cup {{[by |-> None, rp |-> rp]} : rp \in Rp}
  /\ pin = None => issued = {}
  /\ before = [pin |-> pin, trusted |-> trusted, holder |-> holder]
  /\ req = [c \in Call |-> None]
  /\ at = [c \in Call |-> "unmade"]
  /\ memo = [c \in Call |-> Blank]

-----------------------------------------------------------------------------
(* What the calls share.                                                   *)

Over == {"unmade", "sent", "done", "refused", "dead"}
Goto(c, label) == at' = [at EXCEPT ![c] = label]
Remember(c, field, value) == memo' = [memo EXCEPT ![c][field] = value]

\* The origin is pinned to this relying party; for a step-up, at this base URL.
PinnedTo(rp) == pin # None /\ pin.rp = rp
\* Mutant: the base URL is not compared.
BoundToRp(r) == PinnedTo(r.rp)
Bound(r) == PinnedTo(r.rp) /\ pin.base # None /\ pin.base = r.base

Changed(c) ==
  LET r == req[c]  old == memo[c].seen IN
  /\ old # None
  /\ old.rp # r.rp \/ (r.base # None /\ old.base # None /\ old.base # r.base)

\* Mutant: a remembered site is never asked.
AlwaysSkip(c) == TRUE
\* trustMaySkipPrompt; a step-up comes without a change.
MaySkip(c) == Kind(c) \in {"list", "stepUp"} \/ (~Changed(c) /\ ~req[c].key)

\* A tick is offered: not for a signature, not for a session key.
Offered(c) == Kind(c) \notin {"sign", "attest"} /\ ~req[c].key

\* Where an allowed call goes on: "sent" is handed to the offscreen document.
Allowed(c) ==
  CASE Kind(c) = "login" \/ (Kind(c) = "proxy" /\ req[c].rp # None) -> "pin"
    [] Kind(c) = "attest" -> "issue"
    [] OTHER -> "sent"

-----------------------------------------------------------------------------
(* The worker.                                                             *)

Arrive(c, r) ==
  /\ at[c] = "unmade"
  /\ req' = [req EXCEPT ![c] = r]
  /\ Goto(c, CASE r.kind \in {"proxy", "profile"} -> "resolve"
               [] r.kind = "list" -> "gate"
               [] r.kind = "response" -> "fetch"
               [] OTHER -> "check")
  /\ UNCHANGED <<site, memo>>

\* resolveProfileEntry: an entry the page supplied, or the origin's own.
Resolve(c) ==
  /\ at[c] = "resolve"
  /\ IF Kind(c) = "profile"
     THEN Goto(c, IF entries # <<>> THEN "done" ELSE "whom") /\ UNCHANGED memo
     ELSE /\ \E supplied \in BOOLEAN : Remember(c, "found", supplied \/ entries # <<>>)
          /\ Goto(c, "check")
  /\ UNCHANGED <<site, req>>

\* A signature asks through requestConsent.  Mutant: through gatedConsent.
AskedGated(c) == "gate"
Asked(c) == "whether"

\* The pin is read: to warn of a change, or to refuse.
Check(c) ==
  /\ at[c] = "check"
  /\ CASE Kind(c) \in {"login", "proxy"} ->
            /\ Remember(c, "seen", IF req[c].rp = None THEN None ELSE pin)
            /\ IF Kind(c) = "proxy" /\ ~memo[c].found THEN Goto(c, "whom")
               ELSE Goto(c, "gate")
       [] Kind(c) \in {"sign", "attest"} ->
            /\ Goto(c, IF PinnedTo(req[c].rp) THEN Asked(c) ELSE "refused")
            /\ UNCHANGED memo
       [] Kind(c) = "stepUp" ->
            /\ Goto(c, IF Bound(req[c]) THEN "verify" ELSE "refused")
            /\ UNCHANGED memo
  /\ UNCHANGED <<site, req>>

\* handleStepUpConsent, once the offscreen document verified the request: the pin
\* is read again.
Verified(c) ==
  /\ at[c] = "verify"
  /\ \/ Goto(c, "refused")
     \/ Bound(req[c]) /\ Goto(c, "gate")
  /\ UNCHANGED <<site, req, memo>>

\* gatedConsent.
Gate(c) ==
  /\ at[c] = "gate"
  /\ IF MaySkip(c) /\ trusted
     THEN Remember(c, "silent", TRUE) /\ Goto(c, Allowed(c))
     ELSE Goto(c, "whether") /\ UNCHANGED memo
  /\ UNCHANGED <<site, req>>

\* Mutant: an attestation goes on whatever the human answered.
SettledAnyway(c) ==
  /\ at[c] = "whether"
  /\ \/ Goto(c, IF Kind(c) = "attest" THEN Allowed(c) ELSE "refused") /\ UNCHANGED <<trusted, memo>>
     \/ /\ trusted' \in {trusted, trusted \/ Offered(c)}
        /\ Remember(c, "yes", memo[c].yes \cup {"whether"})
        /\ Goto(c, Allowed(c))
  /\ UNCHANGED <<pin, holder, entries, issued, before, req>>

\* The human's answer; a tick is stored before the call goes on.
Settled(c) ==
  /\ at[c] = "whether"
  /\ \/ Goto(c, "refused") /\ UNCHANGED <<trusted, memo>>
     \/ /\ trusted' \in {trusted, trusted \/ Offered(c)}
        /\ Remember(c, "yes", memo[c].yes \cup {"whether"})
        /\ Goto(c, Allowed(c))
  /\ UNCHANGED <<pin, holder, entries, issued, before, req>>

\* pinOrigin: a REST login names its base; any other keeps the base it reads for the
\* same relying party.  Mutant: for any.
KeptAlways(c) == IF pin # None THEN pin.base ELSE None
Kept(c) == IF PinnedTo(req[c].rp) THEN pin.base ELSE None

Pinned(c, base) ==
  /\ pin' = [rp |-> req[c].rp, base |-> base]
  /\ Goto(c, CASE Kind(c) = "login" -> "list"
               [] Kind(c) = "proxy" /\ memo[c].found -> "sent"
               [] OTHER -> "tick")
  /\ UNCHANGED <<trusted, holder, entries, issued, before, req, memo>>

PinOrigin(c) ==
  /\ at[c] = "pin"
  /\ IF req[c].base # None THEN Pinned(c, req[c].base)
     ELSE /\ Remember(c, "of", Kept(c))
          /\ Goto(c, "store")
          /\ UNCHANGED <<site, req>>

Store(c) == at[c] = "store" /\ Pinned(c, memo[c].of)

\* resolveLoginIdentity: a persona's entry, else the holder's record, else the human.
ListEntries(c) ==
  /\ at[c] = "list"
  /\ \/ Goto(c, IF entries # <<>> THEN "sent" ELSE "prefer")
     \/ Goto(c, "refused")
  /\ UNCHANGED <<site, req, memo>>

\* Mutant: a remembered site gets a persona unasked.
PreferSilently(c) ==
  /\ at[c] = "prefer"
  /\ IF holder THEN Goto(c, "sent")
     ELSE IF trusted THEN Goto(c, "bind")
     ELSE Goto(c, "whom")
  /\ UNCHANGED <<site, req, memo>>

Prefer(c) ==
  /\ at[c] = "prefer"
  /\ IF holder THEN Goto(c, "sent") ELSE Goto(c, "whom")
  /\ UNCHANGED <<site, req, memo>>

Chosen(c) ==
  /\ at[c] = "whom"
  /\ \/ Goto(c, "refused") /\ UNCHANGED <<trusted, holder, memo>>
     \/ /\ Remember(c, "yes", memo[c].yes \cup {"whom"})
        /\ trusted' \in {trusted, trusted \/ Kind(c) = "login"}
        /\ \/ Goto(c, "bind") /\ UNCHANGED holder
           \/ Kind(c) = "login" /\ Goto(c, "sent") /\ holder' = TRUE
  /\ UNCHANGED <<pin, entries, issued, before, req>>

\* bindProfileEntry, at the agent.
Bind(c) ==
  /\ at[c] = "bind"
  /\ \/ Goto(c, "refused") /\ UNCHANGED entries
     \/ /\ entries' = Append(entries, c)
        /\ Goto(c, CASE Kind(c) = "login" -> "forget"
                     [] Kind(c) = "proxy" /\ req[c].rp # None -> "pin"
                     [] OTHER -> "tick")
  /\ UNCHANGED <<pin, trusted, holder, issued, before, req, memo>>

Forget(c) ==
  /\ at[c] = "forget"
  /\ holder' = FALSE
  /\ Goto(c, "sent")
  /\ UNCHANGED <<pin, trusted, entries, issued, before, req, memo>>

Tick(c) ==
  /\ at[c] = "tick"
  /\ trusted' \in {trusted, TRUE}
  /\ Goto(c, IF Kind(c) = "profile" THEN "done" ELSE "sent")
  /\ UNCHANGED <<pin, holder, entries, issued, before, req, memo>>

\* The approver's key signs a statement, remembered for one response.
Issue(c) ==
  /\ at[c] = "issue"
  /\ \/ Goto(c, "refused") /\ UNCHANGED issued
     \/ Goto(c, "done") /\ issued' = issued \cup {[by |-> c, rp |-> req[c].rp]}
  /\ UNCHANGED <<pin, trusted, holder, entries, before, req, memo>>

\* The response around a statement: looked up, then, if the pin is the statement's
\* audience, spent.
Fetch(c) ==
  /\ at[c] = "fetch"
  /\ \/ Goto(c, "refused") /\ UNCHANGED memo
     \/ \E a \in issued : Remember(c, "of", a) /\ Goto(c, "spend")
  /\ UNCHANGED <<site, req>>

Spend(c) ==
  /\ at[c] = "spend"
  /\ IF PinnedTo(memo[c].of.rp)
     THEN issued' = issued \ {memo[c].of} /\ Goto(c, "sent")
     ELSE Goto(c, "refused") /\ UNCHANGED issued
  /\ UNCHANGED <<pin, trusted, holder, entries, before, req, memo>>

Work(c) ==
  \/ Resolve(c) \/ Check(c) \/ Verified(c) \/ Gate(c) \/ Settled(c) \/ PinOrigin(c)
  \/ Store(c) \/ ListEntries(c) \/ Prefer(c) \/ Chosen(c) \/ Bind(c) \/ Forget(c)
  \/ Tick(c) \/ Issue(c) \/ Fetch(c) \/ Spend(c)

\* The options page forgets the site.
Untrust ==
  /\ trusted
  /\ trusted' = FALSE
  /\ UNCHANGED <<pin, holder, entries, issued, before, req, at, memo>>

\* The worker is evicted: what is stored stays, the calls are gone.
Evict ==
  /\ at' = [c \in Call |-> IF at[c] \in Over THEN at[c] ELSE "dead"]
  /\ at' # at
  /\ UNCHANGED <<site, req, memo>>

Next ==
  \/ \E c \in Call : Work(c) \/ \E r \in Request : Arrive(c, r)
  \/ Untrust \/ Evict

Spec == Init /\ [][Next]_vars

-----------------------------------------------------------------------------
(* Properties.                                                             *)

Approved(c) == memo[c].yes # {}
LetThrough(c) == Approved(c) \/ memo[c].silent
NamedTogether(rp, base) ==
  \/ before.pin = [rp |-> rp, base |-> base]
  \/ \E c \in Call : /\ at[c] # "unmade" /\ Kind(c) = "login" /\ LetThrough(c)
                     /\ req[c].rp = rp /\ req[c].base = base

\* A base URL in the pin was named by a login together with the relying party in the
\* pin, although the other logins read the pin, wait and write it back ("a base URL
\* approved for one RP is not approved for another").
BaseBelongsToRp == pin # None /\ pin.base # None => NamedTogether(pin.rp, pin.base)

\* A step-up only ever goes to a relying party and a base URL that one login named
\* together and that was let through, whatever happened to the pin while it ran.
StepUpWhereLoggedIn ==
  \A c \in Call : at[c] = "sent" /\ Kind(c) = "stepUp" => NamedTogether(req[c].rp, req[c].base)

\* What went without its own prompt went because the human ticked a prompt that offered
\* to remember; a session key and a signature never did.
SilenceWasTicked ==
  \A c \in Call : at[c] = "sent" =>
    \/ Approved(c)
    \/ Kind(c) = "response"
    \/ /\ ~req[c].key /\ Kind(c) # "sign"
       /\ before.trusted \/ \E d \in Call : Approved(d) /\ (Offered(d) \/ "whom" \in memo[d].yes)

\* The pin passes from one relying party to another only after a prompt that warned of
\* it, unless it moved since the call read it.
ChangeIsLoud ==
  [][\A c \in Call :
       /\ pin # None /\ pin' # None /\ pin'.rp # pin.rp
       /\ at[c] \in {"pin", "store"} /\ at'[c] # at[c]
       => (Changed(c) /\ Approved(c)) \/ memo[c].seen # pin]_vars

\* Every persona bound for the origin, and the choice of the wallet's own identity, is
\* one the human picked: a remembered site never has one picked for it.
IdentityWasChosen ==
  /\ \A i \in DOMAIN entries : entries[i] # None => "whom" \in memo[entries[i]].yes
  /\ holder => before.holder \/ \E c \in Call : "whom" \in memo[c].yes /\ Kind(c) = "login"

\* A statement one of these calls issued and a response carries was approved by the human,
\* for the audience the human was shown (approverResponseRefusal).
ResponseWasShown ==
  \A c \in Call : at[c] = "sent" /\ Kind(c) = "response" =>
    LET a == memo[c].of IN
    a.by # None => /\ Kind(a.by) = "attest" /\ "whether" \in memo[a.by].yes
                   /\ req[a.by].rp = a.rp

\* "Spent before signing: a second request for the same statement finds nothing,
\* whatever happens to this one."
OneSignaturePerStatement ==
  \A c, d \in Call :
    /\ at[c] = "sent" /\ at[d] = "sent" /\ Kind(c) = "response" /\ Kind(d) = "response"
    /\ memo[c].of = memo[d].of
    => c = d

\* "The only place one is seeded is a login the human approved" (origin-pin).
PinWasApproved ==
  pin \notin {None, before.pin} => \E c \in Call : at[c] # "unmade" /\ req[c].rp = pin.rp /\ Approved(c)

\* "Warn loudly when a subsequent login from the same origin asks for a different rpDid".
EveryChangeIsLoud ==
  [][\A c \in Call :
       /\ pin # None /\ pin' # None /\ pin'.rp # pin.rp
       /\ at[c] \in {"pin", "store"} /\ at'[c] # at[c]
       => Changed(c)]_vars
=============================================================================
