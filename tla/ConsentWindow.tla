----------------------------- MODULE ConsentWindow -----------------------------
(***************************************************************************)
(* The consent popups: the worker opens a window per question and waits    *)
(* for the popup's result or for the window to go.  The create callback,   *)
(* the result message and the removal are separate events; only a window's *)
(* own callback is known to come before its removal.                       *)
(***************************************************************************)
EXTENDS FiniteSets

CONSTANTS
  Consent,  \* consent ids, each asked once
  Undecided

Decision == {"approve", "deny"}

ASSUME ConsentAssumption == IsFiniteSet(Consent) /\ Undecided \notin Decision

VARIABLES
  \* The worker.
  verdict,   \* the promise handed to the caller
  pending,   \* pendingConsents
  creating,  \* windows.create called, its callback still to run
  watching,  \* onRemoved listeners
  grace,     \* grace timers
  \* The browser and the popups.
  window,    \* "none" (also one that failed), "requested", "open" or "gone"
  clicked,   \* the decision the popup sent, if any
  mail,      \* results on their way to the worker
  acked,     \* popups that have been acknowledged
  removals,  \* removal events on their way to the worker
  missed     \* history: results lost, or overtaken by the end of the grace

worker == <<verdict, pending, creating, watching, grace>>
popup  == <<window, clicked, mail, acked, removals, missed>>
windowVars   == <<worker, popup>>

WindowInit ==
  /\ verdict = [c \in Consent |-> "unasked"]
  /\ pending = {} /\ creating = {} /\ watching = {} /\ grace = {}
  /\ window = [c \in Consent |-> "none"]
  /\ clicked = [c \in Consent |-> Undecided]
  /\ mail = {} /\ acked = {} /\ removals = {} /\ missed = {}

-----------------------------------------------------------------------------
(* The worker.                                                             *)

\* Mutant: every call decides, the last for good.
SettleAgain(c, d) ==
  /\ pending' = pending \ {c}
  /\ verdict' = [verdict EXCEPT ![c] = d]

\* The consent's settle: the first call decides, later ones do nothing.
Settle(c, d) ==
  /\ pending' = pending \ {c}
  /\ verdict' = [verdict EXCEPT ![c] = IF c \in pending THEN d ELSE @]

Ask(c) ==
  /\ verdict[c] = "unasked"
  /\ verdict' = [verdict EXCEPT ![c] = "waiting"]
  /\ pending' = pending \cup {c}
  /\ creating' = creating \cup {c}
  /\ window' = [window EXCEPT ![c] = "requested"]
  /\ UNCHANGED <<watching, grace, clicked, mail, acked, removals, missed>>

\* The create callback, with a window id.
Created(c) ==
  /\ c \in creating /\ window[c] # "requested"
  /\ creating' = creating \ {c}
  /\ watching' = watching \cup {c}
  /\ UNCHANGED <<verdict, pending, grace, popup>>

\* Mutant: return without settling.
IgnoreFailure(c) ==
  /\ c \in creating /\ window[c] = "requested"
  /\ creating' = creating \ {c}
  /\ window' = [window EXCEPT ![c] = "none"]
  /\ UNCHANGED <<verdict, pending, watching, grace, clicked, mail, acked, removals, missed>>

\* The create callback, without one: a denial.
CreateFails(c) ==
  /\ c \in creating /\ window[c] = "requested"
  /\ creating' = creating \ {c}
  /\ window' = [window EXCEPT ![c] = "none"]
  /\ Settle(c, "deny")
  /\ UNCHANGED <<watching, grace, clicked, mail, acked, removals, missed>>

\* RUNTIME_CONSENT_RESULT: settle, then acknowledge, whoever was waiting.
Result(c) ==
  /\ c \in mail
  /\ mail' = mail \ {c}
  /\ Settle(c, clicked[c])
  /\ acked' = acked \cup {c}
  /\ UNCHANGED <<creating, watching, grace, window, clicked, removals, missed>>

\* Mutants: deny at once; or take any window's removal for one's own.
RemovedAtOnce(c) ==
  /\ c \in removals \ creating
  /\ removals' = removals \ {c}
  /\ watching' = watching \ {c}
  /\ IF c \in watching THEN Settle(c, "deny") ELSE UNCHANGED <<verdict, pending>>
  /\ UNCHANGED <<creating, grace, window, clicked, mail, acked, missed>>

RemovedAny(c) ==
  /\ c \in removals \ creating
  /\ removals' = removals \ {c}
  /\ watching' = {}
  /\ grace' = grace \cup watching
  /\ UNCHANGED <<verdict, pending, creating, window, clicked, mail, acked, missed>>

\* onClosed: the listener goes, the grace begins.
Removed(c) ==
  /\ c \in removals \ creating
  /\ removals' = removals \ {c}
  /\ watching' = watching \ {c}
  /\ grace' = grace \cup ({c} \cap watching)
  /\ UNCHANGED <<verdict, pending, creating, window, clicked, mail, acked, missed>>

GraceEnds(c) ==
  /\ c \in grace
  /\ grace' = grace \ {c}
  /\ Settle(c, "deny")
  /\ missed' = missed \cup ({c} \cap mail)
  /\ UNCHANGED <<creating, watching, window, clicked, mail, acked, removals>>

\* The worker dies; an event wakes another, which knows of no consent.
WorkerDies ==
  /\ verdict' = [c \in Consent |-> IF verdict[c] = "waiting" THEN "lost" ELSE verdict[c]]
  /\ pending' = {} /\ creating' = {} /\ watching' = {} /\ grace' = {}
  /\ UNCHANGED popup

-----------------------------------------------------------------------------
(* The browser, the popup and the human.                                   *)

\* The browser opens the window, if need be for a worker that has died.
Opens(c) ==
  /\ window[c] = "requested"
  /\ window' = [window EXCEPT ![c] = "open"]
  /\ UNCHANGED <<worker, clicked, mail, acked, removals, missed>>

Gone(c) ==
  /\ window[c] = "open"
  /\ window' = [window EXCEPT ![c] = "gone"]
  /\ removals' = removals \cup {c}

\* consentResultSender: the first decision is sent.
Click(c, d) ==
  /\ window[c] = "open" /\ clicked[c] = Undecided
  /\ clicked' = [clicked EXCEPT ![c] = d]
  /\ mail' = mail \cup {c}
  /\ UNCHANGED <<worker, window, acked, removals, missed>>

\* Acknowledged, the popup closes itself.
CloseAcked(c) ==
  /\ c \in acked
  /\ Gone(c)
  /\ UNCHANGED <<worker, clicked, mail, acked, missed>>

\* The send fails: the popup closes itself all the same.
SendFails(c) ==
  /\ c \in mail
  /\ mail' = mail \ {c}
  /\ missed' = missed \cup {c}
  /\ IF window[c] = "open" THEN Gone(c) ELSE UNCHANGED <<window, removals>>
  /\ UNCHANGED <<worker, clicked, acked>>

\* The operator closes the window, before or after deciding.
Dismiss(c) ==
  /\ Gone(c)
  /\ UNCHANGED <<worker, clicked, mail, acked, missed>>

-----------------------------------------------------------------------------
Handle(c) ==
  \/ Opens(c) \/ Created(c) \/ CreateFails(c) \/ Result(c)
  \/ Removed(c) \/ GraceEnds(c) \/ CloseAcked(c)

WindowNext ==
  \/ \E c \in Consent :
       \/ Ask(c) \/ Handle(c) \/ SendFails(c) \/ Dismiss(c)
       \/ \E d \in Decision : Click(c, d)
  \/ WorkerDies

WindowSpec == WindowInit /\ [][WindowNext]_windowVars

\* Events are handled and timers fire; nobody need click, close or evict.
FairWindowSpec == WindowSpec /\ \A c \in Consent : WF_windowVars(Handle(c))

-----------------------------------------------------------------------------
\* Types, and what the worker's collections say of one another.
WindowTypeOK ==
  /\ verdict \in [Consent -> {"unasked", "waiting", "approve", "deny", "lost"}]
  /\ pending = {c \in Consent : verdict[c] = "waiting"}
  /\ creating \subseteq Consent /\ watching \subseteq Consent /\ grace \subseteq Consent
  /\ window \in [Consent -> {"none", "requested", "open", "gone"}]
  /\ clicked \in [Consent -> Decision \cup {Undecided}]
  /\ mail \subseteq {c \in Consent : clicked[c] # Undecided}
  /\ acked \subseteq Consent /\ missed \subseteq Consent
  /\ removals \subseteq {c \in Consent : window[c] = "gone"}

\* What the human clicked is the verdict, however the removal of the window, the
\* end of the grace and the result interleave, unless the result was lost or took
\* longer than the grace ("A decision that lands inside the grace wins").
DecisionWins ==
  \A c \in Consent \ missed :
    verdict[c] \in Decision /\ clicked[c] # Undecided => verdict[c] = clicked[c]

\* No prompt is denied while it is on screen and the human has not answered it: a
\* denial nobody clicked means its own window failed to open or is gone.
OpenPromptNotDenied ==
  \A c \in Consent :
    verdict[c] = "deny" /\ window[c] = "open" => clicked[c] # Undecided

\* The prompts keep what ConsentPromise states: one verdict, and an approval only
\* after the human's ("It never manufactures an approval").
Promise == INSTANCE ConsentPromise WITH verdict <- verdict, clicked <- clicked, None <- Undecided
KeepsPromise == Promise!Spec

\* A caller waits for ever only for a human who has the question on screen ("leaving
\* the promise pending forever", openConsentWindow).
EveryPromptSettles ==
  \A c \in Consent :
    []<>(verdict[c] # "waiting" \/ (window[c] = "open" /\ clicked[c] = Undecided))
=============================================================================
