---------------------------- MODULE ConsentPromise ----------------------------
(***************************************************************************)
(* What a consent prompt promises its caller: one verdict at most, an      *)
(* approval only if the human gave it, silence never an approval.          *)
(***************************************************************************)
CONSTANTS Consent, None

Decision == {"approve", "deny"}

VARIABLES
  verdict,  \* the caller's promise; "lost": the worker that held it is gone
  clicked   \* what the human decided, if anything

promiseVars == <<verdict, clicked>>

Init ==
  /\ verdict = [c \in Consent |-> "unasked"]
  /\ clicked = [c \in Consent |-> None]

Ask(c) ==
  /\ verdict[c] = "unasked"
  /\ verdict' = [verdict EXCEPT ![c] = "waiting"]
  /\ UNCHANGED clicked

\* The human answers, once.
Decide(c, d) ==
  /\ verdict[c] # "unasked" /\ clicked[c] = None
  /\ clicked' = [clicked EXCEPT ![c] = d]
  /\ UNCHANGED verdict

Approve(c) ==
  /\ verdict[c] = "waiting" /\ clicked[c] = "approve"
  /\ verdict' = [verdict EXCEPT ![c] = "approve"]
  /\ UNCHANGED clicked

Deny(c) ==
  /\ verdict[c] = "waiting"
  /\ verdict' = [verdict EXCEPT ![c] = "deny"]
  /\ UNCHANGED clicked

LoseAll ==
  /\ verdict' = [c \in Consent |-> IF verdict[c] = "waiting" THEN "lost" ELSE verdict[c]]
  /\ UNCHANGED clicked

Next ==
  \/ \E c \in Consent : Ask(c) \/ Approve(c) \/ Deny(c) \/ \E d \in Decision : Decide(c, d)
  \/ LoseAll

Spec == Init /\ [][Next]_promiseVars
=============================================================================
