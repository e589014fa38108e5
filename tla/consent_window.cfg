SPECIFICATION FairWindowSpec
CONSTANTS
  c1 = c1  c2 = c2  Undecided = Undecided
  Consent = {c1, c2}
INVARIANTS DecisionWins OpenPromptNotDenied
PROPERTIES KeepsPromise EveryPromptSettles
CHECK_DEADLOCK FALSE
