SPECIFICATION Spec
CONSTANTS
  q1 = q1  q2 = q2  q3 = q3  None = None
  Request = {q1, q2, q3}
  MaxFaults = 2
INVARIANTS BelievedWasAccepted Agreement
PROPERTY OneFaultOneFailure
SYMMETRY RequestSymmetry
CHECK_DEADLOCK FALSE
