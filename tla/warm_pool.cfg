SPECIFICATION WarmSpec
CONSTANTS
  e1 = e1  e2 = e2  n1 = n1  n2 = n2  n3 = n3  r1 = r1  r2 = r2  None = None
  Reconciler = reconciler
  Entry = {e1, e2}
  Conn = {n1, n2}
  Request = {r1}
  BaseMs = 1
  MaxMs = 1
  MaxFlying = 1
INVARIANT InboxRecovers
PROPERTY LateSignalsHarmless
SYMMETRY ConnSymmetry
CHECK_DEADLOCK FALSE
