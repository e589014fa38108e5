SPECIFICATION ApproverSpec
CONSTANTS
  e1 = e1  e2 = e2  n1 = n1  n2 = n2  n3 = n3  None = None
  Unlocker = unlock  Drainer = drain
  Entry = {e1, e2}
  Conn = {n1, n2, n3}
  BaseMs = 2
  MaxMs = 3
  MaxFlying = 1
INVARIANT NeverDeafAgain
PROPERTIES CancelledStaysCancelled SchedulerSteps
SYMMETRY ConnSymmetry
CHECK_DEADLOCK FALSE
