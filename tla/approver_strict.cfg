SPECIFICATION ApproverSpec
CONSTANTS
  e1 = e1  e2 = e2  n1 = n1  n2 = n2  n3 = n3  None = None
  Unlocker = unlock  Drainer = drain
  Entry = {e1, e2}
  Conn = {n1, n2, n3}
  BaseMs = 1
  MaxMs = 1
  MaxFlying = 1
\* Each fails by itself: check one line at a time.
INVARIANT NeverDeaf
\* INVARIANT LockedMeansDeaf
\* INVARIANT RetriesForever
CHECK_DEADLOCK FALSE
