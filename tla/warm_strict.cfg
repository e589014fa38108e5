SPECIFICATION WarmSpec
CONSTANTS
  e1 = e1  e2 = e2  n1 = n1  n2 = n2  n3 = n3  r1 = r1  r2 = r2  None = None
  Reconciler = reconciler
  Entry = {e1}
  Conn = {n1, n2, n3}
  Request = {r1, r2}
  BaseMs = 1
  MaxMs = 1
  MaxFlying = 1
\* Each fails by itself: check one line at a time.
PROPERTY RetiredIsReplaced
\* PROPERTY ForgottenHasNoRetry
\* PROPERTY FreshNotReplaced
CHECK_DEADLOCK FALSE
