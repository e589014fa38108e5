SPECIFICATION Spec
CONSTANTS
  q1 = q1  q2 = q2  q3 = q3  None = None
  Request = {q1, q2}
  MaxFaults = 1
\* Each fails by itself: check one line at a time.
INVARIANT OneInviteAtATime
\* INVARIANT AgreementOnEither
CHECK_DEADLOCK FALSE
