SPECIFICATION VtaFairSpec
CONSTANTS
  q1 = q1  q2 = q2  None = None
  Request = {q1, q2}
  Push = {}
  MaxToken = 3
INVARIANT AppliedOnce
PROPERTIES UnracedReplyReachesRequest LiveTokenKept EveryRequestEnds
CHECK_DEADLOCK FALSE
