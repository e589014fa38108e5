SPECIFICATION Spec
CONSTANTS
  q1 = q1  q2 = q2  q3 = q3  p1 = p1  None = None
  Request = {q1, q2, q3}
  Push = {p1}
PROPERTY ReplyReachesRequest
CHECK_DEADLOCK FALSE
