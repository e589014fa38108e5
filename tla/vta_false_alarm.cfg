SPECIFICATION VtaSpec
CONSTANTS
  q1 = q1  q2 = q2  None = None
  Request = {q1, q2}
  Push = {}
  MaxToken = 3

PROPERTY NoReplyIsEvidence
CHECK_DEADLOCK FALSE
