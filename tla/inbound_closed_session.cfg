SPECIFICATION Spec
CONSTANTS
  m1 = m1  m2 = m2  m3 = m3  m4 = m4  d1 = d1  d2 = d2  i1 = i1  i2 = i2  g1 = g1  g2 = g2
  h1 = h1  h2 = h2  k1 = k1  None = None
  Message = {m1}
  Document = {d1}
  Id = {i1, i2}
  Digest = {g1, g2}
  DocOf <- One
  IdOf <- OneId
  DigestOf <- OneDigest
  Consent = {m1}
  Approver = {}
  Inbox = {h1}
  Drainer = {}
  MaxClaims = 2
  MaxPending = 2
  MaxFaults = 1
PROPERTY ApprovalNotLost
CHECK_DEADLOCK FALSE
