SPECIFICATION Spec
CONSTANTS
  m1 = m1  m2 = m2  m3 = m3  m4 = m4  d1 = d1  d2 = d2  i1 = i1  i2 = i2  g1 = g1  g2 = g2
  h1 = h1  h2 = h2  k1 = k1  None = None
  Message = {m1, m2}
  Document = {d1, d2}
  Id = {i1, i2}
  Digest = {g1, g2}
  DocOf <- Distinct
  IdOf <- SharedId
  DigestOf <- OwnDigest
  Consent = {m1, m2}
  Approver = {}
  Inbox = {h1, h2}
  Drainer = {}
  MaxClaims = 2
  MaxPending = 2
  MaxFaults = 0
INVARIANT OneDocumentPerId
CHECK_DEADLOCK FALSE
