SPECIFICATION RelaySpec
CONSTANTS
  m1 = m1  m2 = m2  d1 = d1  d2 = d2  i1 = i1  i2 = i2  g1 = g1
  h1 = h1  k1 = k1  r1 = r1  r2 = r2  None = None
  Message = {m1}
  Document = {d1, d2}
  Id = {i1, i2}
  Digest = {g1}
  DocOf <- One
  IdOf <- OwnId
  DigestOf <- SameDigest
  Consent = {m1}
  Approver = {m1}
  Inbox = {h1}
  Drainer = {k1}
  Relay = {r1}
  MaxClaims = 1
  MaxPending = 1
  MaxFaults = 0
INVARIANT OnePopupPerChange
CHECK_DEADLOCK FALSE
