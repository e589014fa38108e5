SPECIFICATION ReplaySpec
CONSTANTS
  h1 = h1  h2 = h2  k1 = k1  k2 = k2  k3 = k3  g1 = g1  g2 = g2  g3 = g3  g4 = g4  Nothing = Nothing
  Handler = {h1}
  Key = {k1, k2, k3}
  Digest = {g1, g2, g3, g4}
  MaxEntries = 2
  Ttl = 2
  MaxTime = 2
PROPERTY EvictsOldest
CHECK_DEADLOCK FALSE
