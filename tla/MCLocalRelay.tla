---------------------------- MODULE MCLocalRelay ----------------------------
(* One request that comes by the approver's inbox and by two rejected tasks,  *)
(* or two documents for one change.                                          *)
EXTENDS LocalRelay

CONSTANTS m1, m2, d1, d2, i1, i2, g1, h1, k1, r1, r2

One      == (m1 :> d1)
Distinct == (m1 :> d1 @@ m2 :> d2)
OneId    == (d1 :> i1)
OwnId    == (d1 :> i1 @@ d2 :> i2)
OneDigest  == (d1 :> g1)
SameDigest == (d1 :> g1 @@ d2 :> g1)

RelaySymmetry == Permutations(Relay)
=============================================================================
