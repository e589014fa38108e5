--------------------------- MODULE MCConsentReplay ---------------------------
(* Model values for the replay ledger.                                       *)
EXTENDS ConsentReplay, TLC

CONSTANTS h1, h2, k1, k2, k3, g1, g2, g3, g4

ReplaySymmetry == Permutations(Handler) \cup Permutations(Key) \cup Permutations(Digest)
=============================================================================
