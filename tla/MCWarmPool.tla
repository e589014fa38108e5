------------------------------ MODULE MCWarmPool ------------------------------
(* Model values for one agent's warm session.                                *)
EXTENDS WarmPool, TLC

CONSTANTS e1, e2, n1, n2, n3, r1, r2

ConnSymmetry == Permutations(Conn)
=============================================================================
