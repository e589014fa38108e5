----------------------------- MODULE MCPageCalls -----------------------------
(* Two calls of one origin, after earlier calls that may have left a pin, a *)
(* tick, an identity of either sort and a statement.                       *)
EXTENDS PageCalls, TLC

CONSTANTS p1, p2, r1, r2, b1, b2

Alike == Permutations({p1, p2}) \cup Permutations({r1, r2}) \cup Permutations({b1, b2})
=============================================================================
