---------------------------- MODULE MCTspWaiters ----------------------------
(* Three requests at once and one frame nobody asked for.                    *)
EXTENDS TspWaiters

CONSTANTS q1, q2, q3, p1

RequestSymmetry == Permutations(Request)
=============================================================================
