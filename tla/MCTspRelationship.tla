------------------------- MODULE MCTspRelationship -------------------------
(* Requests over one wallet and VTA pair.                                    *)
EXTENDS TspRelationship, TLC

CONSTANTS q1, q2, q3

RequestSymmetry == Permutations(Request)
=============================================================================
