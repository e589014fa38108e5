--------------------------- MODULE MCApproverInbox ---------------------------
(* Model values for one agent's approver inbox.                              *)
EXTENDS ApproverInbox, TLC

CONSTANTS e1, e2, n1, n2, n3

ConnSymmetry == Permutations(Conn)
=============================================================================
