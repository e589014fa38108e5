---------------------------- MODULE MCVtaRequests ----------------------------
(* Two requests at once.  A reply that comes late is the frame nobody asked  *)
(* for; MCTspWaiters has a pushed one.                                      *)
EXTENDS VtaRequests

CONSTANTS q1, q2
=============================================================================
