---------------------------- MODULE MCSignInFlow ----------------------------
(* Every kind of site, with a worker that may be evicted.                  *)
EXTENDS SignInFlow, TLC
=============================================================================
