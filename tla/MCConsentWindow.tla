--------------------------- MODULE MCConsentWindow ---------------------------
(* Model values for the consent popups.                                      *)
EXTENDS ConsentWindow

CONSTANTS c1, c2
=============================================================================
