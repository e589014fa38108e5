-------------------------- MODULE MCInboundConsent --------------------------
(* Small instances of InboundConsent: requests over both inboxes, one of them *)
(* redelivered under a fresh transport id, and one whose id is reused.        *)
EXTENDS InboundConsent

CONSTANTS
  m1, m2, m3, m4, \* messages
  d1, d2,        \* documents
  i1, i2,        \* document ids
  g1, g2,        \* payload digests
  h1, h2, k1     \* slots

\* m2 carries the document of m1 again.
Redelivered == (m1 :> d1 @@ m2 :> d1 @@ m3 :> d2)
\* m4 is no consent request.
Traffic     == Redelivered @@ (m4 :> d2)
Distinct    == (m1 :> d1 @@ m2 :> d2)
One         == (m1 :> d1)

\* Both documents use one id, or each its own.
SharedId == (d1 :> i1 @@ d2 :> i1)
OwnId    == (d1 :> i1 @@ d2 :> i2)
OneId    == (d1 :> i1)

\* Both documents ask for the same change, or each for its own.
SameDigest == (d1 :> g1 @@ d2 :> g1)
OwnDigest  == (d1 :> g1 @@ d2 :> g2)
OneDigest  == (d1 :> g1)

\* The two inbox slots are interchangeable.
SlotSymmetry == Permutations(Inbox)
=============================================================================
