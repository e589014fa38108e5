CONSTANTS
  Evictable = TRUE
  MaxGrant = 2
  MaxRetries = 1
SPECIFICATION FairSpec
\* Each fails by itself: check one line at a time.
PROPERTY NeverResendOnceConcluded
\* INVARIANT UnrefusedClaimIsCancelled
\* PROPERTY ClaimStaysCancelled
\* PROPERTY ClosedWindowForgetsKey
\* PROPERTY BackWithdraws
CHECK_DEADLOCK FALSE
