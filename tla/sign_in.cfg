CONSTANTS
  Evictable = TRUE
  MaxGrant = 2
  MaxRetries = 1
SPECIFICATION FairSpec
INVARIANTS LinkedFirst EntryFollowsAnswer MismatchIsRead ClaimConcluded
PROPERTIES NothingNewOnceConcluded KeyForgotten
CHECK_DEADLOCK FALSE
