SPECIFICATION FairSpec
CONSTANTS
  d1 = d1
  d2 = d2
  r1 = r1
  r2 = r2
  None = None
  Drivers = {d1, d2}
  Reviews = {r1, r2}
  Lease = 2
  Window = 3
  MaxAttempts = 1
  Horizon = 1
  Grace = 2
  PageSize = 1
  MaxLostPages = 1
  DeletionEnabled = TRUE
INVARIANTS
  ClaimMatchesDraft
  QuotaHolds
  DraftIsBacked
PROPERTIES
  ImplementsShelf
  OrphansAreSwept
CONSTRAINT IntakeScope
CHECK_DEADLOCK FALSE
