SPECIFICATION FairSpec
CONSTANTS
  None = None
  Drivers = {d1, d2}
  Behind = d1
  Lease = 4
  MaxAge = 1
  Skew = 1
  Lead = 2
  Buffer = 1
  ClaimBudget = 3
  RetryAfter = 1
CONSTRAINT TwoRequests
INVARIANTS
  OwnerHoldsLease
PROPERTIES
  OwnerIsUndisturbed
  WaitingEnds
CHECK_DEADLOCK FALSE
