\* A job, a review and a delegation compete for one session; one trouble.
SPECIFICATION FairSpec
CONSTANTS
  j = j  r = r  d = d
  Orders = {j, r, d}
  Kind <- MCKind
  Sessions = {s1}
  None = None
  Revisions = FALSE
  Overlap = FALSE
  MaxTroubles = 1
CHECK_DEADLOCK FALSE
INVARIANTS CallHoldsLease
PROPERTIES CompletedStands OrderSettles LeaseReturned
