\* A pass awaits the revision of one order while the call of another ends.
SPECIFICATION Spec
CONSTANTS
  j = j  r = r  d = d
  Orders = {j, r}
  Kind <- MCKind
  Sessions = {s1}
  None = None
  Revisions = TRUE
  Overlap = FALSE
  MaxTroubles = 2
CHECK_DEADLOCK FALSE
PROPERTIES CompletedStands
