\* A read that fails in a process that has cached nothing.
SPECIFICATION Spec
CONSTANTS
  Process = {p1, p2}
  None = None
  Orphan = Orphan
  MaxChanges = 2
  MaxCrashes = 0
  ReadFaults = TRUE
  Suspends = FALSE
INVARIANTS NoLostUpdate
