\* A dead holder and two processes that wait for its lock.
SPECIFICATION Spec
CONSTANTS
  Process = {p1, p2, p3}
  None = None
  Orphan = Orphan
  MaxChanges = 1
  MaxCrashes = 1
  ReadFaults = FALSE
  Suspends = FALSE
INVARIANTS NoLostUpdate
