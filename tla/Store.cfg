\* Two processes, one of which may die and leave its lock to the other.
SPECIFICATION FairSpec
CONSTANTS
  Process = {p1, p2}
  None = None
  Orphan = Orphan
  MaxChanges = 2
  MaxCrashes = 1
  ReadFaults = FALSE
  Suspends = FALSE
INVARIANTS NoLostUpdate CacheHonest
PROPERTIES OrphanedLockFreed
