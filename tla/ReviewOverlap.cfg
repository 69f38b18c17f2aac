\* A dispatch times out while its worker goes on.
SPECIFICATION Spec
CONSTANTS
  Reviews = {1}
  RepoOf <- OwnRepository
  Sessions = 2
  MaxAttempts = 2
  MaxTroubles = 1
INVARIANTS OneWorker
