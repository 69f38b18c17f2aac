\* One review whose pull-request decisions ask for a retry.
SPECIFICATION Spec
CONSTANTS
  Reviews = {1}
  RepoOf <- OwnRepository
  Sessions = 1
  MaxAttempts = 2
  MaxTroubles = 0
PROPERTIES RetryIsRetried
