\* One review, whose worker reports after a restart.
SPECIFICATION Spec
CONSTANTS
  Reviews = {1}
  RepoOf <- OwnRepository
  Sessions = 2
  MaxAttempts = 2
  MaxTroubles = 1
PROPERTIES SummaryIsRead
