\* Two reviews of one repository, two sessions and one trouble, under fairness.
SPECIFICATION FairSpec
CONSTANTS
  Reviews = {1, 2}
  RepoOf <- OneRepository
  Sessions = 2
  MaxAttempts = 2
  MaxTroubles = 1
INVARIANTS NoStrandedReview OneReviewPerRepository
PROPERTIES LaunchedOverNothing DecisionsStand ReviewSettles
