\* Two callers race over a chain of three attempts of one work order; one of them may
\* crash; the timers are fair.
SPECIFICATION FairSpec
CONSTANTS
  Caller = {c1, c2}
  Attempt = {a1, a2, a3}
  First = First
  None = None
  HookSkipped = FALSE
  MaxCrashes = 1
INVARIANTS ClaimedAtMostOnce QuietMeansVacant
PROPERTIES OnlyClaimantSettles RunsOneAttemptAtATime
  EveryAttemptSettles
CHECK_DEADLOCK FALSE
