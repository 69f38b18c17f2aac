\* Three times and their windows, one trouble; the job has fired before.
SPECIFICATION FairSpec
CONSTANTS
  Times = {1, 3, 5}
  Horizon = 6
  Window = 1
  Lookback = 1
  First = 0
  Never = Never
  None = None
  MaxTroubles = 1
CHECK_DEADLOCK FALSE
PROPERTIES DeferredStaysDue RunsTheNewest DecidedOnce DueIsHandled
