\* A restored prompt, or a crash, reopens an order that has completed.
SPECIFICATION Spec
CONSTANTS
  Times = {1, 3}
  Horizon = 4
  Window = 1
  Lookback = 1
  First = 0
  Never = Never
  None = None
  MaxTroubles = 1
CHECK_DEADLOCK FALSE
PROPERTIES CompletedStands
