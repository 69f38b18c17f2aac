\* The late summary of an older order settles after a newer time has been run.
SPECIFICATION Spec
CONSTANTS
  Times = {1, 3}
  Horizon = 4
  Window = 1
  Lookback = 1
  First = 0
  Never = Never
  None = None
  MaxTroubles = 1
CHECK_DEADLOCK FALSE
PROPERTIES CheckpointAdvances
