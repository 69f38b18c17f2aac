\* A job that has never fired; the gate stays closed for longer than the look back.
SPECIFICATION Spec
CONSTANTS
  Times = {1, 5}
  Horizon = 6
  Window = 1
  Lookback = 1
  First = Never
  Never = Never
  None = None
  MaxTroubles = 1
CHECK_DEADLOCK FALSE
PROPERTIES DeferredStaysDue
