\* The mode that keeps the host awake for good.
SPECIFICATION FairSpec
CONSTANTS
  Task = {t1}
  Agent = {a1}
  Modes = {"always"}
CHECK_DEADLOCK FALSE
PROPERTIES AlwaysHolds
