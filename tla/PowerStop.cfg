\* Scheduled mode, stopped while a probe is in flight.
SPECIFICATION Spec
CONSTANTS
  Task = {t1}
  Agent = {a1}
  Modes = {"scheduled"}
CHECK_DEADLOCK FALSE
INVARIANTS StopReleases
