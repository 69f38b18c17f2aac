\* Scheduled and unmanaged host, two tasks, two sessions.
SPECIFICATION FairSpec
CONSTANTS
  Task = {t1, t2}
  Agent = {a1, a2}
  Modes = {"scheduled", "off"}
CHECK_DEADLOCK FALSE
PROPERTIES StaysAwake SleepsWhenDrained KeepsStandingWork
