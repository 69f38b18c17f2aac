\* Scheduled mode, as long as caffeinate cannot be started.
SPECIFICATION FairSpec
CONSTANTS
  Task = {t1}
  Agent = {a1}
  Modes = {"scheduled"}
CHECK_DEADLOCK FALSE
PROPERTIES FailureReported
