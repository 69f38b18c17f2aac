\* Three bots, launched at any time, over a file left by one of them.
SPECIFICATION Spec
CONSTANTS
  Process = {p1, p2, p3}
  Pid = {i1, i2, i3}
  None = none
  Overlap = TRUE
  PsFails = FALSE
CHECK_DEADLOCK FALSE
INVARIANTS AtMostOneServing
