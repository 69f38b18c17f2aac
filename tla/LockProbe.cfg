\* Three bots, launched one after the other; ps may fail about one that runs.
SPECIFICATION Spec
CONSTANTS
  Process = {p1, p2, p3}
  Pid = {i1, i2, i3}
  None = none
  Overlap = FALSE
  PsFails = TRUE
CHECK_DEADLOCK FALSE
INVARIANTS AtMostOneServing
SYMMETRY Symmetry
