\* Four bots, launched one after the other, that recycle three pids.
SPECIFICATION Spec
CONSTANTS
  Process = {p1, p2, p3, p4}
  Pid = {i1, i2, i3}
  None = none
  Overlap = FALSE
  PsFails = FALSE
CHECK_DEADLOCK FALSE
INVARIANTS AtMostOneServing NoFailedStart
PROPERTIES RefusedOnlyBesideAnother
SYMMETRY Symmetry
