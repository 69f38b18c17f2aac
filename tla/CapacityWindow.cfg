\* A delegation waits for its supervisor while the main tick reconciles leases.
SPECIFICATION Spec
CONSTANTS
  p1 = p1  s1 = s1  r1 = r1  d1 = d1  d2 = d2  w1 = w1  f1 = f1
  Work = {p1, d2}
  KindOf <- MCKindOf
  TriggerOf <- MCTriggerOf
  AgentOf <- MCAgentOf
  SupervisorAgent = "claude"
  MaxCrashes = 0
PROPERTIES StartsAlone
