\* The review of a repository of the other agent loses its lease to a main tick.
SPECIFICATION Spec
CONSTANTS
  p1 = p1  s1 = s1  r1 = r1  d1 = d1  d2 = d2  w1 = w1  f1 = f1
  Work = {f1, s1}
  KindOf <- MCKindOf
  TriggerOf <- MCTriggerOf
  AgentOf <- MCAgentOf
  SupervisorAgent = "claude"
  MaxCrashes = 0
PROPERTIES StartsAlone
