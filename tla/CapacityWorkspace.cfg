\* The worker of a workspace job outlives a crash.
SPECIFICATION Spec
CONSTANTS
  p1 = p1  s1 = s1  r1 = r1  d1 = d1  d2 = d2  w1 = w1  f1 = f1
  Work = {r1, w1}
  KindOf <- MCKindOf
  TriggerOf <- MCTriggerOf
  AgentOf <- MCAgentOf
  SupervisorAgent = "claude"
  MaxCrashes = 1
PROPERTIES StartsAlone
