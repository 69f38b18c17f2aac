\* A job of a project, one without work order, a review, a
\* review in a repository of the other agent, and two delegations, of the operator
\* and of a resource repair; one crash.
SPECIFICATION FairSpec
CONSTANTS
  p1 = p1  s1 = s1  r1 = r1  d1 = d1  d2 = d2  w1 = w1  f1 = f1
  Work = {p1, s1, r1, f1, d1, d2}
  KindOf <- MCKindOf
  TriggerOf <- MCTriggerOf
  AgentOf <- MCAgentOf
  SupervisorAgent = "claude"
  MaxCrashes = 1
INVARIANTS OrderHoldsLease
PROPERTIES StartsBesideNoJob StrandedLeaseFreed
