\* Messages arrive and are cancelled while gates, hooks and timers are pending.
SPECIFICATION Spec
CONSTANTS
  s1 = s1  s2 = s2  global = global  none = none
  user = user  loop = loop  t1 = t1  t2 = t2
  a1 = a1  a2 = a2  verb = verb  d1 = d1  d2 = d2  d3 = d3  g1 = g1
  Message = {a1, a2, d2, g1}
  Session = {s1, s2}
  Global = global
  None = none
  Chat = {user, loop}
  Text = {t1, t2}
  LaneOf <- MCLaneOf
  ChatOf <- MCChatOf
  Text0 <- MCText0
  Prompt <- MCPrompt
  Hooked <- MCHooked
  Durable <- MCDurable
  Restorable <- MCRestorable
  MaxSize = 2
  MaxConcurrent = 1
  Withdrawals = {"cancel", "clearSession"}
  MaxRestarts = 0
  BootTraffic = TRUE
  WriteFaults = TRUE
CHECK_DEADLOCK FALSE
INVARIANTS OneAtATime ConcurrencyLimit NoLostWakeup NoDuplicateWaiting
