SPECIFICATION FairSpec
CONSTANTS
  Callers = {t1, t2}
  c1 = c1
  c2 = c2
  o1 = o1
  o2 = o2
  Classes = {c1, c2}
  Ids = {o1}
  Criteria <- TwoCriteria
  MaxCalls = 2
  MaxChanges = 1
  PluginFails = TRUE
  NotSubscribed = NotSubscribed
  NotCached = NotCached
  Notifier = Notifier
  Free = Free
PROPERTY WantedIsTold
CHECK_DEADLOCK FALSE
