SPECIFICATION Spec
CONSTANTS
  Callers = {t1, t2}
  c1 = c1
  c2 = c2
  o1 = o1
  o2 = o2
  Classes = {c1, c2}
  Ids = {o1}
  Criteria <- MixedCriteria
  MaxCalls = 2
  MaxChanges = 2
  PluginFails = TRUE
  NotSubscribed = NotSubscribed
  NotCached = NotCached
  Notifier = Notifier
  Free = Free
INVARIANT MutexHeld
INVARIANT PluginCoversExactly
INVARIANT ActiveCovered
INVARIANT NothingForgotten
INVARIANT CacheFollowsChanges
INVARIANT ToldOnce
PROPERTY OnlyRegisteredTold
PROPERTY ImplementsFeed
SYMMETRY Symmetry
CHECK_DEADLOCK FALSE
