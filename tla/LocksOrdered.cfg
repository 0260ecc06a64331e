SPECIFICATION FairSpec
CONSTANTS
  Threads = {t1, t2}
  Nobody = Nobody
  Operations <- OrderedOperations
  MaxCalls = 1
INVARIANT NoCircularWait
 
INVARIANT UsedInOneGo
PROPERTY EveryCallReturns
CHECK_DEADLOCK FALSE
