SPECIFICATION Spec
CONSTANTS
  Threads = {t1, t2}
  Nobody = Nobody
  Operations = {"unload", "system_cb"}
  MaxCalls = 1
INVARIANT NoCircularWait
SYMMETRY Symmetry
CHECK_DEADLOCK FALSE
