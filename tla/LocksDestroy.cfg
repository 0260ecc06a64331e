SPECIFICATION Spec
CONSTANTS
  Threads = {t1, t2}
  Nobody = Nobody
  Operations = {"destroy_obj", "rename_object"}
  MaxCalls = 1
INVARIANT NoCircularWait
SYMMETRY Symmetry
CHECK_DEADLOCK FALSE
