SPECIFICATION Spec
CONSTANTS
  Threads = {t1, t2}
  Nobody = Nobody
  Operations = {"get_object", "get_by_id"}
  MaxCalls = 1
INVARIANT ImplObjectsRaceFree
SYMMETRY Symmetry
CHECK_DEADLOCK FALSE
