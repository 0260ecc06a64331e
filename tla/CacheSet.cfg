SPECIFICATION Spec
CONSTANTS
  Base = Base
  Derived = Derived
  Classes = {Base, Derived}
  Supers <- OneSuper
  Ids = {a, b}
  Values = {v1, v2}
  Impls = {h1, h2}
  Tmpls = {t1, t2}
  MaxNoted = 2
  Careless = {}
  None = None
PROPERTY ClearedIsReread
SYMMETRY Symmetry
CHECK_DEADLOCK FALSE
