SPECIFICATION ViewsSpec
CONSTANTS
  Base = Base
  Derived = Derived
  Classes = {Base, Derived}
  Supers <- OneSuper
  Ids = {a, b}
  Values = {v1, v2}
  Impls = {h1, h2}
  Tmpls = {t1}
  MaxNoted = 2
  Careless = {}
  None = None
INVARIANT TypeOK
INVARIANT HeldIsCached
INVARIANT StateFollows
INVARIANT ObjectsFresh
INVARIANT TemplatesFresh
PROPERTY ImplementsViews
PROPERTY DestroyedThrows
SYMMETRY Symmetry
CHECK_DEADLOCK FALSE
