SPECIFICATION Spec
CONSTANTS
  data = data
  more = more
  Base = Base
  Middle = Middle
  Leaf = Leaf
  run = run
  check = check
  Files = {data, more}
  Classes = {Base, Middle, Leaf}
  FileOf <- TwoFiles
  Supers <- Chain
  DalClasses <- Registered
  Algorithms <- HasAlgorithms
  Converters = {x}
  Notifiers = {n}
  PreNotifiers = {p}
  Actions = {k}
  MaxCached = 2
INVARIANT TypeOK
INVARIANT HierarchyFollows
INVARIANT HeapOwned
INVARIANT CallbacksServed
INVARIANT ActionsForget
INVARIANT MadeCastable
PROPERTY FreedTogether
CHECK_DEADLOCK FALSE
