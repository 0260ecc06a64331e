SPECIFICATION Spec
CONSTANTS
  Base = Base
  Derived = Derived
  o1 = o1
  o2 = o2
  o3 = o3
  o4 = o4
  v = v
  w = w
  data = data
  other = other
  Objects = {o1, o2, o3, o4}
  ClassNames <- TwoClasses
  ClassOf <- Family
  Supers <- OneSuper
  Files = {data, other}
  MaxId = 5
  Lists <- FewLists
  Contents <- TwoDatabases
  RefCardinality = "zero or many"
  Converters = {c1, c2}
  Marker = Marker
  SomeClasses = {Base, Derived}
  SomeIds = {1, 2, 3, 4}
  SomeFiles = {data}
  MaxChanges = 2
  None = None
SYMMETRY Symmetry
INVARIANT TypeOK
INVARIANT ConvertedInOrder
INVARIANT ExportComplete
INVARIANT ExportSorted
CHECK_DEADLOCK FALSE
