\* two tables that start full and grow with every new key: sizes 2, 5, 11, 17
CONSTANTS
  Tables = {s, t}
  Keys = {0, 5, 10}
  Objects = {a, b}
  NoObject = NoObject
  Hash <- MCHash
  SizeArg = 2
  LoadNum = 1
  LoadDen = 5
SPECIFICATION Spec
INVARIANTS Placed Counted LoadBounded
PROPERTIES Implements
