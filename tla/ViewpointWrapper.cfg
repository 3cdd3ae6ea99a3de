CONSTANTS
  a = a
  b = b
  c = c
  Viewpoints = {a, b, c}
  NoViewpoint = NoViewpoint
  Scene <- MCScene
  Fields = {position, orientation}
  Poses = 2
SPECIFICATION FairSpec
INVARIANTS TopIsBound 
PROPERTIES GetsBound
