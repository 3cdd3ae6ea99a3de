\* every liberty: the sensors alone
CONSTANTS
  Names = {a, b}
  NoName = NoName
  MaxVersion = 2
  Environment = {"deactivate", "early write", "move", "same second"}
SPECIFICATION Spec
INVARIANTS OnePoller
