\* a user who leaves the node active, a disk without tricks
CONSTANTS
  Names = {a, b}
  NoName = NoName
  MaxVersion = 3
  Environment = {}
SPECIFICATION FairSpec
INVARIANTS NoLostUpdate
PROPERTIES Implements
