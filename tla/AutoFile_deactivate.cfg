CONSTANTS
  Names = {a}
  NoName = NoName
  MaxVersion = 2
  Environment = {"deactivate"}
SPECIFICATION FairSpec
PROPERTIES EventuallyShown
