CONSTANTS
  Contexts = {1}
  Nodes <- ArrayNodes
  IndexLists <- MCIndexLists
  PackedContexts = {1, 2}
  Properties <- MCProperties
  IndexFields <- MCIndexFields
  Overrides <- MCOverrides
  Names = {1, 2}
  MaxShort = 3
  Shapes <- Soups
  MaxShapes = 2
  Garbage = {0, 1}
  MeshContexts = {1, 2}
  MeshContents = {"u", "v"}
  Sizes = {1, 2}
  MeshNames = {1, 2}
  NumGeoWaves = 2
  NumTexWaves = 1
  FullFade = 2
  Elapsed = {1, 3}
  Clouds <- MCClouds
  Counts <- MCCounts
  Starts = {0, 1}
  Distances = {2, 4}
  Undrawn = None
  Unset = Unset
  NoTexture = NoTexture
  NoObject = NoObject
  Object = Object
  Undefined = Undefined
  None = None
  NotRendered = NotRendered
SPECIFICATION Spec
   
PROPERTIES ContainersImplement DrawnSmoothly WavesRenewed
