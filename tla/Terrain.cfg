\* three planes, seven places of the camera, two GL contexts
CONSTANTS
  Contexts = {"c1", "c2"}
  TexIds = {1, 2}
  Names = {1, 2}
  MaxUnused = 1
  Extent = 8
  Planes <- MCPlanes
  Occlusion = TRUE
  Sequences <- MCSequences
  ColorTexture = 7
  Cameras = {"camera"}
  Whole = 2
  Windows = {1, 2}
  Fractions <- MCFractions
  Pixels = {3}
  None = None
  Lens = {1, 2}
  FanLengths = {3, 4, 5}
  Colors = {0, 3}
  Params = {0, 1, 3, 4}
  Gradients = {2, 3}
  Bottom = 1
  Top = 5
  Settings <- DepthSettings
  Scenes <- DepthScenes
  UtmScenes <- UTMScenes
  Transform <- HalfTurn
  Places <- MCPlaces
  Points <- MCPoints
  NotSet = NotSet
SPECIFICATION Spec
INVARIANTS TreesFit FramesDrawn 
PROPERTIES UsedKept
