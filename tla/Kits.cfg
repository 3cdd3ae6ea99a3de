\* four wells, eight cubes and a quadrilateral, a legend of two colours,
\* a path of three points, a tree of four objects; axes of four marks, pies of
\* four values, tracks of four points, two keys, one pickable node
CONSTANTS
  PickNodes = {1}
  PickPositions = {1, 2}
  Misses = {2}
  MaxPending = 2
  Keys = {"a", "b"}
  Behaviors = {"TOGGLE", "HOLD", "INVERSE_HOLD"}
  MaxKeys = 2
  Children = {0, 1, 2}
  PanPositions = {0, 1, 2}
  Heights = {1, 2}
  Tilts = {0, 1}
  MaxPlace = 2
  Turn = 72
  Step = 1
  MaxAngle = 40
  Angles = {0, 30}
  Ranges <- MCRanges
  Locations <- MCLocations
  PathPlaces = {1, 2}
  Times = {0, 1, 2}
  MaxPoints = 3
  Names = {1, 2, 3}
  TrackPlaces = {1}
  TrackTimes = {0, 1, 2, 3}
  Lengths = {0, 1, 2}
  Intervals = {0, 1, 2}
  TrackMaxPoints = 4
  Wells <- MCWells
  UndefVal = 99
  ViewAxes = {"x", "y"}
  Hexes <- MCHexes
  Batch = 4
  Quads = {9}
  LayerOf <- MCLayerOf
  NodeCount = 27
  HalfSpaces <- MCHalfSpaces
  Switched = {1, 9}
  Painted <- MCPainted
  MaxColors = 1
  Unit = 4
  Viewports = {10}
  LineHeight = 1
  Space = 1
  Callbacks = {"c"}
  Colors <- UnsetColors
  TickValues = {1, 3}
  MaxTicks = 1
  MaxDiscrete = 2
  Values <- PieValues
  Numbers = {0, 2, 3, 4}
  Circle = 4
  AxesValues <- MCAxesValues
  ColorValues <- MCColorValues
  ArrowValues <- MCArrowValues
  TextValues <- MCTextValues
  Axes <- AnnotatedAxes
  Views <- AxisViews
  Gap = 2
  Horizon = 6
  Ticks = {0, 1}
  Objects = {"r", "a", "b", "c"}
  Root = "r"
  ObjectId <- MCObjectId
  Ids <- MCIds
  Spots = {1, 2}
  Edited = {"b"}
  None = None
  NoGrip = NoGrip
  Unset = Unset
SPECIFICATION Spec
INVARIANTS  EventsAnswered
PROPERTIES EditsKeep AnswersKept
