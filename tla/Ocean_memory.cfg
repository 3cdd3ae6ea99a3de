\* two oceans are enough
CONSTANTS
  Shapes = {s, t}
SPECIFICATION NodesSpec
INVARIANTS MemoryThere
