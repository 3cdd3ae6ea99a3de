CONSTANTS
  Positions = {p, q, r}
  HasTip = {p, q}
  Roots = {left, right}
  NoRoot = NoRoot
  NoPosition = NoPosition
  TriggerTime = 3
SPECIFICATION FairSpec
INVARIANTS RefsBalanced GoneWhenMoved
PROPERTIES OnlyAfterRest PopsUp
