\* picking in the leaf closes its parent, but not the root above a submenu
CONSTANTS
  root = root
  middle = middle
  leaf = leaf
  NoMenu = NoMenu
  Menus <- MCMenus
  Items = {0, 1}
  Order <- MCOrder
  Root = root
  SubOf <- MCSubOf
  Disabled <- MCDisabled
  CloseParent <- CloseLeaf
  MaxOpening = 2
SPECIFICATION FairSpec
INVARIANTS NoOrphans ParentsWait MarkFollows
PROPERTIES MissClosesAll Responsive
