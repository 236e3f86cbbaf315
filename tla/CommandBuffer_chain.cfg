SPECIFICATION Spec
CONSTANTS
  Menu <- MCMenu
  Cells = 16
  ArgCells = 8
  Places <- MCPlaces
INVARIANTS ReadsItsValue DeclarationsHold ElidedWhenAllChained
