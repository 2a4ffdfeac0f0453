SPECIFICATION CanvasSpec
CONSTANTS
  Limits <- limits
  Pan = {p1, p2}
  Pointer = {f1, f2}
  Width = {4, 8}
  Place = {0, 9}
  PanelWidth = 3
  Pad = 1
  None = None
  Budgets <- budgets
  MaxLoads = 2
SYMMETRY fingers
CHECK_DEADLOCK FALSE
INVARIANTS
  ToolbarInSync
  PanelInStep
  PanelVisible
PROPERTIES
  Landed
