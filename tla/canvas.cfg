SPECIFICATION Spec
CONSTANTS
  None = None
  Sections <- MCSections
  Sources <- MCSources
  MaxEdits = 2
  MaxLoads = 2
CHECK_DEADLOCK FALSE
INVARIANTS
  SlotsExact
  ShownIsSaved
PROPERTIES
  SavedKept
  DeletedStays
