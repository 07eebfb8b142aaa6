SPECIFICATION Spec
CONSTANTS
  None = None
  WebStates = {w1, w2, w3}
  MaxNavIndex = 1
  StoredSessions <- CorruptSessions
  MaxSavedTabs = 2
  ReplaceAnyIndex = FALSE
SYMMETRY Symmetry
INVARIANTS
  RestoreIsExact
PROPERTIES
  SelectionSurvives
