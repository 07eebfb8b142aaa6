SPECIFICATION Spec
CONSTANTS
  None = None
  WebStates = {w1, w2, w3, w4}
  MaxNavIndex = 1
  StoredSessions <- NoSessions
  MaxSavedTabs = 0
  ReplaceAnyIndex = FALSE
SYMMETRY Symmetry
INVARIANTS
  TypeOK
  NoDanglingOpener
  OpenersAreAcyclic
  SpeculativeFixIsDead
  ForwarderFollowsActive
  ObserversMirrorList
PROPERTIES
  SelectionSurvives
  SelectionStaysInFamily
  OpenedTabsKeepOrder
