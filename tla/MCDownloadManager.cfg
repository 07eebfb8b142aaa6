\* A browser may be at rest, or have failed.
CHECK_DEADLOCK FALSE
SPECIFICATION Spec
CONSTANTS
  None = None
  Tabs = {tab1, tab2}
  Tasks = {1, 2, 3}
  MaxStarts = 2
INVARIANTS
  TypeOK
  PanelIsOfVisibleTab
  PanelIsTrue
  NoFault
PROPERTY ProgressEnds
