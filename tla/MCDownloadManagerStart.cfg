\* A browser may be at rest, or have failed.
CHECK_DEADLOCK FALSE
SPECIFICATION Spec
CONSTANTS
  None = None
  Tabs = {tab1}
  Tasks = {1}
  MaxStarts = 2
INVARIANT NeverStartedTwice
