SPECIFICATION Spec
CONSTANTS
  None = None
  WebStates = {w1, w2, w3}
  Requests = {r1, r2, r3}
  Interferences = {{"switch", "container", "insert", "cancel"}, {"insert", "cancel"}}
SYMMETRY Symmetry
INVARIANTS
  TypeOK
  DialogIsOfActiveTab
  NothingShownAfterShutdown
  NoAssertionFails
