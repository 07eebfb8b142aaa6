SPECIFICATION Spec
CONSTANTS
  None = None
  WebStates = {w1, w2}
  Requests = {r1, r2}
  Interferences = {{"switch"}}
SYMMETRY Symmetry
INVARIANTS
  AnsweredStaysAnswered
