SPECIFICATION Spec
CONSTANTS
  None = None
  WebStates = {w1, w2}
  Requests = {r1, r2, r3}
  Interferences = {{}}
INVARIANTS
  NoRequestIsForgotten
  AnsweredStaysAnswered
PROPERTIES
  EveryRequestGetsItsTurn
