SPECIFICATION Spec
CONSTANTS
  Chunks = 2
  MaxAttempts = 2
  Liberties = {"early cancel"}
PROPERTIES
  CancelledThenAborted
\* A task that is complete or destroyed may never be used again.
CHECK_DEADLOCK FALSE
