\* A client that cancels what is under way and starts again what is settled.
SPECIFICATION Spec
CONSTANTS
  Chunks = 3
  MaxAttempts = 3
  Liberties = {}
INVARIANTS
  TypeOK
  CompleteMeansWritten
  NothingRunsUnattended
  FinishesOnce
PROPERTIES
  CancelledThenAborted
  OnlyCancelledIsAborted
  DownloadEnds
  QueueGoesOn
\* A task that is complete or destroyed may never be used again.
CHECK_DEADLOCK FALSE
