\* The users and the network may be done, and the system at rest.
CHECK_DEADLOCK FALSE
SPECIFICATION Spec
CONSTANTS
  Urls = {u1, u2}
  Elsewhere = Elsewhere
  LatePdf = FALSE
  WifiOnlyAfter = 1
  StopAfter = 2
  LateAnswer = FALSE
  MaxEvents = 3
  MaxTimers = 2
INVARIANTS
  TypeOK
  RemovedPagesGo
  QueuedIsUnread
  ProcessedHasPage
  RetryStartsAfresh
  GivesUpAfterAllTries
PROPERTIES
  OrdinarilyStaysAvailable
  KeepsPagesPromise
  EntryIsSettled
