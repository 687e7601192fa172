SPECIFICATION FairSpec
CONSTANTS
  e0 = e0
  e1 = e1
  e2 = e2
  NULL = NULL
  HEAD = HEAD
  Events <- ThreeEvents
  MaxTime = 3
INVARIANTS UnlinkedIsClean
PROPERTIES PendingQueueSpec NoneLeftBehind EveryEventRuns
