SPECIFICATION FairSpec
CONSTANTS
  HandlerTime = 2
  RanBound = 8
  t0 = t0
  t1 = t1
  t2 = t2
  e0 = e0
  e1 = e1
  r0 = r0
  NULL = NULL
  NoThread = NULL
  Boot = t0
  ZeroRegs = r0
  Threads <- ThreeThreads
  Quanta = {5}
  Events <- TwoEvents
  Delays <- DelayRange
  Regs <- OneRegs
  Sources <- TscOrNone
INVARIANTS SliceBounded
PROPERTIES EveryThreadRuns EveryEventRuns WholeSlice
