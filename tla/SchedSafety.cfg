SPECIFICATION Spec
CONSTANTS
  t0 = t0
  t1 = t1
  t2 = t2
  e0 = e0
  e1 = e1
  r0 = r0
  r1 = r1
  NULL = NULL
  NoThread = NULL
  Boot = t0
  ZeroRegs = r0
  Threads <- ThreeThreads
  Quanta = {0, 2}
  Events <- TwoEvents
  Delays <- DelayRange
  Regs <- TwoRegs
  Sources <- AllSources
INVARIANTS TypeOK ContextIntegrity StackAgreement OneRing TimerNeverLost Tickless
PROPERTIES VirtualCpuSpec RoundRobinSpec
