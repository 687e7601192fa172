SPECIFICATION FairSpec
CONSTANTS
  None = None
  One = 16
  Word = 256
  Kilo = 3
  Byte = 3
  PitHz = 9
  CalUs = 6
  Cpus <- MCCpus
  TscPerPit = {1, 3}
  TscPerLapic = 2
  MaxGap = 2
  MaxWraps = 1
  Delays = {0, 1, 2, 5, 9, 16, 30, 47}
  MaxTsc = 255
INVARIANTS NeverLate HardlyEarly CalibrationHonest
PROPERTIES ClockMonotone CalibrationEnds
CHECK_DEADLOCK FALSE
