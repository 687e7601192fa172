SPECIFICATION FairSpec
CONSTANTS
  None = None
  MaxTicks = 4
  MaxCount = 3
  MaxPosted = 4
  Sources = {"TSC_DEADLINE", "LAPIC"}
INVARIANTS HeldOrLost
PROPERTIES NeverEarly AlarmRings
