SPECIFICATION Spec
CONSTANTS
  None = None
  Panic = Panic
  Irqs = {0, 7, 8, 15}
  Exceptions = {2, 8, 13, 14}
INVARIANTS NmiOnItsStack
