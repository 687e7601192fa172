SPECIFICATION EntrySpec
CONSTANTS
  None = None
  Panic = Panic
  Threads = {0, 1}
  Boot = 0
  Numbers = {0, 1, 2}
  Irqs = {15}
  Exceptions = {2, 14, 17}
INVARIANTS VectorsRight NothingInService ModesRight CallsRight
PROPERTIES Resumes
