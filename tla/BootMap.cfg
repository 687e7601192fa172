SPECIFICATION KmainSpec
CONSTANTS
  uc0 = uc0
  us0 = us0
  uc1 = uc1
  us1 = us1
  user_code0 <- code0
  user_stack0 <- stack0
  user_code1 <- code1
  user_stack1 <- stack1
  None = None
  Depth = 2
  Index <- Indices
  KernelIndex = {3}
  Pages <- MCPages
  Devices = {}
  Frames = {1, 2, 3, 4}
  LoaderFrames <- Loaded
  Data <- Memory
  Boot = 0
  LoaderTables <- MCLoaderTables
  UserFlags <- MCUserFlags
  KernelFlags = {}
  MmioOpts = {}
  MaxSpaces = 1
INVARIANTS OwnMemory
