SPECIFICATION StartSpec
CONSTANTS
  PageSize = 2
  BitsPerByte = 2
  TopPage = 6
  KernelSizes = {1, 4}
  MemMaps <- MapsOfTwo
  Kernels <- PageKernels
  MaxRequest = 3
  Digits <- MCDigits
  Responses <- MCResponses
  KernelStart <- Top
  KernelEnds <- MCKernelEnds
  Null = Null
INVARIANTS NothingLost Accounted BitmapPlaced SupplyAsAnswered ReportTrue
PROPERTIES PagePoolSpec NoFalseRefusal
CHECK_DEADLOCK FALSE
