SPECIFICATION Spec
CONSTANTS
  d0 = d0
  d1 = d1
  None = None
  Depth = 3
  Index <- Bits
  KernelIndex = {1}
  Pages <- MCPages
  Devices <- MCDevices
  Frames = {2, 3, 4}
  MaxSpaces = 2
  LoaderFrames <- Loader
  Data <- TwoData
  Boot = 0
  LoaderTables <- MCLoaderTables
  UserFlags <- MCUserFlags
  KernelFlags <- MCKernelFlags
  MmioOpts <- MCMmioOpts
INVARIANTS TablesAreTrees TlbCoherent Privilege
PROPERTIES AddressSpacesSpec
