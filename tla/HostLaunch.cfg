CONSTANTS
  NTHREADS = 2 LOG_SLOTS = 2 ImageRoom = 2 ParamRoom = 8 HeapRoom = 20
  Modulus = 4 TrapBit = 64 MaxChunks = 2 MaxLaunches = 2
  Kernels <- MCKernels
  Sessions <- MCSessions
SPECIFICATION HostSpec
INVARIANTS HostView FailuresOwn LogOwn
PROPERTIES LaunchEnds
CHECK_DEADLOCK FALSE
