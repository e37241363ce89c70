CONSTANTS
  NTHREADS = 2 LOG_SLOTS = 2 ImageRoom = 2 ParamRoom = 8 HeapRoom = 20
  Modulus = 4 TrapBit = 64 MaxChunks = 2 MaxLaunches = 1
  Kernels <- MCTailKernels
  Sessions <- MCTailSessions
INIT HostInit
NEXT HostNext
INVARIANTS FailuresOwn
CHECK_DEADLOCK FALSE
