\* A cold and a warm call per rank with asynchronous kernels: every queued kernel
\* reads its own call's plan, and every call returns and every kernel finishes.
CONSTANTS
  NRanks = 3
  NRanksPerNode = 2
  HostOf <- MCHostOf
  Plans <- MCPlans
  Calls <- StreamCalls
  FlagMax <- MCFlagMax
  NoMsg = NoMsg
  PastEndIB = PastEndIB
  FreeWaitsForDevice = TRUE
SPECIFICATION SSpec
INVARIANT KernelReadsOwnPlan
PROPERTY AllDrained
CHECK_DEADLOCK FALSE
