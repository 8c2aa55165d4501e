\* Four launches per rank with a 2-bit flag: the flag passed to the kernel wraps to 0.
CONSTANTS
  NRanks = 3
  NRanksPerNode = 2
  HostOf <- MCHostOf
  Plans <- MCPlans
  Calls <- WrapCalls
  FlagMax <- WrapFlagMax
  NoMsg = NoMsg
  PastEndIB = PastEndIB
SPECIFICATION Spec
PROPERTY LaunchFlagIncreasing
CHECK_DEADLOCK FALSE
