\* Buffers reallocated at the same address: the second call reuses the first call's descriptors.
CONSTANTS
  NRanks = 3
  NRanksPerNode = 2
  HostOf <- MCHostOf
  Plans <- MCPlans
  Calls <- ReuseCalls
  FlagMax <- MCFlagMax
  NoMsg = NoMsg
  PastEndIB = PastEndIB
SPECIFICATION Spec
INVARIANT RemoteMemoryCurrent
CHECK_DEADLOCK FALSE
