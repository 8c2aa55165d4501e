\* Does every rank return from every execute() when only some ranks miss
\* the context cache?  Expected to be violated.
CONSTANTS
  NRanks = 3
  NRanksPerNode = 2
  HostOf <- MCHostOf
  Plans <- MCPlans
  Calls <- SkewCalls
  FlagMax <- MCFlagMax
  NoMsg = NoMsg
  PastEndIB = PastEndIB
SPECIFICATION Spec
PROPERTY AllCallsComplete
CHECK_DEADLOCK FALSE
