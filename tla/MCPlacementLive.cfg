\* Does every rank return from every execute() when the launch's ranks per
\* node does not match the hosts?  Expected to be violated.
CONSTANTS
  NRanks = 3
  NRanksPerNode = 2
  HostOf <- OwnHostOf
  Plans <- PlacementPlans
  Calls <- PlacementCalls
  FlagMax <- MCFlagMax
  NoMsg = NoMsg
  PastEndIB = PastEndIB
SPECIFICATION Spec
PROPERTY AllCallsComplete
CHECK_DEADLOCK FALSE
