\* The instance of the handshake run, checked to implement ExecuteSpec.
CONSTANTS
  NRanks = 3
  NRanksPerNode = 2
  HostOf <- MCHostOf
  Plans <- MCPlans
  Calls <- MCCalls
  FlagMax <- MCFlagMax
  NoMsg = NoMsg
  PastEndIB = PastEndIB
SPECIFICATION Spec
PROPERTY ImplementsExecuteSpec
CHECK_DEADLOCK FALSE
