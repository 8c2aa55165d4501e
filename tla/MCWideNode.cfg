\* Nine ranks per node: the transport of a cross-node connection is read past the IBs array.
CONSTANTS
  NRanks = 10
  NRanksPerNode = 9
  HostOf <- WideHostOf
  Plans <- WidePlans
  Calls <- WideCalls
  FlagMax <- MCFlagMax
  NoMsg = NoMsg
  PastEndIB = PastEndIB
SPECIFICATION Spec
INVARIANT ConnectTransportsSupported
CHECK_DEADLOCK FALSE
