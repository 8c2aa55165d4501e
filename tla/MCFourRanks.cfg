\* Four ranks on two nodes: the handshake invariants.
CONSTANTS
  NRanks = 4
  NRanksPerNode = 2
  HostOf <- FourHostOf
  Plans <- FourPlans
  Calls <- FourCalls
  FlagMax <- MCFlagMax
  NoMsg = NoMsg
  PastEndIB = PastEndIB
SPECIFICATION Spec
INVARIANT ExchangeMatched
INVARIANT ChannelsWellBound
INVARIANT ChannelMemoryReachable
