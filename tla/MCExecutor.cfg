\* The collective handshake of the cold path and the warm path, three
\* calls on every rank: safety of what the rounds exchange and bind.
CONSTANTS
  NRanks = 3
  NRanksPerNode = 2
  HostOf <- MCHostOf
  Plans <- MCPlans
  Calls <- MCCalls
  FlagMax <- MCFlagMax
  NoMsg = NoMsg
  PastEndIB = PastEndIB
SPECIFICATION Spec
INVARIANT TypeOK
INVARIANT ExchangeMatched
INVARIANT ChannelsWellBound
INVARIANT ChannelMemoryReachable
INVARIANT LaunchMatchesCall
