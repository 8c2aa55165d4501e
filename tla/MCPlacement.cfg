\* A connection request refused in the middle of a cold path: ranks 0 and 1
\* fail in execute(), so rank 2 waits for ever in setup() and the system
\* stops; deadlock reporting is off because that stop is real.
CONSTANTS
  NRanks = 3
  NRanksPerNode = 2
  HostOf <- OwnHostOf
  Plans <- PlacementPlans
  Calls <- PlacementCalls
  FlagMax <- MCFlagMax
  NoMsg = NoMsg
  PastEndIB = PastEndIB
SPECIFICATION Spec
INVARIANT CachedContextsComplete
CHECK_DEADLOCK FALSE
