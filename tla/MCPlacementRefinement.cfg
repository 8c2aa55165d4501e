\* The placement instance: failing and succeeding calls are steps of ExecuteSpec.
\* Ranks 0 and 1 throw InvalidUsage; rank 2 waits for ever, so deadlock reporting is off.
CONSTANTS
  NRanks = 3
  NRanksPerNode = 2
  HostOf <- OwnHostOf
  Plans <- PlacementPlans
  Calls <- PlacementCalls
  FlagMax <- MCFlagMax
  NoMsg = NoMsg
  PastEndIB = PastEndIB
SPECIFICATION Spec
PROPERTY ImplementsExecuteSafety
CHECK_DEADLOCK FALSE
