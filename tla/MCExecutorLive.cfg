\* Termination of the same three calls.  A rank blocked for ever in
\* setup() is a state with no successor: deadlock reporting is off so that
\* such a hang shows as a violation of AllCallsComplete (MCExecutor.cfg
\* checks the same system with deadlock reporting on).
CONSTANTS
  NRanks = 3
  NRanksPerNode = 2
  HostOf <- MCHostOf
  Plans <- MCPlans
  Calls <- MCCalls
  FlagMax <- MCFlagMax
  NoMsg = NoMsg
  PastEndIB = PastEndIB
SPECIFICATION Spec
PROPERTY AllCallsComplete
CHECK_DEADLOCK FALSE
