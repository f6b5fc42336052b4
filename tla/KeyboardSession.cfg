SPECIFICATION FairSpec
CONSTANTS
  Runs = {r1}
  MaxSessions = 2
  PipeCapacity = 1
  MaxFailures = 1
  MaxMissing = 1
CHECK_DEADLOCK FALSE
INVARIANTS DeafBehindOrphan AdapterIsReady AdapterIsReverted HostUnderstands
PROPERTY RunEnds
