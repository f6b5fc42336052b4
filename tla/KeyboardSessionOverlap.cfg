SPECIFICATION Spec
CONSTANTS
  Runs = {r1, r2}
  MaxSessions = 2
  PipeCapacity = 1
  MaxFailures = 0
  MaxMissing = 0
CHECK_DEADLOCK FALSE
SYMMETRY Symmetry
INVARIANTS DeafBehindOrphan  AdapterIsReverted
