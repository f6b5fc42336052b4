SPECIFICATION Spec
CONSTANTS
  Hosts = {h1, h2}
  None = None
  k1 = k1
  Keys = {k1}
  NoKey = NoKey
  Typed <- MCPress
  PipeCapacity = 1
  InboxBound = 1
SYMMETRY HostSymmetry
CHECK_DEADLOCK FALSE
INVARIANTS ReportedToBoot BootAnswered
PROPERTIES KeptWhileOpen
