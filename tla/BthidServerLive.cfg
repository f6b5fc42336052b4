SPECIFICATION FairSpec
CONSTANTS
  Hosts = {h1}
  None = None
  k1 = k1
  Keys = {k1}
  NoKey = NoKey
  Typed <- MCTyped
  PipeCapacity = 1
  InboxBound = 1
CHECK_DEADLOCK FALSE
INVARIANTS HostAgrees
PROPERTIES EventuallyServed PipeRead
