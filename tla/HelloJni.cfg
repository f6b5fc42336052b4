CONSTANTS
  MaxFd = 3
  MaxMessages = 1
  FirstKey = 1
  LastKey = 2
  MaxCalls = 2
SPECIFICATION FairSpec
INVARIANTS FirstCallUsesItsOwn
PROPERTIES TypesTheScript CallEnds
