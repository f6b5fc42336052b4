CONSTANTS
  MaxFd = 3
  MaxMessages = 1
  Keys <- MCKeys
  Question = "question"
  NoKey = "none"
SPECIFICATION FairSpec
INVARIANTS NothingLeaks
PROPERTIES TypesTheScript Ends
