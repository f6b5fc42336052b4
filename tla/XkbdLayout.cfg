SPECIFICATION Spec
CONSTANTS
  Files <- MCFiles
  Lines <- MCLines
  WindowSizes <- MCWindows
  CharHeight = 1
  RoundedDown <- MCRoundedDown
  MaxPolls = 3
  MaxOvertaken = 1
CHECK_DEADLOCK FALSE
INVARIANTS ContextIsInnermost KeysTileTheWindow DrawnAgrees RepeatsAfterDelay
