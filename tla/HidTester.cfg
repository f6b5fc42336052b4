SPECIFICATION Spec
CONSTANTS
  Threads = {t1, t2}
  Sockets = {s1, s2, s3, s4}
  Chars = {49, 65, 97}
  Null = Null
  MaxRuns = 3
  Backlog = 2
  NoClient = NoClient
  Ended = Ended
SYMMETRY Symmetry
CHECK_DEADLOCK FALSE
INVARIANTS AllClosed NoStuckKey ReaderWoken ServerReleased
