SPECIFICATION FairSpec
CONSTANTS
  Threads = {t1, t2}
  Fds = {3}
  Devices = {d1}
  NoDevice = NoDevice
  MaxInbox = 1
  MaxOutbox = 1
  MaxInterrupts = 0
PROPERTIES CloseUnblocks
