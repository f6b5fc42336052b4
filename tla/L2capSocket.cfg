SPECIFICATION FairSpec
CONSTANTS
  Threads = {t1, t2}
  Fds = {3}
  Devices = {d1, d2}
  NoDevice = NoDevice
  MaxInbox = 1
  MaxOutbox = 1
  MaxInterrupts = 1
INVARIANTS MutualExclusion OneDescriptor RemoteDeviceIsTrue ConnectedHasStreams OnePermitPerInterrupt
PROPERTIES DescriptorStable LockReturned ImplementsChannel
