SPECIFICATION Spec
CONSTANTS
  Keys = {k1, caps}
  CapsLock = caps
  NoKey = NoKey
  NoButton = NoButton
  RightModifiers = {"rshift"}
  PipeCapacity = 1
CHECK_DEADLOCK FALSE
INVARIANTS OtherKeyReleases
