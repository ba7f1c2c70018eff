SPECIFICATION Spec
CONSTANTS
  Threads = {t1, t2}
  Objects <- MCObjects
  Size <- MCSize
  Addr <- MCAddr
  AlwaysLockFree = {1}
  SpinlockBits = 1
  HashShift = 1
  Calls <- MCCalls
INVARIANTS
  MutualExclusion
PROPERTIES
  IsAtomic
  LocksReleased
