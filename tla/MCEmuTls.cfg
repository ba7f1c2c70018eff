SPECIFICATION Spec
CONSTANTS
  Threads = {t1, t2}
  Controls <- MCControls
  SizeOf <- MCSizeOf
  AlignOf <- MCAlignOf
  Blocks = {4, 30}
  PtrSize = 4
  HeaderWords = 2
  RoundWords = 3
  SkipRounds = 1
  DestructorRounds = 4
  OtherRounds = 2
  None = None
INVARIANTS
  IndexesUnique
  AddressStable
  ObjectsOwned
  SlotInArray
  AlignedInside
  KeyReady
PROPERTIES
  IndexStays
  CallsReturn
CHECK_DEADLOCK FALSE
