SPECIFICATION Spec
CONSTANTS
  Functions <- MCFunctions
  Stacks <- MCStacks
  PtrBits = 24
  IntBits = 24
INVARIANTS
  CleanupsInOrder
  WalkInStep
PROPERTIES
  UnwindingEnds
CHECK_DEADLOCK FALSE
