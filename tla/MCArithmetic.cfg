SPECIFICATION Spec
CONSTANTS
  OperandTypes <- MCTypes
  Operands <- MCOperands
  WidthLimit = 16
  Half <- MCHalf
  Single <- MCSingle
  Double <- MCDouble
  Quad <- MCQuad
  FloatTypes <- MCFloatTypes
  First <- MCFirst
  Second <- MCSecond
  PowMax = 6
  IntBits = 12
INVARIANTS
  DivisionExact
  TrapIffOverflow
  WordsExact
  ArithmeticExact
  ConversionsExact
  CompositesExact
