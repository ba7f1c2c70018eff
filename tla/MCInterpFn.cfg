CONSTANTS
    ByteBits = 2
    Programs <- MCAgreeing
    Instrs <- MCInstrs
    Length <- MCLength
    RegValues <- MCRegValues
    Counts <- MCCounts
    InitFlags <- MCInitFlags
    Slots <- MCSlots
SPECIFICATION Spec
INVARIANTS
    IRAgrees
