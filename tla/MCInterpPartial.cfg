CONSTANTS
    ByteBits = 2
    Programs = {"partial"}
    Instrs <- MCInstrs
    Length <- MCLength
    RegValues <- MCRegValues
    Counts <- MCCounts
    InitFlags <- MCInitFlags
    Slots <- MCSlots
SPECIFICATION Spec
INVARIANTS
    UpperBytesKept
