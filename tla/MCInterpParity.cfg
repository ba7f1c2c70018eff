CONSTANTS
    ByteBits = 2
    Programs = {"parity"}
    Instrs <- MCInstrs
    Length <- MCLength
    RegValues <- MCRegValues
    Counts <- MCCounts
    InitFlags <- MCInitFlags
    Slots <- MCSlots
SPECIFICATION Spec
INVARIANTS
    ParityFlagCaptured
