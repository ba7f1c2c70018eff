CONSTANTS
    Binaries <- MCBinaries
    Functions <- MCFunctions
    NoFilter = NoFilter
SPECIFICATION Spec
INVARIANTS
    CartridgesWhole
    WritesBackItsOwn
