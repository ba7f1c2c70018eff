CONSTANTS
    N = 3
    TranMaxReset = 3
    MaxAbortCode = 1
    AsyncCauses <- MCAsyncCauses
    CounterMod = 3
SPECIFICATION Spec
INVARIANTS
    NativeIsConcrete
    AbortsAccountedFor
PROPERTIES
    RoundInOrder
