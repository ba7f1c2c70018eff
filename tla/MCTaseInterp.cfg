CONSTANTS
    N = 4
    TranMaxReset = 3
    MaxAbortCode = 1
    AsyncCauses <- MCOneCause
    CounterMod = 1
    RetryMax = 1
SPECIFICATION Spec
INVARIANTS
    TypeOK
    ExactlyOnce
    NativeIsConcrete
    NoSpeculationPastPoison
    BodyStartsIntact
    AbortedStateIntact
    AbortCodeSound
PROPERTIES
    CommittedIsFinal
    ImplementsTargetRun
    RunEnds
