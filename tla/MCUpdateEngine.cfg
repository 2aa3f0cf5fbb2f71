SPECIFICATION FairSpec
CONSTANTS
    MaxPriority = 2
    MaxTries = 4
    Builds <- EitherMacro
    Devices <- BothDevices
    Requests <- Lines
    Faults <- AllFaults
    BadReleases <- FirstIsBad
    Concurrent = FALSE
    MaxRuns = 3
    MaxCuts = 2
INVARIANTS
    TypeOK
    AlwaysComesBack
    FinishedIsWritten
PROPERTIES
    RecoveryIsKept
    ActivationTakesEffect
    ComesUp
