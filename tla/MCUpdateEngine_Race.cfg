SPECIFICATION Spec
CONSTANTS
    MaxPriority = 2
    MaxTries = 4
    Builds <- EitherMacro
    Devices <- ABDevices
    Requests <- SlotLines
    Faults <- NoFaults
    BadReleases <- NoneBad
    Concurrent = TRUE
    MaxRuns = 1
    MaxCuts = 0
PROPERTIES
    ActivationTakesEffect
