SPECIFICATION Spec
CONSTANTS
    Commands <- NoCommands
    Packages <- BothPackages
    BcbCap = 8
    WriteBack = TRUE
    Faults <- HonestFaults
    SdCards <- NoCard
    MaxCuts = 2
    MaxRequests = 3
INVARIANTS
    RestartsSameCommand
    DamageIsReported
\* The main system may stop asking and the power may stay on.
CHECK_DEADLOCK FALSE
