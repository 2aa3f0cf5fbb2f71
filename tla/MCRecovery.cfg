SPECIFICATION Spec
CONSTANTS
    Commands <- EraseCommands
    Packages <- BothPackages
    BcbCap = 8
    WriteBack = FALSE
    Faults <- HonestFaults
    SdCards <- NoCard
    MaxCuts = 3
    MaxRequests = 3
INVARIANTS
    TypeOK
    RestartsSameCommand
    DamageIsReported
    SuccessIsTrue
PROPERTIES
    PackageOutlivesInstall
    ReleasedWhenDone
    OnlyFinishForgets
    ImplementsAcceptedCommand
\* The main system may stop asking and the power may stay on.
CHECK_DEADLOCK FALSE
