SPECIFICATION Spec
CONSTANTS
    Commands <- Wipe
    Packages <- NoPackages
    BcbCap = 8
    WriteBack = TRUE
    Faults <- NoFaults
    SdCards <- NoCard
    MaxCuts = 2
    MaxRequests = 2
INVARIANTS
    DamageIsReported
\* The main system may stop asking and the power may stay on.
CHECK_DEADLOCK FALSE
