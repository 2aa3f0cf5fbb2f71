SPECIFICATION Spec
CONSTANTS
    Commands <- FileCommands
    Packages <- OnePackage
    BcbCap = 8
    WriteBack = FALSE
    Faults <- TransferFaults
    SdCards <- NoCard
    MaxCuts = 1
    MaxRequests = 2
INVARIANTS
    EraseOnlyIfOwed
    
\* The main system may stop asking and the power may stay on.
CHECK_DEADLOCK FALSE
