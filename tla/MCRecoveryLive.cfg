SPECIFICATION FairSpec
CONSTANTS
    Commands <- TwoCommands
    Packages <- OnePackage
    BcbCap = 8
    WriteBack = TRUE
    Faults <- AllButMiscWrite
    SdCards <- AllCards
    MaxCuts = 1
    MaxRequests = 2
PROPERTIES
    NoEndlessRecovery
\* The main system may stop asking and the power may stay on.
CHECK_DEADLOCK FALSE
