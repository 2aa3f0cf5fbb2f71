SPECIFICATION Spec
CONSTANTS
    NBlocks = 3
    Units = 3
    Faults <- AllFaults
    MaxMishaps = 2
    Programs <- AllPrograms
    Images <- SomeImages
    MiscValues <- TwoValues
    MaxRuns = 2
INVARIANTS
    TypeOK
    StreamInOrder
    ReadBack
    HeaderMeansRest
    MiscKept
PROPERTIES
    EveryProgramEnds
CHECK_DEADLOCK FALSE
