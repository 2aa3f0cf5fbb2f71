SPECIFICATION Spec
CONSTANTS
    Script <- TwoFiles
    Kinds <- AnyKinds
    SrcSize <- TwoUnits
    TgtSize <- TwoUnits
    SysSizes <- TightOrWide
    CacheSizes <- OneOrTwoCopies
    Junk <- SomeJunk
    Open <- OpenLog
    Hashes <- WithOrWithout
    Faults <- AllFaults
    WriteBacks <- EarlyOrLate
    MaxMishaps = 3
INVARIANTS
    NothingLost
    CheckedIsPatched
PROPERTIES
    Idempotent
    RestartFinishes
\* The script is not started again when it is done.
CHECK_DEADLOCK FALSE
