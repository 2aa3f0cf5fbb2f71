SPECIFICATION Spec
CONSTANTS
    MaxDiff = 5
    Keys <- TableKeys
    Sizes <- TableSizes
    MaxTable = 8
    Files <- Packages
    EocdMark = 90
    LocalMark = 91
    Escape = 92
    Signature = 93
    FooterSize = 3
    RsaNumBytes = 1
    EocdHeaderSize = 2
    Slash = 1
    HashRange = 16
    UnzipJobs <- SomeUnzips
    WalkJobs <- SomeWalks
    Names <- SomeNames
INVARIANTS
    PatchRestoresTarget
    TableIsTheSet
    ArchiveUnpacks
    SignedIsRead
    ScriptAsDocumented
    InstallSucceeds
    LayoutSound
\* A call ends with its answer.
CHECK_DEADLOCK FALSE
