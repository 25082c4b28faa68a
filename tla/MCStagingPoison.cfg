SPECIFICATION FairSpec
CONSTANTS
    Records <- PoisonRows
    Files <- OneFile
    Content <- Poison
    Unreadable = {}
    OtherBatches <- NoOthers
    Handlers <- Two
    BatchSize = 2
    MaxBatch = 2
    MaxErrors = 0
    MaxTimeouts = 0
    NoFile = NoFile
CHECK_DEADLOCK FALSE
PROPERTY
    EveryFileMoved
