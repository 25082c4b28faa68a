SPECIFICATION FairSpec
CONSTANTS
    Records <- MixedRows
    Files <- TwoFiles
    Content <- Mixed
    Unreadable = {"f2"}
    OtherBatches <- Foreign
    Handlers <- Two
    BatchSize = 1
    MaxBatch = 4
    MaxErrors = 1
    MaxTimeouts = 1
    NoFile = NoFile
CHECK_DEADLOCK FALSE
INVARIANTS
    TypeOK
    ProcessedIsStaged
    PostedIsInJournal
    QuarantineIsExplained
    UnreportedExplained
    RowRecordsOutcome
PROPERTIES
    EveryFileMoved
