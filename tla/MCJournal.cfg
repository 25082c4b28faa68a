SPECIFICATION Spec
CONSTANTS
    s1 = s1
    s2 = s2
    s3 = s3
    Sessions <- ThreeSessions
    Entries <- GeneralEntries
    CommitmentForms <- Forms
    CommitmentIds <- Ids
    Institutions <- Moh
    Rows <- UsdRows
    NoEntry = NoEntry
    NoKey = NoKey
    NoCommitment = NoCommitment
SYMMETRY SessionSymmetry
INVARIANTS
    TypeOK
    StocksMatchFlows
    PostedOnce
    AuditComplete
    LockExclusion
    TruthfulAnswers
PROPERTIES
    NoLostUpdate
    ClosedStaysClosed
