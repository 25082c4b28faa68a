SPECIFICATION Spec
CONSTANTS
    s1 = s1
    s2 = s2
    s3 = s3
    Sessions <- TwoSessions
    Entries <- RaceEntries
    CommitmentForms <- Forms
    CommitmentIds <- Ids
    Institutions <- Moh
    Rows <- UsdRows
    NoEntry = NoEntry
    NoKey = NoKey
    NoCommitment = NoCommitment
INVARIANT NeverOverSettled
