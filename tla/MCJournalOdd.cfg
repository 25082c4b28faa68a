SPECIFICATION FairSpec
CONSTANTS
    s1 = s1
    s2 = s2
    s3 = s3
    Sessions <- TwoSessions
    Entries <- OddEntries
    CommitmentForms <- OddForms
    CommitmentIds <- Ids
    Institutions <- Moh
    Rows <- AllRows
    NoEntry = NoEntry
    NoKey = NoKey
    NoCommitment = NoCommitment
INVARIANTS
    TrialBalance
    NeverOverSettled
    SettledWhenReached
PROPERTIES
    ImplementsLedger
    EveryRequestAnswered
