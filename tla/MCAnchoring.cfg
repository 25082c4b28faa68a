SPECIFICATION FairSpec
CONSTANTS
    e1 = e1
    e2 = e2
    e3 = e3
    g1 = g1
    g2 = g2
    Entries <- Older
    Existing <- First
    Gateways <- Two
    Backends <- Both
    BatchSize = 2
    MaxFaults = 2
    NoProof = NoProof
CHECK_DEADLOCK FALSE
INVARIANTS
    TypeOK
    LinkedByOne
    DoubleAnchoringBounded
    LostRootsExplained
    ReceiptsHold
PROPERTY
    EveryEntryAnchored
