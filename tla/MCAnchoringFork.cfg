SPECIFICATION Spec
CONSTANTS
    e1 = e1
    e2 = e2
    e3 = e3
    g1 = g1
    g2 = g2
    Entries <- Three
    Existing <- First
    Gateways <- Two
    Backends <- Log
    BatchSize = 2
    MaxFaults = 0
    NoProof = NoProof
CHECK_DEADLOCK FALSE
INVARIANT
    LogLinked
