SPECIFICATION Spec
CONSTANTS
    j1 = j1
    j2 = j2
    c1 = c1
    t1 = t1
    Ops = {j1, j2, c1, t1}
    Kind <- Kinds
    Others = {j2}
    Pages = {"journal", "balances", "audit", "commitments", "validation"}
    NoOp = NoOp
    MaxTurns = 3
CHECK_DEADLOCK FALSE
INVARIANTS
    TypeOK
    ConfirmedIsStored
    ReadYourWrites
