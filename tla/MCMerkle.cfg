SPECIFICATION Spec
CONSTANTS
    Headers = {1, 2, 3, 4}
    LineTexts = {1, 2, 3}
    MaxLines = 3
    MaxBatch = 17
CHECK_DEADLOCK FALSE
INVARIANTS
    Complete
    VerifiersAgree
    RootBinds
    HashIsContent
