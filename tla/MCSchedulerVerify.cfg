\* One order: does a successful verifyOrder mean that the order was reconciled?
SPECIFICATION Spec
CONSTANTS
    o1 = o1
    Orders <- OneOrder
    Positions = 2
    BatchSize = 1
    MaxPerRun = 1
    MaxRetries = 1
    MaxFaults = 2
INVARIANTS
    VerifySound
CHECK_DEADLOCK FALSE
