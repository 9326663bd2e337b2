\* One order with one retry; three ledger entries swept in pages of one, two per run.
SPECIFICATION Spec
CONSTANTS
    o1 = o1
    Orders <- OneOrder
    Positions = 3
    BatchSize = 1
    MaxPerRun = 2
    MaxRetries = 1
    MaxFaults = 1
INVARIANTS
    NoStrandedWork
    VerifyWaits
    StopIsFinal
PROPERTIES
    VerifyAnswered
    EveryEntryVisited
\* A stopped scheduler takes no further step.
CHECK_DEADLOCK FALSE
