\* Scans that fail, storage that fails, one crash, a clock set back by one unit.
SPECIFICATION LiveSpec
CONSTANTS
    Intervals = {1, 2}
    MinInterval = 1
    RetryAfters = {2}
    PermanentDelay = 2
    MaxRetry = 2
    StorageRetry = 1
    Horizon = 3
    MaxFailures = 2
    MaxFaults = 1
    ClockSteps <- MCClockSetBack
INVARIANTS
    OneOwner
PROPERTIES
    ProviderLeftAlone
    WaitersAnswered
    ScansContinue
