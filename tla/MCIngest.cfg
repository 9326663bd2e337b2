SPECIFICATION Spec
CONSTANTS
    ev1 = ev1
    ev2 = ev2
    ev3 = ev3
    Events = {ev1, ev2, ev3}
    OccurredAt <- MCOccurredAt
    Prompt = {ev2, ev3}
    PageSize = 1
    Lag = 1
    Window = 3
    Overlaps = {1, 2}
    Interval = 1
    Sweeps <- MCSweeps
    Activated = 0
    MaxRequests = 2
    RetryBase = 1
    MaxDelay = 2
    PermanentDelay = 2
    RetryAfters = {2}
    MaxFailures = 2
    Skews = {0, 1}
    MaxTime = 5
    MaxFaults = 1
INVARIANTS
    NothingMissedBehindCursor
    StartNeverRefused
    LedgerAcceptedAtStartup
PROPERTIES
    CompletedRunIsComplete
    WindowsLeaveNoGap
    NormalGetsItsTurnOnSteadyClock
CHECK_DEADLOCK FALSE
