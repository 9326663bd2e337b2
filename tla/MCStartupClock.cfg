SPECIFICATION RSpec
CONSTANTS
    o1 = o1
    o2 = o2
    e1 = e1
    e2 = e2
    d1 = d1
    d2 = d2
    s1 = s1
    a1 = a1
    k1 = k1
    k2 = k2
    NoOrder = NoOrder
    NoEntry = NoEntry
    Orders = {o1, o2}
    Sites = {s1}
    Accounts = {a1}
    Requests <- TwoRequests
    Ttls = {1}
    Cooldowns = {1}
    Observation = 9
    KeyRotation = 9
    MaxOffset = 1
    MaxPayable = 2
    PendingLimit = 2
    SweepLimit = 1
    MaxClockAhead = 0
    MaxTime = 2
    Entries = {e1, e2}
    Statements <- TwoTimes
    Decisions = {d1}
    Precision = 1
    SafetyLag = 1
    LateAttribution = 1
    MaxConflicts = 1
INVARIANTS
    CandidatesStayAcceptable
CHECK_DEADLOCK FALSE
