\* At most two orders, two accounts, conflicting requests, a wall clock that is set back.
SPECIFICATION Spec
CONSTANTS
    o1 = o1
    o2 = o2
    o3 = o3
    s1 = s1
    a1 = a1
    a2 = a2
    Orders = {o1, o2, o3}
    Sites = {s1}
    Accounts = {a1, a2}
    Requests <- MixedRequests
    Ttls = {1}
    Cooldowns = {1, 2}
    Observation = 1
    KeyRotation = 2
    MaxOffset = 1
    MaxPayable = 3
    PendingLimit = 2
    SweepLimit = 1
    MaxClockAhead = 1
    MaxTime = 4
SYMMETRY BothSymmetry
INVARIANTS
    TypeOK
    PaymentWindowsSeparated
    EndTimesConsistent
    RetryHintExact
    OneOrderPerRequest
    LinkNotRevived
PROPERTIES
    CooldownNeverRestarts
    UpdatesAccepted
\* The clock is bounded, so a behaviour ends when it is reached.
CHECK_DEADLOCK FALSE
