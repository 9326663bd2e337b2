\* One EasyPay confirmation, up to two attempts, one replay, three disturbances.
SPECIFICATION Spec
CONSTANTS
    e1 = e1
    e2 = e2
    r1 = r1
    Events <- OneEvent
    SiteCount = 1
    SiteOf <- OneSiteOf
    FormatOf <- OneFormatOf
    TypeOf <- OneTypeOf
    Limits = {1, 2}
    BatchLimit = 1
    RunBudget = 2
    Replays = {r1}
    MaxDisturbances = 3
INVARIANTS
    HeldLeaseStands
    DeliveriesAcceptedAtStartup
    AcknowledgedWasReceived
PROPERTIES
    OnlyTheConnectingStillLeave
