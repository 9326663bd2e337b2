\* Two websites with one event each, no replay, one disturbance.
SPECIFICATION Spec
CONSTANTS
    e1 = e1
    e2 = e2
    r1 = r1
    Events <- TwoEvents
    SiteCount = 2
    SiteOf <- MCSiteOf
    FormatOf <- MCFormatOf
    TypeOf <- MCTypeOf
    Limits = {1, 2}
    BatchLimit = 1
    RunBudget = 1
    Replays = {}
    MaxDisturbances = 1
PROPERTIES
    EveryEventConcluded
