CONSTANTS
    timer = timer
    viewer = viewer
    forumpay = forumpay
    match2pay = match2pay
    beem = beem
    other = other
    Tabs <- TwoTabs
    Floor = 4
    ForcedFloor = 2
    MaxFaults = 2
    Connections <- Four
    Budget = 2
    FailCost = 1
    Slowest = 4
    KillAt = 4
    MaxFailures = 1
    MaxVerifications = 4
    Nameless = {2}
    Unanswered = {3}
    EnrichLimit = 3
    MaxSlow = 2

SPECIFICATION SchedulesSpec
INVARIANTS NeverFresherThanData
PROPERTIES RunsSpaced GateKeepsPolling RotationStarvesNone EnrichReachesAll
