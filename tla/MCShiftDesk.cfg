CONSTANTS
    agent = agent
    manager = manager
    nobody = nobody
    Agents <- People
    Managers <- Bosses
    Nobody = nobody
    TicksPerDay = 6
    HandoverSlots <- Handovers
    Templates = 1
    MaxTime = 6
    MaxShifts = 2
    MaxTasks = 1
    MaxEnds = 2
    MaxTaskRequests = 2

SPECIFICATION Spec
INVARIANTS OneShiftOpen NumbersFollow DoneIsSigned
PROPERTIES ReceiptIsTrue ClosedOverNothing
