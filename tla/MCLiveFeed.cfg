CONSTANTS
    poll = poll
    hook = hook
    desk = desk
    Writers <- WriterSet
    Viewers <- ViewerSet
    Limit = 2
    IdsPerTick = 2
    MaxTick = 2
    MaxFaults = 1

SPECIFICATION FairSpec
INVARIANTS NothingRepeated MissedOnlyIfLate
PROPERTIES NewRowsShown
