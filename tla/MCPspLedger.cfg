CONSTANTS
    cron = cron
    page = page
    Runs <- RunSet
    Modes = {TRUE, FALSE}
    PageSize = 2
    MaxPages = 3
    Backlog = 6
    MaxFeed = 6
    MaxEvents = 1

SPECIFICATION LedgerSpec
INVARIANTS EndIsWhole
PROPERTIES FirstPageCurrent
