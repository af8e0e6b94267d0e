CONSTANTS
    tab = tab
    cron = cron
    Invocations <- TwoInvocations
    PageSize = 1
    MaxFeed = 2
    MaxFaults = 2
    MaxStoreFailures = 1
    MaxResets = 1

SPECIFICATION FairSpec
INVARIANTS WalkCovers
PROPERTIES IsHistoryImport WalkCompletes
