CONSTANTS
    timer = timer
    viewer = viewer
    Pollers <- TwoPollers
    PageSize = 2
    MaxPages = 2
    Backlog = 3
    MaxFeed = 5
    MaxEvents = 1

SPECIFICATION IngestSpec
INVARIANTS PollAnnouncesStored RepeatsOnlyWhenRaced
PROPERTIES FirstPageStored BurstStored StoredIsAnnounced
