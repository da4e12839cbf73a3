CONSTANTS
    Clients = {c1, c2}
    Ticker = Ticker
    Broadcast = Broadcast
    MaxStatuses = 2
SPECIFICATION FairFeedSpec
CHECK_DEADLOCK FALSE
INVARIANT FeedTypeOK
INVARIANT MembersHaveTicker
PROPERTY SnapshotsMoveForward
PROPERTY ClientsCatchUp
