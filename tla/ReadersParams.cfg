CONSTANTS
    owner = owner
    ann = ann
    c1 = c1
    live = live
    Group <- ManyGroups
    MaxFilterLimit = 500
    MaxFilterRowsRead = 10000
    MaxQueryBoundParams = 90
    TagScanDepth = 5
    Pubkey <- MCPubkey
    Owner = owner
    Conn = {c1}
    LiveFeed = {live}
    Event <- OneEvent
    Frame <- ById
    SubId = {"a"}
    MaxSubs = 10
    MaxFilters = 10
    MaxScopedGroups = 16
    MaxEventsPerReq = 500
    CacheMax = 10000
    MaxHeld = 200
    SqliteParams = 100
    MaxNow = 0
    MaxReqs = 1
SPECIFICATION Spec
INVARIANTS
    QueriesFit
