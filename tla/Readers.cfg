CONSTANTS
    owner = owner
    ann = ann
    c1 = c1
    live = live
    Group = {"_", "club"}
    MaxFilterLimit = 2
    MaxFilterRowsRead = 20
    MaxQueryBoundParams = 10
    TagScanDepth = 1
    Pubkey <- MCPubkey
    Owner = owner
    Conn = {c1}
    LiveFeed = {live}
    Event <- MCEvent
    Frame <- MCFrame
    SubId = {"a"}
    MaxSubs = 1
    MaxFilters = 2
    MaxScopedGroups = 2
    MaxEventsPerReq = 2
    CacheMax = 2
    MaxHeld = 4
    SqliteParams = 20
    MaxNow = 1
    MaxReqs = 1
SPECIFICATION Spec
INVARIANTS
    TypeOK
    AnswersAreRight
PROPERTIES
    HeardIfAskedAgain
