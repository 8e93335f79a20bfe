CONSTANTS
    owner = owner
    friend = friend
    onetime = onetime
    relay = relay
    Pubkey <- MCPubkey
    Owner = owner
    RelayPubkey = relay
    Event <- MCEvent
    History <- MCHistory
    Misfiled <- MCMisfiled
    VanishRequest <- MCVanishRequest
    ModeratedId <- MCModerated
    MaxNow = 2
    MaxAllows = 1
    FutureSkew = 0
    MaxGiftWraps = 1
    ChatBatch = 1
    SweepBatch = 1
    VanishBatch = 1
SPECIFICATION Spec
INVARIANTS
    TypeOK
    TombstoneKeepsOut
    OneVersion
    InboxWithinCap
PROPERTIES
    LifecycleSpec
    RemovedByRight
    VanishKeepsItsWord
