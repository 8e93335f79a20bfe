CONSTANTS
    owner = owner
    friend = friend
    onetime = onetime
    relay = relay
    Pubkey <- MCPubkey
    Owner = owner
    RelayPubkey = relay
    Event <- LiveEvent
    History <- NoteOnly
    Misfiled = {}
    VanishRequest <- MCVanishRequest
    ModeratedId <- MCModerated
    MaxNow = 2
    MaxAllows = 1
    FutureSkew = 0
    MaxGiftWraps = 2
    ChatBatch = 1
    SweepBatch = 1
    VanishBatch = 1
SPECIFICATION FairSpec
PROPERTIES
    VanishCompletes
    LapsedMailLeaves
