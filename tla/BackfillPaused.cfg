CONSTANTS
    owner = owner
    stranger = stranger
    relay = relay
    first = first
    second = second
    Pubkey <- MCPubkey
    Owner = owner
    RelayPubkey = relay
    Event <- MCEvent
    Url <- MCUrl
    OwnUrl = 3
    History <- MCHistory
    WriteRelays <- MCWriteRelays
    Deletable <- MCDeletable
    SeedTime = 3
    PageSize <- MCPageSize
    Malformed <- MCMalformed
    Invocation <- One
    MaxFaults = 0
    MaxStoreFaults = 1
SPECIFICATION FairSpec
PROPERTIES
    PauseEnds
