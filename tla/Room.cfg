CONSTANTS
    owner = owner
    ann = ann
    c1 = c1
    c2 = c2
    Pubkey <- MCPubkey
    Owner = owner
    Conn <- MCConn
    Message <- MCMessage
    Imported <- MCImported
    Idle = 3
    SampleInterval = 2
    Backlog = 1
    MinOccupants = 2
    FutureSkew = 1
    SweepBatch = 1
    FirstNow = 2
    MaxNow = 6
    MaxSays = 2
SPECIFICATION FairSpec
INVARIANTS
    TypeOK
    SweptStaysSwept
PROPERTIES
    SweepsConversationsOnly
    ConversationLeaves
