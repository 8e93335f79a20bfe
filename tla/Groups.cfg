CONSTANTS
    owner = owner
    ann = ann
    bob = bob
    top = top
    club = club
    c1 = c1
    c2 = c2
    Pubkey <- MCPubkey
    Owner = owner
    Group <- MCGroup
    TopLevel = top
    Code <- MCCode
    HandManaged <- Ann
    Bannable <- Bob
    MaxOutstanding = 1
    MaxTtl = 1
    MaxNow = 2
    MaxStamp = 3
SPECIFICATION Spec
INVARIANTS
    TypeOK
    ListsAreTrue
    InvitesWithinCap
    SoleGroupMayWrite
PROPERTIES
    HandGrantSurvives
    DoorSpec
SYMMETRY Codes
