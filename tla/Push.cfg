CONSTANTS
    Pubkey <- MCPubkey
    Member <- MCPubkey
    Devices = 3
    Subscriber <- MCSubscriber
    Trigger <- MCTrigger
    Slot <- NoSlot
    MaxPerPubkey = 1
    MaxPerTick = 1
    MaxPerNotification = 2
    Delay = 1
    Lifetime = 2
    MaxRestarts = 1
SPECIFICATION Spec
INVARIANTS
    TypeOK
    TickWithinBudget
    PushedOnce
    FanOutBounded
PROPERTIES
    NobodyLeftOut
