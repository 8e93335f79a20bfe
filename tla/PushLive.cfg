CONSTANTS
    Pubkey <- MCPubkey
    Member <- MCPubkey
    Devices = 2
    Subscriber <- AnnsDevices
    Trigger <- CatsTrigger
    Slot <- MCSlot
    MaxPerPubkey = 1
    MaxPerTick = 1
    MaxPerNotification = 1
    Delay = 1
    Lifetime = 2
    MaxRestarts = 1
SPECIFICATION FairSpec
INVARIANTS
    QueueHasAlarm
    LiveFeedHasAlarm
PROPERTIES
    QueueDrains
