SPECIFICATION Spec
CONSTANTS
    Settings <- MCSettings
    auth_commit <- MCAuth
    OwnKeys <- MCKeys
    Senders = {"a", "b"}
    Channels = {"c"}
    cap = 3
    NONCE_WINDOW = 2
    MAX_TXS_PER_BLOCK = 2
    MAX_SETTLE_DELTA = 2
    MAX_CHANNEL_STEPS = 3
    MAX_SETTLE_LINKS_PER_BLOCK = 3
    Workers = {"w1"}
    ForeignMax = 1
    WalMax = 3
    Crashes = 2
    TornWrites = TRUE
    DiskFails = TRUE
CHECK_DEADLOCK FALSE
INVARIANTS IndexesMirrorQueue HeldByOwner
PROPERTIES NothingParks AcceptedHoldsSlot
