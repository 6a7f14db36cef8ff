SPECIFICATION PoolSpec
CONSTANTS
    org = org
    usd = usd
    tok = tok
    m1 = m1
    NoParent = NoParent
    NoIssuer = NoIssuer
    NoNote = NoNote
    Legacy = Legacy
    NoPool = NoPool
    NoAsset = NoAsset
    NoAccount = NoAccount
    MAX_DEPTH = 1
    MandateIds = {m1}
    ChannelIds = {}
    Requests <- MCRequests
    Opens = {}
    Accounts <- MCAccounts
    Assets <- MCAssets
    GenesisAccounts <- MCAccounts
    GenesisAssets <- MCAssets
    alloc <- MCAlloc
    issuer <- MCIssuer
    policy <- MCPolicy
    rank <- MCRank
    fee_asset = usd
    fee_micro = 0
    fee_from = 0
    mandate_asset_from = 2
    payword_cap_from = 0
    MAX_SETTLE_DELTA = 1
    MAX_CHANNEL_STEPS = 1
    AMOUNT_MAX = 6
    Amounts = {}
    Notes <- MCNotes
    Values = {0, 1, 2, 5}
    NOTE_MAX = 3
    TREE_DEPTH = 3
    ANCHOR_WINDOW = 2
    multi_pool_from = 1
    MaxHeight = 3
    MaxTime = 0
CHECK_DEADLOCK FALSE
INVARIANTS PoolBacked PathsReachRoot FeedsFollowPools
PROPERTIES NoWayRoundThePool
