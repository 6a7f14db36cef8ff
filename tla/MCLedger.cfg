SPECIFICATION Spec
CONSTANTS
    org = org
    agent = agent
    shop = shop
    usd = usd
    tok = tok
    eur = eur
    m1 = m1
    m2 = m2
    m3 = m3
    c1 = c1
    c2 = c2
    NoParent = NoParent
    NoIssuer = NoIssuer
    MAX_DEPTH = 2
    MandateIds = {m1, m2, m3}
    ChannelIds = {c1, c2}
    Requests <- MCRequests
    Opens <- OpenSome
    Accounts <- MCAccounts
    Assets <- MCAssets
    GenesisAccounts = {org, agent}
    GenesisAssets = {usd, tok}
    alloc <- MCAlloc
    issuer <- MCIssuer
    policy <- MCPolicy
    fee_asset = usd
    fee_micro = 1
    fee_from = 2
    mandate_asset_from = 2
    payword_cap_from = 2
    MAX_SETTLE_DELTA = 1
    MAX_CHANNEL_STEPS = 2
    AMOUNT_MAX = 4
    Amounts = {2}
    MaxHeight = 2
    MaxTime = 1
CONSTRAINT
    OneSubject
CHECK_DEADLOCK FALSE
INVARIANTS Conservation EscrowBacked
PROPERTIES FrozenMovesNothing DrawsInRootAsset ImplementsMandateTree
