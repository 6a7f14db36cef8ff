SPECIFICATION Spec
CONSTANTS
    m1 = m1
    m2 = m2
    m3 = m3
    usd = usd
    a1 = a1
    NoParent = NoParent
    MandateIds <- MCIds
    Accounts = {a1}
    Assets = {usd}
    Requests <- MCRequests
    Amounts = {1, 2}
    MAX_DEPTH = 3
    MaxTime = 2
CHECK_DEADLOCK FALSE
INVARIANTS EnvelopeBound WindowBound AvailableIsExact
PROPERTIES WholeChainPays NeverWidened
