\* Two concurrent handlers, two ids, two prices, drains that expire.
CONSTANTS
    Handlers = {h1, h2}
    ReqIds = {r1, r2}
    Costs = {1, 2}
    TxHashes = {t1, t2}
    TTL = 2
    SweepPeriod = 1
    PayTimeout = 1
    DrainTimeout = 1
    MaxCrashes = 0
    None = None
SPECIFICATION SafeSpec
SYMMETRY Symmetry
INVARIANTS
    QuoteIsCharged
    ServedIsUnstaged
    ServedIsRecorded
    SettlementWindow
    ResidencyBound
    Inv
PROPERTY DeliverySafe
