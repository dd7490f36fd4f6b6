\* Liveness: two payments for one response, finality required.
CONSTANTS
    Handlers = {h1, h2}
    ReqIds = {r1}
    Costs = {1}
    Txs = {t1}
    TxHashes <- SolHashes
    Bodies <- Documented
    TTL = 1
    SweepPeriod = 1
    PayTimeout = 1
    DrainTimeout = 1
    MaxCrashes = 1
    Commitment = "finalized"
    DryRuns = {FALSE}
    MayHangUp = FALSE
    None = None
SPECIFICATION SolSpec
PROPERTIES
    Spec
    SettleReturnsInTime
