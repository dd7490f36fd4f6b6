\* Two handlers, two responses and one transaction that may name either.
CONSTANTS
    Handlers = {h1, h2}
    ReqIds = {r1, r2}
    Costs = {0, 1}
    Txs = {t1}
    TxHashes <- SolHashes
    Bodies <- AllBodies
    TTL = 1
    SweepPeriod = 1
    PayTimeout = 1
    DrainTimeout = 1
    MaxCrashes = 0
    Commitment = "confirmed"
    DryRuns = {FALSE, TRUE}
    MayHangUp = TRUE
    None = None
SPECIFICATION SolSafeSpec
SYMMETRY Symmetry
INVARIANTS
    BookedIsConfirmed
    BookedIsOwn
    SentIsQuoted
    SolInv
PROPERTY DryRunStaysLocal
