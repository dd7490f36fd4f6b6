\* Two handlers, two responses of one cost, one authorization, two transactions.
CONSTANTS
    Handlers = {h1, h2}
    ReqIds = {r1, r2}
    Costs = {1}
    Auths = {a1}
    TxHashes <- EvmHashes
    TTL = 1
    SweepPeriod = 1
    PayTimeout = 1
    DrainTimeout = 1
    MaxCrashes = 0
    SigLife = 1
    MaxTxs = 2
    DryRuns = {FALSE}
    None = None
SPECIFICATION ServingSpec
SYMMETRY Symmetry
INVARIANTS
    BroadcastIsQuoted
    BookedIsOwn
    BookedOnce
