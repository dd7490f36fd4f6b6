\* A recorded transaction that is never mined or reverts.
CONSTANTS
    Handlers = {h1}
    ReqIds = {r1}
    Costs = {1}
    Auths = {a1}
    TxHashes <- EvmHashes
    TTL = 1
    SweepPeriod = 1
    PayTimeout = 1
    DrainTimeout = 1
    MaxCrashes = 0
    SigLife = 1
    MaxTxs = 2
    DryRuns = {FALSE}
    None = None
SPECIFICATION EvmSpec
PROPERTY RecordedIsTransferred
