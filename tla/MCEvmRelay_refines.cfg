\* The EVM relay implements the relay, with its fairness; a cost of zero, dry runs, a crash.
CONSTANTS
    Handlers = {h1, h2}
    ReqIds = {r1}
    Costs = {0, 1}
    Auths = {a1}
    TxHashes <- EvmHashes
    TTL = 1
    SweepPeriod = 1
    PayTimeout = 1
    DrainTimeout = 1
    MaxCrashes = 1
    SigLife = 1
    MaxTxs = 2
    DryRuns = {FALSE, TRUE}
    None = None
SPECIFICATION EvmSpec
INVARIANT EvmInv
PROPERTIES
    Spec
    DryRunStaysLocal
