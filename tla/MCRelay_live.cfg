\* Liveness: no symmetry; two handlers that retry one staged response.
CONSTANTS
    Handlers = {h1, h2}
    ReqIds = {r1}
    Costs = {1}
    TxHashes = {t1, t2}
    TTL = 1
    SweepPeriod = 1
    PayTimeout = 1
    DrainTimeout = 1
    MaxCrashes = 1
    None = None
SPECIFICATION Spec
PROPERTIES
    HandlerFinishes
    SettledIsServed
    UnpaidIsDropped
    DeliveryPromised
