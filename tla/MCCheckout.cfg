\* Starts in many environments, kills and faults, and purchases in between.
CONSTANTS
    Address <- SomeAddress
    Hex <- SomeHex
    Lower <- SomeLower
    HexBytes = {"0xUsdc", "Usdc", "0xPayee", "Payee"}
    PublicKeys = {"So1", "So2", "So3"}
    PrivateKeys = {"key"}
    Slashes = {"/"}
    ParseInt <- SomeInts
    ParseBool <- SomeBools
    ParseFloat <- SomeFloats
    UsdcByChain <- Usdcs
    NameByChain <- Names
    RpcByChain <- Rpcs
    SolanaRpcByCluster <- Clusters
    Envs <- SomeEnvs
    Databases <- SomeDatabases
    Transports = {"base", "sepolia", "node", "wss"}
    Dialable = {"base", "sepolia", "node"}
    PriceTexts = {"2.50", "junk"}
    Compiling = {"2.50"}
    MaxStarts = 2
    Wallets = {"alice", "bob"}
    SolWallets = {"So3"}
    Costs = {0, 3}
    MaxRows = 2
SPECIFICATION CheckoutSpec
INVARIANTS
    StartsUnlessFaulty
    ServesFullSchema
    SignedAsAskedIsServed
    BalanceIsAllPaid
    BooksAddUp
    CheckoutInv
PROPERTY AcceptedServes
CHECK_DEADLOCK FALSE
