------------------------------- MODULE Config -------------------------------
(***************************************************************************)
(* internal/config: the environment the process is started in, and the     *)
(* configuration config.Load makes of it or refuses to make.               *)
(*                                                                         *)
(* An environment maps each variable to its text, "" when it is not set.   *)
(* What the libraries make of a text (a number, an address, a key) is a    *)
(* constant function on the texts that occur; a text outside its domain is *)
(* one the library refuses.  Which of several complaints is reported first *)
(* is left out, and so are the texts that are passed on unread.            *)
(***************************************************************************)
EXTENDS Integers

CONSTANTS
    Address,             \* hex text -> address: common.HexToAddress
    HexBytes,            \* texts hexutil.Decode reads, once ensure0x has put 0x first
    Lower,               \* text with capitals -> the text in lower case
    PublicKeys,          \* texts that solana.PublicKeyFromBase58 reads
    PrivateKeys,         \* texts that crypto.HexToECDSA reads, less the 0x
    Slashes,             \* texts of nothing but slashes
    ParseInt,            \* text -> integer
    ParseBool,           \* text -> truth value
    ParseFloat,          \* text -> "negative", "zero", "positive", "inf", "nan"
    UsdcByChain,         \* chain id -> USDC contract
    NameByChain,         \* chain id -> EIP-712 name of the contract
    RpcByChain,          \* chain id -> node
    SolanaRpcByCluster   \* cluster -> node

ASSUME ConfigAssumption ==
    /\ \A s \in DOMAIN ParseBool : ParseBool[s] \in BOOLEAN
    /\ \A s \in DOMAIN ParseInt : ParseInt[s] \in Int
    /\ \A id \in DOMAIN NameByChain : NameByChain[id] # ""

\* The settings that must be positive, with their defaults.
Limits == [CACHE_TTL_SECS |-> 300, SIG_TIMEOUT_SECS |-> 120,
           UPSTREAM_TIMEOUT_SECS |-> 300, SHUTDOWN_TIMEOUT_SECS |-> 10,
           MAX_BODY_BYTES |-> 4194304]

\* strings.ToLower
ToLower(s) == IF s \in DOMAIN Lower THEN Lower[s] ELSE s

\* common.IsHexAddress: forty digits, with 0x or 0X in front or without.
IsHexAddress(s) == s \in DOMAIN Address

envStr(e, k, def) == IF e[k] # "" THEN e[k] ELSE def

\* envInt, envInt64, envBool and envFloat: the value, where there is one, ...
EnvValue(e, k, parse, def) == IF e[k] # "" THEN parse[e[k]] ELSE def

\* ... and whether there is one.
EnvParses(e, k, parse) == e[k] = "" \/ e[k] \in DOMAIN parse

paymentChain(e) == ToLower(envStr(e, "PAYMENT_CHAIN", "evm"))

chainID(e) == EnvValue(e, "CHAIN_ID", ParseInt, 84532)

dryRun(e) == EnvValue(e, "DRY_RUN", ParseBool, FALSE)

markup(e) == EnvValue(e, "MARKUP", ParseFloat, "positive")

limit(e, k) == EnvValue(e, k, ParseInt, Limits[k])

ByChain(table, id, def) == IF id \in DOMAIN table THEN table[id] ELSE def

\* The contract is known for some chains, and only used on EVM.
usdcAddr(e) ==
    IF e["USDC_ADDRESS"] = "" /\ paymentChain(e) = "evm"
        THEN ByChain(UsdcByChain, chainID(e), "")
        ELSE e["USDC_ADDRESS"]

usdcName(e) == envStr(e, "USDC_NAME", ByChain(NameByChain, chainID(e), "USD Coin"))

solanaCluster(e) == ToLower(envStr(e, "SOLANA_CLUSTER", "devnet"))

\* An EVM chain without an entry falls back to the node of Base Sepolia.
rpcURL(e) ==
    envStr(e, "RPC_URL",
           IF paymentChain(e) = "solana"
               THEN ByChain(SolanaRpcByCluster, solanaCluster(e), "")
               ELSE ByChain(RpcByChain, chainID(e), RpcByChain[84532]))

confirmation(e) == envStr(e, "SOLANA_CONFIRMATION", "confirmed")

\* The CAIP-2 name: a namespace and a reference in it.
paymentNetwork(chain, id, cluster) ==
    IF chain = "solana" THEN [space |-> "solana", cluster |-> cluster]
                        ELSE [space |-> "eip155", id |-> id]

Readable(e) ==
    /\ EnvParses(e, "CHAIN_ID", ParseInt)
    /\ EnvParses(e, "DRY_RUN", ParseBool)
    /\ EnvParses(e, "MARKUP", ParseFloat)
    /\ \A k \in DOMAIN Limits : EnvParses(e, k, ParseInt)

EvmTargets(e) ==
    /\ IsHexAddress(e["PAY_TO_ADDRESS"])
    /\ IsHexAddress(usdcAddr(e))
    /\ usdcAddr(e) \in HexBytes

SolanaTargets(e) ==
    /\ e["PAY_TO_ADDRESS"] \in PublicKeys
    /\ usdcAddr(e) \in PublicKeys
    /\ rpcURL(e) # ""
    /\ confirmation(e) \in {"confirmed", "finalized"}

LimitsPositive(e) == \A k \in DOMAIN Limits : limit(e, k) > 0

\* A key is needed where this process pays the gas.
GasKeyUsable(e) ==
    ~dryRun(e) /\ paymentChain(e) = "evm" => e["GAS_PRIVATE_KEY"] \in PrivateKeys

\* Load returns no error.
Accepted(e) ==
    /\ Readable(e)
    /\ e["UPSTREAM_URL"] \notin Slashes \cup {""} /\ e["UPSTREAM_TOKEN"] # ""
    /\ \/ paymentChain(e) = "evm" /\ EvmTargets(e)
       \/ paymentChain(e) = "solana" /\ SolanaTargets(e)
    /\ LimitsPositive(e)
    /\ markup(e) = "positive"
    /\ GasKeyUsable(e)

\* The configuration, of an environment that is accepted.
Load(e) == [chain      |-> paymentChain(e),
            payTo      |-> e["PAY_TO_ADDRESS"],
            gasKey     |-> e["GAS_PRIVATE_KEY"],
            chainID    |-> chainID(e),
            network    |-> paymentNetwork(paymentChain(e), chainID(e), solanaCluster(e)),
            rpc        |-> rpcURL(e),
            usdc       |-> usdcAddr(e),
            name       |-> usdcName(e),
            version    |-> envStr(e, "USDC_VERSION", "2"),
            sigTimeout |-> limit(e, "SIG_TIMEOUT_SECS"),
            dryRun     |-> dryRun(e)]
=============================================================================
