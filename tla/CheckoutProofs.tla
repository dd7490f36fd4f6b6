--------------------------- MODULE CheckoutProofs ---------------------------
(***************************************************************************)
(* Proofs about Startup and Checkout, for every set of environments, every *)
(* database an earlier release can have left, every spelling of addresses  *)
(* and numbers, and any number of starts and purchases.                    *)
(*                                                                         *)
(* CheckoutInv is inductive.  Its parts about a start (StartInv) need      *)
(* nothing of the purchases; a purchase and the books need to know that    *)
(* the configuration in use is one that Load accepted.                     *)
(***************************************************************************)
EXTENDS Checkout, SumLemmas

(***************************************************************************)
(* The migration                                                           *)
(***************************************************************************)

\* The statements of migrate, one by one.
LEMMA StatementList ==
  /\ DOMAIN Statements = 1..7 /\ Len(Statements) = 7
  /\ Statements[1] = "payments" /\ Statements[2] = "from_created"
  /\ Statements[3] = "network_tx_hash" /\ Statements[4] = "request_id"
  /\ Statements[5] = "settings" /\ Statements[6] = "model_prices"
  /\ Statements[7] = "cached_input"
  BY DEF Statements

\* What they create.
LEMMA ObjectList ==
  Objects = {"payments", "from_created", "network_tx_hash", "request_id",
             "settings", "model_prices", "cached_input"}
<1>1. \A i \in 1..7 : i = 1 \/ i = 2 \/ i = 3 \/ i = 4 \/ i = 5 \/ i = 6 \/ i = 7
  OBVIOUS
<1>2. ASSUME NEW x \in Objects
      PROVE  x \in {"payments", "from_created", "network_tx_hash", "request_id",
                    "settings", "model_prices", "cached_input"}
  <2>1. PICK i \in 1..7 : x = Statements[i]
    BY StatementList DEF Objects
  <2> QED
    BY <1>1, <2>1, StatementList
<1>3. \A i \in 1..7 : Statements[i] \in Objects
  BY StatementList DEF Objects
<1>4. {"payments", "from_created", "network_tx_hash", "request_id",
       "settings", "model_prices", "cached_input"} \subseteq Objects
  BY <1>3, StatementList
<1> QED
  BY <1>2, <1>4

\* The table a statement needs is created by an earlier one.
LEMMA NeedsEarlier ==
  ASSUME NEW i \in 1..7, Statements[i] \in DOMAIN Needs
  PROVE  \E j \in 1..(i - 1) : Statements[j] = Needs[Statements[i]]
<1>1. i = 1 \/ i = 2 \/ i = 3 \/ i = 4 \/ i = 5 \/ i = 6 \/ i = 7
  OBVIOUS
<1>2. /\ DOMAIN Needs = {"from_created", "network_tx_hash", "request_id", "cached_input"}
      /\ Needs["from_created"] = "payments" /\ Needs["network_tx_hash"] = "payments"
      /\ Needs["request_id"] = "payments" /\ Needs["cached_input"] = "model_prices"
  BY DEF Needs
<1>3. i \notin {1, 5, 6}
  BY <1>2, StatementList
<1>4. CASE i \in {2, 3, 4}
  <2>1. Needs[Statements[i]] = Statements[1] /\ 1 \in 1..(i - 1)
    BY <1>2, <1>4, StatementList
  <2> QED
    BY <2>1
<1>5. CASE i = 7
  <2>1. Needs[Statements[i]] = Statements[6] /\ 6 \in 1..(i - 1)
    BY <1>2, <1>5, StatementList
  <2> QED
    BY <2>1
<1> QED
  BY <1>1, <1>3, <1>4, <1>5

\* A statement of a migration that has come to it fails only of itself or
\* because the column is already there.
LEMMA NoMissingTable ==
  ASSUME NEW i \in 1..7, \A j \in 1..(i - 1) : Statements[j] \in schema,
         NEW err \in Errors(Statements[i]), err # "fault"
  PROVE  err = "none" \/ Tolerated(Statements[i], err)
<1> DEFINE s == Statements[i]
<1>1. ~(s \in DOMAIN Needs /\ Needs[s] \notin schema)
  BY NeedsEarlier
<1> HIDE DEF s
<1>2. err = "none" \/ (s = "cached_input" /\ err = "duplicate column name")
  BY <1>1 DEF Errors, s
<1> QED
  BY <1>2 DEF Tolerated, s

(***************************************************************************)
(* A start                                                                 *)
(***************************************************************************)

\* Numbers above zero, and not below.
LEMMA Positive ==
  \A n \in Int : /\ n > 0 <=> n \in Nat \ {0}
                 /\ n >= 0 <=> n \in Nat
                 /\ n < 0 <=> n \notin Nat
                 /\ n <= 0 <=> n \notin Nat \ {0}
  OBVIOUS

\* A setting that parses has an integer for its value.
LEMMA ParsedInt ==
  ASSUME NEW e, NEW k, NEW def \in Int, EnvParses(e, k, ParseInt)
  PROVE  EnvValue(e, k, ParseInt, def) \in Int
<1>1. CASE e[k] = ""
  BY <1>1 DEF EnvValue
<1>2. CASE e[k] # ""
  <2>1. e[k] \in DOMAIN ParseInt
    BY <1>2 DEF EnvParses
  <2>2. ParseInt[e[k]] \in Int
    BY <2>1, ConfigAssumption
  <2>3. EnvValue(e, k, ParseInt, def) = ParseInt[e[k]]
    BY <1>2 DEF EnvValue
  <2> QED
    BY <2>2, <2>3
<1> QED
  BY <1>1, <1>2

\* So has CHAIN_ID in an environment that is accepted.
LEMMA AcceptedId == Accepted(env) => chainID(env) \in Int
<1> SUFFICES ASSUME Accepted(env) PROVE chainID(env) \in Int
  OBVIOUS
<1>1. EnvParses(env, "CHAIN_ID", ParseInt)
  BY DEF Accepted, Readable
<1>2. EnvValue(env, "CHAIN_ID", ParseInt, 84532) \in Int
  BY <1>1, ParsedInt
<1> QED
  BY <1>2 DEF chainID

\* settler.New refuses nothing that Load has accepted but a node's URL without a
\* transport.
LEMMA AcceptedReads ==
  ASSUME Accepted(env), cfg = Load(env), Startable(env)
  PROVE  SettlerReads
<1>1. /\ cfg.chain = paymentChain(env) /\ cfg.usdc = usdcAddr(env)
      /\ cfg.payTo = env["PAY_TO_ADDRESS"] /\ cfg.gasKey = env["GAS_PRIVATE_KEY"]
      /\ cfg.dryRun = dryRun(env) /\ cfg.rpc = rpcURL(env)
  BY DEF Load
<1>2. CASE cfg.chain = "solana"
  <2>1. SolanaTargets(env)
    BY <1>1, <1>2 DEF Accepted
  <2> QED
    BY <1>1, <1>2, <2>1 DEF SolanaTargets, SettlerReads
<1>3. CASE cfg.chain # "solana"
  <2>1. paymentChain(env) = "evm" /\ GasKeyUsable(env)
    BY <1>1, <1>3 DEF Accepted
  <2>2. dryRun(env) \in BOOLEAN
    BY ConfigAssumption DEF Accepted, Readable, EnvParses, dryRun, EnvValue
  <2>3. ~dryRun(env) => rpcURL(env) \in Transports
    BY <2>1 DEF Startable
  <2> QED
    BY <1>1, <1>3, <2>1, <2>2, <2>3 DEF GasKeyUsable, SettlerReads
<1> QED
  BY <1>2, <1>3

\* An environment whose chain id the signer refuses is not startable.
LEMMA RefusedId ==
  ASSUME Accepted(env), cfg = Load(env), PaysGas, cfg.chainID <= 0
  PROVE  ~Startable(env)
<1>1. /\ cfg.chain = paymentChain(env) /\ cfg.dryRun = dryRun(env)
      /\ cfg.chainID = chainID(env)
  BY DEF Load
<1>2. chainID(env) \in Int
  BY AcceptedId
<1> QED
  BY <1>1, <1>2 DEF PaysGas, Startable

\* A step of main that finds what it reads in order.
LEMMA StepKeeps ==
  ASSUME StartInv, NEW p, NEW q, NEW ok \in BOOLEAN, Step(p, ok, q), ok,
         p \in Places \ {"down", "load", "migrate"}, q \in Places \ {"down", "load", "migrate"}
  PROVE  StartInv'
<1>1. /\ pc = p /\ pc' = q
      /\ UNCHANGED <<env, stmt, cfg, exit, starts, schema, stored, prices, faulty>>
  BY DEF Step
<1> QED
  BY <1>1 DEF StartInv, Places, MigratesInOrder, Configured, StoredIsReadable, StartsUnlessFaulty

\* Every step of main and everything that may happen to it keeps StartInv.
LEMMA NextStart ==
  ASSUME StartInv,
         \/ \E e \in Envs : Launch(e)
         \/ Boot \/ Faults \/ AdminSaves \/ Kill \/ UNCHANGED startVars
  PROVE  StartInv'
<1> USE DEF StartInv
<1>1. ASSUME NEW e \in Envs, Launch(e) PROVE StartInv'
  BY <1>1 DEF Launch, Places, MigratesInOrder, Configured, StoredIsReadable, StartsUnlessFaulty
<1>2. CASE LoadOk
  <2>1. pc' = "migrate" /\ stmt' = 1 /\ Accepted(env') /\ cfg' = Load(env')
    BY <1>2 DEF LoadOk, MigratesInOrder
  <2>2. UNCHANGED <<exit, faulty, schema, stored, prices>> /\ pc = "load"
    BY <1>2 DEF LoadOk
  <2>3. MigratesInOrder'
    BY <2>1, StatementList DEF MigratesInOrder
  <2> QED
    BY <2>1, <2>2, <2>3 DEF Places, Configured, StoredIsReadable, StartsUnlessFaulty
<1>3. ASSUME pc' = "down",
             \/ exit' \in {"load", "kill"} \/ faulty'
             \/ exit' = "settler" /\ ~Startable(env'),
             UNCHANGED <<schema, stored, prices>>
      PROVE  StartInv'
  BY <1>3 DEF Places, MigratesInOrder, Configured, StoredIsReadable, StartsUnlessFaulty
<1>4. CASE LoadFails \/ Kill \/ StepFaults
  <2>1. /\ pc' = "down" /\ (exit' \in {"load", "kill"} \/ faulty')
        /\ UNCHANGED <<schema, stored, prices>>
    BY <1>4 DEF LoadFails, Kill, StepFaults, Exit
  <2> QED
    BY <1>3, <2>1
<1>5. CASE SignerRefuses
  <2>1. /\ pc' = "down" /\ exit' = "settler" /\ env' = env
        /\ UNCHANGED <<schema, stored, prices>>
    BY <1>5 DEF SignerRefuses, Exit
  <2>2. ~Startable(env)
    BY <1>5, RefusedId DEF SignerRefuses, Configured
  <2> QED
    BY <1>3, <2>1, <2>2
<1>6. ASSUME NEW err, Migrate(err) PROVE StartInv'
  <2>1. /\ pc = "migrate" /\ stmt \in 1..7 /\ err \in Errors(Statements[stmt])
        /\ faulty' = (faulty \/ err = "fault")
    BY <1>6, StatementList DEF Migrate
  <2>2. \A j \in 1..(stmt - 1) : Statements[j] \in schema
    BY <2>1 DEF MigratesInOrder
  <2> DEFINE s == Statements[stmt]
  <2>3. CASE err = "none" \/ Tolerated(s, err)
    <3>1. /\ schema' = IF err = "none" THEN schema \cup Creates(s) ELSE schema
          /\ stmt' = stmt + 1
          /\ UNCHANGED <<env, pc, cfg, exit, starts, stored, prices>>
      BY <1>6, <2>3 DEF Migrate
    <3>2. s \in schema' /\ schema \subseteq schema' /\ schema' \subseteq Objects
      <4>1. s \in Objects
        BY <2>1, StatementList DEF Objects
      <4>2. s \in Creates(s) /\ Creates(s) \subseteq Objects
        BY <4>1, ObjectList DEF Creates
      <4>3. CASE err = "none"
        BY <3>1, <4>2, <4>3
      <4>4. CASE err # "none"
        <5>1. s = "cached_input" /\ err = "duplicate column name"
          BY <2>3, <4>4 DEF Tolerated
        <5>2. s \in schema
          BY <2>1, <5>1 DEF Errors
        <5> QED
          BY <3>1, <4>4, <5>2
      <4> QED
        BY <4>3, <4>4
    <3>3. MigratesInOrder'
      <4>1. stmt' \in 1..8
        BY <2>1, <3>1
      <4>2. ASSUME NEW j \in 1..(stmt' - 1) PROVE Statements[j] \in schema'
        <5>1. j \in 1..(stmt - 1) \/ j = stmt
          BY <2>1, <3>1
        <5> QED
          BY <2>2, <3>2, <5>1
      <4> QED
        BY <2>1, <3>1, <4>1, <4>2, StatementList DEF MigratesInOrder
    <3>4. faulty => faulty'
      BY <2>1
    <3> QED
      BY <3>1, <3>2, <3>3, <3>4
      DEF Configured, StoredIsReadable, StartsUnlessFaulty
  <2>4. CASE ~(err = "none" \/ Tolerated(s, err))
    <3>1. err = "fault"
      BY <2>1, <2>2, <2>4, NoMissingTable
    <3>2. Exit("migrate")
      BY <1>6, <2>4 DEF Migrate
    <3> QED
      BY <1>3, <2>1, <3>1, <3>2 DEF Exit
  <2> QED
    BY <2>3, <2>4
<1>7. CASE Migrated
  <2>1. /\ pc = "migrate" /\ pc' = "bootstrap" /\ stmt \notin 1..7
        /\ UNCHANGED <<env, stmt, cfg, exit, starts, schema, stored, prices, faulty>>
    BY <1>7, StatementList DEF Migrated, Step
  <2>2. stmt = 8
    BY <2>1, StatementList DEF MigratesInOrder
  <2>3. schema = Objects
    <3>1. \A j \in 1..7 : Statements[j] \in schema
      BY <2>1, <2>2 DEF MigratesInOrder
    <3> QED
      BY <3>1, StatementList DEF Objects
  <2> QED
    BY <2>1, <2>3
    DEF Places, MigratesInOrder, Configured, StoredIsReadable, StartsUnlessFaulty
<1>8. ASSUME pc \notin {"down", "load", "migrate"}
      PROVE  PricesReadable /\ "settings" \in schema
  BY <1>8, ObjectList DEF MigratesInOrder, PricesReadable
<1>9. CASE BootstrapPrices
  <2>1. PricesReadable = TRUE
    BY <1>8, <1>9 DEF BootstrapPrices, Step
  <2> QED
    BY <1>9, <2>1, StepKeeps DEF BootstrapPrices, Places
<1>10. CASE LoadMarkup
  <2>1. ("settings" \in schema /\ MarkupLoads) = TRUE
    BY <1>8, <1>10 DEF LoadMarkup, Step, StoredIsReadable, MarkupLoads
  <2> QED
    BY <1>10, <2>1, StepKeeps DEF LoadMarkup, Places
<1>11. CASE NewSettler
  <2>1. pc = "settler" /\ Accepted(env) /\ cfg = Load(env)
    BY <1>11 DEF NewSettler, Step, Configured
  <2>2. CASE SettlerReads
    <3>1. Step("settler", TRUE, "prices")
      BY <1>11, <2>2 DEF NewSettler, Step
    <3> QED
      BY <3>1, StepKeeps DEF Places
  <2>3. CASE ~SettlerReads
    <3>1. ~Startable(env)
      BY <2>1, <2>3, AcceptedReads
    <3>2. Exit("settler")
      BY <1>11, <2>3 DEF NewSettler, Step
    <3> QED
      BY <1>3, <3>1, <3>2 DEF Exit
  <2> QED
    BY <2>2, <2>3
<1>12. CASE BuildTable
  <2>1. (PricesReadable /\ prices \subseteq Compiling) = TRUE
    BY <1>8, <1>12 DEF BuildTable, Step, StoredIsReadable
  <2> QED
    BY <1>12, <2>1, StepKeeps DEF BuildTable, Places
<1>13. CASE AdminSaves
  <2>1. UNCHANGED <<env, pc, stmt, cfg, exit, faulty, schema>>
    BY <1>13 DEF AdminSaves, SaveSettings, SavePrice
  <2>2. StoredIsReadable'
    BY <1>13 DEF AdminSaves, SaveSettings, SavePrice, StoredIsReadable, MarkupValid
  <2> QED
    BY <2>1, <2>2 DEF MigratesInOrder, Configured, StartsUnlessFaulty
<1>14. CASE UNCHANGED startVars
  BY <1>14 DEF startVars, MigratesInOrder, Configured, StoredIsReadable, StartsUnlessFaulty
<1> QED
  BY <1>1, <1>2, <1>4, <1>6, <1>7, <1>9, <1>10, <1>11, <1>12, <1>13, <1>14, <1>5
  DEF Boot, Faults

(***************************************************************************)
(* A purchase                                                              *)
(***************************************************************************)

\* What Load accepted for EVM: an address to pay to, a positive lifetime, a chain
\* id that is the network's, and a token domain that is not blank, so that the client's fallbacks for blank
\* ones are never used.
LEMMA AcceptedDomain ==
  ASSUME Accepted(env), cfg = Load(env), cfg.chain = "evm"
  PROVE  /\ IsHexAddress(cfg.payTo)
         /\ cfg.sigTimeout \in Nat \ {0}
         /\ cfg.name # "" /\ cfg.version # ""
         /\ cfg.chainID \in Int
         /\ networkToChainID(cfg.network) = cfg.chainID
<1>1. /\ cfg.payTo = env["PAY_TO_ADDRESS"]
      /\ cfg.sigTimeout = limit(env, "SIG_TIMEOUT_SECS")
      /\ cfg.name = usdcName(env)
      /\ cfg.version = envStr(env, "USDC_VERSION", "2")
      /\ cfg.chainID = chainID(env)
      /\ cfg.network = paymentNetwork(paymentChain(env), chainID(env), solanaCluster(env))
      /\ paymentChain(env) = "evm"
  BY DEF Load
<1>2. IsHexAddress(cfg.payTo)
  BY <1>1 DEF Accepted, EvmTargets
<1>3. cfg.sigTimeout \in Nat \ {0}
  <2>1. "SIG_TIMEOUT_SECS" \in DOMAIN Limits /\ Limits["SIG_TIMEOUT_SECS"] = 120
    BY DEF Limits
  <2>2. EnvParses(env, "SIG_TIMEOUT_SECS", ParseInt)
    BY <2>1 DEF Accepted, Readable
  <2>3. limit(env, "SIG_TIMEOUT_SECS") \in Int
    BY <2>1, <2>2, ParsedInt DEF limit
  <2>4. limit(env, "SIG_TIMEOUT_SECS") > 0
    BY <2>1 DEF Accepted, LimitsPositive
  <2> QED
    BY <1>1, <2>3, <2>4, Positive
<1>4. cfg.name # "" /\ cfg.version # ""
  BY <1>1, ConfigAssumption DEF usdcName, envStr, ByChain
<1>5. networkToChainID(cfg.network) = cfg.chainID
  BY <1>1 DEF paymentNetwork, networkToChainID
<1>6. cfg.chainID \in Int
  BY <1>1, AcceptedId
<1> QED
  BY <1>2, <1>3, <1>4, <1>5, <1>6

\* The client's encoding of a number that is not negative.
LEMMA Padded == \A n \in Nat : paddedBig(n) = n
  BY DEF paddedBig

\* What a client signs after such a 402, Settle finds in order.
LEMMA HeaderVerifies ==
  ASSUME Accepted(env), cfg = Load(env), cfg.chain = "evm",
         cfg.chainID \in Nat,
         NEW cost \in Nat \ {0}, NEW from \in DOMAIN Address,
         ToLower(cfg.payTo) = ToLower(Hex[Address[cfg.payTo]])
  PROVE  Verified(Header(Address[from], BuildRequirements(cost), from), cost)
<1> DEFINE req == BuildRequirements(cost)
           h == Header(Address[from], req, from)
<1>1. /\ IsHexAddress(cfg.payTo) /\ cfg.sigTimeout \in Nat \ {0}
      /\ cfg.name # "" /\ cfg.version # ""
      /\ networkToChainID(cfg.network) = cfg.chainID
  BY AcceptedDomain
<1>2. /\ req.network = cfg.network /\ req.amount = cost /\ req.payTo = cfg.payTo
      /\ req.asset = cfg.usdc /\ req.timeout = cfg.sigTimeout
      /\ req.name = cfg.name /\ req.version = cfg.version
  BY DEF BuildRequirements
<1> HIDE DEF req
<1>3. /\ h.network = cfg.network /\ h.from = from /\ h.to = cfg.payTo /\ h.value = cost
      /\ h.before = cfg.sigTimeout /\ h.signer = Address[from] /\ h.kind = "evm"
      /\ h.signed = Digest(OrElse(cfg.name, "USDC"), OrElse(cfg.version, "2"),
                           paddedBig(networkToChainID(cfg.network)),
                           HexToAddress(cfg.usdc), Address[from],
                           HexToAddress(cfg.payTo), paddedBig(cost),
                           paddedBig(cfg.sigTimeout))
  BY <1>2 DEF Header
<1> HIDE DEF h
<1>4. /\ OrElse(cfg.name, "USDC") = cfg.name
      /\ OrElse(cfg.version, "2") = cfg.version
      /\ HexToAddress(cfg.payTo) = Address[cfg.payTo]
  BY <1>1 DEF OrElse, HexToAddress
<1>5. /\ paddedBig(cfg.chainID) = cfg.chainID /\ paddedBig(cost) = cost
      /\ paddedBig(cfg.sigTimeout) = cfg.sigTimeout
  BY <1>1, Padded
<1>6. h.signed = Digest(cfg.name, cfg.version, cfg.chainID, HexToAddress(cfg.usdc),
                        Address[h.from], Address[h.to], h.value, h.before)
  BY <1>1, <1>3, <1>4, <1>5
<1>7. IsHexAddress(h.from) /\ IsHexAddress(h.to)
  BY <1>1, <1>3 DEF IsHexAddress
<1>8. EqualFold(Hex[Address[h.to]], cfg.payTo)
  BY <1>3 DEF EqualFold
<1>9. cost > 0 /\ cfg.sigTimeout > 0 /\ cfg.chainID >= 0
  <2>1. PICK n \in Nat \ {0} : n = cfg.sigTimeout
    BY <1>1
  <2>2. n > 0
    OBVIOUS
  <2>3. PICK m \in Nat : m = cfg.chainID
    OBVIOUS
  <2>4. cost > 0 /\ m >= 0
    OBVIOUS
  <2> QED
    BY <2>1, <2>2, <2>3, <2>4
<1>10. Verified(h, cost)
  <2>1. h.value > 0 /\ h.before > 0
    BY <1>3, <1>9
  <2>2. h.signer = Address[h.from] /\ h.value = cost
    BY <1>3
  <2>3. AuthorizationVerified(h, cost)
    BY <1>6, <1>7, <1>8, <1>9, <2>1, <2>2 DEF AuthorizationVerified
  <2> QED
    BY <1>3, <2>3 DEF Verified
<1> QED
  BY <1>10 DEF h, req

\* What a Solana wallet signs after such a 402, its Settle finds in order.
LEMMA TransferVerifies ==
  ASSUME cfg.chain = "solana", NEW cost \in Nat \ {0}, NEW w
  PROVE  Verified(Transfer(w, BuildRequirements(cost)), cost)
<1> DEFINE req == BuildRequirements(cost)
<1>1. /\ req.network = cfg.network /\ req.amount = cost /\ req.payTo = cfg.payTo
      /\ req.asset = cfg.usdc
  BY DEF BuildRequirements
<1> HIDE DEF req
<1>2. Verified(Transfer(w, req), cost)
  BY <1>1, Positive DEF Transfer, Verified, TransferVerified
<1> QED
  BY <1>2 DEF req

\* What a purchase knows depends on the process only through these.
LEMMA PurchaseStutter ==
  ASSUME PurchaseInv, SignedAsAskedIsServed, UNCHANGED purchase,
         UNCHANGED <<pc, cfg>> \/ (pc # "up" /\ purchase.state = "none")
  PROVE  PurchaseInv' /\ SignedAsAskedIsServed'
<1>1. CASE UNCHANGED <<pc, cfg>>
  BY <1>1 DEF PurchaseInv, SignedAsAskedIsServed, BuildRequirements
<1>2. CASE purchase.state = "none"
  BY <1>2 DEF PurchaseInv, SignedAsAskedIsServed
<1> QED
  BY <1>1, <1>2

\* A step of main that is not the server's own leaves pc and cfg of a serving
\* process alone.
LEMMA BootIsDown ==
  ASSUME (\E e \in Envs : Launch(e)) \/ Boot \/ Faults \/ AdminSaves
  PROVE  pc # "up" \/ UNCHANGED <<pc, cfg>>
<1>1. CASE AdminSaves
  BY <1>1 DEF AdminSaves, SaveSettings, SavePrice
<1>2. ASSUME NEW e \in Envs, Launch(e) PROVE pc # "up"
  BY <1>2 DEF Launch
<1>3. CASE Boot \/ Faults
  BY <1>3 DEF Boot, LoadOk, LoadFails, Migrate, Migrated, BootstrapPrices, LoadMarkup,
              NewSettler, BuildTable, Step, Faults, StepFaults, SignerRefuses
<1> QED
  BY <1>1, <1>2, <1>3

(***************************************************************************)
(* The books                                                               *)
(***************************************************************************)

\* The sum of rows is an integer, and a row that is not among them adds its
\* amount.
LEMMA TotalInt ==
  ASSUME NEW rs, IsFiniteSet(rs), \A r \in rs : r.amount \in Int
  PROVE  Total(rs) \in Int
<1> DEFINE f == [r \in rs |-> r.amount]
<1>1. \A r \in rs : f[r] \in Int
  OBVIOUS
<1> HIDE DEF f
<1>2. SumFunctionOnSet(f, rs) \in Int
  BY <1>1, SumInt
<1> QED
  BY <1>2 DEF f, Total

LEMMA TotalAdd ==
  ASSUME NEW rs, IsFiniteSet(rs), \A r \in rs : r.amount \in Int,
         NEW x, x \notin rs, x.amount \in Int
  PROVE  Total(rs \cup {x}) = Total(rs) + x.amount
<1> DEFINE more == rs \cup {x}
           f == [r \in rs |-> r.amount]
           h == [r \in more |-> r.amount]
<1>1. /\ IsFiniteSet(more) /\ x \in more /\ more \ {x} = rs
      /\ h[x] = x.amount
      /\ \A r \in more : h[r] \in Int
      /\ \A r \in rs : h[r] = f[r]
  BY FS_AddElement
<1>2. Total(rs) = SumFunctionOnSet(f, rs) /\ Total(more) = SumFunctionOnSet(h, more)
  BY DEF Total
<1> HIDE DEF more, f, h
<1>3. SumFunctionOnSet(h, more) = h[x] + SumFunctionOnSet(h, rs)
  BY <1>1, SumTake
<1>4. SumFunctionOnSet(h, rs) = SumFunctionOnSet(f, rs)
  BY <1>1, SumSame
<1>5. Total(rs) \in Int
  BY TotalInt
<1>6. Total(more) = Total(rs) + x.amount
  BY <1>1, <1>2, <1>3, <1>4, <1>5
<1> QED
  BY <1>6 DEF more

\* There are finitely many clients.
LEMMA ClientsFinite == IsFiniteSet(Clients)
  BY CheckoutAssumption, FS_Union DEF Clients

\* An EVM client is recorded under its checksummed text, a Solana client under
\* its key; no key is such a text or an address.
LEMMA TextOf ==
  /\ \A w \in Wallets : w \in DOMAIN Hex /\ Text(w) = Hex[w] /\ ChainOf(w) = "evm"
  /\ \A w \in SolWallets : w \in PublicKeys /\ Text(w) = w /\ ChainOf(w) = "solana"
  BY CheckoutAssumption DEF Text, ChainOf

\* The texts of two clients differ.
LEMMA TextsDiffer ==
  ASSUME NEW v \in Clients, NEW w \in Clients, Text(v) = Text(w)
  PROVE  v = w
  BY CheckoutAssumption, TextOf DEF Clients

\* A new row keeps the books: its id is new, so the sum of all rows and the
\* sum of its payer's grow by its amount, and no other payer's changes.
LEMMA BooksGrow ==
  ASSUME BooksInv, NEW w \in Clients, NEW x, x.payer = w, x.from = Text(w),
         x.id = Cardinality(rows) + 1, x.amount \in Nat \ {0},
         rows' = rows \cup {x}
  PROVE  BooksInv'
<1> DEFINE paid(rs, v) == {r \in rs : r.from = Text(v)}
           more == rows \cup {x}
           f == [v \in Clients |-> Total(paid(rows, v))]
           h == [v \in Clients |-> Total(paid(more, v))]
<1>1. /\ IsFiniteSet(rows) /\ Cardinality(rows) \in Nat /\ IsFiniteSet(Clients)
      /\ \A r \in rows : r.payer \in Clients /\ r.from = Text(r.payer)
      /\ \A r \in rows : r.id \in 1..Cardinality(rows) /\ r.amount \in Nat \ {0}
      /\ \A r \in rows : r.amount \in Int
      /\ x.amount \in Int
  BY ClientsFinite, FS_CardinalityType DEF BooksInv
<1>2. Total(rows) = SumFunctionOnSet(f, Clients)
  BY DEF BooksInv
<1>3. x \notin rows
  BY <1>1
<1>4. IsFiniteSet(more) /\ Cardinality(more) = Cardinality(rows) + 1
  BY <1>1, <1>3, FS_AddElement
<1>5. Total(more) = Total(rows) + x.amount
  BY <1>1, <1>3, TotalAdd
<1>6. ASSUME NEW v \in Clients
      PROVE  /\ IsFiniteSet(paid(rows, v)) /\ paid(rows, v) \subseteq rows
             /\ f[v] = Total(paid(rows, v)) /\ f[v] \in Int
             /\ h[v] = Total(paid(more, v))
  <2>1. IsFiniteSet(paid(rows, v)) /\ paid(rows, v) \subseteq rows
    BY <1>1, FS_Subset
  <2>2. Total(paid(rows, v)) \in Int
    BY <1>1, <2>1, TotalInt
  <2> QED
    BY <2>1, <2>2
<1>7. h[w] = f[w] + x.amount
  <2>1. paid(more, w) = paid(rows, w) \cup {x}
    OBVIOUS
  <2>2. Total(paid(rows, w) \cup {x}) = Total(paid(rows, w)) + x.amount
    <3>1. /\ IsFiniteSet(paid(rows, w)) /\ x \notin paid(rows, w)
          /\ \A r \in paid(rows, w) : r.amount \in Int
      BY <1>1, <1>3, <1>6
    <3> HIDE DEF paid
    <3> QED
      BY <1>1, <3>1, TotalAdd
  <2> HIDE DEF paid, f, h
  <2> QED
    BY <1>6, <2>1, <2>2
<1>8. ASSUME NEW v \in Clients \ {w} PROVE h[v] = f[v]
  <2>1. Text(v) # Text(w)
    BY TextsDiffer
  <2>2. paid(more, v) = paid(rows, v)
    BY <2>1
  <2> QED
    BY <1>6, <2>2
<1>9. SumFunctionOnSet(h, Clients) = SumFunctionOnSet(f, Clients) + x.amount
  <2>1. \A v \in Clients : f[v] \in Int /\ h[v] \in Int
    <3>1. ASSUME NEW v \in Clients PROVE f[v] \in Int
      BY <1>6
    <3> HIDE DEF f, h
    <3> QED
      BY <1>1, <1>7, <1>8, <3>1
  <2> HIDE DEF f, h
  <2> QED
    BY <1>1, <1>7, <1>8, <2>1, SumGrows
<1>10. Total(more) = SumFunctionOnSet(h, Clients)
  BY <1>2, <1>5, <1>9
<1>11. \A r \in more : r.payer \in Clients /\ r.from = Text(r.payer)
  BY <1>1
<1>12. \A r \in more : r.id \in 1..Cardinality(more) /\ r.amount \in Nat \ {0}
  BY <1>1, <1>4
<1> QED
  BY <1>4, <1>10, <1>11, <1>12 DEF BooksInv

(***************************************************************************)
(* The inductive invariant                                                 *)
(***************************************************************************)

\* CheckoutInv is inductive.
LEMMA NextCheckout == CheckoutInv /\ [CheckoutNext]_coVars => CheckoutInv'
<1> SUFFICES ASSUME CheckoutInv, [CheckoutNext]_coVars PROVE CheckoutInv'
  OBVIOUS
<1>0. StartInv /\ PurchaseInv /\ BooksInv /\ SignedAsAskedIsServed
  BY DEF CheckoutInv
<1>1. CASE /\ (\E e \in Envs : Launch(e)) \/ Boot \/ Faults \/ AdminSaves
           /\ UNCHANGED <<purchase, rows>>
  <2>1. StartInv'
    BY <1>0, <1>1, NextStart
  <2>2. pc # "up" => purchase.state = "none"
    BY <1>0 DEF PurchaseInv
  <2>3. PurchaseInv' /\ SignedAsAskedIsServed'
    BY <1>0, <1>1, <2>2, BootIsDown, PurchaseStutter
  <2>4. BooksInv'
    BY <1>0, <1>1 DEF BooksInv
  <2> QED
    BY <2>1, <2>3, <2>4 DEF CheckoutInv
<1>2. CASE CheckoutKill
  <2>1. StartInv'
    BY <1>0, <1>2, NextStart DEF CheckoutKill
  <2>2. PurchaseInv' /\ SignedAsAskedIsServed'
    BY <1>2 DEF CheckoutKill, NoPurchase, PurchaseInv, SignedAsAskedIsServed
  <2>3. BooksInv'
    BY <1>0, <1>2 DEF CheckoutKill, BooksInv
  <2> QED
    BY <2>1, <2>2, <2>3 DEF CheckoutInv
<1>3. ASSUME UNCHANGED startVars PROVE StartInv' /\ UNCHANGED <<pc, cfg, env>>
  BY <1>0, <1>3, NextStart DEF startVars
<1>4. ASSUME NEW w \in Clients, NEW c \in Costs, Challenge(w, c) PROVE CheckoutInv'
  <2>1. UNCHANGED startVars /\ pc = "up" /\ rows' = rows
    BY <1>4 DEF Challenge
  <2>2. purchase' = [state |-> "quoted", wallet |-> w, req |-> BuildRequirements(c)]
    BY <1>4 DEF Challenge
  <2>3. StartInv' /\ UNCHANGED <<pc, cfg, env>>
    BY <1>3, <2>1
  <2>4. PurchaseInv' /\ SignedAsAskedIsServed'
    BY <2>1, <2>2, <2>3 DEF PurchaseInv, SignedAsAskedIsServed, BuildRequirements
  <2> QED
    BY <1>0, <2>1, <2>3, <2>4 DEF CheckoutInv, BooksInv
<1>5. ASSUME NEW header, Signs(header), purchase.state = "quoted",
             \/ /\ purchase.wallet \in Wallets
                /\ \E from \in DOMAIN Address :
                      /\ Address[from] = purchase.wallet
                      /\ header = Header(purchase.wallet, purchase.req, from)
             \/ /\ purchase.wallet \in SolWallets
                /\ header = Transfer(purchase.wallet, purchase.req)
      PROVE  CheckoutInv'
  <2>1. /\ UNCHANGED startVars /\ rows' = rows
        /\ purchase' = [state |-> "signed", wallet |-> purchase.wallet,
                        req |-> purchase.req, header |-> header]
    BY <1>5 DEF Signs
  <2>2. StartInv' /\ UNCHANGED <<pc, cfg, env>>
    BY <1>3, <2>1
  <2>3. /\ purchase'.state = "signed" /\ purchase'.req = purchase.req
        /\ purchase'.wallet = purchase.wallet /\ purchase'.header = header
        /\ purchase.wallet \in Clients
        /\ pc = "up" /\ \E cost \in Costs : purchase.req = BuildRequirements(cost)
    BY <1>0, <1>5, <2>1 DEF PurchaseInv
  <2>4. PurchaseInv' /\ SignedAsAskedIsServed'
    BY <1>5, <2>2, <2>3 DEF PurchaseInv, SignedAsAskedIsServed, BuildRequirements
  <2> QED
    BY <1>0, <2>1, <2>2, <2>4 DEF CheckoutInv, BooksInv
<1>6. ASSUME NEW from \in DOMAIN Address, SignPayment(from) PROVE CheckoutInv'
  BY <1>5, <1>6 DEF SignPayment
<1>7. CASE SignTransfer
  BY <1>5, <1>7 DEF SignTransfer
<1>8. ASSUME purchase.state = "signed"
      PROVE  /\ purchase.wallet \in Clients
             /\ \E cost \in Costs : purchase.req = BuildRequirements(cost)
             /\ \/ /\ purchase.wallet \in Wallets
                   /\ \E from \in DOMAIN Address :
                         /\ Address[from] = purchase.wallet
                         /\ purchase.header = Header(purchase.wallet, purchase.req, from)
                \/ /\ purchase.wallet \in SolWallets
                   /\ purchase.header = Transfer(purchase.wallet, purchase.req)
  BY <1>0, <1>8 DEF PurchaseInv
<1>9. CASE Pay
  <2>1. UNCHANGED startVars /\ pc = "up" /\ purchase.state = "signed"
          /\ purchase' = [state |-> "paid"]
    BY <1>9 DEF Pay
  <2>2. StartInv' /\ UNCHANGED <<pc, cfg, env>>
    BY <1>3, <2>1
  <2>3. purchase.wallet \in Clients /\ purchase.header.signer = purchase.wallet
    <3>1. \A w, req, from : Header(w, req, from).signer = w
      BY DEF Header
    <3>2. \A w, req : Transfer(w, req).signer = w
      BY DEF Transfer
    <3> QED
      BY <1>8, <2>1, <3>1, <3>2
  <2>4. Payer(purchase.header) = Text(purchase.wallet)
    <3>1. CASE purchase.wallet \in Wallets
      <4>1. purchase.wallet \notin SolWallets
        BY <3>1, CheckoutAssumption
      <4>2. PICK from : purchase.header = Header(purchase.wallet, purchase.req, from)
        BY <1>8, <2>1, <4>1
      <4>3. purchase.header.kind = "evm"
        BY <4>2 DEF Header
      <4> QED
        BY <2>3, <3>1, <4>3 DEF Payer, Text
    <3>2. CASE purchase.wallet \notin Wallets
      <4>1. purchase.header.kind = "solana"
        BY <1>8, <2>1, <3>2 DEF Transfer
      <4> QED
        BY <2>3, <3>2, <4>1 DEF Payer, Text
    <3> QED
      BY <3>1, <3>2
  <2>5. purchase.req.amount \in Nat \ {0}
    <3>1. purchase.req.amount \in Int
      <4>1. PICK cost \in Costs : purchase.req = BuildRequirements(cost)
        BY <1>8, <2>1
      <4>2. BuildRequirements(cost).amount = cost /\ cost \in Int
        BY CheckoutAssumption DEF BuildRequirements
      <4> QED
        BY <4>1, <4>2
    <3>2. purchase.req.amount > 0
      BY <1>9, <3>1 DEF Pay, Verified, AuthorizationVerified, TransferVerified
    <3> QED
      BY <3>1, <3>2
  <2>6. BooksInv'
    <3> DEFINE x == Row(purchase.header, purchase.req.amount)
    <3>1. rows' = rows \cup {x} \/ rows' = rows
      BY <1>9 DEF Pay
    <3>2. /\ x.payer = purchase.wallet /\ x.from = Text(purchase.wallet)
          /\ x.id = Cardinality(rows) + 1 /\ x.amount \in Nat \ {0}
      BY <2>3, <2>4, <2>5 DEF Row
    <3> HIDE DEF x
    <3>3. CASE rows' = rows \cup {x}
      BY <1>0, <2>3, <3>2, <3>3, BooksGrow
    <3>4. CASE rows' = rows
      BY <1>0, <3>4 DEF BooksInv
    <3> QED
      BY <3>1, <3>3, <3>4
  <2>7. PurchaseInv' /\ SignedAsAskedIsServed'
    BY <2>1, <2>2 DEF PurchaseInv, SignedAsAskedIsServed
  <2> QED
    BY <2>2, <2>6, <2>7 DEF CheckoutInv
<1>10. CASE Refuse
  <2>1. UNCHANGED startVars /\ pc = "up" /\ purchase.state = "signed" /\ rows' = rows
          /\ purchase' = [state |-> "refused", wallet |-> purchase.wallet,
                          req |-> purchase.req]
          /\ ~Verified(purchase.header, purchase.req.amount)
    BY <1>10 DEF Refuse
  <2>2. StartInv' /\ UNCHANGED <<pc, cfg, env>>
    BY <1>3, <2>1
  <2>3. PICK cost \in Costs : purchase.req = BuildRequirements(cost)
    BY <1>8, <2>1
  <2>4. PurchaseInv'
    BY <1>8, <2>1, <2>2, <2>3 DEF PurchaseInv, BuildRequirements
  <2>5. SignedAsAskedIsServed'
    <3>1. Accepted(env) /\ cfg = Load(env)
      BY <1>0, <2>1 DEF StartInv, Configured
    <3>2. cfg.chain \in {"evm", "solana"}
      BY <3>1 DEF Accepted, Load
    <3>3. purchase.req.amount = cost /\ cost \in Int
      <4>1. BuildRequirements(cost).amount = cost
        BY DEF BuildRequirements
      <4>2. cost \in Int
        BY CheckoutAssumption
      <4> QED
        BY <2>3, <4>1, <4>2
    <3>4. ASSUME ChainOf(purchase.wallet) = cfg.chain, cost \in Nat \ {0},
                 cfg.chain = "evm" =>
                     /\ cfg.chainID \in Nat
                     /\ ToLower(cfg.payTo) = ToLower(Hex[Address[cfg.payTo]])
          PROVE  FALSE
      <4>1. CASE purchase.wallet \in Wallets
        <5>1. purchase.wallet \notin SolWallets /\ cfg.chain = "evm"
          BY <3>4, <4>1, CheckoutAssumption, TextOf
        <5>2. PICK from \in DOMAIN Address :
                /\ Address[from] = purchase.wallet
                /\ purchase.header = Header(purchase.wallet, purchase.req, from)
          BY <1>8, <2>1, <5>1
        <5>3. Verified(Header(Address[from], BuildRequirements(cost), from), cost)
          BY <3>1, <3>3, <3>4, <5>1, HeaderVerifies
        <5> QED
          BY <2>1, <2>3, <3>3, <5>2, <5>3
      <4>2. CASE purchase.wallet \notin Wallets
        <5>1. /\ purchase.wallet \in SolWallets /\ cfg.chain = "solana"
              /\ purchase.header = Transfer(purchase.wallet, purchase.req)
          BY <1>8, <2>1, <3>4, <4>2, TextOf
        <5>2. Verified(Transfer(purchase.wallet, BuildRequirements(cost)), cost)
          BY <3>3, <3>4, <5>1, TransferVerifies
        <5> QED
          BY <2>1, <2>3, <3>3, <5>1, <5>2
      <4> QED
        BY <4>1, <4>2
    <3>5. \/ ChainOf(purchase.wallet) # cfg.chain
          \/ purchase.req.amount <= 0
          \/ /\ cfg.chain = "evm"
             /\ \/ cfg.chainID < 0
                \/ ToLower(cfg.payTo) # ToLower(Hex[Address[cfg.payTo]])
      <4>1. cfg.chain = "evm" => cfg.chainID \in Int
        BY <3>1, AcceptedDomain
      <4> QED
        BY <3>3, <3>4, <4>1, Positive
    <3> QED
      BY <2>1, <2>2, <3>5 DEF SignedAsAskedIsServed
  <2>6. BooksInv'
    BY <1>0, <2>1 DEF BooksInv
  <2> QED
    BY <2>2, <2>4, <2>5, <2>6 DEF CheckoutInv
<1>11. CASE UNCHANGED coVars
  <2>1. UNCHANGED startVars /\ UNCHANGED purchase /\ UNCHANGED rows
    BY <1>11 DEF coVars
  <2>2. StartInv' /\ UNCHANGED <<pc, cfg, env>>
    BY <1>3, <2>1
  <2>3. PurchaseInv' /\ SignedAsAskedIsServed'
    BY <1>0, <2>1, <2>2, PurchaseStutter
  <2> QED
    BY <1>0, <2>1, <2>2, <2>3 DEF CheckoutInv, BooksInv
<1> QED
  BY <1>1, <1>2, <1>4, <1>9, <1>10, <1>11, <1>6, <1>7 DEF CheckoutNext, Purchase

\* CheckoutInv holds in every state, whatever earlier processes left behind.
THEOREM CheckoutInvHolds == CheckoutSafe => []CheckoutInv
<1>1. CheckoutInit => CheckoutInv
  <2> SUFFICES ASSUME CheckoutInit PROVE CheckoutInv
    OBVIOUS
  <2>1. StartInv
    BY DatabaseAssumption
    DEF CheckoutInit, StartInit, StartInv, Places, MigratesInOrder, Configured,
        StoredIsReadable, StartsUnlessFaulty
  <2>2. PurchaseInv /\ SignedAsAskedIsServed
    BY DEF CheckoutInit, NoPurchase, PurchaseInv, SignedAsAskedIsServed
  <2>3. BooksInv
    <3> DEFINE f == [w \in Clients |-> Total({r \in {} : r.from = Text(w)})]
    <3>1. rows = {} /\ IsFiniteSet(rows)
      BY FS_EmptySet DEF CheckoutInit
    <3>2. Total({}) = 0
      BY FS_EmptySet, SumStep DEF Total
    <3>3. \A w \in Clients : f[w] = 0
      <4>1. \A w \in Clients : {r \in {} : r.from = Text(w)} = {}
        OBVIOUS
      <4> QED
        BY <3>2, <4>1
    <3>4. SumFunctionOnSet(f, Clients) = 0
      <4> HIDE DEF f
      <4> QED
        BY <3>3, ClientsFinite, SumZero
    <3> QED
      BY <3>1, <3>2, <3>4 DEF BooksInv
  <2> QED
    BY <2>1, <2>2, <2>3 DEF CheckoutInv
<1> QED
  BY <1>1, NextCheckout, PTL DEF CheckoutSafe

\* An environment that Load and settler.New accept starts the server unless the
\* database or the node fails, on every database and after every history.
THEOREM StartsWithoutFault == CheckoutSafe => []StartsUnlessFaulty
<1>1. CheckoutInv => StartsUnlessFaulty
  BY DEF CheckoutInv, StartInv
<1> QED
  BY <1>1, CheckoutInvHolds, PTL

\* A process that serves has every table, index and column, wherever earlier
\* migrations were cut off.
THEOREM ServesWithSchema == CheckoutSafe => []ServesFullSchema
<1>1. CheckoutInv => ServesFullSchema
  BY DEF CheckoutInv, StartInv, MigratesInOrder, ServesFullSchema
<1> QED
  BY <1>1, CheckoutInvHolds, PTL

\* Whoever signs what the 402 of its chain says is served, in every accepted
\* configuration but those of an EVM payee without 0x or a negative chain id.
THEOREM ServedAsSigned == CheckoutSafe => []SignedAsAskedIsServed
<1>1. CheckoutInv => SignedAsAskedIsServed
  BY DEF CheckoutInv
<1> QED
  BY <1>1, CheckoutInvHolds, PTL

\* The balance of an account is all that is recorded of its payments, and a payer
\* is counted once, however its address was spelled.
THEOREM BalancesAreAllPaid == CheckoutSafe => []BalanceIsAllPaid
<1>1. ASSUME BooksInv PROVE BalanceIsAllPaid
  <2>1. ASSUME NEW r \in rows PROVE r.payer \in Clients /\ r.from = Text(r.payer)
    BY <1>1 DEF BooksInv
  <2>2. ASSUME NEW s \in Queries(cfg.chain)
        PROVE  {r \in rows : r.from = normalizeAddress(cfg.chain, s)}
                 = {r \in rows : r.payer = Account(cfg.chain, s)}
    <3>1. ASSUME NEW r \in rows, cfg.chain = "evm"
          PROVE  r.from = normalizeAddress(cfg.chain, s)
                   <=> r.payer = Account(cfg.chain, s)
      <4>1. /\ normalizeAddress(cfg.chain, s) = Hex[Address[s]]
            /\ Account(cfg.chain, s) = Address[s] /\ Address[s] \in DOMAIN Hex
        BY <2>2, <3>1, CheckoutAssumption DEF Queries, normalizeAddress, Account
      <4>2. CASE r.payer \in Wallets
        BY <2>1, <4>1, <4>2, CheckoutAssumption, TextOf
      <4>3. CASE r.payer \in SolWallets
        BY <2>1, <4>1, <4>3, CheckoutAssumption, TextOf
      <4> QED
        BY <2>1, <4>2, <4>3 DEF Clients
    <3>2. ASSUME NEW r \in rows, cfg.chain # "evm"
          PROVE  r.from = normalizeAddress(cfg.chain, s)
                   <=> r.payer = Account(cfg.chain, s)
      <4>1. /\ normalizeAddress(cfg.chain, s) = s /\ Account(cfg.chain, s) = s
            /\ s \in PublicKeys
        BY <2>2, <3>2 DEF Queries, normalizeAddress, Account
      <4>2. CASE r.payer \in Wallets
        BY <2>1, <4>1, <4>2, CheckoutAssumption, TextOf
      <4>3. CASE r.payer \in SolWallets
        BY <2>1, <4>1, <4>3, TextOf
      <4> QED
        BY <2>1, <4>2, <4>3 DEF Clients
    <3> QED
      BY <3>1, <3>2
  <2>3. ASSUME NEW s \in Queries(cfg.chain)
        PROVE  LET paid == {r \in rows : r.payer = Account(cfg.chain, s)}
               IN  Balance(cfg.chain, s) = [total |-> Total(paid), count |-> Cardinality(paid)]
    BY <2>2 DEF Balance
  <2>4. Cardinality({r.from : r \in rows}) = Cardinality({r.payer : r \in rows})
    <3> DEFINE A == {r.payer : r \in rows}
               T == {r.from : r \in rows}
               f == [a \in A |-> Text(a)]
    <3>1. IsFiniteSet(A) /\ IsFiniteSet(T)
      <4>1. IsFiniteSet(rows)
        BY <1>1 DEF BooksInv
      <4> DEFINE g == [r \in rows |-> r.from]
                 k == [r \in rows |-> r.payer]
      <4>2. g \in Surjection(rows, T) /\ k \in Surjection(rows, A)
        BY DEF Surjection
      <4> QED
        BY <4>1, <4>2, FS_Surjection
    <3>2. f \in Bijection(A, T)
      <4>1. A \subseteq Clients
        BY <2>1
      <4>2. f \in [A -> T]
        BY <2>1
      <4>3. f \in Injection(A, T)
        BY <4>1, <4>2, TextsDiffer DEF Injection, IsInjective
      <4>4. f \in Surjection(A, T)
        BY <2>1, <4>2 DEF Surjection
      <4> QED
        BY <4>3, <4>4 DEF Bijection
    <3>3. ExistsBijection(A, T)
      BY <3>2 DEF ExistsBijection
    <3> HIDE DEF A, T, f
    <3>4. Cardinality(T) = Cardinality(A)
      BY <3>1, <3>3, FS_Bijection
    <3> QED
      BY <3>4 DEF A, T
  <2> QED
    BY <2>3, <2>4 DEF BalanceIsAllPaid, Summary
<1>2. CheckoutInv => BalanceIsAllPaid
  BY <1>1 DEF CheckoutInv
<1> QED
  BY <1>2, CheckoutInvHolds, PTL

\* What the overview shows the operator is the sum of what the balances show
\* the clients of either chain: nothing is counted twice and nothing is lost
\* between the two, for any number of clients, payments, spellings and
\* configurations.
THEOREM BooksAdd == CheckoutSafe => []BooksAddUp
<1>1. ASSUME BooksInv PROVE BooksAddUp
  <2>1. ASSUME NEW w \in Clients
        PROVE  Balance(ChainOf(w), Text(w)).total = Total({r \in rows : r.from = Text(w)})
    <3>1. normalizeAddress(ChainOf(w), Text(w)) = Text(w)
      BY CheckoutAssumption, TextOf DEF Clients, normalizeAddress
    <3> QED
      BY <3>1 DEF Balance
  <2>2. [w \in Clients |-> Balance(ChainOf(w), Text(w)).total]
          = [w \in Clients |-> Total({r \in rows : r.from = Text(w)})]
    BY <2>1
  <2>3. Summary.total = Total(rows)
    BY DEF Summary
  <2> QED
    BY <1>1, <2>2, <2>3 DEF BooksInv, BooksAddUp
<1>2. CheckoutInv => BooksAddUp
  BY <1>1 DEF CheckoutInv
<1> QED
  BY <1>2, CheckoutInvHolds, PTL
=============================================================================
