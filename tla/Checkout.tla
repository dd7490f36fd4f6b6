------------------------------ MODULE Checkout ------------------------------
(***************************************************************************)
(* One purchase seen from both ends, in whatever configuration the process *)
(* was started in, for EVM or for Solana: the 402 the settler builds from  *)
(* the configuration, a client that signs what the 402 says and nothing    *)
(* else (that of cmd/testpay, or a Solana wallet), the checks of           *)
(* handlePayment and the settler that hold the result against the          *)
(* configuration again, the row that is written, and what the info and     *)
(* admin endpoints report of it.  Rows of both chains are in one table.    *)
(*                                                                         *)
(* The client answers at once and its transaction goes through: expiry,    *)
(* retries and the chain are the subject of Relay, EvmRelay and            *)
(* SolanaRelay, the instructions of a Solana transaction and its memo that *)
(* of SolanaTransaction.  A signature is the key and the data it was made  *)
(* over.                                                                   *)
(***************************************************************************)
EXTENDS Startup, FiniteSetsExt

CONSTANTS
    Hex,         \* address -> its checksummed text with 0x: Address.Hex
    Wallets,     \* addresses of the clients on EVM chains
    SolWallets,  \* public keys of the clients on Solana
    Costs,       \* amounts in USDC base units
    MaxRows      \* bound: rows in the payments table

\* No text is both an address and a key: forty hex digits are no 32 bytes in
\* base58.
ASSUME CheckoutAssumption ==
    /\ Wallets \subseteq DOMAIN Hex /\ IsFiniteSet(Wallets)
    /\ SolWallets \subseteq PublicKeys /\ IsFiniteSet(SolWallets)
    /\ \A a \in DOMAIN Hex : a \notin PublicKeys /\ Hex[a] \notin PublicKeys
    /\ \A a \in DOMAIN Hex : Hex[a] \in DOMAIN Address /\ Address[Hex[a]] = a
    /\ \A s \in DOMAIN Address : Address[s] \in DOMAIN Hex
    /\ Costs \subseteq Int
    /\ MaxRows \in Nat

VARIABLES
    purchase,  \* the client's purchase under way
    rows       \* the payments table

coVars == <<startVars, purchase, rows>>

NoPurchase == [state |-> "none"]

Clients == Wallets \cup SolWallets

ChainOf(w) == IF w \in Wallets THEN "evm" ELSE "solana"

\* What a payer is recorded under.
Text(w) == IF w \in Wallets THEN Hex[w] ELSE w

\* common.HexToAddress reads any text, and something else out of a wrong one.
HexToAddress(s) == IF IsHexAddress(s) THEN Address[s] ELSE "garbage"

\* Mutant of EqualFold: the case counts.
EqualExactly(s, t) == s = t

\* strings.EqualFold
EqualFold(s, t) == ToLower(s) = ToLower(t)

(***************************************************************************)
(* The 402                                                                 *)
(***************************************************************************)

\* BuildRequirements of either settler; only EVM names the token's domain, and
\* a key read from a text is written as that text.
BuildRequirements(cost) ==
    [network |-> cfg.network,
     amount  |-> cost,
     payTo   |-> cfg.payTo,
     asset   |-> cfg.usdc,
     timeout |-> cfg.sigTimeout,
     name    |-> IF cfg.chain = "evm" THEN cfg.name ELSE "",
     version |-> IF cfg.chain = "evm" THEN cfg.version ELSE ""]

Challenge(w, cost) ==
    /\ pc = "up"
    /\ Cardinality(rows) < MaxRows
    /\ purchase.state # "signed"
    /\ purchase' = [state |-> "quoted", wallet |-> w, req |-> BuildRequirements(cost)]
    /\ UNCHANGED <<startVars, rows>>

(***************************************************************************)
(* The client                                                              *)
(***************************************************************************)

OrElse(s, def) == IF s = "" THEN def ELSE s

networkToChainID(net) == IF net.space = "eip155" THEN net.id ELSE 0

\* A number in the client's encoding: big.Int.Bytes drops the sign.
paddedBig(n) == IF n < 0 THEN -n ELSE n

\* The domain and the message that are signed.
Digest(name, version, id, contract, from, to, value, before) ==
    [name |-> name, version |-> version, chainId |-> id, contract |-> contract,
     from |-> from, to |-> to, value |-> value, before |-> before]

\* testpay's X-PAYMENT header.  How the client spells its own address is up to
\* it; signEIP712 encodes the numbers.
Header(w, req, from) ==
    [kind |-> "evm", network |-> req.network, from |-> from, to |-> req.payTo,
     value |-> req.amount, before |-> req.timeout, signer |-> w,
     signed |-> Digest(OrElse(req.name, "USDC"), OrElse(req.version, "2"),
                       paddedBig(networkToChainID(req.network)),
                       HexToAddress(req.asset), w, HexToAddress(req.payTo),
                       paddedBig(req.amount), paddedBig(req.timeout))]

\* FindAssociatedTokenAddress
tokenAccount(owner, mint) == [owner |-> owner, mint |-> mint]

\* That of a Solana wallet: a transaction with the transfer that is asked for.
Transfer(w, req) ==
    [kind |-> "solana", network |-> req.network, signer |-> w, mint |-> req.asset,
     to |-> tokenAccount(req.payTo, req.asset), value |-> req.amount]

Signs(header) ==
    /\ purchase' = [state |-> "signed", wallet |-> purchase.wallet,
                    req |-> purchase.req, header |-> header]
    /\ UNCHANGED <<startVars, rows>>

SignPayment(from) ==
    /\ purchase.state = "quoted"
    /\ purchase.wallet \in Wallets
    /\ IsHexAddress(from)
    /\ Address[from] = purchase.wallet
    /\ Signs(Header(purchase.wallet, purchase.req, from))

\* A Solana wallet can only pay to a key, and in a token that is one.
SignTransfer ==
    /\ purchase.state = "quoted"
    /\ purchase.wallet \in SolWallets
    /\ {purchase.req.payTo, purchase.req.asset} \subseteq PublicKeys
    /\ Signs(Transfer(purchase.wallet, purchase.req))

(***************************************************************************)
(* The server again                                                        *)
(***************************************************************************)

\* DecodeAuthorization, Settle's checks and VerifyEIP712 over the digest of the
\* configuration, which cannot be made for a negative chain id.
AuthorizationVerified(h, cost) ==
    /\ IsHexAddress(h.from) /\ IsHexAddress(h.to)
    /\ h.value > 0
    /\ h.value = cost
    /\ EqualFold(Hex[Address[h.to]], cfg.payTo)
    /\ h.before > 0
    /\ cfg.chainID >= 0
    /\ h.signer = Address[h.from]
    /\ h.signed = Digest(cfg.name, cfg.version, cfg.chainID, HexToAddress(cfg.usdc),
                         Address[h.from], Address[h.to], h.value, h.before)

\* validateTransaction, of the one transfer in the transaction.
TransferVerified(h, cost) ==
    /\ cost > 0
    /\ h.value = cost
    /\ h.mint = cfg.usdc
    /\ h.to = tokenAccount(cfg.payTo, cfg.usdc)

\* handlePayment's network check and Settle of the settler in use, which finds
\* nothing of its own in a payload for the other.
Verified(h, cost) ==
    /\ h.network = cfg.network
    /\ h.kind = cfg.chain
    /\ \/ h.kind = "evm" /\ AuthorizationVerified(h, cost)
       \/ h.kind = "solana" /\ TransferVerified(h, cost)

\* Mutant of Payer: the address as the client spelled it.
PayerAsSent(h) == IF h.kind = "evm" THEN h.from ELSE h.signer

\* Settlement.Payer: the recovered signer, or the owner of the tokens.
Payer(h) == IF h.kind = "evm" THEN Hex[h.signer] ELSE h.signer

\* The row; payer is not in it, but says whose key signed.
Row(h, cost) == [id |-> Cardinality(rows) + 1, payer |-> h.signer,
                 from |-> Payer(h), amount |-> cost]

\* Settle, Record, whose failure is only logged, and the response.
Pay ==
    /\ pc = "up"
    /\ purchase.state = "signed"
    /\ Verified(purchase.header, purchase.req.amount)
    /\ \/ rows' = rows \cup {Row(purchase.header, purchase.req.amount)}
       \/ UNCHANGED rows
    /\ purchase' = [state |-> "paid"]
    /\ UNCHANGED startVars

Refuse ==
    /\ pc = "up"
    /\ purchase.state = "signed"
    /\ ~Verified(purchase.header, purchase.req.amount)
    /\ purchase' = [state |-> "refused", wallet |-> purchase.wallet,
                    req |-> purchase.req]
    /\ UNCHANGED <<startVars, rows>>

(***************************************************************************)
(* Reports                                                                 *)
(***************************************************************************)

\* The texts that are not answered 400, and the account each one names.
Queries(chain) == CASE chain = "evm"    -> DOMAIN Address
                    [] chain = "solana" -> PublicKeys
                    [] OTHER            -> {}

Account(chain, s) == IF chain = "evm" THEN Address[s] ELSE s

\* The text is read and written again.
normalizeAddress(chain, s) == IF chain = "evm" THEN Hex[Address[s]] ELSE s

Total(rs) == SumFunctionOnSet([r \in rs |-> r.amount], rs)

\* GET /v1/info/balance of a process for this chain: SumByAddress of the
\* normalized address, whatever chain the rows are of.
Balance(chain, s) ==
    LET mine == {r \in rows : r.from = normalizeAddress(chain, s)}
    IN  [total |-> Total(mine), count |-> Cardinality(mine)]

\* DB.Summary, for GET /admin/api/overview.
Summary == [total  |-> Total(rows),
            count  |-> Cardinality(rows),
            payers |-> Cardinality({r.from : r \in rows})]

(***************************************************************************)
(* Composition                                                             *)
(***************************************************************************)

CheckoutInit == StartInit /\ purchase = NoPurchase /\ rows = {}

\* What is staged goes with the process.
CheckoutKill == Kill /\ purchase' = NoPurchase /\ UNCHANGED rows

Purchase ==
    \/ \E w \in Clients, c \in Costs : Challenge(w, c)
    \/ \E from \in DOMAIN Address : SignPayment(from)
    \/ SignTransfer
    \/ Pay
    \/ Refuse

CheckoutNext ==
    \/ \E e \in Envs : Launch(e) /\ UNCHANGED <<purchase, rows>>
    \/ (Boot \/ Faults) /\ UNCHANGED <<purchase, rows>>
    \/ AdminSaves /\ UNCHANGED <<purchase, rows>>
    \/ CheckoutKill
    \/ Purchase

CheckoutSafe == CheckoutInit /\ [][CheckoutNext]_coVars

\* main runs on, as nothing in it waits; no fault has to happen, and whether
\* the process is started again is up to the operator.
CheckoutSpec ==
    /\ CheckoutSafe
    /\ WF_coVars(Boot /\ UNCHANGED <<purchase, rows>>)

(***************************************************************************)
(* Properties                                                              *)
(***************************************************************************)

\* A client of the chain the process is configured for that signs exactly what
\* the 402 says is served: network, token domain, contract or mint, payee, its
\* token account and lifetime mean the same on both sides, however the operator
\* spelled them (config.go 68-246, settler.go 97-150 and 207-290, solana.go
\* 28-79 and 112-197, testpay 66-231).  Three things that Load accepts are not
\* served.  An EVM payee without 0x is compared with a text that has it.  For a
\* negative CHAIN_ID the client signs its absolute value and the server makes no
\* digest.  And a cost below one unit, which the relay quotes when the upstream
\* reports negative usage, no settler takes.
SignedAsAskedIsServed ==
    purchase.state = "refused" =>
        \/ ChainOf(purchase.wallet) # cfg.chain
        \/ purchase.req.amount <= 0
        \/ /\ cfg.chain = "evm"
           /\ \/ cfg.chainID < 0
              \/ ToLower(cfg.payTo) # ToLower(Hex[Address[cfg.payTo]])

\* However the payer spelled its address when it paid and however it is
\* spelled in the query, the balance of an account is all that is recorded of
\* its payments, also under earlier configurations and among rows of the other
\* chain, and the overview counts a payer once (info.go 37-73, payment.go 34-40
\* and 99-110).  The reference is the key that signed, which no row holds.
BalanceIsAllPaid ==
    /\ \A s \in Queries(cfg.chain) :
           LET paid == {r \in rows : r.payer = Account(cfg.chain, s)}
           IN  Balance(cfg.chain, s) = [total |-> Total(paid), count |-> Cardinality(paid)]
    /\ Summary.payers = Cardinality({r.payer : r \in rows})

\* The balances of all clients of both chains, each asked of a process for its
\* own, add up to what the overview shows the operator of the one table, which
\* tells no chains apart (payment.go 34-40 and 99-110).
BooksAddUp ==
    Summary.total =
        SumFunctionOnSet([w \in Clients |-> Balance(ChainOf(w), Text(w)).total], Clients)

(***************************************************************************)
(* The inductive invariant behind them                                     *)
(***************************************************************************)

\* A purchase is under way only where the process serves, and what the client
\* holds is what the configuration in use says.
PurchaseInv ==
    /\ purchase.state # "none" => pc = "up"
    /\ purchase.state \in {"quoted", "signed", "refused"} =>
           \E cost \in Costs : purchase.req = BuildRequirements(cost)
    /\ purchase.state \in {"quoted", "signed", "refused"} => purchase.wallet \in Clients
    /\ purchase.state = "signed" =>
           \/ /\ purchase.wallet \in Wallets
              /\ \E from \in DOMAIN Address :
                    /\ Address[from] = purchase.wallet
                    /\ purchase.header = Header(purchase.wallet, purchase.req, from)
           \/ /\ purchase.wallet \in SolWallets
              /\ purchase.header = Transfer(purchase.wallet, purchase.req)

\* Rows are written under the one text of the payer, each under an id of its own
\* and for something, so a new one adds to the sum of all as much as to that of
\* its payer.
BooksInv ==
    /\ IsFiniteSet(rows)
    /\ \A r \in rows : r.payer \in Clients /\ r.from = Text(r.payer)
    /\ \A r \in rows : r.id \in 1..Cardinality(rows) /\ r.amount \in Nat \ {0}
    /\ Total(rows) = SumFunctionOnSet(
           [w \in Clients |-> Total({r \in rows : r.from = Text(w)})], Clients)

\* A start, a purchase and the books rest on what earlier processes left, in
\* whatever configuration and at whatever statement they ended (main.go 23-105,
\* db.go 68-113, settler.go 115-150, solana.go 79-109).
CheckoutInv == StartInv /\ PurchaseInv /\ BooksInv /\ SignedAsAskedIsServed
=============================================================================
