# xPay server: a TLA+ verification project

xPay server is a payment gateway in front of an LLM service. A client's request
is answered upstream first, the answer is priced and held back, and the client
gets `402 Payment Required`; when it comes back with a signed USDC payment the
server settles it on chain and hands out the answer. This directory holds TLA+
models of that protocol, of prices and their administration, and of the
process's configuration and start; TLC configurations that check them on small
instances; and proofs of the safety results that TLAPS checks for all
instances.

## 1. Inventory

| part (source) | state it keeps | operations | modelled in |
|---|---|---|---|
| relay handler (`internal/handler/relay.go`) | locals of each request's goroutine | `handleInitial`, `handlePayment`, usage extraction, receipt headers | `Relay`, `PricedRelay` |
| staging cache (`internal/cache`) | id -> staged response, under an RWMutex; a sweeper goroutine | `Store`, `Get`, `Delete`, `sweep` | `Relay` |
| payment records (`internal/store/payment.go`, `db.go`) | SQLite table `payments` with unique indexes on `request_id` and `(network, tx_hash)` | `migrate`, `Record`; read-only sums and lists | `Relay`, `Startup`, `Checkout` |
| EVM settler (`internal/settler/settler.go`) | none of its own; the gas wallet's account is shared by all handlers | `New`, `BuildRequirements`, `Settle`, `submit` | `EvmRelay`, `Checkout`; `New` in `Startup` |
| Solana settler (`internal/settler/solana.go`) | none of its own | `NewSolana`, `BuildRequirements`, `Settle`, `validateTransaction`, `waitConfirmed` | `SolanaRelay`, `SolanaTransaction`, `Checkout`; `NewSolana` in `Startup` |
| pricing arithmetic (`internal/pricing`) | none (pure), and the table under a lock | `parseUSDToMicros`, `compilePrice`, `NewTable`, `priceFor`, `CostMicroUSDC` | `Pricing`, `PricedRelay` |
| prices, settings, admin API (`internal/store/settings.go`, `internal/handler/admin.go`, `pricing.Manager`) | tables `model_prices` and `settings`; price table and `cfg.Markup` in memory | `SavePrice`, `DeletePrice`, `ResetPrices`, `SaveSettings`, `reloadPrices`, `BootstrapDefaultPrices` | `PriceAdmin` |
| configuration (`internal/config`) | none | `Load` | `Config` |
| process (`cmd/server`) | starting, running, draining or gone | start, signal, drain, `os.Exit` | `Startup`; the end of it in all modules |
| info endpoints (`internal/handler/info.go`) | none | `Balance`, `Address` | `Checkout` (`Balance`) |
| test client (`cmd/testpay`) | none | reads the 402, signs, pays | `Checkout` |
| wire types (`internal/types`), admin page | none | | types where a decision depends on them; the page not |

How they interact. Every HTTP request is a goroutine. Handlers share the cache
(one lock per call, none across calls), the database (one connection, so a call
or a transaction is atomic), the price table (swapped under a lock), `cfg.Markup`
(no lock) and, on EVM, the gas wallet. `handlePayment` calls `Settle`, which
talks to a node for up to 30 s (EVM) or polls a cluster within the handler's
45 s (Solana). SIGTERM makes `srv.Shutdown` wait for handlers for
`SHUTDOWN_TIMEOUT_SECS` (10 s by default), then the process exits whatever runs.
The cache dies with the process; the tables, the chain and what clients hold do
not. A start reads the environment and the database, and exits at the first
thing it cannot use.

What is hard here, and which properties are aimed at it: concurrent retries of
one payment (nothing is reserved between `Get` and `Delete`); an entry that
expires while it is paid for; a record that is refused or fails after the money
moved; replies and responses that are lost; confirmations that come after the
handler gave up; an exit between settlement, record and response; two handlers
that read the same account nonce; a price list that is swapped in late; prices
that change between quote and delivery; roundings and integer widths; a
bootstrap that runs over an operator's changes; a migration that is cut short;
stored values that the next start refuses; one fact spelled in two ways on the
two sides of a comparison. The list with source lines is `hazards` in
`PROJECT.json`.

What makes each part correct:

- relay: a client is charged what it was quoted; a settled payment gets its
  response; a delivered response is accounted for and not handed out again by
  id; every request is answered. `PaidDelivery` says this as one specification;
- cache: expiry bounds how late a settlement can start and how long an unpaid
  response occupies memory;
- settlers: only verified payments reach the chain; what is booked was paid for
  with what the client sent for that response, once unless it was sent for two
  (EVM), and (Solana) names it and is confirmed; `Settle` returns;
- pricing: a response costs what the operator configured for its model, rounded
  up and not by more than the two roundings, and the receipt explains the cost;
- prices: what was saved is what is charged, and stays so over a restart;
- start: what `Load` accepts, and what the admin API stores, starts and serves;
  no request is served on half a schema;
- checkout: a client that signs what it is asked for is served, the balance of an
  account is all that is recorded of what it paid, and the balances of both chains
  add up to the overview.

## 2. Modules

```
Relay ──── RelayProofs
 ├─ RelayDelivery (INSTANCE PaidDelivery) ──── DeliveryProofs (also extends RelayProofs)
 ├─ EvmRelay ──── EvmProofs (also extends DeliveryProofs)
 └─ SolanaRelay (also extends SolanaTransaction) ──── SolanaProofs (also extends DeliveryProofs, SumLemmas)
PriceAdmin ──── PriceProofs
PriceAdmin, Pricing ─── PricedRelay ──── PricedProofs (also extends PriceProofs)
Config ─── Startup ─── Checkout ──── CheckoutProofs (also extends SumLemmas)
SumLemmas    (facts about sums over finite sets, for the proofs)
MCRelay, MCEvmRelay, MCSolanaRelay, MCPriceAdmin, MCPricedRelay, MCCheckout    (instances for TLC)
```

### Relay

The abstract relay: handler, cache, payments table, clock and process, with
*any* settler. `Settle` returns a hash (`SettleOk`) or an error (`SettleErr`).

| TLA+ | code |
|---|---|
| `cache[r]` (cost and age, or `None`) | `Cache.store`; the age stands for `time.Since(CreatedAt)` |
| `challenge[r]` | the amount in the 402 the client holds |
| `hs[h]` (`pc`, id, cost, age of the entry it points to, context time left, hash, outcome of `Record`) | locals of `handlePayment` |
| `payments`, `served` | rows of `payments`; paid responses written out, each with whether it arrived (`got`) |
| `server`, `drainLeft`, `crashes`, `sweepIn` | process, `Shutdown` deadline, bound on crashes, sweeper's ticker |
| `BeginInitial`, `UpstreamFails`, `Stage` | `handleInitial` up to `client.Do`; its error returns; pricing, `Store` and 402 |
| `BeginPayment`, `SettleOk` / `SettleErr`, `Record`, `Delete`, `Respond` | `handlePayment`, cut where other goroutines can run |
| `Sweep`, `Tick` | the sweeper's ticker; time |
| `Crash`, `Signal`, `DrainDone`, `DrainExpires`, `Restart` | `main` |

Time is kept as ages and countdowns, so nothing bounds the clock; the process's
own timers are not overtaken by it (`Tick` waits for a due sweep, context or
drain deadline). Answers that change nothing (400, 410) are stuttering steps.
The id of a staged response is taken to be fresh (`FreshId`): the code hashes
the body with the clock's nanoseconds. `Respond` may write to a connection that
has broken: `c.Data` reports nothing, and the handler ends as if the response had
arrived.

### PaidDelivery and RelayDelivery

`PaidDelivery` is what the relay promises the clients that pay it, with cache,
clock, table and process hidden: a response is offered once, at one price; while
the offer is open a client may try; an attempt fails and costs nothing, or a
payment is taken; a payment that was taken is answered once the offer has closed,
whether or not the answer arrives. The end of the process (`Abandon`) closes all
offers and drops all attempts. `RelayDelivery` maps `Relay` to it: an offer is
open while the id is staged and closed once it was quoted and is staged no longer,
an attempt is a handler between its look-up and its answer, what is sold is
`served`.

### EvmRelay

Extends `Relay`; every action is a `Relay` action together with its effect on
authorizations and chain, or leaves `Relay`'s variables alone. `Settle` is
`Verify` (or `VerifyDry`, `Refuse`), `Prepare` (gas estimate and
`PendingNonceAt`, nothing reserved), then `SendOk`, `SendLost` (accepted, but the
reply is late) or `SendFails`. The chain (external) mines the wallet's
transactions in nonce order, lets a transfer revert when the authorization is
used or expired, replaces a pending transaction with the same nonce, and evicts.
The EIP-712 digest and the decoding of the other fields are one Boolean, `good`; the
amount is compared, and one that is not positive is refused.

`EVMSettler.Settle` does not use the id and nothing that is signed names one.
Clients may therefore send an authorization with any id, with two at once, and
again, sign a wrong amount, or sign twice; `sigs[a].ids` remembers, for the
properties, with which responses an authorization was sent. What holds of all
this: `BroadcastIsQuoted`, what goes to the chain pays the quote of a response it
was sent with; `BookedIsOwn`, a row or a response was paid for by what its own
client sent with its id, for its own quote, so that handlers do not mix up their
requests; `BookedOnce`, an authorization sent with one response only is booked at
most once. What does not hold, because no check of the server ties an authorization to a
response: one that is sent with two of the same cost at once can pass both gas
estimates, be broadcast twice under two hashes, and be recorded and delivered for
both, although one of the transfers reverts. `BookedOnce` excepts it.

### SolanaTransaction and SolanaRelay

`SolanaTransaction` has transactions as sequences of instructions and the verdict
of `validateTransaction`: the loop that stops at the first instruction it does not
accept and otherwise leaves whether a memo matched, how many transfers there were
and the last of them, then the checks on that one. Beside it stands what the
transaction does when it is executed (`PaysExactly`), which the properties use.

`SolanaRelay` extends `Relay` in the same way as `EvmRelay`. `Settle` is `Validate`
(or `ValidateDry`, `Refuse`), `Submit` (or `SubmitLost`, `SubmitFails`), then rounds
of `PollOk` and `PollFailed` until `WaitEnds`. The cluster (external) lands a
transaction with or without success, confirms, finalizes, forks a merely processed
block away, and lets blockhashes expire. Clients may sign any of `Bodies` and send
a transaction with any id. `MayHangUp` says whether clients drop their
connections, which cancels the context.

### PriceAdmin

`model_prices` and `settings` against the price table and `cfg.Markup`. A price
request is `SavePrice`, `DeletePrice` or `ResetPrices` (the write), `List`, then
`Replace`, with failures in between; `SaveSettings` assigns the markup and
`SetSetting` stores it. `Stop` may come between any two steps; `Start` is
`BootstrapDefaultPrices` and the two loads. `edited` remembers what the operator
last did to a model, and `overlap` whether two requests of this run of the
process ran at the same time.

In the settler modules `dryRun` is `cfg.DryRun`, chosen at each start from
`DryRuns`: an operator may switch it off between two runs of the process.

### Pricing and PricedRelay

`Pricing` has the pure functions of `internal/pricing` and of the relay's usage
extraction. A price as it is written is blank, no number, or a number of
micro-dollars with or without a rest below them; `Int64` wraps
to the integers from `-Half` to `Half - 1`;
model names are sequences, for their prefixes; `NewTable`'s walk over a map and its
unstable sort make `PrefixOrders` a set; a markup is a fraction.

`PricedRelay` composes them with `PriceAdmin`: `Arrive` (usage extracted, markup
read), `Quote` (table read, cost computed, staged), `Deliver` (table read again, for
the headers), with admin requests, failures and restarts in between. `Drop` is the
end of the process. `due` and `calm` remember, for the properties, what the
database said and whether the operator had been told so.

### Config, Startup and Checkout

`Config` is `config.Load` as a function of the environment, which maps variables to
texts; what libraries make of a text (a number, an address, a key, the bytes of a
token's address, nothing but slashes) are constants. `Accepted` is that no error is
returned, `Load` the configuration.

`Startup` is `main` up to the listener. `Launch`, `LoadOk` or `LoadFails`, `Migrate`
(one statement of `migrate` at a time, each creating a table, an index or a column,
with the error that is passed over), `BootstrapPrices`, `LoadMarkup`, `NewSettler`,
`BuildTable`. Every database call may fail and a node may not be reached (`Faults`),
`Kill` may come anywhere, and the next `Launch` may be in another environment on the
same file. A live EVM start needs a node URL whose transport the library knows
(`Transports`; a malformed URL is the operator's mistake, not a fault) and a signer,
which for a `CHAIN_ID` of zero or less may be refused (`SignerRefuses`); `Load` looks at
neither, and `Startable` says so. While the server is up, `SaveSettings` and `SavePrice`
store what later starts read.

`Checkout` extends `Startup` with one purchase at a time, seen from both ends and on
both chains: `Challenge` (the requirements of the configuration), `SignPayment`
(`cmd/testpay`, which knows only the 402) or `SignTransfer` (a Solana wallet, external),
`Pay` or `Refuse` (the network check, then `AuthorizationVerified`: `DecodeAuthorization`,
`Settle`'s checks and the digest over the configuration; or `TransferVerified`: amount,
mint and token account of the one transfer), the row, whose insert may fail, and
`Balance` and `Summary` over the rows. The chain may change between two starts on the
same file, so rows of both are in one table. A digest is the record of the fields that
are hashed, each as its side encodes it (`paddedBig` drops the sign of a number; the
server makes no digest of a negative chain id), and a signature the key with that
record. A row also remembers that key (`payer`), which no column does; `BalanceIsAllPaid`
compares with it.

## 3. Runs

| run | shows | instance, distinct states |
|---|---|---|
| `relay_safety` | `QuoteIsCharged`, `ServedIsUnstaged`, `ServedIsRecorded`, `SettlementWindow`, `ResidencyBound`, the inductive `Inv`; `DeliverySafe`: every step is one of `PaidDelivery` | 2 handlers, 2 ids, 2 costs, 2 hashes, TTL 2, drains that expire; 600,187 |
| `relay_live` | every request is answered; a settled payment is served; an unpaid response is dropped; `DeliveryPromised`: `Spec => PaidDelivery`, fairness included | 2 handlers, 1 id, 2 hashes, a crash; 13,856 |
| `evm_safety` | `BroadcastIsQuoted`, `BookedIsOwn`, `BookedOnce` | 2 handlers, 2 ids of one cost, 1 authorization sent with any of them, 2 nonces, a process that stays up; 1,399,588 |
| `evm_refines` | `EvmSpec => Spec`, fairness included; the inductive `EvmInv`, `DryRunStaysLocal` | 2 handlers, 1 id, 2 costs (one of them zero), 1 authorization, 2 nonces, DRY_RUN either way at each start, a crash; 303,862 |
| `sol_safety` | `BookedIsConfirmed`, `BookedIsOwn`, `SentIsQuoted`, `SolInv`, `DryRunStaysLocal` | 2 handlers, 2 ids, 2 costs (one of them zero), 1 transaction of 29 shapes, DRY_RUN either way at each start; 1,498,252 |
| `sol_live` | `SolSpec => Spec`, `SettleReturnsInTime`, with finality required | 2 handlers, 1 transaction, a crash; 30,232 |
| `prices` | `LoneSaveIsEffective` and `MarkupIsDurable` while requests do not overlap; `EditSurvives`, `DefaultsPresent` always; the inductive `PriceInv` | 2 admins, failures, a restart; 554,821 |
| `priced` | `PricedAsConfigured`, `ReceiptExplainsCost`, `QuoteIsTight`, the inductive `PricedInv` | 1 admin, 2 models, 6 written prices, 5 usage reports, 3 names, failures, a restart; 2,532,459 |
| `checkout` | `StartsUnlessFaulty`, `ServesFullSchema`, `AcceptedServes`, `SignedAsAskedIsServed`, `BalanceIsAllPaid`, `BooksAddUp`, the inductive `CheckoutInv` | 2 starts, 178 environments (46 accepted), 3 databases, 3 clients (one of them on Solana), 2 costs (one of them zero), 2 rows; 513,047 |

Why the bounds are enough to be of interest. Two handlers are what every race
here needs. Two ids let a payment meet the wrong response, two costs the
wrong price; on EVM, where an authorization names no response, two ids of *one* cost
are what lets it be sent with both, and `evm_refines` has the costs that differ. `evm_safety` leaves out the end of
the process (`ServingSpec`), which `evm_refines` has in all its forms, with `EvmInv`: two
of the three properties are parts of it and the third, `BookedOnce`, follows from it. With TTL, sweep period, payment and drain timeouts of one or two
ticks each, entries expire before, during and after a payment, and every order
of expiry, sweep, deadline and exit occurs. A drain that expires is an exit at any
step, which is why `relay_safety` needs no crash besides. Two account nonces let one
authorization be broadcast twice and two transactions compete for one nonce. One
crash or restart separates "before" from "after"; a graceful stop and start is
never bounded. The Solana transactions are those the client document asks for, and
around them one with each thing too much, too little or wrong, and one that names
two responses. In `priced`, `Million` is 4 and `Half` 32, so that the products stay
small while every rounding, a price that wraps, a prefix match, a fall back to the
default, usage with more cached than prompt tokens and usage below zero occur; one administrator
suffices as overlapping requests are the subject of `prices`. In `checkout` the
environments are three accepted ones (EVM, dry run, Solana), all that differ from
the first or the third in one variable, and all that differ from the first in two
of `CHAIN_ID`, `USDC_ADDRESS` and `PAY_TO_ADDRESS`, the ones that interact, negative
and zero chain ids and malformed node URLs among them; the two rows can be of two
chains; the
databases are a new file, one of the release without `cached_input`, and one of this
release; the second start meets what the first one left, killed at any statement or
administered. The run sets `CHECK_DEADLOCK FALSE` because a process that is down
after `MaxStarts` starts may stay so. The proofs below remove the bounds for all
safety properties. Symmetry is used in safety runs only.

### Where documentation and code disagree

Each of these runs checks what a document says and TLC finds a behaviour of the
code that does otherwise.

| run | document | what happens |
|---|---|---|
| `evm_completed` | README 354: `payments` holds completed payments | the row is written when the node accepts the transaction, which may be evicted, replaced or revert |
| `evm_paid` | README 3: once paid, the response is returned | the reply to the broadcast is lost, the transfer is mined, every retry fails at the gas estimate |
| `prices_stale` | README 295: the table in memory is updated at once | of two overlapping saves the one that listed first replaces last |

More of the same kind is seen in the models without a run of its own:

- a Solana transaction that is confirmed after the 45 s are over is not served, and
  once finalized it cannot be sent again (docs/solana-client.md 11: the server waits
  for confirmation, records and returns);
- a default price that was deleted is back after the next start (README 24 and 249:
  prices persist and can be deleted), which `EditSurvives` therefore allows;
- of two overlapping `PUT /settings` one can win in memory and the other in the
  database (`MarkupIsDurable` excludes overlap for this reason);
- of two payments for one id in flight at once the second row is refused by the
  unique index, which is only logged, so its response goes out with a transaction no
  row holds (`ServedIsRecorded` therefore asks for a row of the id *or* of the
  transaction);
- a Solana transaction with several memos is accepted for each response it names;
  the unique index on the hash sees to it that it is booked once, for one of them;
- a price of 2^63 micro-dollars or more passes validation and wraps (`Fits` in the
  properties of `PricedRelay`);
- README's cost formula (273-275) has no minimum of one unit, and does not say that
  cached tokens beyond the prompt tokens are not charged; both are exceptions in
  `ReceiptExplainsCost`;
- an authorization that is sent with two responses of one cost at once can be booked
  and answered for both (the exception in `BookedOnce`);
- a `PAY_TO_ADDRESS` without `0x` is accepted by `Load`, and `Settle` compares it with
  a text that has it: every payment is refused (an exception in
  `SignedAsAskedIsServed`);
- a negative `CHAIN_ID` is accepted by `Load`; in a dry run, or if the signer takes it,
  the process serves, the test client signs the absolute value, the server makes no
  digest, and every payment is refused (an exception there too);
- a `CHAIN_ID` of zero or less, or an `RPC_URL` with no transport, is accepted by `Load`
  and can be refused by `settler.New` (`Startable`);
- the overview sums rows of every network, while balances can only be asked for accounts
  of the chain that is configured: after a restart on the other chain the two no longer
  agree for one process (`BooksAddUp` asks each account's own chain);
- negative token counts alone, which nothing refuses, are quoted at zero, and both settlers
  refuse a payment of zero: such a response cannot be bought (the third exception in
  `SignedAsAskedIsServed`);
- an EVM chain that is not in the table gets Base Sepolia's node where none is
  configured (README 81: supported chains have a default).

### Fairness

`Fairness` (and `EvmFairness`, `SolFairness`) assume weak fairness of: the steps
after a settlement, the sweep and the clock (the Go scheduler runs every runnable
goroutine and timers fire); the return of the upstream call (the HTTP client has
a timeout) and of `Settle` (its context ends); the end of a drain. Nobody has to
send a first request, kill, stop or restart the process. The settlers' fairness
adds that a client that has sent a payment with an id keeps sending it with that id,
that a pending EVM
transaction which stays in the pool is mined and that a landed Solana
transaction advances; nothing makes a submitted Solana transaction land. These
client and chain assumptions only make the violations stronger: the properties
fail although everyone does their best.

`PaidDelivery`'s fairness is not assumed but shown: that an attempt ends, that an
offer is withdrawn in the end, and that what is owed after the offer closed is
answered, all follow from `Fairness` in `relay_live`. `CheckoutSpec` has weak fairness
of `Boot` alone, as nothing in `main` waits; faults, kills, launches, admin requests
and purchases need not happen.

## 4. Proofs

`RelayProofs` proves, for all constants that satisfy `RelayAssumption`:

| theorem | result |
|---|---|
| `InvHolds` | `SafeSpec => []Inv` |
| `TypeCorrect`, `ChargedAsQuoted`, `DeliveredIsGone`, `DeliveredIsRecorded`, `SettlesInTime`, `LeavesMemory` | `SafeSpec => []P` for `TypeOK`, `QuoteIsCharged`, `ServedIsUnstaged`, `ServedIsRecorded`, `SettlementWindow`, `ResidencyBound` |

None of the properties is inductive alone. `QuoteIsCharged` needs that staged
entries carry the quote of their id (`QuoteInv`). `ServedIsUnstaged` needs that
the handler about to respond has already removed the entry and that ids are never
used again, for which `QuoteInv` and the freshness of ids matter (`UnstagedInv`).
`ServedIsRecorded` needs the same fact for a handler between insert and response
(`RecordedInv`). The two timing bounds need the sums that a tick leaves constant:
the age of the entry a handler holds plus the time its context has left, and the
age of a staged entry plus the time to the next sweep (`TimingInv`). `LocalsInv`
gives types to the locals by program counter. `Inv` is their conjunction; there
is one lemma per conjunct, with one step per action.

`DeliveryProofs` proves `DeliveryIsSafe`, `SafeSpec => DeliverySafe`: under the mapping
of `RelayDelivery` an initial state of `Relay` is one of `PaidDelivery` and every step is
one of its steps or a stutter. There is one lemma per action. The steps use `Inv`: that
what is staged or being paid for has been quoted (`QuoteInv`), so that an offer which
closes was open; that a handler about to respond has no entry left (`UnstagedInv`), so
that the answer comes after the offer closed; and the types, by which an entry that
grows older does not become `None`.

`EvmProofs` proves, from `RelayAssumption` and `EvmAssumption`:

| theorem | result |
|---|---|
| `EvmImplementsRelay` | `EvmSafeSpec => SafeSpec`: the refinement mapping is the identity on `Relay`'s variables; each EVM step is a `Relay` step or a stutter |
| `EvmInvHolds` | `EvmSafeSpec => []EvmInv` |
| `BroadcastQuoted`, `BookedOwn`, `BookedAtMostOnce` | `EvmSafeSpec => []P` for `BroadcastIsQuoted`, `BookedIsOwn`, `BookedOnce` |
| `DryRunLocal` | `EvmSafeSpec => DryRunStaysLocal`, an action property |
| `EvmKeepsRelay` | `EvmSafeSpec => [](QuoteIsCharged /\ ServedIsUnstaged /\ ServedIsRecorded /\ SettlementWindow /\ ResidencyBound)` |
| `EvmDelivers` | `EvmSafeSpec => DeliverySafe` |

The invariant is `EvmInv` together with `Inv`, which comes from the refinement.
`SettleInv` ties the locals of `Settle` to those of the handler: the authorization
was sent with the handler's own id, and what was verified against the staged cost
stays so until it is booked, since an authorization keeps its terms and only gains
ids (`SignedKeeps`) and a quote, once given, stays (`QuoteKeeps`). `BookedOnce` follows
from `BookedIsOwn` and the unique index on `request_id` (`UniqueRows`): if an
authorization was sent with one id, all rows it paid for have that id. `DryRunLocal`
needs that no handler of a dry run is past its checks (`DryInv`), which survives a
restart because a dead process runs no handler. `EvmKeepsRelay` and `EvmDelivers`
compose the refinements: what is proved of `Relay` with a settler that may do anything
holds with this one, down to the promise of `PaidDelivery`.

`SolanaProofs` proves, from `RelayAssumption` and `SolanaAssumption`:

| theorem | result |
|---|---|
| `SolImplementsRelay` | `SolSafeSpec => SafeSpec`, by the identity on `Relay`'s variables |
| `SolInvHolds` | `SolSafeSpec => []SolInv` |
| `BookedConfirmed`, `BookedOwn`, `SentQuoted` | `SolSafeSpec => []P` for `BookedIsConfirmed`, `BookedIsOwn`, `SentIsQuoted` |
| `DryRunLocal` | `SolSafeSpec => DryRunStaysLocal`, an action property |
| `SolKeepsRelay`, `SolDelivers` | `SolSafeSpec => [](...)` of the relay's five properties, and `SolSafeSpec => DeliverySafe`, as for EVM |
| `RevenueReceived` | `SolSafeSpec => []RevenueIsReceived`: the amounts of the rows booked outside dry runs add up to what the transactions behind them put into the merchant's account |

The centre is the lemma `ValidatedPays`: a transaction of any length that
`validateTransaction` accepts, executed, moves exactly the cost to the payee, once,
and names the response. The code looks at the last transfer of the loop and at two
counters; the lemma shows that these leave room for nothing else. `SettleInv`
carries the verdict from the check to the wait and ties what was settled to a
transaction that has reached the commitment, which no fork undoes any more
(`Committed` is stable); `BookedInv` says the same of rows and responses, so that it
outlives the handler. `RevenueReceived` counts each transaction once on the chain's side
and each row once on the books' side; the unique index on the transaction makes these
the same count (`RowsAreOne`), and `ValidatedPays` makes the amounts the same
(`ReceivedExactly`). There is no such theorem for EVM, where a row may be written for a
transaction that pays nothing: that is what the run `evm_completed` shows. The
assumption is about what occurs on the wire: bodies are finite sequences.

`PriceProofs` proves, from `PriceAssumption`, `Spec => []P` for `PriceInv`, `TypeOK`,
`LoneSaveIsEffective`, `MarkupIsDurable`, `EditSurvives` and `DefaultsPresent`
(`PriceInvHolds`, `PriceTypes`, `LoneSaves`, `MarkupsAreDurable`, `EditsSurvive`,
`DefaultsStay`). The two properties of a lone request are not inductive: between the
write and the reload memory and database do differ. `LoneInv` says which request may
leave them apart and what it holds: at most one is under way, the list it has read is
still the database's, the markup it has assigned is still in use, and whatever no
request is about to change agrees unless the last answer was a failure. A start
needs `DownInv`, by which it finds no request half done.

`PricedProofs` proves, from `PricedAssumption`, `PricingAssumption` and
`PriceAssumption`, `PricedSpec => []P` for `PricedInv`, `PricedAsConfigured`,
`ReceiptExplainsCost` and `QuoteIsTight` (`PricedInvHolds`, `PricesAreTheConfigured`,
`ReceiptsExplain`, `QuotesAreTight`), for every table, markup, usage report and width
of the integers. Three arguments meet. Arithmetic: both roundings of the cost are
ceilings, and a ceiling is unique, so that the code's two ways of rounding up agree
with README's formula and the bounds follow (`Roundings`, `CostBounds`,
`FormulaIsCost`); compiling is exact on what fits (`CompileExact`). Look-up: in a list
of all keys sorted by length the first hit is a longest prefix, and a name has only
one prefix of a length, so the order of the map and of ties does not matter (`LookUp`,
`BestUnique`). Concurrency: in a calm moment `LoneInv` of `PriceAdmin` makes the table
that of the database (`FoundDue`); every step of the relay is one of `PriceAdmin` or
leaves it alone, so `PriceInv` is inherited, and `PricedInv` adds that a response
quoted in a calm moment has the cost of the configured price and, delivered in
another with the same price configured, still has it.

Two more results are about the whole. `QuotesAreMonotone` compares any two
responses priced in a calm moment at prices that fit the integers: the one with no fewer prompt and completion tokens, the same cached ones, and
prices and a markup no lower, never costs less. It needs that a ceiling is the least
multiple that suffices (`CeilLeast`), twice, with a common denominator for the two
markups (`CostGrows`). More cached tokens alone may lower a cost, as they are cheaper,
hence the condition on them. `PricedKeepsPrices` is `PricedSpec => Spec`, with the
`Spec` of `PriceAdmin`.

`CheckoutProofs` proves, from `ConfigAssumption`, `StartupAssumption`,
`DatabaseAssumption` and `CheckoutAssumption`, `CheckoutSafe => []P` for `CheckoutInv`,
`StartsUnlessFaulty`, `ServesFullSchema`, `SignedAsAskedIsServed`,
`BalanceIsAllPaid` and `BooksAddUp` (`CheckoutInvHolds`, `StartsWithoutFault`,
`ServesWithSchema`, `ServedAsSigned`, `BalancesAreAllPaid`, `BooksAdd`), for every set of environments and every
subset of the schema's objects as a database. `MigratesInOrder` says that every
statement before the current one has left its object behind, and each statement
needs only earlier ones, so that the one error that is passed over is the only one
to come without a fault (`NoMissingTable`). `Configured` and `StoredIsReadable` say
that what later steps read again was checked before: by `Load` in this start, by the
admin API in an earlier one. `PurchaseInv` ties what the client holds to the
configuration in use; `HeaderVerifies` and `TransferVerifies` then go through the checks
of the two settlers one by one, and where `CHAIN_ID` is not negative both encodings of it
agree (`Padded`).
`BooksInv` says that rows hold the one text of the key that signed, that their
ids are taken up to the number of rows, so that the next one is new, and that the total
of all rows is the sum over the clients of the total of each client's rows. A payment
raises both sides by its amount: on the left one term is added (`TotalAdd`), on the right one
client's term grows and the others stay (`BooksGrow`), as no two clients, of whichever
chain, share a text (`TextsDiffer`). The
assumptions on the constants are about libraries and tables of the code: every
address has a checksummed text that reads back as it, no text is both an address and a
base58 key, parsed truth values are Boolean and parsed numbers integers, no token name
in the table is blank, an EVM node's URL that is accepted without connecting has a known transport,
and the clients are finitely many.

`SumLemmas` has what these sums need. `SumFunctionOnSet` of the community modules is a
fold over a recursive function on sets. Its value is derived without an induction rule:
if a statement about finite sets fails for one, it fails for one of smallest cardinality
(`Smallest`), and that set less one element leads to a contradiction. In this way the
recursive function exists and is unique (`FoldExists`, `FoldsAgree`), the sum takes
one element off (`SumStep`) and any element (`SumTake`), agrees on functions that agree
(`SumSame`), grows by what one term grows (`SumGrows`) and follows a bijection
(`SumReindex`).

The inductive invariants (`Inv`, `EvmInv`, `SolInv`, `PriceInv`, `PricedInv`,
`CheckoutInv`) are also checked by TLC, in the runs of their modules.

Only model-checked: all liveness (`HandlerFinishes`, `SettledIsServed`,
`UnpaidIsDropped`, `DeliveryPromised`, `SettleReturnsInTime`, `AcceptedServes`) and the
fairness part of the refinements, as fairness and `ENABLED` are outside the prover.
`QuoteIsMonotone` and `RevenueIsReceived` are stated in the proof modules and proved, and
no run checks them. The results on chains hold under the assumptions named in
section 2.

## 5. Not modelled

- Response bodies, status codes, wording, logging, the decoding of JSON, the
  formatting of amounts as dollars.
- The hash and, but for signs, the ABI encoding below the EIP-712 digest, and the
  signature scheme, which are taken as ideal; in `EvmRelay` the verdict on an authorization is one
  Boolean, which `Checkout` opens.
- `AdminAuth`, CORS, routing, the admin page, the `Address` endpoint and the lists of
  recent payments: they read, and decide nothing that a property is about.
- `PORT`, `BASE_URL`, `DB_PATH`, `ALLOWED_ORIGINS` and `ADMIN_TOKEN`, which `Load` passes
  on unread, and the order in which `Load` complains.
- The width of the stored `Amount` (relay.go 207) and of seconds times `time.Second`: an
  amount or a timeout that does not fit is far outside what occurs.
- Database files of another origin. `CREATE UNIQUE INDEX` fails over duplicate rows;
  in the model there are none, as only a process that serves writes rows, and that has
  both indexes (`ServesFullSchema`).
- Torn reads of `cfg.Markup`, which is written without a lock: a 64-bit
  aligned word, so a reader sees one of the two values.

## 6. Plan

Done: `Relay`, `PaidDelivery` and `EvmRelay` with refinements; `SolanaRelay` with
`SolanaTransaction`; `PriceAdmin`, `Pricing` and `PricedRelay`; `Config`, `Startup` and
`Checkout`; for each of them an inductive invariant and the proofs of section 4; the
composition of the settlers with `PaidDelivery`; sums over the books. Every safety
property of a passing run is also a theorem.

Not planned: that rows are never changed and quotes never withdrawn. The code has no
statement that would do it, so a proof would only repeat the model.
