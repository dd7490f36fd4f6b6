----------------------------- MODULE EvmRelay -----------------------------
(***************************************************************************)
(* Relay with the EVM settler of internal/settler/settler.go and the       *)
(* chain behind it.                                                        *)
(*                                                                         *)
(* Settle decodes the EIP-3009 authorization of the X-PAYMENT header,      *)
(* verifies it against the staged cost and submits it from the shared gas  *)
(* wallet.  bind.Transact asks the node for gas and for the wallet's       *)
(* pending nonce, signs, and sends; Settle returns as soon as the node has *)
(* accepted the transaction, before it is mined.                           *)
(*                                                                         *)
(* Every action is an action of Relay together with what it does to the    *)
(* authorizations and the chain, or leaves Relay's variables alone.        *)
(* Nothing that is signed names a response, and Settle ignores the id it   *)
(* is given (settler.go 115): a client may send an authorization with any  *)
(* id, with several at once, and again.  It may mistake the amount, or     *)
(* sign a second authorization.  The node, the mempool and the USDC        *)
(* contract are external: they are modelled by what Transact and the       *)
(* transaction rely on.                                                    *)
(***************************************************************************)
EXTENDS Relay

CONSTANTS
    Auths,    \* EIP-3009 nonces: one per authorization a client signs
    SigLife,  \* ticks from signing to validBefore
    MaxTxs,   \* bound: account nonces of the gas wallet the model uses
    DryRuns   \* the values DRY_RUN may have when the process starts

Nonces == 0..(MaxTxs - 1)

\* A transaction is known by the authorization it carries and its account
\* nonce.  A dry run makes up a hash from the authorization alone.
Hash(a, n) == <<a, n>>
DryHash(a) == <<a, -1>>

ASSUME EvmAssumption ==
    /\ SigLife \in Nat \ {0}
    /\ MaxTxs \in Nat \ {0}
    /\ DryRuns \subseteq BOOLEAN
    /\ TxHashes = Auths \X (Nonces \cup {-1})
    /\ None \notin Auths
    /\ None \notin [value : Costs, good : BOOLEAN, life : Nat, ids : SUBSET ReqIds]
    /\ None \notin [auth : Auths, paid : BOOLEAN]

VARIABLES
    sigs,     \* authorization -> what was signed, its remaining life, its uses
    settle,   \* handler -> the locals of Settle and submit
    mempool,  \* account nonce -> authorization of the pending transaction
    mined,    \* account nonce -> the mined transaction and whether it paid
    dryRun    \* cfg.DryRun

evm == <<sigs, settle, mempool, mined, dryRun>>

evmVars == <<server, drainLeft, crashes, sweepIn, cache, challenge, hs, payments,
             served, sigs, settle, mempool, mined, dryRun>>

\* good: addresses, validity window, signature and signer are in order.
\* ids: the responses it has been sent with, which only the client knows of.
Signed == [value : Costs, good : BOOLEAN, life : Nat, ids : SUBSET ReqIds]

Steps == {"none", "verify", "prepare", "send"}

Local == [step : Steps, auth : Auths \cup {None}, nonce : Nonces]

NotSettling == [step |-> "none", auth |-> None, nonce |-> 0]

Return(h) == settle' = [settle EXCEPT ![h] = NotSettling]

(***************************************************************************)
(* The chain: the gas wallet's account, the mempool, the USDC contract     *)
(***************************************************************************)

\* The gas wallet's next nonce on chain, and the one PendingNonceAt reports.
Confirmed(n) == n \in Nonces /\ mined[n] # None
ChainNonce == CHOOSE n \in 0..MaxTxs :
                  /\ ~Confirmed(n)
                  /\ \A k \in 0..(n - 1) : Confirmed(k)
PendingNonce == CHOOSE n \in 0..MaxTxs :
                    /\ n \notin Nonces \/ (mined[n] = None /\ mempool[n] = None)
                    /\ \A k \in 0..(n - 1) : mined[k] # None \/ mempool[k] # None

\* The contract has moved the authorization's USDC.
Transferred(a) == \E n \in Nonces : mined[n] # None /\ mined[n].auth = a /\ mined[n].paid

\* transferWithAuthorization does not revert.
Transferable(a) == ~Transferred(a) /\ sigs[a].life > 0

\* The pool takes the transaction: its nonce is not behind the chain, and no
\* copy is pending.  Another pending transaction with that nonce is replaced
\* when the new one bids enough.
PoolTakes(a, n) == n >= ChainNonce /\ mempool[n] # a

\* The next transaction of the wallet is mined; it pays or reverts.
Mine ==
    /\ ChainNonce \in Nonces
    /\ mempool[ChainNonce] # None
    /\ LET a == mempool[ChainNonce]
       IN  mined' = [mined EXCEPT ![ChainNonce] =
                        [auth |-> a, paid |-> Transferable(a)]]
    /\ mempool' = [mempool EXCEPT ![ChainNonce] = None]
    /\ UNCHANGED <<vars, sigs, settle, dryRun>>

\* A pending transaction is evicted.
Evict(n) ==
    /\ mempool[n] # None
    /\ mempool' = [mempool EXCEPT ![n] = None]
    /\ UNCHANGED <<vars, sigs, settle, mined, dryRun>>

(***************************************************************************)
(* Clients                                                                 *)
(***************************************************************************)

\* A client that holds a 402 signs an authorization.
Sign(a, value, good) ==
    /\ sigs[a] = None
    /\ \E r \in ReqIds : challenge[r] # None
    /\ sigs' = [sigs EXCEPT ![a] = [value |-> value, good |-> good,
                                    life |-> SigLife, ids |-> {}]]
    /\ UNCHANGED <<vars, settle, mempool, mined, dryRun>>

\* It sends the authorization with the id of some response, for the first time
\* or again.
Send(h, a, r) ==
    /\ sigs[a] # None
    /\ BeginPayment(h, r)
    /\ sigs' = [sigs EXCEPT ![a].ids = @ \cup {r}]
    /\ settle' = [settle EXCEPT ![h] = [NotSettling EXCEPT !.step = "verify",
                                                           !.auth = a]]
    /\ UNCHANGED <<mempool, mined, dryRun>>

(***************************************************************************)
(* EVMSettler.Settle                                                       *)
(***************************************************************************)

\* Mutant of Verified: the signed amount is not compared with the cost.
AnyAmount(a, cost) == sigs[a].good /\ sigs[a].life > 0

\* Mutant of Verified: the signer is not compared with the payer.
AnySigner(a, cost) == sigs[a].value = cost /\ sigs[a].value > 0 /\ sigs[a].life > 0

Verified(a, cost) ==
    /\ sigs[a].good
    /\ sigs[a].value = cost
    /\ sigs[a].value > 0
    /\ sigs[a].life > 0

\* Mutant of Verify: the dry-run switch is not looked at.
VerifyAlways(h) ==
    /\ settle[h].step = "verify"
    /\ Verified(settle[h].auth, hs[h].cost)
    /\ settle' = [settle EXCEPT ![h].step = "prepare"]
    /\ UNCHANGED <<vars, sigs, mempool, mined, dryRun>>

\* The authorization passes every check and submit is called.
Verify(h) ==
    /\ settle[h].step = "verify"
    /\ Verified(settle[h].auth, hs[h].cost)
    /\ ~dryRun
    /\ settle' = [settle EXCEPT ![h].step = "prepare"]
    /\ UNCHANGED <<vars, sigs, mempool, mined, dryRun>>

\* In a dry run submit returns a made-up hash.
VerifyDry(h) ==
    /\ settle[h].step = "verify"
    /\ Verified(settle[h].auth, hs[h].cost)
    /\ dryRun
    /\ SettleOk(h, DryHash(settle[h].auth))
    /\ Return(h)
    /\ UNCHANGED <<sigs, mempool, mined, dryRun>>

\* Some check fails.
Refuse(h) ==
    /\ settle[h].step = "verify"
    /\ ~Verified(settle[h].auth, hs[h].cost)
    /\ SettleErr(h)
    /\ Return(h)
    /\ UNCHANGED <<sigs, mempool, mined, dryRun>>

\* Transact: the gas estimate runs the call and must not revert; then the
\* wallet's pending nonce is read.  Nothing is reserved by reading it.
Prepare(h) ==
    /\ settle[h].step = "prepare"
    /\ Transferable(settle[h].auth)
    /\ PendingNonce \in Nonces
    /\ settle' = [settle EXCEPT ![h].step = "send", ![h].nonce = PendingNonce]
    /\ UNCHANGED <<vars, sigs, mempool, mined, dryRun>>

\* Mutant of PrepareFails: a failed call is tried again and again.
PrepareRetries(h) == settle[h].step = "prepare" /\ UNCHANGED evmVars

\* An RPC call fails, the estimate reverts or the context ends.
PrepareFails(h) ==
    /\ settle[h].step = "prepare"
    /\ SettleErr(h)
    /\ Return(h)
    /\ UNCHANGED <<sigs, mempool, mined, dryRun>>

\* eth_sendRawTransaction: the node takes the transaction.
Accepted(h) ==
    LET a == settle[h].auth
        n == settle[h].nonce
    IN  /\ settle[h].step = "send"
        /\ PoolTakes(a, n)
        /\ mempool' = [mempool EXCEPT ![n] = a]
        /\ UNCHANGED <<sigs, mined, dryRun>>

SendOk(h) ==
    /\ Accepted(h)
    /\ SettleOk(h, Hash(settle[h].auth, settle[h].nonce))
    /\ Return(h)

\* It takes the transaction, but the reply does not come in time.
SendLost(h) ==
    /\ Accepted(h)
    /\ SettleErr(h)
    /\ Return(h)

\* It refuses (nonce too low, already known, underpriced), or is not reached.
SendFails(h) ==
    /\ settle[h].step = "send"
    /\ SettleErr(h)
    /\ Return(h)
    /\ UNCHANGED <<sigs, mempool, mined, dryRun>>

(***************************************************************************)
(* The rest of the relay, the clock and the process                        *)
(***************************************************************************)

AuthsAge == sigs' = [a \in Auths |->
                        IF sigs[a] = None \/ sigs[a].life = 0
                        THEN sigs[a] ELSE [sigs[a] EXCEPT !.life = @ - 1]]

EvmTick == Tick /\ AuthsAge /\ UNCHANGED <<settle, mempool, mined, dryRun>>

\* Time also passes for the authorizations while the process is down.
DownTick == /\ server = "down"
            /\ AuthsAge
            /\ UNCHANGED <<vars, settle, mempool, mined, dryRun>>

\* A process that ends forgets its calls to Settle, not what they sent.
Forget == /\ settle' = [h \in Handlers |-> NotSettling]
          /\ UNCHANGED <<sigs, mempool, mined, dryRun>>

EvmCrash == Crash /\ Forget

EvmDrained == (DrainDone \/ DrainExpires) /\ Forget

\* The process starts again, with DRY_RUN as the operator has it now.
EvmRestart == /\ Restart
              /\ dryRun' \in DryRuns
              /\ UNCHANGED <<sigs, settle, mempool, mined>>

Others ==
    /\ \/ \E h \in Handlers : BeginInitial(h) \/ UpstreamReturns(h) \/ FinishSteps(h)
       \/ Sweep
       \/ Signal
    /\ UNCHANGED evm

EvmInit ==
    /\ Init
    /\ sigs = [a \in Auths |-> None]
    /\ settle = [h \in Handlers |-> NotSettling]
    /\ mempool = [n \in Nonces |-> None]
    /\ mined = [n \in Nonces |-> None]
    /\ dryRun \in DryRuns

EvmSettle(h) ==
    \/ Verify(h) \/ VerifyDry(h) \/ Refuse(h)
    \/ Prepare(h) \/ PrepareFails(h)
    \/ SendOk(h) \/ SendLost(h) \/ SendFails(h)

Clients ==
    \/ \E a \in Auths, value \in Costs, good \in BOOLEAN : Sign(a, value, good)
    \/ \E h \in Handlers, a \in Auths, r \in ReqIds : Send(h, a, r)

Chain == Mine \/ \E n \in Nonces : Evict(n)

EvmNext ==
    \/ \E h \in Handlers : EvmSettle(h)
    \/ Clients
    \/ Chain
    \/ EvmTick
    \/ DownTick
    \/ EvmCrash
    \/ EvmDrained
    \/ EvmRestart
    \/ Others

EvmSafeSpec == EvmInit /\ [][EvmNext]_evmVars

\* Settle has a context and returns; goroutines and timers run; a transaction
\* that stays in the pool is mined; a client that has sent an authorization with
\* an id keeps trying while the process is up.
EvmFairness ==
    /\ \A h \in Handlers :
         /\ WF_evmVars(EvmSettle(h))
         /\ WF_evmVars(UpstreamReturns(h) /\ UNCHANGED evm)
         /\ WF_evmVars(FinishSteps(h) /\ UNCHANGED evm)
    /\ \A a \in Auths, r \in ReqIds :
         WF_evmVars(\E h \in Handlers : Send(h, a, r) /\ r \in sigs[a].ids)
    /\ WF_evmVars(Sweep /\ UNCHANGED evm)
    /\ WF_evmVars(EvmTick)
    /\ WF_evmVars(Mine)
    /\ WF_evmVars(EvmDrained)

EvmSpec == EvmSafeSpec /\ EvmFairness

(***************************************************************************)
(* Safety                                                                  *)
(***************************************************************************)

\* Every variable this module adds holds values of its type.
EvmTypeOK ==
    /\ sigs \in [Auths -> Signed \cup {None}]
    /\ settle \in [Handlers -> Local]
    /\ mempool \in [Nonces -> Auths \cup {None}]
    /\ mined \in [Nonces -> [auth : Auths, paid : BOOLEAN] \cup {None}]
    /\ dryRun \in DryRuns

\* The authorization is in order, was sent with r and pays what r was quoted at.
PaysFor(a, r) ==
    /\ sigs[a] # None
    /\ sigs[a].good
    /\ r \in sigs[a].ids
    /\ sigs[a].value = challenge[r]

\* It does so for some response.
SignedQuote(a) == \E r \in ReqIds : PaysFor(a, r)

\* Transaction tx carries an authorization for response r at this cost.
Pays(tx, r, cost) == PaysFor(tx[1], r) /\ sigs[tx[1]].value = cost

\* Nothing goes to the chain that does not pay the quote of a response it was
\* sent with: every transaction pending or mined, however its sender ended and
\* whatever has been dropped from memory since, carries an authorization that
\* was verified against a staged cost (settler.go 124-146).
BroadcastIsQuoted ==
    \A n \in Nonces : /\ mempool[n] # None => SignedQuote(mempool[n])
                      /\ mined[n] # None => SignedQuote(mined[n].auth)

\* A recorded or delivered response was paid by an authorization that its
\* client sent with that response, for the amount quoted: no interleaving of
\* handlers, lost replies and restarts books what one request carried under
\* the id of another (relay.go 198-214).
BookedIsOwn == \A b \in payments \cup served : Pays(b.tx, b.req, b.amount)

\* An authorization that its client has only sent with one response is booked
\* at most once, although concurrent or repeated retries may broadcast it in
\* several transactions with several hashes (settler.go 161-166, db.go 87-88).
\* Sent with two of the same cost at once it may be booked for both, as no
\* check of the server ties it to either.
BookedOnce ==
    \A p, q \in payments :
        p.tx[1] = q.tx[1] /\ sigs[p.tx[1]].ids = {p.req} => p = q

\* A dry run adds nothing to the chain, whatever it answers and whatever an
\* earlier run has left there (settler.go 158-160).
DryRunStaysLocal ==
    [][dryRun => \A n \in Nonces : mempool'[n] \in {mempool[n], None}]_evmVars

(***************************************************************************)
(* The inductive invariant behind them                                     *)
(***************************************************************************)

\* Settle's locals agree with the handler's: the authorization was sent with its
\* response, verified by the time submit runs and paid with once it returned.
SettleOK(h) ==
    /\ settle[h].step # "none" <=> hs[h].pc = "settling"
    /\ settle[h].step # "none" =>
           /\ settle[h].auth \in Auths
           /\ sigs[settle[h].auth] # None
           /\ hs[h].req \in sigs[settle[h].auth].ids
    /\ settle[h].step \in {"prepare", "send"} =>
           /\ PaysFor(settle[h].auth, hs[h].req)
           /\ sigs[settle[h].auth].value = hs[h].cost
    /\ hs[h].pc \in Settled => Pays(hs[h].tx, hs[h].req, hs[h].cost)

SettleInv == \A h \in Handlers : SettleOK(h)

\* The unique index on request_id.
UniqueRows == \A p, q \in payments : p.req = q.req => p = q

\* No handler of a dry run is on its way to the node.
DryInv == dryRun => \A h \in Handlers : settle[h].step \in {"none", "verify"}

\* The invariant that every step of the settler, the chain and the clients keeps,
\* given Inv.
EvmInv ==
    /\ EvmTypeOK
    /\ SettleInv
    /\ BroadcastIsQuoted
    /\ BookedIsOwn
    /\ UniqueRows
    /\ DryInv

(***************************************************************************)
(* What the documentation says of a payment                                *)
(***************************************************************************)

\* README.md 354: the payments table holds completed payments.  A recorded
\* transaction ends up moving the USDC.
RecordedIsTransferred ==
    \A a \in Auths, n \in Nonces :
        (\E p \in payments : p.tx = Hash(a, n))
            ~> (mined[n] # None /\ mined[n].auth = a /\ mined[n].paid)

\* README.md 3: once the payment is made the service returns the response it
\* has generated, to a client that keeps trying with the one response it signed
\* for, if that was still staged when the transfer was mined, unless the process
\* ends.
PaidIsServed ==
    \A a \in Auths, r \in ReqIds :
        LET sentWithOne == sigs[a] # None /\ sigs[a].ids = {r}
        IN  (Transferred(a) /\ sentWithOne /\ Get(r) # None)
                ~> (server = "down" \/ ~sentWithOne \/ \E s \in served : s.req = r)
=============================================================================
