---------------------------- MODULE SolanaRelay ----------------------------
(***************************************************************************)
(* Relay with the Solana settler of internal/settler/solana.go and the     *)
(* cluster behind it.                                                      *)
(*                                                                         *)
(* The client sends a signed transaction; Settle validates it against the  *)
(* staged cost and the request id in its memo, submits it and polls its    *)
(* status until it reaches the configured commitment, fails, or the        *)
(* handler's context ends.                                                 *)
(*                                                                         *)
(* Every action is an action of Relay together with what it does to the    *)
(* transactions, or leaves Relay's variables alone.  The cluster is        *)
(* external: it is modelled by what SendTransaction and                    *)
(* GetSignatureStatuses report.  A confirmed transaction is not undone.    *)
(***************************************************************************)
EXTENDS Relay, SolanaTransaction

CONSTANTS
    Txs,         \* transactions clients sign, known by their signature
    Bodies,      \* what clients put into a transaction
    Commitment,  \* SOLANA_CONFIRMATION: "confirmed" or "finalized"
    DryRuns,     \* the values DRY_RUN may have when the process starts
    MayHangUp    \* whether a client may drop the connection it pays on

Hash(t) == <<"sig", t>>
DryHash(t) == <<"DRYRUN", t>>

Stages == {"unsent", "inflight", "processed", "confirmed", "finalized"}

ASSUME SolanaAssumption ==
    /\ Commitment \in {"confirmed", "finalized"}
    /\ DryRuns \subseteq BOOLEAN
    /\ MayHangUp \in BOOLEAN
    /\ TxHashes = {"sig", "DRYRUN"} \X Txs
    /\ None \notin Txs
    /\ \A b \in Bodies : Len(b.ixs) \in Nat /\ DOMAIN b.ixs = 1..Len(b.ixs)
    /\ None \notin [body : Bodies, stage : Stages, live : BOOLEAN, failed : BOOLEAN]

VARIABLES
    txs,     \* transaction -> what was signed, and where it is on the cluster
    settle,  \* handler -> the locals of Settle and waitConfirmed
    dryRun   \* cfg.DryRun

sol == <<txs, settle, dryRun>>

solVars == <<server, drainLeft, crashes, sweepIn, cache, challenge, hs, payments,
             served, txs, settle, dryRun>>

Landed == {"processed", "confirmed", "finalized"}

\* live: its blockhash is recent enough.  failed: it ran and failed.
Signed == [body : Bodies, stage : Stages, live : BOOLEAN, failed : BOOLEAN]

Local == [step : {"none", "validate", "send", "wait"}, tx : Txs \cup {None}]

NotSettling == [step |-> "none", tx |-> None]

Return(h) == settle' = [settle EXCEPT ![h] = NotSettling]

(***************************************************************************)
(* The cluster                                                             *)
(***************************************************************************)

\* A submitted transaction is executed in a block, with or without success.
Land(t, failed) ==
    /\ txs[t] # None
    /\ txs[t].stage = "inflight"
    /\ txs[t].live
    /\ txs' = [txs EXCEPT ![t].stage = "processed", ![t].failed = failed]
    /\ UNCHANGED <<vars, settle, dryRun>>

\* The cluster votes on the block, and roots it.
Advance(t) ==
    /\ txs[t] # None
    /\ \/ /\ txs[t].stage = "processed"
          /\ txs' = [txs EXCEPT ![t].stage = "confirmed"]
       \/ /\ txs[t].stage = "confirmed"
          /\ txs' = [txs EXCEPT ![t].stage = "finalized"]
    /\ UNCHANGED <<vars, settle, dryRun>>

\* The block is abandoned.
Fork(t) ==
    /\ txs[t] # None
    /\ txs[t].stage = "processed"
    /\ txs' = [txs EXCEPT ![t].stage = "inflight", ![t].failed = FALSE]
    /\ UNCHANGED <<vars, settle, dryRun>>

\* The blockhash becomes too old: from now on the transaction cannot land.
BlockhashExpires(t) ==
    /\ txs[t] # None
    /\ txs[t].live
    /\ txs' = [txs EXCEPT ![t].live = FALSE]
    /\ UNCHANGED <<vars, settle, dryRun>>

\* SendTransaction's preflight refuses a transaction that cannot land, or that
\* the finalized bank has seen; whether it refuses one that landed later than
\* that depends on the node.
PreflightPasses(t) == txs[t].live /\ txs[t].stage # "finalized"

(***************************************************************************)
(* Clients                                                                 *)
(***************************************************************************)

\* A client signs a transaction that names responses it holds a 402 for.
Sign(t, body) ==
    /\ txs[t] = None
    /\ \A r \in Named(body) \cap ReqIds : challenge[r] # None
    /\ txs' = [txs EXCEPT ![t] = [body |-> body, stage |-> "unsent",
                                  live |-> TRUE, failed |-> FALSE]]
    /\ UNCHANGED <<vars, settle, dryRun>>

\* It sends the transaction with some request id, for the first time or again.
Send(h, t, r) ==
    /\ txs[t] # None
    /\ BeginPayment(h, r)
    /\ settle' = [settle EXCEPT ![h] = [step |-> "validate", tx |-> t]]
    /\ UNCHANGED <<txs, dryRun>>

Resend(h, t) == txs[t] # None /\ \E r \in Named(txs[t].body) \cap ReqIds : Send(h, t, r)

(***************************************************************************)
(* SolanaSettler.Settle                                                    *)
(***************************************************************************)

\* The payload's request id and validateTransaction.
Validated(t, req, cost) == ValidateTransaction(txs[t].body, cost, req)

\* Mutant of Validate: the dry-run switch is not looked at.
ValidateAlways(h) ==
    /\ settle[h].step = "validate"
    /\ Validated(settle[h].tx, hs[h].req, hs[h].cost)
    /\ settle' = [settle EXCEPT ![h].step = "send"]
    /\ UNCHANGED <<vars, txs, dryRun>>

\* The transaction passes every check and is about to be sent.
Validate(h) ==
    /\ settle[h].step = "validate"
    /\ Validated(settle[h].tx, hs[h].req, hs[h].cost)
    /\ ~dryRun
    /\ settle' = [settle EXCEPT ![h].step = "send"]
    /\ UNCHANGED <<vars, txs, dryRun>>

\* In a dry run the hash is made up from the signature.
ValidateDry(h) ==
    /\ settle[h].step = "validate"
    /\ Validated(settle[h].tx, hs[h].req, hs[h].cost)
    /\ dryRun
    /\ SettleOk(h, DryHash(settle[h].tx))
    /\ Return(h)
    /\ UNCHANGED <<txs, dryRun>>

Refuse(h) ==
    /\ settle[h].step = "validate"
    /\ ~Validated(settle[h].tx, hs[h].req, hs[h].cost)
    /\ SettleErr(h)
    /\ Return(h)
    /\ UNCHANGED <<txs, dryRun>>

\* SendTransaction: the node takes the transaction and forwards it.
Accepted(h) ==
    LET t == settle[h].tx
    IN  /\ settle[h].step = "send"
        /\ PreflightPasses(t)
        /\ txs' = [txs EXCEPT ![t].stage = IF @ = "unsent" THEN "inflight" ELSE @]

Submit(h) ==
    /\ Accepted(h)
    /\ settle' = [settle EXCEPT ![h].step = "wait"]
    /\ UNCHANGED <<vars, dryRun>>

\* It takes the transaction, but the reply does not come in time.
SubmitLost(h) == Accepted(h) /\ SettleErr(h) /\ Return(h) /\ UNCHANGED dryRun

\* It refuses, or is not reached.
SubmitFails(h) ==
    /\ settle[h].step = "send"
    /\ SettleErr(h)
    /\ Return(h)
    /\ UNCHANGED <<txs, dryRun>>

\* Mutant of Reached: a processed transaction is enough.
ReachedProcessed(t) == txs[t].stage \in Landed

Reached(t) ==
    \/ txs[t].stage = "finalized"
    \/ txs[t].stage = "confirmed" /\ Commitment = "confirmed"

\* Mutant of PollOk: the payment is not recorded.
PollOkUnrecorded(h) ==
    /\ settle[h].step = "wait"
    /\ Reached(settle[h].tx)
    /\ ~txs[settle[h].tx].failed
    /\ SettleOkUnrecorded(h, Hash(settle[h].tx))
    /\ Return(h)
    /\ UNCHANGED <<txs, dryRun>>

\* waitConfirmed, one round of its loop: a poll that fails or shows too little
\* changes nothing and the loop goes on.
PollOk(h) ==
    /\ settle[h].step = "wait"
    /\ Reached(settle[h].tx)
    /\ ~txs[settle[h].tx].failed
    /\ SettleOk(h, Hash(settle[h].tx))
    /\ Return(h)
    /\ UNCHANGED <<txs, dryRun>>

PollFailed(h) ==
    /\ settle[h].step = "wait"
    /\ txs[settle[h].tx].stage \in Landed
    /\ txs[settle[h].tx].failed
    /\ SettleErr(h)
    /\ Return(h)
    /\ UNCHANGED <<txs, dryRun>>

\* Mutant of WaitEnds: the loop does not watch the context's deadline.
WaitEndless(h) ==
    /\ settle[h].step = "wait"
    /\ MayHangUp
    /\ SettleErr(h)
    /\ Return(h)
    /\ UNCHANGED <<txs, dryRun>>

\* The context ends: its 45 s are over, or the client is gone.
WaitEnds(h) ==
    /\ settle[h].step = "wait"
    /\ hs[h].left = 0 \/ MayHangUp
    /\ SettleErr(h)
    /\ Return(h)
    /\ UNCHANGED <<txs, dryRun>>

(***************************************************************************)
(* The rest of the relay, the clock and the process                        *)
(***************************************************************************)

SolTick == Tick /\ UNCHANGED sol

\* A process that ends forgets its calls to Settle, not what they sent.
Forget == settle' = [h \in Handlers |-> NotSettling] /\ UNCHANGED <<txs, dryRun>>

SolCrash == Crash /\ Forget

SolDrained == (DrainDone \/ DrainExpires) /\ Forget

\* The process starts again, with DRY_RUN as the operator has it now.
SolRestart == Restart /\ dryRun' \in DryRuns /\ UNCHANGED <<txs, settle>>

Others ==
    /\ \/ \E h \in Handlers : BeginInitial(h) \/ UpstreamReturns(h) \/ FinishSteps(h)
       \/ Sweep
       \/ Signal
    /\ UNCHANGED sol

SolInit ==
    /\ Init
    /\ txs = [t \in Txs |-> None]
    /\ settle = [h \in Handlers |-> NotSettling]
    /\ dryRun \in DryRuns

\* Calls that answer, or give up, on their own.
SolCalls(h) ==
    \/ Validate(h) \/ ValidateDry(h) \/ Refuse(h)
    \/ Submit(h) \/ SubmitLost(h) \/ SubmitFails(h)

Polls(h) == PollOk(h) \/ PollFailed(h)

Clients ==
    \/ \E t \in Txs, body \in Bodies : Sign(t, body)
    \/ \E h \in Handlers, t \in Txs, r \in ReqIds : Send(h, t, r)

Cluster ==
    \E t \in Txs :
        \/ \E failed \in BOOLEAN : Land(t, failed)
        \/ Advance(t)
        \/ Fork(t)
        \/ BlockhashExpires(t)

SolNext ==
    \/ \E h \in Handlers : SolCalls(h) \/ Polls(h) \/ WaitEnds(h)
    \/ Clients
    \/ Cluster
    \/ SolTick
    \/ SolCrash
    \/ SolDrained
    \/ SolRestart
    \/ Others

SolSafeSpec == SolInit /\ [][SolNext]_solVars

\* Goroutines and timers run, RPC calls return, a landed transaction advances,
\* and a client keeps sending its transaction with the id it is for.  Nothing
\* makes a submitted transaction land.
SolFairness ==
    /\ \A h \in Handlers :
         /\ WF_solVars(SolCalls(h))
         /\ WF_solVars(Polls(h))
         /\ WF_solVars(WaitEnds(h) /\ hs[h].left = 0)
         /\ WF_solVars(UpstreamReturns(h) /\ UNCHANGED sol)
         /\ WF_solVars(FinishSteps(h) /\ UNCHANGED sol)
    /\ \A t \in Txs : /\ WF_solVars(Advance(t))
                      /\ WF_solVars(\E h \in Handlers : Resend(h, t))
    /\ WF_solVars(Sweep /\ UNCHANGED sol)
    /\ WF_solVars(SolTick)
    /\ WF_solVars(SolDrained)

SolSpec == SolSafeSpec /\ SolFairness

(***************************************************************************)
(* Properties                                                              *)
(***************************************************************************)

\* Every variable this module adds holds values of its type.
SolTypeOK ==
    /\ txs \in [Txs -> Signed \cup {None}]
    /\ settle \in [Handlers -> Local]
    /\ dryRun \in DryRuns

\* The cluster has committed the transaction as far as the operator asked for.
Committed(t) ==
    /\ txs[t].stage \in {"confirmed", "finalized"}
    /\ Commitment = "finalized" => txs[t].stage = "finalized"
    /\ ~txs[t].failed

\* What is recorded or delivered, but for a dry run, has been paid: its
\* transaction reached the configured commitment without an error and stays
\* there, whatever forks, lost polls and retries came before (solana.go
\* 201-222 and 104-108).
BookedIsConfirmed ==
    \A b \in payments \cup served : b.tx[1] = "sig" => Committed(b.tx[2])

\* What is recorded or delivered was paid by a transaction that names the
\* response and moves exactly the quoted amount to the merchant, in one
\* transfer, with no other effect, even when the transaction was sent with
\* other ids too (solana.go 87-96, 111-199).
BookedIsOwn ==
    \A b \in payments \cup served :
        PaysExactly(txs[b.tx[2]].body, b.amount, b.req)

\* Nothing goes to the cluster that is not the payment of a quote: whatever
\* the order of the instructions, a transaction that was ever sent names a
\* response and pays what that response was quoted at, however its sender
\* ended (solana.go 94-101).
SentIsQuoted ==
    \A t \in Txs :
        txs[t] # None /\ txs[t].stage # "unsent" =>
            \E r \in ReqIds : challenge[r] # None /\ PaysExactly(txs[t].body, challenge[r], r)

\* A dry run sends nothing to the cluster, whatever it answers and whatever an
\* earlier run has sent (solana.go 98-100).
DryRunStaysLocal ==
    [][dryRun => \A t \in Txs : txs[t] # None /\ txs[t].stage = "unsent"
                                    => txs'[t].stage = "unsent"]_solVars

\* The inductive invariant behind them.  A hash that is booked or about to be
\* is that of a transaction which pays and, but for a dry run, is committed.
Pays(hash, r, cost) ==
    /\ txs[hash[2]] # None
    /\ PaysExactly(txs[hash[2]].body, cost, r)
    /\ hash[1] = "sig" => Committed(hash[2])

\* Settle's locals agree with the handler's: what was validated stays so while
\* it is sent and awaited, what is awaited was sent, and what was settled pays.
SettleOK(h) ==
    LET tx == txs[settle[h].tx]
    IN  /\ settle[h].step # "none" <=> hs[h].pc = "settling"
        /\ settle[h].step # "none" => settle[h].tx \in Txs /\ tx # None
        /\ settle[h].step \in {"send", "wait"} =>
               PaysExactly(tx.body, hs[h].cost, hs[h].req)
        /\ settle[h].step = "wait" => tx.stage # "unsent"
        /\ hs[h].pc \in Settled => Pays(hs[h].tx, hs[h].req, hs[h].cost)

SettleInv == \A h \in Handlers : SettleOK(h)

BookedInv == \A b \in payments \cup served : Pays(b.tx, b.req, b.amount)

DryInv == dryRun => \A h \in Handlers : settle[h].step \in {"none", "validate"}

\* What a handler has validated stays valid until it is recorded and delivered,
\* and while DRY_RUN is set no handler is past the checks (solana.go 77-109).
SolInv == SolTypeOK /\ SettleInv /\ BookedInv /\ SentIsQuoted /\ DryInv

\* A payment is answered even if its transaction never lands: the wait is
\* bounded by the 45 s context alone (solana.go 215-220, relay.go 196).
SettleReturnsInTime ==
    \A h \in Handlers : hs[h].pc = "settling" ~> hs[h].pc # "settling"
=============================================================================
