------------------------------- MODULE Relay -------------------------------
(***************************************************************************)
(* The payment-gated relay: the two-phase handler of                       *)
(* internal/handler/relay.go, the staging cache of internal/cache, the     *)
(* payments table of internal/store and the process lifecycle of           *)
(* cmd/server.                                                             *)
(*                                                                         *)
(* A client POSTs without X-PAYMENT; the relay calls the upstream, prices  *)
(* the response, stages it in the cache and answers 402.  The client POSTs *)
(* again with X-PAYMENT and the request id; the relay fetches the staged   *)
(* entry, settles, records the payment, unstages the entry and answers     *)
(* with the response.  Every request runs in a goroutine of its own, so    *)
(* the steps of several handlers interleave with each other, with the      *)
(* cache's sweeper, with the clock and with the end of the process.        *)
(*                                                                         *)
(* The settler is left abstract here: Settle returns a transaction hash or *)
(* an error.  EvmRelay and SolanaRelay extend this module with a chain.    *)
(*                                                                         *)
(* Time is kept as ages and countdowns, so no bound on the clock is needed.*)
(* Requests the handler answers without changing any state (a missing id,  *)
(* an unknown or expired id, a bad header, a wrong version or network) are *)
(* stuttering steps.                                                       *)
(***************************************************************************)
EXTENDS Integers

CONSTANTS
    Handlers,      \* goroutines serving POST /v1/*
    ReqIds,        \* ids cache.RequestID yields; one per staged response
    Costs,         \* amounts CostMicroUSDC returns, in USDC base units; they
                   \* fit the int64 column of the payments table
    TxHashes,      \* what Settle returns as Settlement.TxHash
    TTL,           \* CACHE_TTL_SECS, in ticks
    SweepPeriod,   \* period of the cache sweeper's ticker, in ticks
    PayTimeout,    \* the 45 s context of handlePayment, in ticks
    DrainTimeout,  \* SHUTDOWN_TIMEOUT_SECS, in ticks
    MaxCrashes,    \* bound: how often the process is killed
    None           \* no entry, no id, no hash

ASSUME RelayAssumption ==
    /\ TTL \in Nat \ {0}
    /\ SweepPeriod \in Nat \ {0}
    /\ PayTimeout \in Nat \ {0}
    /\ DrainTimeout \in Nat \ {0}
    /\ MaxCrashes \in Nat
    /\ Costs \subseteq Int
    /\ None \notin ReqIds \cup Costs \cup TxHashes
    /\ None \notin [cost : Costs, age : Nat]

VARIABLES
    server,     \* "up", "draining" (srv.Shutdown is waiting) or "down"
    drainLeft,  \* ticks until srv.Shutdown gives up
    crashes,    \* how often the process was killed
    sweepIn,    \* ticks until the sweeper's ticker fires
    cache,      \* Cache.store: id -> staged entry
    challenge,  \* id -> cost quoted in the 402 the client holds
    hs,         \* goroutine -> its local state
    payments,   \* rows of the payments table (persistent)
    served      \* paid responses written out, arrived or not

vars == <<server, drainLeft, crashes, sweepIn, cache, challenge, hs,
          payments, served>>

(***************************************************************************)
(* Data                                                                    *)
(***************************************************************************)

\* A staged response.  Its body, status, content type, usage and model travel
\* with it unchanged; the cost and the age are what decides anything.
Entry == [cost : Costs, age : Nat]

RecordResults == {"none", "inserted", "duplicate", "error"}

PCs == {"idle", "upstream", "settling", "record", "delete", "respond"}

\* The locals of Relay.Handle: the id of the X-PAYMENT-REQUEST-ID header, the
\* entry it points to (cost and age), what is left of the context's 45 s, the
\* hash Settle returned and the outcome of db.Record.
HandlerState == [pc   : PCs,
                 req  : ReqIds \cup {None},
                 cost : Costs \cup {None},
                 age  : Nat,
                 left : Nat,
                 tx   : TxHashes \cup {None},
                 rec  : RecordResults]

Idle == [pc |-> "idle", req |-> None, cost |-> None, age |-> 0, left |-> 0,
         tx |-> None, rec |-> "none"]

Payment == [req : ReqIds, amount : Costs, tx : TxHashes]

\* A paid response that was written out; got says whether it arrived.
Served == [req : ReqIds, amount : Costs, tx : TxHashes, rec : RecordResults,
           got : BOOLEAN]

\* Past the point where Settle has returned a settlement.
Settled == {"record", "delete", "respond"}

\* The handler works on a payment for a staged response.
Paying == {"settling"} \cup Settled

(***************************************************************************)
(* The cache (internal/cache/cache.go)                                     *)
(***************************************************************************)

\* Mutants of Expired: expiry forgotten; expiry a sweep late.
NeverExpired(e) == FALSE

LateExpired(e) == e.age > TTL + SweepPeriod

Expired(e) == e.age > TTL

\* Cache.Get: what handlePayment finds under an id.
Get(r) == IF cache[r] = None \/ Expired(cache[r]) THEN None ELSE cache[r]

\* Cache.Store: the entry is stamped with the time it is stored.
Store(r, cost) == cache' = [cache EXCEPT ![r] = [cost |-> cost, age |-> 0]]

\* Mutant of Unstage: the paid entry is left in the cache.
KeepStaged(r) == UNCHANGED cache

\* Cache.Delete: also when the entry is gone already.
Unstage(r) == cache' = [cache EXCEPT ![r] = None]

\* Cache.sweep, one firing of its ticker: every expired entry goes at once,
\* under the write lock.
Sweep ==
    /\ server # "down"
    /\ sweepIn = 0
    /\ sweepIn' = SweepPeriod
    /\ cache' = [r \in ReqIds |-> Get(r)]
    /\ UNCHANGED <<server, drainLeft, crashes, challenge, hs, payments, served>>

(***************************************************************************)
(* Phase one: handleInitial                                                *)
(***************************************************************************)

\* A request without X-PAYMENT arrives; its body is read and sent upstream.
BeginInitial(h) ==
    /\ server = "up"
    /\ hs[h].pc = "idle"
    /\ hs' = [hs EXCEPT ![h].pc = "upstream"]
    /\ UNCHANGED <<server, drainLeft, crashes, sweepIn, cache, challenge,
                   payments, served>>

\* The upstream fails or times out, answers outside 2xx, or answers without
\* token usage: the client gets that answer or a 502 and nothing is staged.
UpstreamFails(h) ==
    /\ hs[h].pc = "upstream"
    /\ hs' = [hs EXCEPT ![h] = Idle]
    /\ UNCHANGED <<server, drainLeft, crashes, sweepIn, cache, challenge,
                   payments, served>>

\* Mutant of FreshId: the id is the hash of the body alone, so a repeated body
\* reuses its id.
BodyOnlyId(r) == TRUE

\* The body and the clock's nanoseconds are hashed: an id never used before.
FreshId(r) == challenge[r] = None

\* The response is priced, stored under a fresh id and quoted in a 402.
Stage(h, r, cost) ==
    /\ hs[h].pc = "upstream"
    /\ FreshId(r)
    /\ Store(r, cost)
    /\ challenge' = [challenge EXCEPT ![r] = cost]
    /\ hs' = [hs EXCEPT ![h] = Idle]
    /\ UNCHANGED <<server, drainLeft, crashes, sweepIn, payments, served>>

(***************************************************************************)
(* Phase two: handlePayment                                                *)
(***************************************************************************)

\* Mutant of BeginPayment: every look-up renews the entry's life.
BeginPaymentRenewing(h, r) ==
    /\ server = "up"
    /\ hs[h].pc = "idle"
    /\ Get(r) # None
    /\ hs' = [hs EXCEPT ![h] = [Idle EXCEPT !.pc = "settling",
                                            !.req = r,
                                            !.cost = Get(r).cost,
                                            !.age = 0,
                                            !.left = PayTimeout]]
    /\ cache' = [cache EXCEPT ![r].age = 0]
    /\ UNCHANGED <<server, drainLeft, crashes, sweepIn, challenge, payments,
                   served>>

\* A request with X-PAYMENT and id r arrives and finds a staged response; the
\* handler keeps the entry's pointer and starts the 45 s context.
BeginPayment(h, r) ==
    /\ server = "up"
    /\ hs[h].pc = "idle"
    /\ Get(r) # None
    /\ hs' = [hs EXCEPT ![h] = [Idle EXCEPT !.pc = "settling",
                                            !.req = r,
                                            !.cost = Get(r).cost,
                                            !.age = Get(r).age,
                                            !.left = PayTimeout]]
    /\ UNCHANGED <<server, drainLeft, crashes, sweepIn, cache, challenge,
                   payments, served>>

\* Mutant of SettleOk: the row is not written.
SettleOkUnrecorded(h, tx) ==
    /\ hs[h].pc = "settling"
    /\ hs' = [hs EXCEPT ![h] = [@ EXCEPT !.pc = "delete", !.tx = tx,
                                               !.age = 0, !.left = 0]]
    /\ UNCHANGED <<server, drainLeft, crashes, sweepIn, cache, challenge,
                   payments, served>>

\* Settle returns a Settlement.  The entry's age and the context no longer
\* matter from here on.
SettleOk(h, tx) ==
    /\ hs[h].pc = "settling"
    /\ hs' = [hs EXCEPT ![h] = [@ EXCEPT !.pc = "record", !.tx = tx,
                                               !.age = 0, !.left = 0]]
    /\ UNCHANGED <<server, drainLeft, crashes, sweepIn, cache, challenge,
                   payments, served>>

\* Settle returns an error (refused, failed, context done or client gone):
\* 502, and the response stays staged.
SettleErr(h) ==
    /\ hs[h].pc = "settling"
    /\ hs' = [hs EXCEPT ![h] = Idle]
    /\ UNCHANGED <<server, drainLeft, crashes, sweepIn, cache, challenge,
                   payments, served>>

Row(s) == [req |-> s.req, amount |-> s.cost, tx |-> s.tx]

\* Mutant of Conflicts: only the transaction hash is unique.
HashConflicts(row) == \E p \in payments : p.tx = row.tx

\* The unique indexes on request_id and on (network, tx_hash); one server has
\* one network.
Conflicts(row) == \E p \in payments : p.req = row.req \/ p.tx = row.tx

RecordOutcomes(row) ==
    {IF Conflicts(row) THEN "duplicate" ELSE "inserted", "error"}

\* Mutant of Record: a refused row ends the request with an error.
RecordOrAbort(h) ==
    /\ hs[h].pc = "record"
    /\ \E rec \in RecordOutcomes(Row(hs[h])) :
         /\ hs' = [hs EXCEPT ![h] = IF rec = "inserted"
                                    THEN [@ EXCEPT !.pc = "delete", !.rec = rec]
                                    ELSE Idle]
         /\ payments' = IF rec = "inserted" THEN payments \cup {Row(hs[h])}
                                            ELSE payments
    /\ UNCHANGED <<server, drainLeft, crashes, sweepIn, cache, challenge, served>>

\* db.Record: inserts the row, is refused by a unique index, or fails in the
\* database.  Its error is logged and the handler goes on.
Record(h) ==
    /\ hs[h].pc = "record"
    /\ \E rec \in RecordOutcomes(Row(hs[h])) :
         /\ hs' = [hs EXCEPT ![h] = [@ EXCEPT !.pc = "delete", !.rec = rec]]
         /\ payments' = IF rec = "inserted" THEN payments \cup {Row(hs[h])}
                                            ELSE payments
    /\ UNCHANGED <<server, drainLeft, crashes, sweepIn, cache, challenge, served>>

\* Mutant of Delete: waits for an entry that a sweep or another handler took.
DeleteOnlyStaged(h) ==
    /\ hs[h].pc = "delete"
    /\ cache[hs[h].req] # None
    /\ Unstage(hs[h].req)
    /\ hs' = [hs EXCEPT ![h].pc = "respond"]
    /\ UNCHANGED <<server, drainLeft, crashes, sweepIn, challenge, payments, served>>

Delete(h) ==
    /\ hs[h].pc = "delete"
    /\ Unstage(hs[h].req)
    /\ hs' = [hs EXCEPT ![h].pc = "respond"]
    /\ UNCHANGED <<server, drainLeft, crashes, sweepIn, challenge, payments, served>>

\* The staged response is written to the client.  The connection may have
\* broken since the request came in: c.Data reports nothing, and the handler
\* returns as if the response had arrived.
Respond(h, got) ==
    /\ hs[h].pc = "respond"
    /\ served' = served \cup {[req |-> hs[h].req, amount |-> hs[h].cost,
                               tx |-> hs[h].tx, rec |-> hs[h].rec, got |-> got]}
    /\ hs' = [hs EXCEPT ![h] = Idle]
    /\ UNCHANGED <<server, drainLeft, crashes, sweepIn, cache, challenge, payments>>

(***************************************************************************)
(* The clock and the process (cmd/server/main.go)                          *)
(***************************************************************************)

\* A staged entry and the handlers holding one grow older.
Older(e) == IF e = None THEN None ELSE [e EXCEPT !.age = @ + 1]

HandlerOlder(s) == IF s.pc = "settling"
                   THEN [s EXCEPT !.age = @ + 1, !.left = @ - 1]
                   ELSE s

\* Time passes.  The process's own timers fire on time: the clock does not
\* overtake the sweeper's ticker, a context's deadline or the drain deadline.
Tick ==
    /\ server # "down"
    /\ sweepIn > 0
    /\ server = "draining" => drainLeft > 0
    /\ \A h \in Handlers : hs[h].pc = "settling" => hs[h].left > 0
    /\ sweepIn' = sweepIn - 1
    /\ drainLeft' = IF server = "draining" THEN drainLeft - 1 ELSE drainLeft
    /\ cache' = [r \in ReqIds |-> Older(cache[r])]
    /\ hs' = [h \in Handlers |-> HandlerOlder(hs[h])]
    /\ UNCHANGED <<server, crashes, challenge, payments, served>>

\* What the end of the process leaves: the table and what clients hold.
Stop ==
    /\ server' = "down"
    /\ cache' = [r \in ReqIds |-> None]
    /\ hs' = [h \in Handlers |-> Idle]
    /\ sweepIn' = 0
    /\ drainLeft' = 0
    /\ UNCHANGED <<challenge, payments, served>>

\* The process is killed, or ListenAndServe fails and main exits.
Crash ==
    /\ server # "down"
    /\ crashes < MaxCrashes
    /\ crashes' = crashes + 1
    /\ Stop

\* SIGINT or SIGTERM: srv.Shutdown stops accepting and waits for handlers.
Signal ==
    /\ server = "up"
    /\ server' = "draining"
    /\ drainLeft' = DrainTimeout
    /\ UNCHANGED <<crashes, sweepIn, cache, challenge, hs, payments, served>>

\* Every handler has returned: Shutdown returns nil and main ends.
DrainDone ==
    /\ server = "draining"
    /\ \A h \in Handlers : hs[h].pc = "idle"
    /\ Stop
    /\ UNCHANGED crashes

\* The drain deadline passes with handlers running: os.Exit(1).
DrainExpires ==
    /\ server = "draining"
    /\ drainLeft = 0
    /\ \E h \in Handlers : hs[h].pc # "idle"
    /\ Stop
    /\ UNCHANGED crashes

\* The process starts again with an empty cache and the same database.
Restart ==
    /\ server = "down"
    /\ server' = "up"
    /\ sweepIn' = SweepPeriod
    /\ UNCHANGED <<drainLeft, crashes, cache, challenge, hs, payments, served>>

(***************************************************************************)
(* The specification                                                       *)
(***************************************************************************)

Init ==
    /\ server = "up"
    /\ drainLeft = 0
    /\ crashes = 0
    /\ sweepIn = SweepPeriod
    /\ cache = [r \in ReqIds |-> None]
    /\ challenge = [r \in ReqIds |-> None]
    /\ hs = [h \in Handlers |-> Idle]
    /\ payments = {}
    /\ served = {}

\* What the upstream call and Settle return, and the steps after them.
UpstreamReturns(h) ==
    \/ UpstreamFails(h)
    \/ \E r \in ReqIds, cost \in Costs : Stage(h, r, cost)

SettleReturns(h) == SettleErr(h) \/ \E tx \in TxHashes : SettleOk(h, tx)

\* What follows a settlement, with no call that waits on anyone else.
FinishSteps(h) == Record(h) \/ Delete(h) \/ \E got \in BOOLEAN : Respond(h, got)

Arrivals(h) == BeginInitial(h) \/ \E r \in ReqIds : BeginPayment(h, r)

Lifecycle == Crash \/ Signal \/ DrainDone \/ DrainExpires \/ Restart

Next ==
    \/ \E h \in Handlers : Arrivals(h)
    \/ \E h \in Handlers : UpstreamReturns(h)
    \/ \E h \in Handlers : SettleReturns(h)
    \/ \E h \in Handlers : FinishSteps(h)
    \/ Sweep
    \/ Tick
    \/ Lifecycle

SafeSpec == Init /\ [][Next]_vars

\* The upstream client has a timeout and Settle a context, so both return; the
\* Go scheduler runs every runnable goroutine; timers fire.  Nobody has to send
\* a request, and nobody has to kill or restart the process.
Fairness ==
    /\ \A h \in Handlers : /\ WF_vars(UpstreamReturns(h))
                           /\ WF_vars(SettleReturns(h))
                           /\ WF_vars(FinishSteps(h))
    /\ WF_vars(Sweep)
    /\ WF_vars(Tick)
    /\ WF_vars(DrainDone \/ DrainExpires)

\* The relay with any settler whose Settle returns: what the relay promises to
\* the modules above it, and what each settler has to implement.
Spec == SafeSpec /\ Fairness

(***************************************************************************)
(* Safety                                                                  *)
(***************************************************************************)

\* Every variable holds values of its type; ages and countdowns stay natural.
TypeOK ==
    /\ server \in {"up", "draining", "down"}
    /\ drainLeft \in Nat
    /\ crashes \in 0..MaxCrashes
    /\ sweepIn \in 0..SweepPeriod
    /\ cache \in [ReqIds -> Entry \cup {None}]
    /\ challenge \in [ReqIds -> Costs \cup {None}]
    /\ hs \in [Handlers -> HandlerState]
    /\ payments \subseteq Payment
    /\ served \subseteq Served

\* What a client is quoted in the 402 is what it is charged: the amount a
\* handler settles, the amount recorded and the X-Cost of the paid response
\* are the quoted cost of that id, whatever was staged, swept, retried or
\* restarted in between (relay.go 140-166 against 198, 207 and 233).
QuoteIsCharged ==
    /\ \A h \in Handlers : hs[h].pc \in Paying => hs[h].cost = challenge[hs[h].req]
    /\ \A p \in payments : p.amount = challenge[p.req]
    /\ \A s \in served : s.amount = challenge[s.req]

\* Once a paid response has gone out, its id finds nothing: a later retry is
\* answered 410 and settles nothing more, even if other handlers for the same
\* id were in flight, and even if the response was lost on its way, so nobody
\* pays twice for it (relay.go 221 before 241, cache.go 59-73).
ServedIsUnstaged == \A s \in served : cache[s.req] = None

\* A response goes out only with its payment accounted for: unless the
\* database failed, the table has a row for its id or for its transaction,
\* because a refused insert means that such a row exists (relay.go 204-216,
\* db.go 87-88).
ServedIsRecorded ==
    \A s \in served :
        \/ s.rec = "error"
        \/ \E p \in payments : p.req = s.req \/ p.tx = s.tx

\* No settlement is under way for a response older than its TTL plus the 45 s
\* the handler allows: expiry is checked once, at the look-up, and the context
\* bounds what follows (cache.go 63, relay.go 196).
SettlementWindow ==
    \A h \in Handlers : hs[h].pc = "settling" => hs[h].age <= TTL + PayTimeout

\* An unpaid response leaves memory at most one sweep period after its TTL:
\* the cache has no other bound (cache.go 75-93).
ResidencyBound ==
    \A r \in ReqIds : cache[r] # None => cache[r].age <= TTL + SweepPeriod

(***************************************************************************)
(* The inductive invariant behind them                                     *)
(***************************************************************************)

\* A handler at work on a payment holds a staged id and its cost; one that
\* has settled holds a hash.
LocalsInv ==
    \A h \in Handlers :
        /\ hs[h].pc \in Paying => hs[h].req \in ReqIds /\ hs[h].cost \in Costs
        /\ hs[h].pc \in Settled => hs[h].tx \in TxHashes

\* Staged entries and handlers carry the quoted cost; ids are never requoted.
QuoteInv ==
    /\ \A r \in ReqIds : cache[r] # None => cache[r].cost = challenge[r]
    /\ \A h \in Handlers : hs[h].pc \in Paying => hs[h].cost = challenge[hs[h].req]
    /\ \A p \in payments : p.amount = challenge[p.req]
    /\ \A s \in served : s.amount = challenge[s.req]

\* The entry is gone before the response goes out and never comes back.
UnstagedInv ==
    /\ \A h \in Handlers : hs[h].pc = "respond" => cache[hs[h].req] = None
    /\ \A s \in served : cache[s.req] = None

\* From the insert on, a row for the id or the transaction exists.
RecordedInv ==
    /\ \A h \in Handlers : hs[h].pc \in {"delete", "respond"} =>
           \/ hs[h].rec = "error"
           \/ \E p \in payments : p.req = hs[h].req \/ p.tx = hs[h].tx
    /\ ServedIsRecorded

\* A dead process runs no handler and holds no entry; a handler's age and
\* countdown move together; the next sweep comes no later than an entry's
\* residency ends.
TimingInv ==
    /\ server = "down" => \A h \in Handlers : hs[h].pc = "idle"
    /\ \A h \in Handlers : hs[h].pc = "settling" =>
           hs[h].age + hs[h].left <= TTL + PayTimeout
    /\ \A r \in ReqIds : cache[r] # None =>
           /\ server # "down"
           /\ cache[r].age + sweepIn <= TTL + SweepPeriod

\* The invariant that a step of any handler, timer or signal preserves.
Inv == TypeOK /\ LocalsInv /\ QuoteInv /\ UnstagedInv /\ RecordedInv /\ TimingInv

(***************************************************************************)
(* Liveness                                                                *)
(***************************************************************************)

\* Every request is answered, or the process ends.
HandlerFinishes == \A h \in Handlers : hs[h].pc # "idle" ~> hs[h].pc = "idle"

\* After a settlement the response goes out, or the process dies: neither a
\* refused insert nor an entry that was swept or deleted meanwhile keeps a
\* payer from the response (relay.go 204-241).
SettledIsServed ==
    \A h \in Handlers, r \in ReqIds, tx \in TxHashes :
        (hs[h].pc = "record" /\ hs[h].req = r /\ hs[h].tx = tx)
            ~> (server = "down" \/ \E s \in served : s.req = r /\ s.tx = tx)

\* A staged response does not stay for ever, however often clients try to pay.
UnpaidIsDropped == \A r \in ReqIds : cache[r] # None ~> cache[r] = None

=============================================================================
