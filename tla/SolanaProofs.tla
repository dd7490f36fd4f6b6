---------------------------- MODULE SolanaProofs ----------------------------
(***************************************************************************)
(* Proofs about SolanaTransaction and SolanaRelay, for every set of        *)
(* handlers, ids and transactions and every body a client may sign.        *)
(*                                                                         *)
(* ValidatedPays: a transaction that passes validateTransaction pays the   *)
(* cost exactly.  SolanaRelay implements Relay, so Relay's invariant Inv   *)
(* holds in it.  On top of Inv, SolInv is inductive: a signed transaction  *)
(* keeps its body and is never less committed than it was (TxKeeps), and a *)
(* quote, once given, stays; hence what was validated still pays when the  *)
(* transaction is awaited, recorded and delivered.                         *)
(***************************************************************************)
EXTENDS SolanaRelay, DeliveryProofs, SumLemmas

\* The transfers of a body are finitely many instructions.
LEMMA TransfersFinite ==
  ASSUME NEW b \in Bodies
  PROVE  IsFiniteSet(At(b.ixs, "Token")) /\ At(b.ixs, "Token") \subseteq Int
<1>1. DOMAIN b.ixs = 1..Len(b.ixs) /\ Len(b.ixs) \in Nat
  BY SolanaAssumption
<1>2. IsFiniteSet(1..Len(b.ixs))
  BY <1>1, FS_Interval
<1>3. At(b.ixs, "Token") \subseteq 1..Len(b.ixs)
  BY <1>1 DEF At
<1> QED
  BY <1>1, <1>2, <1>3, FS_Subset

\* A transaction that passes validateTransaction moves exactly the cost to the
\* merchant, in one transfer and with no other effect, and names the id.
LEMMA ValidatedPays ==
  ASSUME NEW b \in Bodies, NEW cost, NEW id, ValidateTransaction(b, cost, id)
  PROVE  PaysExactly(b, cost, id)
<1>1. PICK i : At(b.ixs, "Token") = {i}
  BY TransfersFinite, FS_Singleton DEF ValidateTransaction, TransferCountOK
<1>2. i \in Int
  BY <1>1, TransfersFinite
<1>3. LastTransfer(b.ixs) = b.ixs[i]
  BY <1>1, <1>2 DEF LastTransfer
<1>4. TransferOK(b.ixs[i], cost)
  BY <1>3 DEF ValidateTransaction
<1>5. Credits(b) = {i}
  BY <1>1, <1>4 DEF Credits, TransferOK
<1>6. id \in Named(b)
  BY DEF ValidateTransaction, MemoOK, Named
<1>7. At(b.ixs, "other") = {}
  BY DEF ValidateTransaction, LoopFails
<1> QED
  BY <1>1, <1>4, <1>5, <1>6, <1>7 DEF PaysExactly, TransferOK

\* A handler inside Settle returns a hash of TxHashes, so every step of the
\* Solana relay is a step of the relay, or leaves it alone.
LEMMA SolStep == SolTypeOK /\ SettleInv /\ [SolNext]_solVars => [Next]_vars
<1> SUFFICES ASSUME SolTypeOK, SettleInv, [SolNext]_solVars PROVE [Next]_vars
  OBVIOUS
<1>1. ASSUME NEW h \in Handlers, SolCalls(h) \/ Polls(h) \/ WaitEnds(h) PROVE [Next]_vars
  <2>1. ASSUME NEW tx \in TxHashes, SettleOk(h, tx) PROVE Next
    BY <2>1 DEF Next, SettleReturns
  <2>2. ASSUME SettleErr(h) PROVE Next
    BY <2>2 DEF Next, SettleReturns
  <2>3. settle[h].step # "none" =>
          DryHash(settle[h].tx) \in TxHashes /\ Hash(settle[h].tx) \in TxHashes
    BY SolanaAssumption DEF SettleInv, SettleOK, Hash, DryHash
  <2>4. CASE Validate(h) \/ Submit(h)
    BY <2>4 DEF Validate, Submit
  <2>5. CASE \/ Refuse(h) \/ SubmitLost(h) \/ SubmitFails(h)
             \/ PollFailed(h) \/ WaitEnds(h)
    BY <2>2, <2>5 DEF Refuse, SubmitLost, SubmitFails, PollFailed, WaitEnds
  <2>6. CASE ValidateDry(h) \/ PollOk(h)
    BY <2>1, <2>3, <2>6 DEF ValidateDry, PollOk
  <2> QED
    BY <1>1, <2>4, <2>5, <2>6 DEF SolCalls, Polls
<1>2. CASE Clients
  BY <1>2 DEF Clients, Sign, Send, Next, Arrivals
<1>3. CASE Cluster
  BY <1>3 DEF Cluster, Land, Advance, Fork, BlockhashExpires
<1>4. CASE SolTick \/ SolCrash \/ SolDrained \/ SolRestart
  BY <1>4 DEF SolTick, SolCrash, SolDrained, SolRestart, Next, Lifecycle
<1>5. CASE Others
  BY <1>5 DEF Others, Next, Arrivals, Lifecycle
<1>6. CASE UNCHANGED solVars
  BY <1>6 DEF solVars, vars
<1> QED
  BY <1>1, <1>2, <1>3, <1>4, <1>5, <1>6 DEF SolNext

\* What a step does to the transactions: one is signed, submitted or moved by
\* the cluster, or none changes.
LEMMA TxStep ==
  ASSUME [SolNext]_solVars
  PROVE  \/ UNCHANGED txs
         \/ \E t \in Txs, body \in Bodies : Sign(t, body)
         \/ \E t \in Txs, failed \in BOOLEAN : Land(t, failed)
         \/ \E t \in Txs : Advance(t) \/ Fork(t) \/ BlockhashExpires(t)
         \/ \E h \in Handlers : Accepted(h)
<1>1. ASSUME NEW h \in Handlers, SolCalls(h) PROVE UNCHANGED txs \/ Accepted(h)
  BY <1>1 DEF SolCalls, Validate, ValidateDry, Refuse, Submit, SubmitLost, SubmitFails
<1>2. ASSUME NEW h \in Handlers, Polls(h) \/ WaitEnds(h) PROVE UNCHANGED txs
  BY <1>2 DEF Polls, PollOk, PollFailed, WaitEnds
<1>3. ASSUME NEW h \in Handlers, NEW t \in Txs, NEW r \in ReqIds, Send(h, t, r)
      PROVE  UNCHANGED txs
  BY <1>3 DEF Send
<1>4. CASE SolTick \/ SolCrash \/ SolDrained \/ SolRestart \/ Others \/ UNCHANGED solVars
  BY <1>4 DEF SolTick, SolCrash, SolDrained, SolRestart, Others, Forget, sol, solVars
<1> QED
  BY <1>1, <1>2, <1>3, <1>4 DEF SolNext, Clients, Cluster

\* How a step may change one transaction: its body stays, it is never less
\* committed than it was, what is committed keeps its outcome, and only a
\* handler that is about to submit it sends it for the first time.
Moves(t, new) ==
  /\ txs' = [txs EXCEPT ![t] = new]
  /\ txs[t] = None => new.stage = "unsent"
  /\ txs[t] # None =>
       /\ new.body = txs[t].body
       /\ txs[t].stage # "unsent" => new.stage # "unsent"
       /\ txs[t].stage = "confirmed" => new.stage \in {"confirmed", "finalized"}
       /\ txs[t].stage = "finalized" => new.stage = "finalized"
       /\ txs[t].stage \in {"confirmed", "finalized"} => new.failed = txs[t].failed
       /\ txs[t].stage = "unsent" /\ new.stage # "unsent" =>
            \E h \in Handlers : settle[h].step = "send" /\ settle[h].tx = t

\* A step changes one transaction at most, and only in that way.
LEMMA TxUpdate ==
  ASSUME SolTypeOK, SettleInv, [SolNext]_solVars
  PROVE  UNCHANGED txs \/ \E t \in Txs, new \in Signed : Moves(t, new)
<1> SUFFICES ASSUME ~UNCHANGED txs PROVE \E t \in Txs, new \in Signed : Moves(t, new)
  OBVIOUS
<1>0. \A t \in Txs : txs[t] # None => txs[t] \in Signed
  BY DEF SolTypeOK
<1>1. ASSUME NEW t \in Txs, NEW body \in Bodies, Sign(t, body)
      PROVE  \E u \in Txs, new \in Signed : Moves(u, new)
  <2> DEFINE new == [body |-> body, stage |-> "unsent", live |-> TRUE, failed |-> FALSE]
  <2>1. new \in Signed /\ new.stage = "unsent"
    BY DEF Signed, Stages
  <2>2. txs[t] = None /\ txs' = [txs EXCEPT ![t] = new]
    BY <1>1 DEF Sign
  <2> HIDE DEF new
  <2>3. Moves(t, new)
    BY <2>1, <2>2 DEF Moves
  <2> QED
    BY <2>1, <2>3
<1>2. ASSUME NEW t \in Txs, NEW failed \in BOOLEAN, Land(t, failed)
      PROVE  \E u \in Txs, new \in Signed : Moves(u, new)
  <2> DEFINE new == [txs[t] EXCEPT !.stage = "processed", !.failed = failed]
  <2>1. txs[t] \in Signed /\ txs[t] # None /\ txs[t].stage = "inflight"
    BY <1>0, <1>2 DEF Land
  <2>2. new \in Signed /\ new.stage = "processed" /\ new.body = txs[t].body
    BY <2>1 DEF Signed, Stages
  <2>3. txs' = [txs EXCEPT ![t] = new]
    BY <1>2 DEF Land, SolTypeOK
  <2> HIDE DEF new
  <2>4. Moves(t, new)
    BY <2>1, <2>2, <2>3 DEF Moves
  <2> QED
    BY <2>2, <2>4
<1>3. ASSUME NEW t \in Txs, Advance(t)
      PROVE  \E u \in Txs, new \in Signed : Moves(u, new)
  <2>1. PICK s \in {"confirmed", "finalized"} :
          /\ txs' = [txs EXCEPT ![t].stage = s]
          /\ txs[t].stage = IF s = "confirmed" THEN "processed" ELSE "confirmed"
    BY <1>3 DEF Advance
  <2> DEFINE new == [txs[t] EXCEPT !.stage = s]
  <2>2. txs[t] \in Signed /\ txs[t] # None
    BY <1>0, <1>3 DEF Advance
  <2>3. new \in Signed /\ new.stage = s /\ new.body = txs[t].body /\ new.failed = txs[t].failed
    BY <2>2 DEF Signed, Stages
  <2>4. txs' = [txs EXCEPT ![t] = new]
    BY <2>1 DEF SolTypeOK
  <2> HIDE DEF new
  <2>5. Moves(t, new)
    BY <2>1, <2>2, <2>3, <2>4 DEF Moves
  <2> QED
    BY <2>3, <2>5
<1>4. ASSUME NEW t \in Txs, Fork(t)
      PROVE  \E u \in Txs, new \in Signed : Moves(u, new)
  <2> DEFINE new == [txs[t] EXCEPT !.stage = "inflight", !.failed = FALSE]
  <2>1. txs[t] \in Signed /\ txs[t] # None /\ txs[t].stage = "processed"
    BY <1>0, <1>4 DEF Fork
  <2>2. new \in Signed /\ new.stage = "inflight" /\ new.body = txs[t].body
    BY <2>1 DEF Signed, Stages
  <2>3. txs' = [txs EXCEPT ![t] = new]
    BY <1>4 DEF Fork, SolTypeOK
  <2> HIDE DEF new
  <2>4. Moves(t, new)
    BY <2>1, <2>2, <2>3 DEF Moves
  <2> QED
    BY <2>2, <2>4
<1>5. ASSUME NEW t \in Txs, BlockhashExpires(t)
      PROVE  \E u \in Txs, new \in Signed : Moves(u, new)
  <2> DEFINE new == [txs[t] EXCEPT !.live = FALSE]
  <2>1. txs[t] \in Signed /\ txs[t] # None
    BY <1>0, <1>5 DEF BlockhashExpires
  <2>2. /\ new \in Signed /\ new.stage = txs[t].stage /\ new.body = txs[t].body
        /\ new.failed = txs[t].failed
    BY <2>1 DEF Signed
  <2>3. txs' = [txs EXCEPT ![t] = new]
    BY <1>5 DEF BlockhashExpires, SolTypeOK
  <2> HIDE DEF new
  <2>4. Moves(t, new)
    BY <2>1, <2>2, <2>3 DEF Moves
  <2> QED
    BY <2>2, <2>4
<1>6. ASSUME NEW h \in Handlers, Accepted(h)
      PROVE  \E u \in Txs, new \in Signed : Moves(u, new)
  <2> DEFINE t == settle[h].tx
             s == IF txs[t].stage = "unsent" THEN "inflight" ELSE txs[t].stage
             new == [txs[t] EXCEPT !.stage = s]
  <2>1. settle[h].step = "send" /\ txs' = [txs EXCEPT ![t].stage = s]
    BY <1>6 DEF Accepted
  <2>2. t \in Txs /\ txs[t] \in Signed /\ txs[t] # None
    BY <1>0, <2>1 DEF SettleInv, SettleOK
  <2>3. /\ new \in Signed /\ new.stage = s /\ new.body = txs[t].body
        /\ new.failed = txs[t].failed
    BY <2>2 DEF Signed, Stages
  <2>4. txs' = [txs EXCEPT ![t] = new]
    BY <2>1, <2>2 DEF SolTypeOK
  <2> HIDE DEF new
  <2>5. Moves(t, new)
    BY <2>1, <2>2, <2>3, <2>4 DEF Moves
  <2> QED
    BY <2>2, <2>3, <2>5
<1> QED
  BY <1>1, <1>2, <1>3, <1>4, <1>5, <1>6, TxStep

\* Nothing changes the body of a signed transaction or undoes a commitment.
LEMMA TxKeeps ==
  ASSUME SolTypeOK, SettleInv, [SolNext]_solVars, NEW t \in Txs, txs[t] # None
  PROVE  /\ txs'[t] # None
         /\ txs'[t].body = txs[t].body
         /\ txs[t].stage # "unsent" => txs'[t].stage # "unsent"
         /\ Committed(t) => Committed(t)'
<1>1. CASE UNCHANGED txs
  BY <1>1 DEF Committed
<1>2. ASSUME NEW u \in Txs, NEW new \in Signed, Moves(u, new)
      PROVE  /\ txs'[t] # None
             /\ txs'[t].body = txs[t].body
             /\ txs[t].stage # "unsent" => txs'[t].stage # "unsent"
             /\ Committed(t) => Committed(t)'
  <2>1. CASE t = u
    <3>1. txs'[t] = new /\ new # None
      BY <1>2, <2>1, SolanaAssumption DEF Moves, SolTypeOK, Signed
    <3> QED
      BY <1>2, <2>1, <3>1 DEF Moves, Committed
  <2>2. CASE t # u
    <3>1. txs'[t] = txs[t]
      BY <1>2, <2>2 DEF Moves, SolTypeOK
    <3> QED
      BY <3>1 DEF Committed
  <2> QED
    BY <2>1, <2>2
<1> QED
  BY <1>1, <1>2, TxUpdate

\* A transaction that pays for a response does so for ever.
LEMMA PaysKeeps ==
  ASSUME SolTypeOK, SettleInv, [SolNext]_solVars,
         NEW hash \in TxHashes, NEW r, NEW cost, Pays(hash, r, cost)
  PROVE  Pays(hash, r, cost)'
<1>1. hash[2] \in Txs /\ txs[hash[2]] # None
  BY SolanaAssumption DEF Pays
<1> QED
  BY <1>1, TxKeeps DEF Pays

\* Every step keeps the types of the variables SolanaRelay adds.
LEMMA NextSolType == SolTypeOK /\ SettleInv /\ [SolNext]_solVars => SolTypeOK'
<1> SUFFICES ASSUME SolTypeOK, SettleInv, [SolNext]_solVars PROVE SolTypeOK'
  OBVIOUS
<1>1. txs' \in [Txs -> Signed \cup {None}]
  <2>1. CASE UNCHANGED txs
    BY <2>1 DEF SolTypeOK
  <2>2. ASSUME NEW t \in Txs, NEW new \in Signed, Moves(t, new)
        PROVE  txs' \in [Txs -> Signed \cup {None}]
    BY <2>2 DEF Moves, SolTypeOK
  <2> QED
    BY <2>1, <2>2, TxUpdate
<1>2. NotSettling \in Local
  BY DEF NotSettling, Local
<1>3. settle' \in [Handlers -> Local] /\ dryRun' \in DryRuns
  <2>1. ASSUME NEW h \in Handlers, Validate(h) \/ Submit(h)
        PROVE  settle' \in [Handlers -> Local] /\ dryRun' \in DryRuns
    BY <2>1 DEF Validate, Submit, SolTypeOK, Local
  <2>2. ASSUME NEW h \in Handlers, Return(h), UNCHANGED dryRun
        PROVE  settle' \in [Handlers -> Local] /\ dryRun' \in DryRuns
    BY <1>2, <2>2 DEF Return, SolTypeOK
  <2>3. ASSUME NEW h \in Handlers, SolCalls(h) \/ Polls(h) \/ WaitEnds(h)
        PROVE  Validate(h) \/ Submit(h) \/ (Return(h) /\ UNCHANGED dryRun)
    BY <2>3 DEF SolCalls, ValidateDry, Refuse, SubmitLost, SubmitFails, Polls, PollOk,
                PollFailed, WaitEnds
  <2>4. ASSUME NEW h \in Handlers, NEW t \in Txs, NEW r \in ReqIds, Send(h, t, r)
        PROVE  settle' \in [Handlers -> Local] /\ dryRun' \in DryRuns
    BY <2>4 DEF Send, SolTypeOK, Local
  <2>5. ASSUME NEW t \in Txs, NEW body \in Bodies, Sign(t, body)
        PROVE  settle' \in [Handlers -> Local] /\ dryRun' \in DryRuns
    BY <2>5 DEF Sign, SolTypeOK
  <2>6. CASE Cluster
    BY <2>6 DEF Cluster, Land, Advance, Fork, BlockhashExpires, SolTypeOK
  <2>7. CASE SolCrash \/ SolDrained
    BY <1>2, <2>7 DEF SolCrash, SolDrained, Forget, SolTypeOK
  <2>8. CASE SolTick \/ SolRestart \/ Others \/ UNCHANGED solVars
    BY <2>8 DEF SolTick, SolRestart, Others, sol, solVars, SolTypeOK
  <2> QED
    BY <2>1, <2>2, <2>3, <2>4, <2>5, <2>6, <2>7, <2>8 DEF SolNext, Clients
<1> QED
  BY <1>1, <1>3 DEF SolTypeOK

\* Every step sends only transactions that pay a quote, and quotes stay.
LEMMA NextSent == Inv /\ SolInv /\ [SolNext]_solVars => SentIsQuoted'
<1> SUFFICES ASSUME Inv, SolInv, [SolNext]_solVars, NEW t \in Txs,
                    txs'[t] # None, txs'[t].stage # "unsent"
             PROVE  \E r \in ReqIds : challenge'[r] # None
                                        /\ PaysExactly(txs'[t].body, challenge'[r], r)
  BY DEF SentIsQuoted
<1>0. SolTypeOK /\ SettleInv /\ TypeOK /\ LocalsInv /\ QuoteInv
  BY DEF SolInv, Inv
<1>1. ASSUME txs[t] # None, NEW r \in ReqIds, challenge[r] # None,
             PaysExactly(txs[t].body, challenge[r], r)
      PROVE  challenge'[r] # None /\ PaysExactly(txs'[t].body, challenge'[r], r)
  <2>1. challenge'[r] = challenge[r]
    BY <1>0, <1>1, SolStep, ChallengeKeeps
  <2> QED
    BY <1>0, <1>1, <2>1, TxKeeps
<1>2. CASE txs[t] # None /\ txs[t].stage # "unsent"
  BY <1>1, <1>2 DEF SolInv, SentIsQuoted
<1>3. CASE txs[t] = None \/ txs[t].stage = "unsent"
  <2>1. PICK u \in Txs, new \in Signed : Moves(u, new)
    BY <1>0, <1>3, TxUpdate
  <2>2. u = t
    BY <1>0, <1>3, <2>1 DEF Moves, SolTypeOK
  <2>3. txs'[t] = new
    BY <1>0, <2>1, <2>2 DEF Moves, SolTypeOK
  <2>4. PICK h \in Handlers : settle[h].step = "send" /\ settle[h].tx = t /\ txs[t] # None
    BY <1>3, <2>1, <2>2, <2>3 DEF Moves
  <2>5. /\ PaysExactly(txs[t].body, hs[h].cost, hs[h].req)
        /\ hs[h].pc = "settling"
    BY <1>0, <2>4 DEF SettleInv, SettleOK
  <2>6. /\ hs[h].req \in ReqIds /\ hs[h].cost \in Costs
        /\ hs[h].cost = challenge[hs[h].req]
    BY <1>0, <2>5 DEF LocalsInv, QuoteInv, Paying
  <2>7. challenge[hs[h].req] # None
    BY <2>6, RelayAssumption
  <2> QED
    BY <1>1, <2>4, <2>5, <2>6, <2>7
<1> QED
  BY <1>2, <1>3

\* Every step books only what its handler has settled for its own response.
LEMMA NextBooked == Inv /\ SolInv /\ [SolNext]_solVars => BookedInv'
<1> SUFFICES ASSUME Inv, SolInv, [SolNext]_solVars PROVE BookedInv'
  OBVIOUS
<1>0. [Next]_vars /\ SolTypeOK /\ SettleInv
  BY SolStep DEF SolInv
<1> DEFINE Settles(b) == b.tx \in TxHashes /\ Pays(b.tx, b.req, b.amount)
<1>1. \A b \in payments \cup served : Settles(b)
  BY DEF Inv, TypeOK, Payment, Served, SolInv, BookedInv
<1>2. ASSUME NEW h \in Handlers, hs[h].pc \in Settled
      PROVE  hs[h].tx \in TxHashes /\ Pays(hs[h].tx, hs[h].req, hs[h].cost)
  BY <1>0, <1>2 DEF Inv, LocalsInv, SettleInv, SettleOK
<1>3. ASSUME NEW h \in Handlers, Record(h)
      PROVE  \A b \in payments' \cup served' : Settles(b)
  <2>1. payments' \subseteq payments \cup {Row(hs[h])} /\ served' = served
    BY <1>3 DEF Record
  <2>2. Settles(Row(hs[h]))
    BY <1>2, <1>3 DEF Record, Row, Settled
  <2> HIDE DEF Settles
  <2> QED
    BY <1>1, <2>1, <2>2
<1>4. ASSUME NEW h \in Handlers, NEW got \in BOOLEAN, Respond(h, got)
      PROVE  \A b \in payments' \cup served' : Settles(b)
  <2> DEFINE new == [req |-> hs[h].req, amount |-> hs[h].cost,
                     tx |-> hs[h].tx, rec |-> hs[h].rec, got |-> got]
  <2>1. payments' = payments /\ served' = served \cup {new}
    BY <1>4 DEF Respond
  <2>2. Settles(new)
    BY <1>2, <1>4 DEF Respond, Settled
  <2> HIDE DEF Settles, new
  <2> QED
    BY <1>1, <2>1, <2>2
<1>5. \/ UNCHANGED <<payments, served>>
      \/ \E h \in Handlers : Record(h) \/ \E got \in BOOLEAN : Respond(h, got)
  BY <1>0 DEF Next, Arrivals, UpstreamReturns, SettleReturns, FinishSteps, Lifecycle,
         BeginInitial, BeginPayment, UpstreamFails, Stage, SettleErr, SettleOk,
         Delete, Sweep, Tick, Crash, Signal, DrainDone, DrainExpires, Restart,
         Stop, vars
<1>6. \A b \in payments' \cup served' : Settles(b)
  <2> HIDE DEF Settles
  <2> QED
    BY <1>1, <1>3, <1>4, <1>5
<1>7. ASSUME NEW b \in payments' \cup served' PROVE Pays(b.tx, b.req, b.amount)'
  BY <1>0, <1>6, PaysKeeps DEF Pays
<1> QED
  BY <1>7 DEF BookedInv

\* What a handler has settled stays paid.
LEMMA SettledKeeps ==
  ASSUME LocalsInv, SolTypeOK, SettleInv, [SolNext]_solVars,
         NEW h \in Handlers, hs[h].pc \in Settled,
         hs'[h].req = hs[h].req, hs'[h].cost = hs[h].cost, hs'[h].tx = hs[h].tx
  PROVE  Pays(hs[h].tx, hs[h].req, hs[h].cost)'
<1>1. hs[h].tx \in TxHashes /\ Pays(hs[h].tx, hs[h].req, hs[h].cost)
  BY DEF SettleInv, SettleOK, LocalsInv
<1>2. PICK hash \in TxHashes : hash = hs[h].tx
  BY <1>1
<1>3. PICK r, cost : r = hs[h].req /\ cost = hs[h].cost
  OBVIOUS
<1>4. Pays(hash, r, cost)
  BY <1>1, <1>2, <1>3
<1>5. Pays(hash, r, cost)'
  BY <1>4, PaysKeeps
<1> QED
  BY <1>2, <1>3, <1>5 DEF Pays, Committed

\* A handler whose locals a step leaves alone stays consistent.
LEMMA UntouchedOK ==
  ASSUME LocalsInv, SolTypeOK, SettleInv, [SolNext]_solVars,
         NEW k \in Handlers, settle'[k] = settle[k],
         hs'[k].pc = hs[k].pc, hs'[k].req = hs[k].req,
         hs'[k].cost = hs[k].cost, hs'[k].tx = hs[k].tx
  PROVE  SettleOK(k)'
<1>1. SettleOK(k)
  BY DEF SettleInv
<1>2. settle[k].step # "none" =>
        /\ txs'[settle[k].tx] # None
        /\ txs'[settle[k].tx].body = txs[settle[k].tx].body
        /\ txs[settle[k].tx].stage # "unsent" => txs'[settle[k].tx].stage # "unsent"
  BY <1>1, TxKeeps DEF SettleOK
<1>3. ASSUME hs[k].pc \in Settled
      PROVE  Pays(hs[k].tx, hs[k].req, hs[k].cost)'
  BY <1>3, SettledKeeps
<1> QED
  BY <1>1, <1>2, <1>3 DEF SettleOK

\* Every step keeps Settle's locals in agreement with the handlers'.
LEMMA NextSettle == Inv /\ SolInv /\ [SolNext]_solVars => SettleInv'
<1> SUFFICES ASSUME Inv, SolInv, [SolNext]_solVars, NEW k \in Handlers
             PROVE  SettleOK(k)'
  BY DEF SettleInv
<1> USE SolanaAssumption
<1>0. /\ TypeOK /\ LocalsInv
      /\ SolTypeOK /\ SettleInv /\ SettleOK(k)
  BY DEF Inv, SolInv, SettleInv
<1>1. ASSUME settle'[k] = settle[k], hs'[k].pc = hs[k].pc, hs'[k].req = hs[k].req,
             hs'[k].cost = hs[k].cost, hs'[k].tx = hs[k].tx
      PROVE  SettleOK(k)'
  BY <1>0, <1>1, UntouchedOK
<1>2. ASSUME settle'[k] = NotSettling, hs'[k].pc = "idle" PROVE SettleOK(k)'
  BY <1>2 DEF SettleOK, NotSettling, Settled
<1>3. ASSUME NEW h \in Handlers, SettleErr(h), Return(h) PROVE SettleOK(k)'
  <2>1. CASE k = h
    BY <1>0, <1>2, <1>3, <2>1, IdleType DEF SettleErr, Return, TypeOK, SolTypeOK
  <2>2. CASE k # h
    BY <1>0, <1>1, <1>3, <2>2 DEF SettleErr, Return, TypeOK, SolTypeOK
  <2> QED
    BY <2>1, <2>2
<1>4. ASSUME NEW h \in Handlers, NEW tx \in TxHashes, SettleOk(h, tx), Return(h),
             Pays(tx, hs[h].req, hs[h].cost)
      PROVE  SettleOK(k)'
  <2>1. CASE k = h
    <3>1. /\ settle'[h] = NotSettling
          /\ hs'[h].pc = "record" /\ hs'[h].tx = tx
          /\ hs'[h].req = hs[h].req /\ hs'[h].cost = hs[h].cost
      BY <1>0, <1>4 DEF SettleOk, Return, TypeOK, SolTypeOK, HandlerState
    <3>2. PICK r, cost : r = hs[h].req /\ cost = hs[h].cost
      OBVIOUS
    <3>3. Pays(tx, r, cost)
      BY <1>4, <3>2
    <3>4. Pays(tx, r, cost)'
      BY <1>0, <3>3, PaysKeeps
    <3> QED
      BY <2>1, <3>1, <3>2, <3>4 DEF SettleOK, NotSettling, Pays, Committed
  <2>2. CASE k # h
    BY <1>0, <1>1, <1>4, <2>2 DEF SettleOk, Return, TypeOK, SolTypeOK
  <2> QED
    BY <2>1, <2>2
<1>5. ASSUME NEW h \in Handlers, settle[h].step # "none"
      PROVE  /\ settle[h].tx \in Txs
             /\ txs[settle[h].tx] # None
             /\ txs[settle[h].tx].body \in Bodies
             /\ DryHash(settle[h].tx) \in TxHashes /\ Hash(settle[h].tx) \in TxHashes
             /\ DryHash(settle[h].tx)[1] # "sig" /\ DryHash(settle[h].tx)[2] = settle[h].tx
             /\ Hash(settle[h].tx)[2] = settle[h].tx
  BY <1>0, <1>5 DEF SettleInv, SettleOK, SolTypeOK, Signed, Hash, DryHash
<1>6. ASSUME NEW h \in Handlers, settle[h].step # "none",
             Validated(settle[h].tx, hs[h].req, hs[h].cost)
      PROVE  PaysExactly(txs[settle[h].tx].body, hs[h].cost, hs[h].req)
  BY <1>5, <1>6, ValidatedPays DEF Validated
<1>7. ASSUME NEW h \in Handlers, SolCalls(h) \/ Polls(h) \/ WaitEnds(h) PROVE SettleOK(k)'
  <2>1. CASE Validate(h)
    <3>1. UNCHANGED <<hs, txs>>
      BY <2>1 DEF Validate, vars
    <3>2. /\ settle[h].step = "validate"
          /\ settle'[h].step = "send" /\ settle'[h].tx = settle[h].tx
          /\ \A j \in Handlers : j # h => settle'[j] = settle[j]
      BY <1>0, <2>1 DEF Validate, SolTypeOK, Local
    <3>3. PaysExactly(txs[settle[h].tx].body, hs[h].cost, hs[h].req)
      BY <1>6, <2>1, <3>2 DEF Validate
    <3>4. CASE k = h
      BY <1>0, <3>1, <3>2, <3>3, <3>4 DEF SettleOK, Settled
    <3>5. CASE k # h
      BY <1>1, <3>1, <3>2, <3>5
    <3> QED
      BY <3>4, <3>5
  <2>2. CASE Submit(h)
    <3>1. UNCHANGED hs
      BY <2>2 DEF Submit, vars
    <3>2. /\ settle[h].step = "send"
          /\ settle'[h].step = "wait" /\ settle'[h].tx = settle[h].tx
          /\ \A j \in Handlers : j # h => settle'[j] = settle[j]
      BY <1>0, <2>2 DEF Submit, Accepted, SolTypeOK, Local
    <3>3. txs[settle[h].tx] \in Signed /\ settle[h].tx \in Txs
      BY <1>0, <1>5, <3>2 DEF SolTypeOK
    <3>4. txs'[settle[h].tx].stage # "unsent"
      BY <1>0, <2>2, <3>3 DEF Submit, Accepted, SolTypeOK, Signed
    <3>5. /\ txs'[settle[h].tx] # None
          /\ txs'[settle[h].tx].body = txs[settle[h].tx].body
      BY <1>0, <1>5, <3>2, TxKeeps
    <3>6. CASE k = h
      BY <1>0, <3>1, <3>2, <3>3, <3>4, <3>5, <3>6 DEF SettleOK, Settled
    <3>7. CASE k # h
      BY <1>1, <3>1, <3>2, <3>7
    <3> QED
      BY <3>6, <3>7
  <2>3. CASE \/ Refuse(h) \/ SubmitLost(h) \/ SubmitFails(h)
             \/ PollFailed(h) \/ WaitEnds(h)
    BY <1>3, <2>3 DEF Refuse, SubmitLost, SubmitFails, PollFailed, WaitEnds
  <2>4. CASE ValidateDry(h)
    <3>1. /\ settle[h].step # "none"
          /\ SettleOk(h, DryHash(settle[h].tx)) /\ Return(h)
      BY <2>4 DEF ValidateDry
    <3>2. Pays(DryHash(settle[h].tx), hs[h].req, hs[h].cost)
      BY <1>5, <1>6, <2>4, <3>1 DEF ValidateDry, Pays
    <3> QED
      BY <1>4, <1>5, <3>1, <3>2
  <2>5. CASE PollOk(h)
    <3>1. /\ settle[h].step = "wait"
          /\ SettleOk(h, Hash(settle[h].tx)) /\ Return(h)
      BY <2>5 DEF PollOk
    <3>2. PaysExactly(txs[settle[h].tx].body, hs[h].cost, hs[h].req)
      BY <1>0, <3>1 DEF SettleInv, SettleOK
    <3>3. Committed(settle[h].tx)
      BY <2>5 DEF PollOk, Reached, Committed
    <3>4. Pays(Hash(settle[h].tx), hs[h].req, hs[h].cost)
      BY <1>5, <3>1, <3>2, <3>3 DEF Pays, Committed
    <3> QED
      BY <1>4, <1>5, <3>1, <3>4
  <2> QED
    BY <1>7, <2>1, <2>2, <2>3, <2>4, <2>5 DEF SolCalls, Polls
<1>8. ASSUME NEW h \in Handlers, NEW t \in Txs, NEW r \in ReqIds, Send(h, t, r)
      PROVE  SettleOK(k)'
  <2>1. txs[t] # None /\ UNCHANGED txs
    BY <1>8 DEF Send
  <2>2. /\ hs'[h].pc = "settling"
        /\ \A j \in Handlers : j # h => hs'[j] = hs[j]
    BY <1>0, <1>8 DEF Send, BeginPayment, TypeOK, Idle
  <2>3. /\ settle'[h].step = "validate" /\ settle'[h].tx = t
        /\ \A j \in Handlers : j # h => settle'[j] = settle[j]
    BY <1>0, <1>8 DEF Send, SolTypeOK
  <2>4. CASE k = h
    BY <2>1, <2>2, <2>3, <2>4 DEF SettleOK, Settled
  <2>5. CASE k # h
    BY <1>1, <2>2, <2>3, <2>5
  <2> QED
    BY <2>4, <2>5
<1>9. CASE \/ Cluster \/ SolRestart \/ UNCHANGED solVars
           \/ \E t \in Txs, body \in Bodies : Sign(t, body)
  <2>1. UNCHANGED <<hs, settle>>
    BY <1>9 DEF Cluster, Land, Advance, Fork, BlockhashExpires, SolRestart, Restart,
                solVars, Sign, vars
  <2> QED
    BY <1>1, <2>1
<1>10. CASE SolTick
  BY <1>0, <1>1, <1>10, TickKeeps DEF SolTick, Typed, TickFrame, sol
<1>11. CASE SolCrash \/ SolDrained
  BY <1>2, <1>11, IdleType
  DEF SolCrash, SolDrained, Forget, Crash, DrainDone, DrainExpires, Stop
<1>12. CASE Others
  <2>1. settle'[k] = settle[k]
    BY <1>12 DEF Others, sol
  <2>2. ASSUME NEW h \in Handlers, BeginInitial(h) \/ UpstreamReturns(h)
        PROVE  SettleOK(k)'
    <3>1. CASE k = h
      <4>1. settle[h].step = "none"
        BY <1>0, <2>2, <3>1
        DEF SettleOK, BeginInitial, UpstreamReturns, UpstreamFails, Stage
      <4>2. hs'[h].pc \in {"idle", "upstream"}
        BY <1>0, <2>2, IdleType
        DEF BeginInitial, UpstreamReturns, UpstreamFails, Stage, TypeOK, HandlerState
      <4> QED
        BY <2>1, <3>1, <4>1, <4>2 DEF SettleOK, Settled
    <3>2. CASE k # h
      BY <1>0, <1>1, <2>1, <2>2, <3>2
      DEF BeginInitial, UpstreamReturns, UpstreamFails, Stage, TypeOK
    <3> QED
      BY <3>1, <3>2
  <2>3. ASSUME NEW h \in Handlers, FinishSteps(h) PROVE SettleOK(k)'
    <3>1. CASE k = h
      <4>1. hs[h].pc \in Settled /\ settle[h].step = "none"
        BY <1>0, <2>3, <3>1
        DEF FinishSteps, Record, Delete, Respond, SettleOK, Settled
      <4>2. CASE \E got \in BOOLEAN : Respond(h, got)
        BY <1>0, <2>1, <3>1, <4>1, <4>2, IdleType DEF Respond, SettleOK, Settled, TypeOK
      <4>3. CASE Record(h) \/ Delete(h)
        <5>1. /\ hs'[h].pc \in {"delete", "respond"}
              /\ hs'[h].req = hs[h].req /\ hs'[h].cost = hs[h].cost
              /\ hs'[h].tx = hs[h].tx
          <6>1. hs[h] \in HandlerState
            BY <1>0 DEF TypeOK
          <6>2. CASE Record(h)
            <7>1. PICK rec : hs' = [hs EXCEPT ![h] =
                                      [@ EXCEPT !.pc = "delete", !.rec = rec]]
              BY <6>2 DEF Record
            <7> QED
              BY <1>0, <6>1, <7>1 DEF TypeOK, HandlerState
          <6>3. CASE Delete(h)
            BY <1>0, <6>1, <6>3 DEF Delete, TypeOK, HandlerState
          <6> QED
            BY <4>3, <6>2, <6>3
        <5>2. Pays(hs[h].tx, hs[h].req, hs[h].cost)'
          BY <1>0, <4>1, <5>1, SettledKeeps
        <5> QED
          BY <2>1, <3>1, <4>1, <5>1, <5>2 DEF SettleOK, Settled
      <4> QED
        BY <2>3, <4>2, <4>3 DEF FinishSteps
    <3>2. CASE k # h
      BY <1>0, <1>1, <2>1, <2>3, <3>2 DEF FinishSteps, Record, Delete, Respond, TypeOK
    <3> QED
      BY <3>1, <3>2
  <2>4. CASE Sweep \/ Signal
    BY <1>1, <2>1, <2>4 DEF Sweep, Signal
  <2> QED
    BY <1>12, <2>2, <2>3, <2>4 DEF Others
<1> QED
  BY <1>7, <1>8, <1>9, <1>10, <1>11, <1>12 DEF SolNext, Clients

\* Only a handler outside a dry run gets past the checks, and the switch is read
\* when the process starts, with no handler at work.
LEMMA NextDry == Inv /\ SolInv /\ [SolNext]_solVars => DryInv'
<1> SUFFICES ASSUME Inv, SolInv, [SolNext]_solVars, dryRun', NEW k \in Handlers
             PROVE  settle'[k].step \in {"none", "validate"}
  BY DEF DryInv
<1>0. NotSettling.step = "none"
  BY DEF NotSettling
<1>1. settle \in [Handlers -> Local]
  BY DEF SolInv, SolTypeOK
<1>2. CASE SolRestart
  <2>1. settle[k].step = "none"
    BY <1>2 DEF SolRestart, Restart, Inv, TimingInv, SolInv, SettleInv, SettleOK
  <2> QED
    BY <1>2, <2>1 DEF SolRestart
<1>3. CASE ~SolRestart
  <2>1. UNCHANGED dryRun
    <3>1. ASSUME NEW h \in Handlers, SolCalls(h) \/ Polls(h) \/ WaitEnds(h)
          PROVE  UNCHANGED dryRun
      BY <3>1 DEF SolCalls, Validate, ValidateDry, Refuse, Submit, SubmitLost, SubmitFails,
                  Polls, PollOk, PollFailed, WaitEnds
    <3>2. CASE Clients \/ Cluster
      BY <3>2 DEF Clients, Sign, Send, Cluster, Land, Advance, Fork, BlockhashExpires
    <3>3. CASE SolTick \/ SolCrash \/ SolDrained \/ Others \/ UNCHANGED solVars
      BY <3>3 DEF SolTick, SolCrash, SolDrained, Forget, Others, sol, solVars
    <3> QED
      BY <1>3, <3>1, <3>2, <3>3 DEF SolNext
  <2>2. \A h \in Handlers : settle[h].step \in {"none", "validate"}
    BY <2>1 DEF SolInv, DryInv
  <2>3. ASSUME NEW h \in Handlers, SolCalls(h) \/ Polls(h) \/ WaitEnds(h)
        PROVE  settle'[k].step \in {"none", "validate"}
    <3>1. ValidateDry(h) \/ Refuse(h)
      BY <2>1, <2>2, <2>3 DEF SolCalls, Validate, Submit, SubmitLost, SubmitFails, Accepted,
                              Polls, PollOk, PollFailed, WaitEnds
    <3>2. settle'[k] = NotSettling \/ settle'[k] = settle[k]
      BY <1>1, <3>1 DEF ValidateDry, Refuse, Return
    <3> QED
      BY <1>0, <2>2, <3>2
  <2>4. CASE Clients
    <3>1. ASSUME NEW h \in Handlers, NEW t \in Txs, NEW r \in ReqIds, Send(h, t, r)
          PROVE  settle'[k].step = "validate" \/ settle'[k] = settle[k]
      BY <1>1, <3>1 DEF Send
    <3>2. ASSUME NEW t \in Txs, NEW body \in Bodies, Sign(t, body)
          PROVE  settle'[k] = settle[k]
      BY <3>2 DEF Sign
    <3> QED
      BY <2>2, <2>4, <3>1, <3>2 DEF Clients
  <2>5. CASE SolCrash \/ SolDrained
    <3>1. settle'[k] = NotSettling
      BY <2>5 DEF SolCrash, SolDrained, Forget
    <3> QED
      BY <1>0, <3>1
  <2>6. CASE Cluster \/ SolTick \/ Others \/ UNCHANGED solVars
    BY <2>2, <2>6 DEF Cluster, Land, Advance, Fork, BlockhashExpires, SolTick, Others,
                      sol, solVars
  <2> QED
    BY <1>3, <2>3, <2>4, <2>5, <2>6 DEF SolNext
<1> QED
  BY <1>2, <1>3

(***************************************************************************)
(* The theorems                                                            *)
(***************************************************************************)

\* Inv and SolInv together are inductive.
LEMMA SolInductive == SolSafeSpec => [](Inv /\ SolInv)
<1>1. SolInit => Inv /\ SolInv
  <2> SUFFICES ASSUME SolInit PROVE Inv /\ SolInv
    OBVIOUS
  <2>1. Inv
    BY InitInv DEF SolInit
  <2>2. SolTypeOK
    <3>1. NotSettling \in Local
      BY DEF NotSettling, Local
    <3> QED
      BY <3>1 DEF SolInit, SolTypeOK
  <2>3. SettleInv
    BY IdleType DEF SolInit, Init, SettleInv, SettleOK, NotSettling, Settled
  <2>4. BookedInv /\ SentIsQuoted /\ DryInv
    BY DEF SolInit, Init, BookedInv, SentIsQuoted, DryInv, NotSettling
  <2> QED
    BY <2>1, <2>2, <2>3, <2>4 DEF SolInv
<1>2. Inv /\ SolInv /\ [SolNext]_solVars => Inv' /\ SolInv'
  <2> SUFFICES ASSUME Inv, SolInv, [SolNext]_solVars PROVE Inv' /\ SolInv'
    OBVIOUS
  <2>1. Inv'
    BY SolStep, NextInv DEF SolInv
  <2>2. SolTypeOK' /\ SettleInv' /\ BookedInv' /\ SentIsQuoted' /\ DryInv'
    BY NextSolType, NextSettle, NextBooked, NextSent, NextDry DEF SolInv
  <2> QED
    BY <2>1, <2>2 DEF SolInv
<1> QED
  BY <1>1, <1>2, PTL DEF SolSafeSpec

\* What Settle has validated stays valid until it is recorded and delivered.
THEOREM SolInvHolds == SolSafeSpec => []SolInv
  BY SolInductive, PTL

\* The relay with the Solana settler implements the relay with any settler:
\* every theorem about Relay holds of it.
THEOREM SolImplementsRelay == SolSafeSpec => SafeSpec
<1>1. SolInit => Init
  BY DEF SolInit
<1>2. SolInv /\ [SolNext]_solVars => [Next]_vars
  BY SolStep DEF SolInv
<1> QED
  BY <1>1, <1>2, SolInvHolds, PTL DEF SolSafeSpec, SafeSpec

\* What is recorded or delivered outside a dry run has reached the configured
\* commitment without an error, and stays there.
THEOREM BookedConfirmed == SolSafeSpec => []BookedIsConfirmed
<1>1. SolInv => BookedIsConfirmed
  BY DEF SolInv, BookedInv, Pays, BookedIsConfirmed
<1> QED
  BY <1>1, SolInvHolds, PTL

\* What is recorded or delivered was paid by one transfer of exactly the quoted
\* amount, in a transaction that names the response and does nothing else.
THEOREM BookedOwn == SolSafeSpec => []BookedIsOwn
<1>1. SolInv => BookedIsOwn
  BY DEF SolInv, BookedInv, Pays, BookedIsOwn
<1> QED
  BY <1>1, SolInvHolds, PTL

\* Only transactions that pay a quote of the relay are ever submitted.
THEOREM SentQuoted == SolSafeSpec => []SentIsQuoted
<1>1. SolInv => SentIsQuoted
  BY DEF SolInv
<1> QED
  BY <1>1, SolInvHolds, PTL

\* While DRY_RUN is set no step submits a transaction.
THEOREM DryRunLocal == SolSafeSpec => DryRunStaysLocal
<1>1. SolInv /\ [SolNext]_solVars =>
        [dryRun => \A t \in Txs : txs[t] # None /\ txs[t].stage = "unsent"
                                    => txs'[t].stage = "unsent"]_solVars
  <2> SUFFICES ASSUME SolInv, [SolNext]_solVars, dryRun, NEW t \in Txs,
                      txs[t] # None, txs[t].stage = "unsent"
               PROVE  txs'[t].stage = "unsent"
    OBVIOUS
  <2>1. SolTypeOK /\ SettleInv /\ \A h \in Handlers : settle[h].step # "send"
    BY DEF SolInv, DryInv
  <2>2. ASSUME NEW u \in Txs, NEW new \in Signed, Moves(u, new)
        PROVE  txs'[t].stage = "unsent"
    BY <2>1, <2>2 DEF Moves, SolTypeOK
  <2> QED
    BY <2>1, <2>2, TxUpdate
<1> QED
  BY <1>1, SolInvHolds, PTL DEF SolSafeSpec, DryRunStaysLocal

\* What Relay guarantees with any settler it guarantees with this one: quoted
\* is charged, delivered is unstaged and recorded, and nothing is settled or
\* kept past its time.
THEOREM SolKeepsRelay ==
  SolSafeSpec => [](QuoteIsCharged /\ ServedIsUnstaged /\ ServedIsRecorded
                  /\ SettlementWindow /\ ResidencyBound)
  BY SolImplementsRelay, ChargedAsQuoted, DeliveredIsGone, DeliveredIsRecorded, SettlesInTime,
     LeavesMemory, PTL

\* The promise to a paying client, down to the calls to the node: whatever the
\* chain, the clients and the process do, an attempt for which Settle has
\* reported a payment ends only in the answer with the response it was quoted
\* for, after the offer has closed, or with the process (relay.go 171-242,
\* solana.go 79-221).
THEOREM SolDelivers == SolSafeSpec => DeliverySafe
  BY SolImplementsRelay, DeliveryIsSafe, PTL

(***************************************************************************)
(* The books                                                               *)
(***************************************************************************)

\* The payments table: one row is added at a time, and the unique index on the
\* transaction refuses a second one for it.
OneRowEach == IsFiniteSet(payments) /\ \A p, q \in payments : p.tx = q.tx => p = q

\* It holds of the relay whatever settles for it: recordPayment is the only writer.
LEMMA RowsAreOne == SafeSpec => []OneRowEach
<1>1. Init => OneRowEach
  BY FS_EmptySet DEF Init, OneRowEach
<1>2. OneRowEach /\ [Next]_vars => OneRowEach'
  <2> SUFFICES ASSUME OneRowEach, [Next]_vars PROVE OneRowEach'
    OBVIOUS
  <2>1. CASE UNCHANGED payments
    BY <2>1 DEF OneRowEach
  <2>2. ASSUME NEW h \in Handlers, Record(h) PROVE OneRowEach'
    <3>1. \/ UNCHANGED payments
          \/ payments' = payments \cup {Row(hs[h])} /\ ~Conflicts(Row(hs[h]))
      BY <2>2 DEF Record, RecordOutcomes
    <3>2. CASE payments' = payments \cup {Row(hs[h])} /\ ~Conflicts(Row(hs[h]))
      BY <3>2, FS_AddElement DEF OneRowEach, Conflicts
    <3> QED
      BY <2>1, <3>1, <3>2
  <2>3. UNCHANGED payments \/ \E h \in Handlers : Record(h)
    BY DEF Next, vars, Arrivals, BeginInitial, BeginPayment, UpstreamReturns, UpstreamFails,
           Stage, SettleReturns, SettleErr, SettleOk, FinishSteps, Delete, Respond, Sweep,
           Tick, Lifecycle, Crash, Signal, DrainDone, DrainExpires, Restart, Stop
  <2> QED
    BY <2>1, <2>2, <2>3
<1> QED
  BY <1>1, <1>2, PTL DEF SafeSpec

\* The USDC a transaction puts into the merchant's account.
Received(tx) == SumFunctionOnSet([i \in Credits(tx) |-> tx.ixs[i].amount], Credits(tx))

\* What pays exactly puts exactly that there.
LEMMA ReceivedExactly ==
  ASSUME NEW tx, NEW amount \in Int, NEW r, PaysExactly(tx, amount, r)
  PROVE  Received(tx) = amount
<1>1. PICK i \in Credits(tx) : Credits(tx) = {i} /\ tx.ixs[i].amount = amount
  BY DEF PaysExactly
<1> DEFINE f == [j \in {i} |-> tx.ixs[j].amount]
<1>2. Received(tx) = SumFunctionOnSet(f, {i}) /\ f[i] = amount
  BY <1>1 DEF Received
<1> HIDE DEF f
<1>3. SumFunctionOnSet(f, {i}) = f[i] + SumFunctionOnSet(f, {i} \ {i})
  <2>1. IsFiniteSet({i}) /\ i \in {i} /\ \A j \in {i} : f[j] \in Int
    BY <1>2, FS_Singleton
  <2> QED
    BY <2>1, SumTake
<1>4. SumFunctionOnSet(f, {i} \ {i}) = 0
  <2>1. {i} \ {i} = {}
    OBVIOUS
  <2>2. SumFunctionOnSet(f, {}) = 0
    BY FS_EmptySet, SumStep
  <2> QED
    BY <2>1, <2>2
<1> QED
  BY <1>2, <1>3, <1>4

\* The revenue in the table is money that arrived: what the rows of payments
\* outside dry runs add up to is what the transactions behind them put into the
\* merchant's account, each of them committed and counted once, although a
\* transaction may name several responses, be sent for each of them and by
\* several handlers at once (relay.go 198-216, db.go 87-88, solana.go 79-199).
RevenueIsReceived ==
    LET booked == {p \in payments : p.tx[1] = "sig"}
        behind == {p.tx[2] : p \in booked}
    IN  /\ \A t \in behind : Committed(t)
        /\ SumFunctionOnSet([p \in booked |-> p.amount], booked)
             = SumFunctionOnSet([t \in behind |-> Received(txs[t].body)], behind)

\* On Solana what the operator's books show has been received, after any
\* number of retries, lost replies, forks and restarts.
THEOREM RevenueReceived == SolSafeSpec => []RevenueIsReceived
<1>1. ASSUME TypeOK, SolInv, OneRowEach PROVE RevenueIsReceived
  <2> DEFINE booked == {p \in payments : p.tx[1] = "sig"}
             m == [p \in booked |-> p.tx[2]]
             behind == {p.tx[2] : p \in booked}
             f == [p \in booked |-> p.amount]
             g == [t \in behind |-> Received(txs[t].body)]
  <2>1. ASSUME NEW p \in booked
        PROVE  /\ p.tx \in {"sig", "DRYRUN"} \X Txs /\ p.tx[1] = "sig"
               /\ p.amount \in Int
               /\ Pays(p.tx, p.req, p.amount)
    <3>1. p \in Payment
      BY <1>1 DEF TypeOK
    <3>2. p.tx \in TxHashes /\ p.amount \in Costs
      BY <3>1 DEF Payment
    <3> QED
      BY <1>1, <3>2, RelayAssumption, SolanaAssumption DEF SolInv, BookedInv
  <2>2. IsFiniteSet(booked)
    BY <1>1, FS_Subset DEF OneRowEach
  <2>3. \A p \in booked : f[p] \in Int /\ f[p] = p.amount /\ m[p] = p.tx[2]
    BY <2>1
  <2>4. ASSUME NEW p \in booked, NEW q \in booked, m[p] = m[q] PROVE p = q
    <3>1. p.tx[1] = q.tx[1] /\ p.tx[2] = q.tx[2]
      BY <2>1, <2>4
    <3>2. p.tx = q.tx
      BY <2>1, <3>1
    <3> QED
      BY <1>1, <3>2 DEF OneRowEach
  <2>5. ASSUME NEW p \in booked PROVE g[m[p]] = f[p]
    <3>1. PaysExactly(txs[p.tx[2]].body, p.amount, p.req) /\ p.amount \in Int
      BY <2>1 DEF Pays
    <3>2. Received(txs[p.tx[2]].body) = p.amount
      BY <3>1, ReceivedExactly
    <3> QED
      BY <3>2
  <2>6. behind = {m[p] : p \in booked}
    OBVIOUS
  <2>7. \A t \in behind : Committed(t)
    BY <2>1 DEF Pays
  <2>8. SumFunctionOnSet(f, booked) = SumFunctionOnSet(g, behind)
    <3> HIDE DEF booked, m, behind, f, g
    <3> QED
      BY <2>2, <2>3, <2>4, <2>5, <2>6, SumReindex
  <2> QED
    BY <2>7, <2>8 DEF RevenueIsReceived
<1>2. TypeOK /\ SolInv /\ OneRowEach => RevenueIsReceived
  BY <1>1
<1> QED
  BY <1>2, SolImplementsRelay, TypeCorrect, SolInvHolds, RowsAreOne, PTL
=============================================================================
