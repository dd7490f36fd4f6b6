----------------------------- MODULE EvmProofs -----------------------------
(***************************************************************************)
(* Proofs about EvmRelay, for every set of handlers, ids, authorizations   *)
(* and account nonces.                                                     *)
(*                                                                         *)
(* EvmRelay implements Relay, so Relay's invariant Inv holds in it.  On    *)
(* top of Inv, EvmInv is inductive: an authorization, once signed, keeps   *)
(* its terms, and a quote, once given, stays (SignedKeeps, QuoteKeeps);    *)
(* hence what Verify established still holds when the transaction is       *)
(* accepted, recorded and delivered.                                       *)
(***************************************************************************)
EXTENDS EvmRelay, DeliveryProofs

\* A handler inside Settle returns a hash of TxHashes, so every step of the EVM
\* relay is a step of the relay, or leaves it alone.
LEMMA EvmStep == EvmTypeOK /\ SettleInv /\ [EvmNext]_evmVars => [Next]_vars
<1> SUFFICES ASSUME EvmTypeOK, SettleInv, [EvmNext]_evmVars PROVE [Next]_vars
  OBVIOUS
<1>1. ASSUME NEW h \in Handlers, EvmSettle(h) PROVE [Next]_vars
  <2>1. ASSUME NEW tx \in TxHashes, SettleOk(h, tx) PROVE Next
    BY <2>1 DEF Next, SettleReturns
  <2>2. ASSUME SettleErr(h) PROVE Next
    BY <2>2 DEF Next, SettleReturns
  <2>3. settle[h].step # "none" =>
          /\ DryHash(settle[h].auth) \in TxHashes
          /\ Hash(settle[h].auth, settle[h].nonce) \in TxHashes
    BY EvmAssumption DEF EvmTypeOK, SettleInv, SettleOK, Local, Hash, DryHash
  <2>4. CASE Verify(h) \/ Prepare(h)
    BY <2>4 DEF Verify, Prepare
  <2>5. CASE Refuse(h) \/ PrepareFails(h) \/ SendLost(h) \/ SendFails(h)
    BY <2>2, <2>5 DEF Refuse, PrepareFails, SendLost, SendFails
  <2>6. CASE VerifyDry(h)
    BY <2>1, <2>3, <2>6 DEF VerifyDry
  <2>7. CASE SendOk(h)
    BY <2>1, <2>3, <2>7 DEF SendOk, Accepted
  <2> QED
    BY <1>1, <2>4, <2>5, <2>6, <2>7 DEF EvmSettle
<1>2. CASE Clients
  <2>1. ASSUME NEW h \in Handlers, NEW a \in Auths, NEW r \in ReqIds, Send(h, a, r)
        PROVE  Next
    BY <2>1 DEF Send, Next, Arrivals
  <2> QED
    BY <1>2, <2>1 DEF Clients, Sign
<1>3. CASE Chain \/ DownTick
  BY <1>3 DEF Chain, Mine, Evict, DownTick
<1>4. CASE EvmTick \/ EvmCrash \/ EvmDrained \/ EvmRestart
  BY <1>4 DEF EvmTick, EvmCrash, EvmDrained, EvmRestart, Next, Lifecycle
<1>5. CASE Others
  BY <1>5 DEF Others, Next, Arrivals, Lifecycle
<1>6. CASE UNCHANGED evmVars
  BY <1>6 DEF evmVars, vars
<1> QED
  BY <1>1, <1>2, <1>3, <1>4, <1>5, <1>6 DEF EvmNext

\* Nothing changes the terms of a signed authorization; its life runs out, and
\* it may be sent with more responses.
LEMMA SignedKeeps ==
  ASSUME EvmTypeOK, [EvmNext]_evmVars, NEW a \in Auths, sigs[a] # None
  PROVE  /\ sigs'[a] # None
         /\ sigs'[a].value = sigs[a].value
         /\ sigs'[a].good = sigs[a].good
         /\ sigs[a].ids \subseteq sigs'[a].ids
<1>1. sigs[a] \in Signed
  BY DEF EvmTypeOK
<1>2. CASE AuthsAge
  <2>1. sigs'[a] = sigs[a] \/ sigs'[a] = [sigs[a] EXCEPT !.life = sigs[a].life - 1]
    BY <1>1, <1>2 DEF AuthsAge
  <2>2. [sigs[a] EXCEPT !.life = sigs[a].life - 1] # None \/ sigs'[a] = sigs[a]
    <3>1. CASE sigs[a].life = 0
      BY <1>2, <3>1 DEF AuthsAge
    <3>2. CASE sigs[a].life # 0
      <4>1. sigs[a].life - 1 \in Nat
        BY <1>1, <3>2 DEF Signed
      <4>2. [sigs[a] EXCEPT !.life = sigs[a].life - 1] \in Signed
        BY <1>1, <4>1 DEF Signed
      <4> QED
        BY <4>2, EvmAssumption DEF Signed
    <3> QED
      BY <3>1, <3>2
  <2> QED
    BY <1>1, <2>1, <2>2 DEF Signed
<1>3. CASE UNCHANGED sigs
  BY <1>3
<1>4. ASSUME NEW b \in Auths, NEW value \in Costs, NEW good \in BOOLEAN,
             Sign(b, value, good)
      PROVE  sigs'[a] = sigs[a]
  BY <1>4 DEF Sign, EvmTypeOK
<1>6. ASSUME NEW r \in ReqIds, sigs'[a] = [sigs[a] EXCEPT !.ids = @ \cup {r}]
      PROVE  /\ sigs'[a] # None
             /\ sigs'[a].value = sigs[a].value
             /\ sigs'[a].good = sigs[a].good
             /\ sigs[a].ids \subseteq sigs'[a].ids
  <2>1. sigs'[a] \in Signed
    BY <1>1, <1>6 DEF Signed
  <2> QED
    BY <1>1, <1>6, <2>1, EvmAssumption DEF Signed
<1>7. ASSUME NEW h \in Handlers, NEW b \in Auths, NEW r \in ReqIds, Send(h, b, r)
      PROVE  \/ sigs'[a] = sigs[a]
             \/ sigs'[a] = [sigs[a] EXCEPT !.ids = @ \cup {r}]
  BY <1>7 DEF Send, EvmTypeOK
<1>5. \/ AuthsAge \/ UNCHANGED sigs \/ sigs'[a] = sigs[a]
      \/ \E r \in ReqIds : sigs'[a] = [sigs[a] EXCEPT !.ids = @ \cup {r}]
  <2>1. ASSUME NEW h \in Handlers, EvmSettle(h) PROVE UNCHANGED sigs
    BY <2>1 DEF EvmSettle, Verify, VerifyDry, Refuse, Prepare, PrepareFails,
                SendOk, SendLost, SendFails, Accepted
  <2>2. CASE Clients
    BY <1>4, <1>7, <2>2 DEF Clients
  <2>3. CASE \/ Chain \/ EvmCrash \/ EvmDrained \/ EvmRestart \/ Others
             \/ UNCHANGED evmVars
    BY <2>3 DEF Chain, Mine, Evict, EvmCrash, EvmDrained, EvmRestart, Forget,
                Others, evm, evmVars
  <2>4. CASE EvmTick \/ DownTick
    BY <2>4 DEF EvmTick, DownTick
  <2> QED
    BY <2>1, <2>2, <2>3, <2>4 DEF EvmNext
<1> QED
  BY <1>2, <1>3, <1>5, <1>6

\* An authorization that pays a quote does so for ever.
LEMMA QuoteKeeps ==
  ASSUME TypeOK, EvmTypeOK, SettleInv, [EvmNext]_evmVars, NEW a \in Auths,
         NEW r, PaysFor(a, r)
  PROVE  PaysFor(a, r)'
<1>1. sigs[a] \in Signed /\ sigs[a] # None
  BY DEF PaysFor, EvmTypeOK
<1>2. challenge[r] # None /\ r \in ReqIds
  BY <1>1, RelayAssumption DEF PaysFor, Signed
<1>3. challenge'[r] = challenge[r]
  BY <1>2, ChallengeKeeps, EvmStep
<1> QED
  BY <1>1, <1>3, SignedKeeps DEF PaysFor

\* A transaction that pays for a response does so for ever.
LEMMA PaysKeeps ==
  ASSUME TypeOK, EvmTypeOK, SettleInv, [EvmNext]_evmVars,
         NEW tx \in TxHashes, NEW r, NEW cost, Pays(tx, r, cost)
  PROVE  Pays(tx, r, cost)'
<1>1. tx[1] \in Auths /\ sigs[tx[1]] # None
  BY EvmAssumption DEF Pays, PaysFor
<1> QED
  BY <1>1, QuoteKeeps, SignedKeeps DEF Pays

\* Every step keeps the types of the variables EvmRelay adds.
LEMMA NextEvmType ==
  Inv /\ EvmTypeOK /\ SettleInv /\ [EvmNext]_evmVars => EvmTypeOK'
<1> SUFFICES ASSUME Inv, EvmTypeOK, SettleInv, [EvmNext]_evmVars PROVE EvmTypeOK'
  OBVIOUS
<1> USE EvmAssumption
<1>0. NotSettling \in Local
  BY DEF NotSettling, Local, Steps, Nonces
<1>1. ASSUME NEW h \in Handlers, EvmSettle(h) PROVE EvmTypeOK'
  <2>1. settle[h] \in Local
    BY DEF EvmTypeOK
  <2>2. CASE Verify(h)
    BY <2>1, <2>2 DEF Verify, EvmTypeOK, Local, Steps
  <2>3. CASE VerifyDry(h) \/ Refuse(h) \/ PrepareFails(h) \/ SendFails(h)
    BY <1>0, <2>3 DEF VerifyDry, Refuse, PrepareFails, SendFails, Return, EvmTypeOK
  <2>4. CASE Prepare(h)
    <3> DEFINE new == [settle[h] EXCEPT !.step = "send", !.nonce = PendingNonce]
    <3>1. new \in Local
      BY <2>1, <2>4 DEF Prepare, Local, Steps
    <3>2. settle' = [settle EXCEPT ![h] = new]
      BY <2>4 DEF Prepare, EvmTypeOK
    <3> HIDE DEF new
    <3> QED
      BY <2>4, <3>1, <3>2 DEF Prepare, EvmTypeOK
  <2>5. CASE SendOk(h) \/ SendLost(h)
    <3>1. settle[h].auth \in Auths /\ settle[h].nonce \in Nonces
      BY <2>1, <2>5 DEF SendOk, SendLost, Accepted, SettleInv, SettleOK, Local
    <3> QED
      BY <1>0, <2>5, <3>1 DEF SendOk, SendLost, Accepted, Return, EvmTypeOK
  <2> QED
    BY <1>1, <2>2, <2>3, <2>4, <2>5 DEF EvmSettle
<1>2. ASSUME NEW a \in Auths, NEW value \in Costs, NEW good \in BOOLEAN,
             Sign(a, value, good)
      PROVE  EvmTypeOK'
  BY <1>2 DEF Sign, EvmTypeOK, Signed
<1>3. ASSUME NEW h \in Handlers, NEW a \in Auths, NEW r \in ReqIds, Send(h, a, r)
      PROVE  EvmTypeOK'
  <2>1. [NotSettling EXCEPT !.step = "verify", !.auth = a] \in Local
    BY <1>0 DEF Local, Steps
  <2>2. [sigs[a] EXCEPT !.ids = @ \cup {r}] \in Signed
    BY <1>3 DEF Send, EvmTypeOK, Signed
  <2> QED
    BY <1>3, <2>1, <2>2 DEF Send, EvmTypeOK
<1>4. CASE Mine
  <2>1. mempool[ChainNonce] \in Auths
    BY <1>4 DEF Mine, EvmTypeOK
  <2>2. Transferable(mempool[ChainNonce]) \in BOOLEAN
    BY DEF Transferable
  <2> QED
    BY <1>4, <2>1, <2>2 DEF Mine, EvmTypeOK
<1>5. ASSUME NEW n \in Nonces, Evict(n) PROVE EvmTypeOK'
  BY <1>5 DEF Evict, EvmTypeOK
<1>6. CASE EvmTick \/ DownTick
  <2>1. ASSUME NEW a \in Auths, sigs[a] # None, sigs[a].life # 0
        PROVE  [sigs[a] EXCEPT !.life = @ - 1] \in Signed
    <3>1. sigs[a] \in Signed
      BY <2>1 DEF EvmTypeOK
    <3>2. sigs[a].life - 1 \in Nat
      BY <2>1, <3>1 DEF Signed
    <3> QED
      BY <3>1, <3>2 DEF Signed
  <2>2. sigs' \in [Auths -> Signed \cup {None}]
    BY <1>6, <2>1 DEF EvmTick, DownTick, AuthsAge, EvmTypeOK
  <2> QED
    BY <1>6, <2>2 DEF EvmTick, DownTick, EvmTypeOK
<1>7. CASE EvmCrash \/ EvmDrained
  BY <1>0, <1>7 DEF EvmCrash, EvmDrained, Forget, EvmTypeOK
<1>8. CASE EvmRestart \/ Others \/ UNCHANGED evmVars
  BY <1>8 DEF EvmRestart, Others, evm, evmVars, EvmTypeOK
<1> QED
  BY <1>1, <1>2, <1>3, <1>4, <1>5, <1>6, <1>7, <1>8 DEF EvmNext, Clients, Chain

\* Every step keeps the chain free of unquoted authorizations.
LEMMA NextBroadcast ==
  Inv /\ EvmInv /\ [EvmNext]_evmVars => BroadcastIsQuoted'
<1> SUFFICES ASSUME Inv, EvmInv, [EvmNext]_evmVars, NEW n \in Nonces
             PROVE  /\ (mempool[n] # None => SignedQuote(mempool[n]))'
                    /\ (mined[n] # None => SignedQuote(mined[n].auth))'
  BY DEF BroadcastIsQuoted
<1> USE EvmAssumption
<1>0. ASSUME NEW a \in Auths, SignedQuote(a) PROVE SignedQuote(a)'
  <2>1. PICK r \in ReqIds : PaysFor(a, r)
    BY <1>0 DEF SignedQuote
  <2>2. PaysFor(a, r)'
    BY <2>1, QuoteKeeps DEF Inv, EvmInv
  <2> QED
    BY <2>2 DEF SignedQuote
<1>1. \/ mempool'[n] \in {None, mempool[n]}
      \/ mempool'[n] \in Auths /\ SignedQuote(mempool'[n])
  <2>1. ASSUME NEW h \in Handlers, Accepted(h)
        PROVE  \/ mempool'[n] \in {None, mempool[n]}
               \/ mempool'[n] \in Auths /\ SignedQuote(mempool'[n])
    <3>1. /\ settle[h].auth \in Auths /\ PaysFor(settle[h].auth, hs[h].req)
          /\ hs[h].req \in ReqIds
      BY <2>1, RelayAssumption
      DEF Accepted, EvmInv, SettleInv, SettleOK, Inv, EvmTypeOK, PaysFor, Signed
    <3> QED
      BY <2>1, <3>1 DEF Accepted, EvmInv, EvmTypeOK, SignedQuote
  <2>2. UNCHANGED mempool \/ Mine \/ (\E k \in Nonces : Evict(k))
          \/ \E h \in Handlers : Accepted(h)
    BY DEF EvmNext, EvmSettle, Verify, VerifyDry, Refuse, Prepare, PrepareFails,
           SendOk, SendLost, SendFails, Clients, Sign, Send, Chain, EvmTick,
           DownTick, EvmCrash, EvmDrained, EvmRestart, Forget, Others, evm, evmVars
  <2> QED
    BY <2>1, <2>2 DEF Mine, Evict, EvmInv, EvmTypeOK
<1>2. \/ mined'[n] = mined[n]
      \/ mined'[n].auth \in Auths /\ SignedQuote(mined'[n].auth)
  <2>1. CASE Mine
    BY <2>1 DEF Mine, EvmInv, EvmTypeOK, BroadcastIsQuoted
  <2>2. UNCHANGED mined \/ Mine
    BY DEF EvmNext, EvmSettle, Verify, VerifyDry, Refuse, Prepare, PrepareFails,
           SendOk, SendLost, SendFails, Accepted, Clients, Sign, Send, Chain,
           Evict, EvmTick, DownTick, EvmCrash, EvmDrained, EvmRestart, Forget,
           Others, evm, evmVars
  <2> QED
    BY <2>1, <2>2
<1>3. /\ mempool[n] # None => mempool[n] \in Auths /\ SignedQuote(mempool[n])
      /\ mined[n] # None => mined[n].auth \in Auths /\ SignedQuote(mined[n].auth)
  BY DEF EvmInv, EvmTypeOK, BroadcastIsQuoted
<1> QED
  BY <1>0, <1>1, <1>2, <1>3 DEF SignedQuote, PaysFor

\* Every step books only what its handler has settled for its own response.
LEMMA NextBooked == Inv /\ EvmInv /\ [EvmNext]_evmVars => BookedIsOwn'
<1> SUFFICES ASSUME Inv, EvmInv, [EvmNext]_evmVars PROVE BookedIsOwn'
  OBVIOUS
<1>0. [Next]_vars
  BY EvmStep DEF EvmInv
<1> DEFINE Settles(b) == /\ b.tx \in TxHashes
                         /\ Pays(b.tx, b.req, b.amount)
<1>1. \A b \in payments \cup served : Settles(b)
  BY DEF Inv, TypeOK, Payment, Served, EvmInv, BookedIsOwn
<1>2. ASSUME NEW h \in Handlers, hs[h].pc \in Settled
      PROVE  hs[h].tx \in TxHashes /\ Pays(hs[h].tx, hs[h].req, hs[h].cost)
  BY <1>2 DEF Inv, LocalsInv, EvmInv, SettleInv, SettleOK
<1>3. ASSUME NEW h \in Handlers, Record(h)
      PROVE  \A b \in payments' \cup served' : Settles(b)
  <2>1. payments' \subseteq payments \cup {Row(hs[h])} /\ served' = served
    BY <1>3 DEF Record
  <2>2. Settles(Row(hs[h]))
    BY <1>2, <1>3 DEF Record, Row, Settled
  <2> HIDE DEF Settles
  <2> QED
    BY <1>1, <2>1, <2>2
<1>4. ASSUME NEW h \in Handlers, NEW got \in BOOLEAN, Respond(h, got)
      PROVE  \A b \in payments' \cup served' : Settles(b)
  <2> DEFINE new == [req |-> hs[h].req, amount |-> hs[h].cost,
                     tx |-> hs[h].tx, rec |-> hs[h].rec, got |-> got]
  <2>1. payments' = payments /\ served' = served \cup {new}
    BY <1>4 DEF Respond
  <2>2. Settles(new)
    BY <1>2, <1>4 DEF Respond, Settled
  <2> HIDE DEF Settles, new
  <2> QED
    BY <1>1, <2>1, <2>2
<1>5. \/ UNCHANGED <<payments, served>>
      \/ \E h \in Handlers : Record(h) \/ \E got \in BOOLEAN : Respond(h, got)
  BY <1>0 DEF Next, Arrivals, UpstreamReturns, SettleReturns, FinishSteps, Lifecycle,
         BeginInitial, BeginPayment, UpstreamFails, Stage, SettleErr, SettleOk,
         Delete, Sweep, Tick, Crash, Signal, DrainDone, DrainExpires, Restart,
         Stop, vars
<1>6. \A b \in payments' \cup served' : Settles(b)
  <2> HIDE DEF Settles
  <2> QED
    BY <1>1, <1>3, <1>4, <1>5
<1>7. ASSUME NEW b \in payments' \cup served' PROVE Pays(b.tx, b.req, b.amount)'
  BY <1>6, PaysKeeps DEF Inv, EvmInv
<1> QED
  BY <1>7 DEF BookedIsOwn

\* The unique index keeps one row per request.
LEMMA NextUnique == UniqueRows /\ [Next]_vars => UniqueRows'
<1> SUFFICES ASSUME UniqueRows, [Next]_vars PROVE UniqueRows'
  OBVIOUS
<1>1. ASSUME NEW h \in Handlers, Record(h) PROVE UniqueRows'
  <2> DEFINE row == Row(hs[h])
  <2>1. PICK rec \in RecordOutcomes(row) :
          payments' = IF rec = "inserted" THEN payments \cup {row} ELSE payments
    BY <1>1 DEF Record
  <2>2. rec = "inserted" => ~Conflicts(row)
    BY <2>1 DEF RecordOutcomes
  <2> HIDE DEF row
  <2> QED
    BY <2>1, <2>2 DEF UniqueRows, Conflicts
<1>2. UNCHANGED payments \/ \E h \in Handlers : Record(h)
  BY DEF Next, Arrivals, UpstreamReturns, SettleReturns, FinishSteps, Lifecycle,
         BeginInitial, BeginPayment, UpstreamFails, Stage, SettleErr, SettleOk,
         Delete, Respond, Sweep, Tick, Crash, Signal, DrainDone, DrainExpires,
         Restart, Stop, vars
<1> QED
  BY <1>1, <1>2 DEF UniqueRows

\* A handler whose locals a step leaves alone stays consistent.
LEMMA UntouchedOK ==
  ASSUME TypeOK, LocalsInv, EvmTypeOK, SettleInv, [EvmNext]_evmVars,
         NEW k \in Handlers, settle'[k] = settle[k],
         hs'[k].pc = hs[k].pc, hs'[k].req = hs[k].req,
         hs'[k].cost = hs[k].cost, hs'[k].tx = hs[k].tx
  PROVE  SettleOK(k)'
<1>1. SettleOK(k)
  BY DEF SettleInv
<1>2. settle[k].step # "none" =>
        /\ sigs'[settle[k].auth] # None
        /\ hs[k].req \in sigs'[settle[k].auth].ids
        /\ sigs'[settle[k].auth].value = sigs[settle[k].auth].value
  BY <1>1, SignedKeeps DEF SettleOK
<1>3. settle[k].step \in {"prepare", "send"} => PaysFor(settle[k].auth, hs[k].req)'
  <2>1. ASSUME settle[k].step \in {"prepare", "send"}
        PROVE  settle[k].auth \in Auths /\ PaysFor(settle[k].auth, hs[k].req)
    BY <1>1, <2>1 DEF SettleOK
  <2> QED
    BY <2>1, QuoteKeeps DEF PaysFor
<1>4. hs[k].pc \in Settled =>
        Pays(hs[k].tx, hs[k].req, hs[k].cost)'
  BY <1>1, PaysKeeps DEF SettleOK, LocalsInv, Pays, PaysFor
<1> QED
  BY <1>1, <1>2, <1>3, <1>4 DEF SettleOK, Pays, PaysFor

\* Every step keeps Settle's locals in agreement with the handlers'.
LEMMA NextSettle == Inv /\ EvmInv /\ [EvmNext]_evmVars => SettleInv'
<1> SUFFICES ASSUME Inv, EvmInv, [EvmNext]_evmVars, NEW k \in Handlers
             PROVE  SettleOK(k)'
  BY DEF SettleInv
<1> USE EvmAssumption
<1>0. /\ TypeOK /\ LocalsInv /\ QuoteInv
      /\ EvmTypeOK /\ SettleInv /\ SettleOK(k)
  BY DEF Inv, EvmInv, SettleInv
<1>1. ASSUME settle'[k] = settle[k], hs'[k].pc = hs[k].pc, hs'[k].req = hs[k].req,
             hs'[k].cost = hs[k].cost, hs'[k].tx = hs[k].tx
      PROVE  SettleOK(k)'
  BY <1>0, <1>1, UntouchedOK
<1>2. ASSUME settle'[k] = NotSettling, hs'[k].pc = "idle" PROVE SettleOK(k)'
  BY <1>2 DEF SettleOK, NotSettling, Settled
<1>3. ASSUME NEW h \in Handlers, SettleErr(h), Return(h) PROVE SettleOK(k)'
  <2>1. CASE k = h
    BY <1>0, <1>2, <1>3, <2>1, IdleType DEF SettleErr, Return, TypeOK, EvmTypeOK
  <2>2. CASE k # h
    BY <1>0, <1>1, <1>3, <2>2 DEF SettleErr, Return, TypeOK, EvmTypeOK
  <2> QED
    BY <2>1, <2>2
<1>4. ASSUME NEW h \in Handlers, NEW tx \in TxHashes, SettleOk(h, tx), Return(h),
             Pays(tx, hs[h].req, hs[h].cost)
      PROVE  SettleOK(k)'
  <2>1. CASE k = h
    <3>1. /\ settle'[h] = NotSettling
          /\ hs'[h].pc = "record" /\ hs'[h].tx = tx
          /\ hs'[h].req = hs[h].req /\ hs'[h].cost = hs[h].cost
      BY <1>0, <1>4 DEF SettleOk, Return, TypeOK, EvmTypeOK, HandlerState
    <3>2. Pays(tx, hs[h].req, hs[h].cost)'
      <4>1. PICK r, cost : r = hs[h].req /\ cost = hs[h].cost
        OBVIOUS
      <4>2. Pays(tx, r, cost)
        BY <1>4, <4>1
      <4>3. Pays(tx, r, cost)'
        BY <1>0, <4>2, PaysKeeps
      <4> QED
        BY <3>1, <4>1, <4>3 DEF Pays, PaysFor
    <3> QED
      BY <2>1, <3>1, <3>2 DEF SettleOK, NotSettling, Pays, PaysFor
  <2>2. CASE k # h
    BY <1>0, <1>1, <1>4, <2>2 DEF SettleOk, Return, TypeOK, EvmTypeOK
  <2> QED
    BY <2>1, <2>2
<1>5. ASSUME NEW h \in Handlers, settle[h].step # "none",
             Verified(settle[h].auth, hs[h].cost)
      PROVE  PaysFor(settle[h].auth, hs[h].req) /\ sigs[settle[h].auth].value = hs[h].cost
  <2>1. /\ sigs[settle[h].auth] # None
        /\ hs[h].req \in sigs[settle[h].auth].ids
        /\ hs[h].pc = "settling"
    BY <1>0, <1>5 DEF SettleInv, SettleOK
  <2>2. hs[h].cost = challenge[hs[h].req]
    BY <1>0, <2>1 DEF QuoteInv, Paying
  <2> QED
    BY <1>5, <2>1, <2>2 DEF Verified, PaysFor
<1>6. ASSUME NEW h \in Handlers, EvmSettle(h) PROVE SettleOK(k)'
  <2>1. CASE Verify(h) \/ Prepare(h)
    <3>1. UNCHANGED <<hs, sigs, challenge>>
      BY <2>1 DEF Verify, Prepare, vars
    <3>2. /\ settle'[h].step \in {"prepare", "send"}
          /\ settle'[h].auth = settle[h].auth
          /\ settle[h].step # "none"
          /\ \A j \in Handlers : j # h => settle'[j] = settle[j]
      BY <1>0, <2>1 DEF Verify, Prepare, EvmTypeOK, Local
    <3>3. PaysFor(settle[h].auth, hs[h].req) /\ sigs[settle[h].auth].value = hs[h].cost
      <4>1. CASE Verify(h)
        BY <1>5, <3>2, <4>1 DEF Verify
      <4>2. CASE Prepare(h)
        BY <1>0, <4>2 DEF Prepare, SettleInv, SettleOK
      <4> QED
        BY <2>1, <4>1, <4>2
    <3>4. CASE k = h
      BY <1>0, <3>1, <3>2, <3>3, <3>4 DEF SettleOK, PaysFor, Settled
    <3>5. CASE k # h
      BY <1>1, <3>1, <3>2, <3>5
    <3> QED
      BY <3>4, <3>5
  <2>2. CASE Refuse(h) \/ PrepareFails(h) \/ SendLost(h) \/ SendFails(h)
    BY <1>3, <2>2 DEF Refuse, PrepareFails, SendLost, SendFails
  <2>3. ASSUME settle[h].step # "none"
        PROVE  /\ DryHash(settle[h].auth) \in TxHashes
               /\ DryHash(settle[h].auth)[1] = settle[h].auth
               /\ Hash(settle[h].auth, settle[h].nonce) \in TxHashes
               /\ Hash(settle[h].auth, settle[h].nonce)[1] = settle[h].auth
    BY <1>0, <2>3 DEF EvmTypeOK, SettleInv, SettleOK, Local, Hash, DryHash
  <2>4. CASE VerifyDry(h)
    BY <1>4, <1>5, <2>3, <2>4 DEF VerifyDry, Pays
  <2>5. CASE SendOk(h)
    <3>1. PaysFor(settle[h].auth, hs[h].req) /\ sigs[settle[h].auth].value = hs[h].cost
      BY <1>0, <2>5 DEF SendOk, Accepted, SettleInv, SettleOK
    <3> QED
      BY <1>4, <2>3, <2>5, <3>1 DEF SendOk, Accepted, Pays
  <2> QED
    BY <1>6, <2>1, <2>2, <2>4, <2>5 DEF EvmSettle
<1>7. ASSUME NEW h \in Handlers, NEW a \in Auths, NEW r \in ReqIds, Send(h, a, r)
      PROVE  SettleOK(k)'
  <2>1. sigs'[a] # None /\ r \in sigs'[a].ids
    <3>1. sigs[a] # None /\ sigs[a] \in Signed
      BY <1>0, <1>7 DEF Send, EvmTypeOK
    <3>2. sigs'[a] = [sigs[a] EXCEPT !.ids = @ \cup {r}]
      BY <1>0, <1>7 DEF Send, EvmTypeOK
    <3> QED
      BY <1>0, <3>1, <3>2, SignedKeeps DEF Signed
  <2>2. /\ hs'[h].pc = "settling" /\ hs'[h].req = r
        /\ \A j \in Handlers : j # h => hs'[j] = hs[j]
    BY <1>0, <1>7 DEF Send, BeginPayment, TypeOK, Idle
  <2>3. /\ settle'[h].step = "verify" /\ settle'[h].auth = a
        /\ \A j \in Handlers : j # h => settle'[j] = settle[j]
    BY <1>0, <1>7 DEF Send, EvmTypeOK, NotSettling
  <2>4. CASE k = h
    BY <2>1, <2>2, <2>3, <2>4 DEF SettleOK, Settled
  <2>5. CASE k # h
    BY <1>1, <2>2, <2>3, <2>5
  <2> QED
    BY <2>4, <2>5
<1>8. ASSUME UNCHANGED <<hs, settle>> PROVE SettleOK(k)'
  BY <1>1, <1>8
<1>9. CASE \/ Chain \/ DownTick \/ EvmRestart \/ UNCHANGED evmVars
           \/ \E a \in Auths, value \in Costs, good \in BOOLEAN : Sign(a, value, good)
  BY <1>8, <1>9 DEF Chain, Mine, Evict, DownTick, EvmRestart, Restart, evmVars,
                    Sign, vars
<1>10. CASE EvmTick
  BY <1>0, <1>1, <1>10, TickKeeps DEF EvmTick, Typed, TickFrame
<1>11. CASE EvmCrash \/ EvmDrained
  BY <1>2, <1>11, IdleType
  DEF EvmCrash, EvmDrained, Forget, Crash, DrainDone, DrainExpires, Stop
<1>12. CASE Others
  <2>1. settle'[k] = settle[k]
    BY <1>12 DEF Others, evm
  <2>2. ASSUME NEW h \in Handlers, BeginInitial(h) \/ UpstreamReturns(h)
        PROVE  SettleOK(k)'
    <3>1. CASE k = h
      <4>1. settle[h].step = "none"
        BY <1>0, <2>2, <3>1
        DEF SettleOK, BeginInitial, UpstreamReturns, UpstreamFails, Stage
      <4>2. hs'[h].pc \in {"idle", "upstream"}
        BY <1>0, <2>2, IdleType
        DEF BeginInitial, UpstreamReturns, UpstreamFails, Stage, TypeOK, HandlerState
      <4> QED
        BY <2>1, <3>1, <4>1, <4>2 DEF SettleOK, Settled
    <3>2. CASE k # h
      BY <1>0, <1>1, <2>1, <2>2, <3>2
      DEF BeginInitial, UpstreamReturns, UpstreamFails, Stage, TypeOK
    <3> QED
      BY <3>1, <3>2
  <2>3. ASSUME NEW h \in Handlers, FinishSteps(h) PROVE SettleOK(k)'
    <3>1. CASE k = h
      <4>1. hs[h].pc \in Settled /\ settle[h].step = "none"
        BY <1>0, <2>3, <3>1
        DEF FinishSteps, Record, Delete, Respond, SettleOK, Settled
      <4>2. CASE \E got \in BOOLEAN : Respond(h, got)
        BY <1>0, <2>1, <3>1, <4>1, <4>2, IdleType DEF Respond, SettleOK, Settled, TypeOK
      <4>3. CASE Record(h) \/ Delete(h)
        <5>1. /\ hs'[h].pc \in {"delete", "respond"}
              /\ hs'[h].req = hs[h].req /\ hs'[h].cost = hs[h].cost
              /\ hs'[h].tx = hs[h].tx
          <6>1. hs[h] \in HandlerState
            BY <1>0 DEF TypeOK
          <6>2. CASE Record(h)
            <7>1. PICK rec : hs' = [hs EXCEPT ![h] =
                                      [@ EXCEPT !.pc = "delete", !.rec = rec]]
              BY <6>2 DEF Record
            <7> QED
              BY <1>0, <6>1, <7>1 DEF TypeOK, HandlerState
          <6>3. CASE Delete(h)
            BY <1>0, <6>1, <6>3 DEF Delete, TypeOK, HandlerState
          <6> QED
            BY <4>3, <6>2, <6>3
        <5>2. Pays(hs[h].tx, hs[h].req, hs[h].cost)'
          <6>1. Pays(hs[h].tx, hs[h].req, hs[h].cost) /\ hs[h].tx \in TxHashes
            BY <1>0, <3>1, <4>1 DEF SettleOK, LocalsInv
          <6>2. PICK tx, r, cost : tx = hs[h].tx /\ r = hs[h].req /\ cost = hs[h].cost
            OBVIOUS
          <6>3. tx \in TxHashes /\ Pays(tx, r, cost)
            BY <6>1, <6>2
          <6>4. Pays(tx, r, cost)'
            BY <1>0, <6>3, PaysKeeps
          <6> QED
            BY <5>1, <6>2, <6>4 DEF Pays, PaysFor
        <5> QED
          BY <2>1, <3>1, <4>1, <5>1, <5>2 DEF SettleOK, Settled
      <4> QED
        BY <2>3, <4>2, <4>3 DEF FinishSteps
    <3>2. CASE k # h
      BY <1>0, <1>1, <2>1, <2>3, <3>2 DEF FinishSteps, Record, Delete, Respond, TypeOK
    <3> QED
      BY <3>1, <3>2
  <2>4. CASE Sweep \/ Signal
    BY <1>1, <2>1, <2>4 DEF Sweep, Signal
  <2> QED
    BY <1>12, <2>2, <2>3, <2>4 DEF Others
<1> QED
  BY <1>6, <1>7, <1>9, <1>10, <1>11, <1>12 DEF EvmNext, Clients

\* Only a handler outside a dry run gets past the checks, and the switch is read
\* when the process starts, with no handler at work.
LEMMA NextDry == Inv /\ EvmInv /\ [EvmNext]_evmVars => DryInv'
<1> SUFFICES ASSUME Inv, EvmInv, [EvmNext]_evmVars, dryRun', NEW k \in Handlers
             PROVE  settle'[k].step \in {"none", "verify"}
  BY DEF DryInv
<1>0. NotSettling.step = "none"
  BY DEF NotSettling
<1>1. settle \in [Handlers -> Local]
  BY DEF EvmInv, EvmTypeOK
<1>2. CASE EvmRestart
  <2>1. settle[k].step = "none"
    BY <1>2 DEF EvmRestart, Restart, Inv, TimingInv, EvmInv, SettleInv, SettleOK
  <2> QED
    BY <1>2, <2>1 DEF EvmRestart
<1>3. CASE ~EvmRestart
  <2>1. UNCHANGED dryRun
    BY <1>3 DEF EvmNext, EvmSettle, Verify, VerifyDry, Refuse, Prepare,
           PrepareFails, SendOk, SendLost, SendFails, Accepted, Clients, Sign, Send,
           Chain, Mine, Evict, EvmTick, DownTick, EvmCrash, EvmDrained, Forget,
           Others, evm, evmVars
  <2>2. \A h \in Handlers : settle[h].step \in {"none", "verify"}
    BY <2>1 DEF EvmInv, DryInv
  <2>3. ASSUME NEW h \in Handlers, EvmSettle(h)
        PROVE  settle'[k].step \in {"none", "verify"}
    <3>1. VerifyDry(h) \/ Refuse(h)
      BY <2>1, <2>2, <2>3 DEF EvmSettle, Verify, Prepare, PrepareFails, SendOk,
                              SendLost, SendFails, Accepted
    <3>2. settle'[k] = NotSettling \/ settle'[k] = settle[k]
      BY <1>1, <3>1 DEF VerifyDry, Refuse, Return
    <3> QED
      BY <1>0, <2>2, <3>2
  <2>4. CASE Clients
    BY <1>1, <2>2, <2>4 DEF Clients, Sign, Send, NotSettling
  <2>5. CASE EvmCrash \/ EvmDrained
    <3>1. settle'[k] = NotSettling
      BY <2>5 DEF EvmCrash, EvmDrained, Forget
    <3> QED
      BY <1>0, <3>1
  <2>6. CASE Chain \/ EvmTick \/ DownTick \/ Others \/ UNCHANGED evmVars
    BY <2>2, <2>6 DEF Chain, Mine, Evict, EvmTick, DownTick, Others, evm, evmVars
  <2> QED
    BY <1>3, <2>3, <2>4, <2>5, <2>6 DEF EvmNext
<1> QED
  BY <1>2, <1>3

(***************************************************************************)
(* The theorems                                                            *)
(***************************************************************************)

\* Inv and EvmInv together are inductive.
LEMMA EvmInvHolds == EvmSafeSpec => [](Inv /\ EvmInv)
<1>1. EvmInit => Inv /\ EvmInv
  <2> SUFFICES ASSUME EvmInit PROVE Inv /\ EvmInv
    OBVIOUS
  <2>1. Inv
    BY InitInv DEF EvmInit
  <2>2. EvmTypeOK
    BY EvmAssumption DEF EvmInit, EvmTypeOK, NotSettling, Local, Steps, Nonces
  <2>3. SettleInv
    BY IdleType DEF EvmInit, Init, SettleInv, SettleOK, NotSettling, Settled
  <2>4. BroadcastIsQuoted /\ BookedIsOwn /\ UniqueRows /\ DryInv
    BY DEF EvmInit, Init, BroadcastIsQuoted, BookedIsOwn, UniqueRows, DryInv,
           NotSettling
  <2> QED
    BY <2>1, <2>2, <2>3, <2>4 DEF EvmInv
<1>2. Inv /\ EvmInv /\ [EvmNext]_evmVars => Inv' /\ EvmInv'
  <2> SUFFICES ASSUME Inv, EvmInv, [EvmNext]_evmVars PROVE Inv' /\ EvmInv'
    OBVIOUS
  <2>1. [Next]_vars
    BY EvmStep DEF EvmInv
  <2>2. Inv'
    BY <2>1, NextInv
  <2>3. /\ EvmTypeOK' /\ SettleInv' /\ BroadcastIsQuoted'
        /\ BookedIsOwn' /\ UniqueRows' /\ DryInv'
    BY <2>1, NextEvmType, NextSettle, NextBroadcast, NextBooked, NextUnique, NextDry
    DEF EvmInv
  <2> QED
    BY <2>2, <2>3 DEF EvmInv
<1> QED
  BY <1>1, <1>2, PTL DEF EvmSafeSpec

\* The relay with the EVM settler implements the relay with any settler: every
\* theorem about Relay holds of it.
THEOREM EvmImplementsRelay == EvmSafeSpec => SafeSpec
<1>1. EvmInit => Init
  BY DEF EvmInit
<1>2. EvmInv /\ [EvmNext]_evmVars => [Next]_vars
  BY EvmStep DEF EvmInv
<1> QED
  BY <1>1, <1>2, EvmInvHolds, PTL DEF EvmSafeSpec, SafeSpec

\* Only authorizations that pay the quote of a response they were sent with
\* reach the chain.
THEOREM BroadcastQuoted == EvmSafeSpec => []BroadcastIsQuoted
<1>1. EvmInv => BroadcastIsQuoted
  BY DEF EvmInv
<1> QED
  BY <1>1, EvmInvHolds, PTL

\* What is recorded or delivered was paid by an authorization sent with that
\* response, over its quoted amount.
THEOREM BookedOwn == EvmSafeSpec => []BookedIsOwn
<1>1. EvmInv => BookedIsOwn
  BY DEF EvmInv
<1> QED
  BY <1>1, EvmInvHolds, PTL

\* An authorization sent with one response only is never booked twice, however
\* often it was broadcast: its rows are for that response, which has one row.
THEOREM BookedAtMostOnce == EvmSafeSpec => []BookedOnce
<1>1. EvmInv => BookedOnce
  BY DEF EvmInv, BookedIsOwn, Pays, PaysFor, UniqueRows, BookedOnce
<1> QED
  BY <1>1, EvmInvHolds, PTL

\* While DRY_RUN is set no step adds a transaction to the pool.
THEOREM DryRunLocal == EvmSafeSpec => DryRunStaysLocal
<1>1. EvmInv /\ [EvmNext]_evmVars =>
        [dryRun => \A n \in Nonces : mempool'[n] \in {mempool[n], None}]_evmVars
  <2> SUFFICES ASSUME EvmInv, EvmNext, dryRun, NEW n \in Nonces
               PROVE  mempool'[n] \in {mempool[n], None}
    OBVIOUS
  <2>1. \A h \in Handlers : ~Accepted(h)
    BY DEF EvmInv, DryInv, Accepted
  <2>2. UNCHANGED mempool \/ Mine \/ \E k \in Nonces : Evict(k)
    BY <2>1 DEF EvmNext, EvmSettle, Verify, VerifyDry, Refuse, Prepare,
           PrepareFails, SendOk, SendLost, SendFails, Clients, Sign, Send, Chain,
           EvmTick, DownTick, EvmCrash, EvmDrained, EvmRestart, Forget, Others, evm
  <2> QED
    BY <2>2 DEF Mine, Evict, EvmInv, EvmTypeOK
<1> QED
  BY <1>1, EvmInvHolds, PTL DEF EvmSafeSpec, DryRunStaysLocal

\* What Relay guarantees with any settler it guarantees with this one: quoted
\* is charged, delivered is unstaged and recorded, and nothing is settled or
\* kept past its time.
THEOREM EvmKeepsRelay ==
  EvmSafeSpec => [](QuoteIsCharged /\ ServedIsUnstaged /\ ServedIsRecorded
                  /\ SettlementWindow /\ ResidencyBound)
  BY EvmImplementsRelay, ChargedAsQuoted, DeliveredIsGone, DeliveredIsRecorded, SettlesInTime,
     LeavesMemory, PTL

\* The promise to a paying client, down to the calls to the node: whatever the
\* chain, the clients and the process do, an attempt for which Settle has
\* reported a payment ends only in the answer with the response it was quoted
\* for, after the offer has closed, or with the process (relay.go 171-242,
\* settler.go 115-172).
THEOREM EvmDelivers == EvmSafeSpec => DeliverySafe
  BY EvmImplementsRelay, DeliveryIsSafe, PTL
=============================================================================
