---------------------------- MODULE RelayProofs ----------------------------
(***************************************************************************)
(* Proofs about Relay, for every set of handlers, ids, costs and hashes    *)
(* and every value of the timing constants that RelayAssumption allows.    *)
(*                                                                         *)
(* Inv is inductive.  Its parts are proved one after the other: TypeOK     *)
(* with LocalsInv (a row is well typed because the handler that inserts it *)
(* holds an id, a cost and a hash), then QuoteInv, RecordedInv and         *)
(* TimingInv on top of them, and UnstagedInv, which also needs QuoteInv    *)
(* (an id with a served response has a quote, so Stage never takes it      *)
(* again).                                                                 *)
(***************************************************************************)
EXTENDS Relay, TLAPS

\* The part of Inv that every other part relies on.
Typed == TypeOK /\ LocalsInv

\* An idle handler is well typed whatever the constants are.
LEMMA IdleType == Idle \in HandlerState /\ Idle.pc = "idle"
  BY DEF Idle, HandlerState, PCs, RecordResults

\* The initial state is well typed.
LEMMA InitTyped == Init => Typed
  BY RelayAssumption, IdleType
  DEF Init, Typed, TypeOK, LocalsInv, Paying, Settled

\* The end of the process, however it comes, leaves a well-typed state.
LEMMA StopTyped == Typed /\ crashes' \in 0..MaxCrashes /\ Stop => Typed'
  BY RelayAssumption, IdleType
  DEF Stop, Typed, TypeOK, LocalsInv, Paying, Settled

\* A handler that moves to a well-typed state of its own leaves the handlers
\* well typed.
LEMMA MoveTyped ==
  ASSUME TypeOK, LocalsInv, NEW h \in Handlers, NEW new \in HandlerState,
         new.pc \in Paying => new.req \in ReqIds /\ new.cost \in Costs,
         new.pc \in Settled => new.tx \in TxHashes,
         hs' = [hs EXCEPT ![h] = new]
  PROVE  hs' \in [Handlers -> HandlerState] /\ LocalsInv'
<1>1. hs' \in [Handlers -> HandlerState]
  BY DEF TypeOK
<1>2. \A k \in Handlers : hs'[k] = IF k = h THEN new ELSE hs[k]
  BY DEF TypeOK
<1> QED
  BY <1>1, <1>2 DEF LocalsInv

\* Every action, and a stuttering step, keeps the state well typed.
LEMMA NextTyped == Typed /\ [Next]_vars => Typed'
<1> SUFFICES ASSUME Typed, [Next]_vars PROVE Typed'
  OBVIOUS
<1> USE RelayAssumption, IdleType
<1>1. ASSUME NEW h \in Handlers, BeginInitial(h) PROVE Typed'
  BY <1>1 DEF Typed, TypeOK, LocalsInv, BeginInitial, HandlerState, PCs, Paying, Settled
<1>2. ASSUME NEW h \in Handlers, NEW r \in ReqIds, BeginPayment(h, r) PROVE Typed'
  <2> DEFINE new == [Idle EXCEPT !.pc = "settling", !.req = r,
                                 !.cost = Get(r).cost, !.age = Get(r).age,
                                 !.left = PayTimeout]
  <2>1. Get(r) \in Entry
    BY <1>2 DEF Typed, TypeOK, BeginPayment, Get
  <2>2. /\ new \in HandlerState
        /\ new.pc = "settling" /\ new.req = r /\ new.cost \in Costs
    BY <2>1 DEF Idle, HandlerState, PCs, Entry, RecordResults
  <2>3. hs' = [hs EXCEPT ![h] = new]
    BY <1>2 DEF BeginPayment
  <2> HIDE DEF new
  <2> QED
    <3>1. hs' \in [Handlers -> HandlerState] /\ LocalsInv'
      BY <2>2, <2>3, MoveTyped DEF Typed, Paying, Settled
    <3> QED
      BY <1>2, <3>1 DEF Typed, TypeOK, BeginPayment
<1>3. ASSUME NEW h \in Handlers, UpstreamFails(h) PROVE Typed'
  BY <1>3 DEF Typed, TypeOK, LocalsInv, UpstreamFails, Paying, Settled
<1>4. ASSUME NEW h \in Handlers, NEW r \in ReqIds, NEW cost \in Costs,
             Stage(h, r, cost)
      PROVE Typed'
  BY <1>4 DEF Typed, TypeOK, LocalsInv, Stage, Store, Entry, Paying, Settled
<1>5. ASSUME NEW h \in Handlers, SettleErr(h) PROVE Typed'
  BY <1>5 DEF Typed, TypeOK, LocalsInv, SettleErr, Paying, Settled
<1>6. ASSUME NEW h \in Handlers, NEW tx \in TxHashes, SettleOk(h, tx) PROVE Typed'
  <2> DEFINE new == [hs[h] EXCEPT !.pc = "record", !.tx = tx, !.age = 0, !.left = 0]
  <2>1. hs[h] \in HandlerState /\ hs[h].req \in ReqIds /\ hs[h].cost \in Costs
    BY <1>6 DEF Typed, TypeOK, LocalsInv, SettleOk, Paying
  <2>2. /\ new \in HandlerState /\ new.tx \in TxHashes
        /\ new.req \in ReqIds /\ new.cost \in Costs
    BY <2>1 DEF HandlerState, PCs
  <2>3. hs' = [hs EXCEPT ![h] = new]
    BY <1>6 DEF SettleOk, Typed, TypeOK
  <2> HIDE DEF new
  <2>4. hs' \in [Handlers -> HandlerState] /\ LocalsInv'
    BY <2>2, <2>3, MoveTyped DEF Typed
  <2> QED
    BY <1>6, <2>4 DEF Typed, TypeOK, SettleOk
<1>7. ASSUME NEW h \in Handlers, Record(h) PROVE Typed'
  <2>1. Row(hs[h]) \in Payment
    BY <1>7 DEF Typed, LocalsInv, Record, Row, Payment, Paying, Settled
  <2>2. PICK rec \in RecordResults :
          /\ hs' = [hs EXCEPT ![h] = [@ EXCEPT !.pc = "delete", !.rec = rec]]
          /\ payments' = IF rec = "inserted" THEN payments \cup {Row(hs[h])}
                                             ELSE payments
    BY <1>7 DEF Record, RecordOutcomes, RecordResults
  <2> DEFINE new == [hs[h] EXCEPT !.pc = "delete", !.rec = rec]
  <2>3. /\ hs[h] \in HandlerState /\ hs[h].tx \in TxHashes
        /\ hs[h].req \in ReqIds /\ hs[h].cost \in Costs
    BY <1>7 DEF Typed, TypeOK, LocalsInv, Record, Paying, Settled
  <2>4. /\ new \in HandlerState /\ new.tx \in TxHashes
        /\ new.req \in ReqIds /\ new.cost \in Costs
    BY <2>3 DEF HandlerState, PCs
  <2>5. hs' = [hs EXCEPT ![h] = new]
    BY <2>2 DEF Typed, TypeOK
  <2> HIDE DEF new
  <2>6. hs' \in [Handlers -> HandlerState] /\ LocalsInv'
    BY <2>4, <2>5, MoveTyped DEF Typed
  <2>7. payments' \subseteq Payment
    BY <2>1, <2>2 DEF Typed, TypeOK
  <2> QED
    BY <1>7, <2>6, <2>7 DEF Typed, TypeOK, Record
<1>8. ASSUME NEW h \in Handlers, Delete(h) PROVE Typed'
  BY <1>8
  DEF Typed, TypeOK, LocalsInv, Delete, Unstage, HandlerState, PCs, Paying, Settled
<1>9. ASSUME NEW h \in Handlers, NEW got \in BOOLEAN, Respond(h, got) PROVE Typed'
  <2>1. [req |-> hs[h].req, amount |-> hs[h].cost,
         tx |-> hs[h].tx, rec |-> hs[h].rec, got |-> got] \in Served
    BY <1>9 DEF Typed, TypeOK, LocalsInv, Respond, HandlerState, Served, Paying, Settled
  <2> QED
    BY <1>9, <2>1 DEF Typed, TypeOK, LocalsInv, Respond, Paying, Settled
<1>10. CASE Sweep
  BY <1>10 DEF Typed, TypeOK, LocalsInv, Sweep, Get, Paying, Settled
<1>11. CASE Tick
  <2>1. ASSUME NEW r \in ReqIds PROVE Older(cache[r]) \in Entry \cup {None}
    BY DEF Typed, TypeOK, Older, Entry
  <2>2. ASSUME NEW h \in Handlers
        PROVE /\ HandlerOlder(hs[h]) \in HandlerState
              /\ HandlerOlder(hs[h]).pc = hs[h].pc
              /\ HandlerOlder(hs[h]).req = hs[h].req
              /\ HandlerOlder(hs[h]).cost = hs[h].cost
              /\ HandlerOlder(hs[h]).tx = hs[h].tx
    <3>1. hs[h] \in HandlerState
      BY DEF Typed, TypeOK
    <3>2. CASE hs[h].pc = "settling"
      <4>1. hs[h].left - 1 \in Nat /\ hs[h].age + 1 \in Nat
        BY <1>11, <3>1, <3>2 DEF Tick, HandlerState
      <4>2. HandlerOlder(hs[h]) = [hs[h] EXCEPT !.age = hs[h].age + 1,
                                                !.left = hs[h].left - 1]
        BY <3>1, <3>2 DEF HandlerOlder, HandlerState
      <4> QED
        BY <3>1, <4>1, <4>2 DEF HandlerState
    <3>3. CASE hs[h].pc # "settling"
      BY <3>1, <3>3 DEF HandlerOlder
    <3> QED
      BY <3>2, <3>3
  <2>3. /\ cache' \in [ReqIds -> Entry \cup {None}]
        /\ hs' \in [Handlers -> HandlerState]
    BY <1>11, <2>1, <2>2 DEF Tick
  <2>4. sweepIn' \in 0..SweepPeriod /\ drainLeft' \in Nat
    BY <1>11 DEF Typed, TypeOK, Tick
  <2>5. LocalsInv'
    BY <1>11, <2>2 DEF Typed, LocalsInv, Tick
  <2> QED
    BY <1>11, <2>3, <2>4, <2>5 DEF Typed, TypeOK, Tick
<1>12. CASE Crash
  BY <1>12, StopTyped DEF Crash, Typed, TypeOK
<1>13. CASE Signal
  BY <1>13 DEF Typed, TypeOK, LocalsInv, Signal
<1>14. CASE DrainDone
  BY <1>14, StopTyped DEF DrainDone, Typed, TypeOK
<1>15. CASE DrainExpires
  BY <1>15, StopTyped DEF DrainExpires, Typed, TypeOK
<1>16. CASE Restart
  BY <1>16 DEF Typed, TypeOK, LocalsInv, Restart
<1>17. CASE UNCHANGED vars
  BY <1>17 DEF vars, Typed, TypeOK, LocalsInv
<1> QED
  BY <1>1, <1>2, <1>3, <1>4, <1>5, <1>6, <1>7, <1>8, <1>9, <1>10, <1>11,
     <1>12, <1>13, <1>14, <1>15, <1>16, <1>17
  DEF Next, Arrivals, UpstreamReturns, SettleReturns, FinishSteps, Lifecycle

\* A tick changes nothing of an entry but its age, and nothing of a handler
\* but its age and its countdown.
TickFrame ==
    /\ \A r \in ReqIds :
         /\ cache'[r] = None <=> cache[r] = None
         /\ cache[r] # None => /\ cache'[r].cost = cache[r].cost
                               /\ cache'[r].age = cache[r].age + 1
    /\ \A h \in Handlers :
         /\ hs'[h].pc = hs[h].pc
         /\ hs'[h].req = hs[h].req
         /\ hs'[h].cost = hs[h].cost
         /\ hs'[h].tx = hs[h].tx
         /\ hs'[h].rec = hs[h].rec
         /\ hs[h].pc = "settling" => /\ hs'[h].age = hs[h].age + 1
                                     /\ hs'[h].left = hs[h].left - 1

\* That is all a tick does to entries and handlers.
LEMMA TickKeeps == Typed /\ Tick => TickFrame
<1> SUFFICES ASSUME Typed, Tick PROVE TickFrame
  OBVIOUS
<1>1. ASSUME NEW r \in ReqIds
      PROVE  /\ cache'[r] = None <=> cache[r] = None
             /\ cache[r] # None => /\ cache'[r].cost = cache[r].cost
                                   /\ cache'[r].age = cache[r].age + 1
  <2>1. cache[r] \in Entry \cup {None} /\ cache'[r] = Older(cache[r])
    BY DEF Typed, TypeOK, Tick
  <2>2. cache[r] # None => Older(cache[r]) \in Entry
    BY <2>1 DEF Older, Entry
  <2> QED
    BY <2>1, <2>2, RelayAssumption DEF Older, Entry
<1>2. ASSUME NEW h \in Handlers
      PROVE  /\ hs'[h].pc = hs[h].pc
             /\ hs'[h].req = hs[h].req
             /\ hs'[h].cost = hs[h].cost
             /\ hs'[h].tx = hs[h].tx
             /\ hs'[h].rec = hs[h].rec
             /\ hs[h].pc = "settling" => /\ hs'[h].age = hs[h].age + 1
                                         /\ hs'[h].left = hs[h].left - 1
  <2>1. hs[h] \in HandlerState /\ hs'[h] = HandlerOlder(hs[h])
    BY DEF Typed, TypeOK, Tick
  <2> QED
    BY <2>1 DEF HandlerOlder, HandlerState
<1> QED
  BY <1>1, <1>2 DEF TickFrame

\* Every action keeps staged, held, recorded and served amounts at the quote.
LEMMA NextQuote == Typed /\ QuoteInv /\ [Next]_vars => QuoteInv'
<1> SUFFICES ASSUME Typed, QuoteInv, [Next]_vars PROVE QuoteInv'
  OBVIOUS
<1> USE RelayAssumption, IdleType
    DEF Typed, TypeOK, LocalsInv, HandlerState, Paying, Settled,
        QuoteInv, Entry, Payment, Served, Row
<1>1. ASSUME NEW h \in Handlers, BeginInitial(h) PROVE QuoteInv'
  BY <1>1 DEF BeginInitial
<1>2. ASSUME NEW h \in Handlers, NEW r \in ReqIds, BeginPayment(h, r) PROVE QuoteInv'
  BY <1>2 DEF BeginPayment, Get
<1>3. ASSUME NEW h \in Handlers, UpstreamFails(h) PROVE QuoteInv'
  BY <1>3 DEF UpstreamFails
<1>4. ASSUME NEW h \in Handlers, NEW r \in ReqIds, NEW cost \in Costs,
             Stage(h, r, cost)
      PROVE QuoteInv'
  BY <1>4 DEF Stage, Store, FreshId
<1>5. ASSUME NEW h \in Handlers, SettleErr(h) PROVE QuoteInv'
  BY <1>5 DEF SettleErr
<1>6. ASSUME NEW h \in Handlers, NEW tx \in TxHashes, SettleOk(h, tx) PROVE QuoteInv'
  BY <1>6 DEF SettleOk
<1>7. ASSUME NEW h \in Handlers, Record(h) PROVE QuoteInv'
  BY <1>7 DEF Record
<1>8. ASSUME NEW h \in Handlers, Delete(h) PROVE QuoteInv'
  BY <1>8 DEF Delete, Unstage
<1>9. ASSUME NEW h \in Handlers, NEW got \in BOOLEAN, Respond(h, got) PROVE QuoteInv'
  BY <1>9 DEF Respond
<1>10. CASE Sweep
  BY <1>10 DEF Sweep, Get
<1>11. CASE Tick
  <2>1. UNCHANGED <<challenge, payments, served>>
    BY <1>11 DEF Tick
  <2>2. TickFrame
    BY <1>11, TickKeeps
  <2> QED
    BY <2>1, <2>2 DEF TickFrame
<1>12. CASE Crash
  BY <1>12 DEF Crash, Stop
<1>13. CASE Signal
  BY <1>13 DEF Signal
<1>14. CASE DrainDone
  BY <1>14 DEF DrainDone, Stop
<1>15. CASE DrainExpires
  BY <1>15 DEF DrainExpires, Stop
<1>16. CASE Restart
  BY <1>16 DEF Restart
<1>17. CASE UNCHANGED vars
  BY <1>17 DEF vars
<1> QED
  BY <1>1, <1>2, <1>3, <1>4, <1>5, <1>6, <1>7, <1>8, <1>9, <1>10, <1>11,
     <1>12, <1>13, <1>14, <1>15, <1>16, <1>17
  DEF Next, Arrivals, UpstreamReturns, SettleReturns, FinishSteps, Lifecycle

\* Every action keeps the ids of delivered responses out of the cache.
LEMMA NextUnstaged == Typed /\ QuoteInv /\ UnstagedInv /\ [Next]_vars => UnstagedInv'
<1> SUFFICES ASSUME Typed, QuoteInv, UnstagedInv, [Next]_vars PROVE UnstagedInv'
  OBVIOUS
<1> USE RelayAssumption, IdleType
    DEF Typed, TypeOK, LocalsInv, HandlerState, Paying, Settled,
        QuoteInv, UnstagedInv, Served
<1>1. ASSUME NEW h \in Handlers, BeginInitial(h) PROVE UnstagedInv'
  BY <1>1 DEF BeginInitial
<1>2. ASSUME NEW h \in Handlers, NEW r \in ReqIds, BeginPayment(h, r) PROVE UnstagedInv'
  BY <1>2 DEF BeginPayment, Get
<1>3. ASSUME NEW h \in Handlers, UpstreamFails(h) PROVE UnstagedInv'
  BY <1>3 DEF UpstreamFails
<1>4. ASSUME NEW h \in Handlers, NEW r \in ReqIds, NEW cost \in Costs,
             Stage(h, r, cost)
      PROVE UnstagedInv'
  BY <1>4 DEF Stage, Store, FreshId
<1>5. ASSUME NEW h \in Handlers, SettleErr(h) PROVE UnstagedInv'
  BY <1>5 DEF SettleErr
<1>6. ASSUME NEW h \in Handlers, NEW tx \in TxHashes, SettleOk(h, tx) PROVE UnstagedInv'
  BY <1>6 DEF SettleOk
<1>7. ASSUME NEW h \in Handlers, Record(h) PROVE UnstagedInv'
  BY <1>7 DEF Record
<1>8. ASSUME NEW h \in Handlers, Delete(h) PROVE UnstagedInv'
  BY <1>8 DEF Delete, Unstage
<1>9. ASSUME NEW h \in Handlers, NEW got \in BOOLEAN, Respond(h, got) PROVE UnstagedInv'
  BY <1>9 DEF Respond
<1>10. CASE Sweep
  BY <1>10 DEF Sweep, Get
<1>11. CASE Tick
  <2>1. UNCHANGED <<challenge, payments, served>>
    BY <1>11 DEF Tick
  <2>2. TickFrame
    BY <1>11, TickKeeps
  <2> QED
    BY <2>1, <2>2 DEF TickFrame
<1>12. CASE Crash
  BY <1>12 DEF Crash, Stop
<1>13. CASE Signal
  BY <1>13 DEF Signal
<1>14. CASE DrainDone
  BY <1>14 DEF DrainDone, Stop
<1>15. CASE DrainExpires
  BY <1>15 DEF DrainExpires, Stop
<1>16. CASE Restart
  BY <1>16 DEF Restart
<1>17. CASE UNCHANGED vars
  BY <1>17 DEF vars
<1> QED
  BY <1>1, <1>2, <1>3, <1>4, <1>5, <1>6, <1>7, <1>8, <1>9, <1>10, <1>11,
     <1>12, <1>13, <1>14, <1>15, <1>16, <1>17
  DEF Next, Arrivals, UpstreamReturns, SettleReturns, FinishSteps, Lifecycle

\* Every action keeps the row behind every accounted settlement.
LEMMA NextRecorded == Typed /\ RecordedInv /\ [Next]_vars => RecordedInv'
<1> SUFFICES ASSUME Typed, RecordedInv, [Next]_vars PROVE RecordedInv'
  OBVIOUS
<1> USE RelayAssumption, IdleType
    DEF Typed, TypeOK, LocalsInv, HandlerState, Paying, Settled,
        RecordedInv, ServedIsRecorded, Served, Payment
<1>1. ASSUME NEW h \in Handlers, BeginInitial(h) PROVE RecordedInv'
  BY <1>1 DEF BeginInitial
<1>2. ASSUME NEW h \in Handlers, NEW r \in ReqIds, BeginPayment(h, r) PROVE RecordedInv'
  BY <1>2 DEF BeginPayment, Get
<1>3. ASSUME NEW h \in Handlers, UpstreamFails(h) PROVE RecordedInv'
  BY <1>3 DEF UpstreamFails
<1>4. ASSUME NEW h \in Handlers, NEW r \in ReqIds, NEW cost \in Costs,
             Stage(h, r, cost)
      PROVE RecordedInv'
  BY <1>4 DEF Stage, Store, FreshId
<1>5. ASSUME NEW h \in Handlers, SettleErr(h) PROVE RecordedInv'
  BY <1>5 DEF SettleErr
<1>6. ASSUME NEW h \in Handlers, NEW tx \in TxHashes, SettleOk(h, tx) PROVE RecordedInv'
  BY <1>6 DEF SettleOk
<1>7. ASSUME NEW h \in Handlers, Record(h) PROVE RecordedInv'
  <2>1. PICK rec \in RecordOutcomes(Row(hs[h])) :
          /\ hs' = [hs EXCEPT ![h] = [@ EXCEPT !.pc = "delete", !.rec = rec]]
          /\ payments' = IF rec = "inserted" THEN payments \cup {Row(hs[h])}
                                             ELSE payments
    BY <1>7 DEF Record
  <2>2. payments \subseteq payments'
    BY <2>1
  <2>3. rec # "error" => \E p \in payments' : p.req = hs[h].req \/ p.tx = hs[h].tx
    BY <2>1 DEF RecordOutcomes, Conflicts, Row
  <2>4. /\ hs'[h].req = hs[h].req /\ hs'[h].tx = hs[h].tx /\ hs'[h].rec = rec
        /\ \A k \in Handlers : k # h => hs'[k] = hs[k]
    BY <2>1
  <2>5. served' = served
    BY <1>7 DEF Record
  <2> QED
    BY <2>2, <2>3, <2>4, <2>5
<1>8. ASSUME NEW h \in Handlers, Delete(h) PROVE RecordedInv'
  BY <1>8 DEF Delete, Unstage
<1>9. ASSUME NEW h \in Handlers, NEW got \in BOOLEAN, Respond(h, got) PROVE RecordedInv'
  BY <1>9 DEF Respond
<1>10. CASE Sweep
  BY <1>10 DEF Sweep, Get
<1>11. CASE Tick
  <2>1. UNCHANGED <<challenge, payments, served>>
    BY <1>11 DEF Tick
  <2>2. TickFrame
    BY <1>11, TickKeeps
  <2> QED
    BY <2>1, <2>2 DEF TickFrame
<1>12. CASE Crash
  BY <1>12 DEF Crash, Stop
<1>13. CASE Signal
  BY <1>13 DEF Signal
<1>14. CASE DrainDone
  BY <1>14 DEF DrainDone, Stop
<1>15. CASE DrainExpires
  BY <1>15 DEF DrainExpires, Stop
<1>16. CASE Restart
  BY <1>16 DEF Restart
<1>17. CASE UNCHANGED vars
  BY <1>17 DEF vars
<1> QED
  BY <1>1, <1>2, <1>3, <1>4, <1>5, <1>6, <1>7, <1>8, <1>9, <1>10, <1>11,
     <1>12, <1>13, <1>14, <1>15, <1>16, <1>17
  DEF Next, Arrivals, UpstreamReturns, SettleReturns, FinishSteps, Lifecycle

\* Every action keeps the timing bounds.
LEMMA NextTiming == Typed /\ TimingInv /\ [Next]_vars => TimingInv'
<1> SUFFICES ASSUME Typed, TimingInv, [Next]_vars PROVE TimingInv'
  OBVIOUS
<1> USE RelayAssumption, IdleType
    DEF Typed, TypeOK, LocalsInv, HandlerState, Paying, Settled,
        TimingInv, Entry
<1>1. ASSUME NEW h \in Handlers, BeginInitial(h) PROVE TimingInv'
  BY <1>1 DEF BeginInitial
<1>2. ASSUME NEW h \in Handlers, NEW r \in ReqIds, BeginPayment(h, r) PROVE TimingInv'
  <2>1. Get(r) = cache[r] /\ cache[r] \in Entry /\ cache[r].age <= TTL
    BY <1>2 DEF BeginPayment, Get, Expired
  <2>2. /\ hs'[h].age = cache[r].age /\ hs'[h].left = PayTimeout
        /\ \A k \in Handlers : k # h => hs'[k] = hs[k]
    BY <1>2, <2>1 DEF BeginPayment, Idle
  <2>3. UNCHANGED <<server, cache, sweepIn>> /\ server = "up"
    BY <1>2 DEF BeginPayment
  <2> QED
    BY <2>1, <2>2, <2>3
<1>3. ASSUME NEW h \in Handlers, UpstreamFails(h) PROVE TimingInv'
  BY <1>3 DEF UpstreamFails
<1>4. ASSUME NEW h \in Handlers, NEW r \in ReqIds, NEW cost \in Costs,
             Stage(h, r, cost)
      PROVE TimingInv'
  <2>1. server # "down" /\ UNCHANGED <<server, sweepIn>>
    BY <1>4 DEF Stage
  <2>2. /\ cache'[r].age = 0
        /\ \A q \in ReqIds : q # r => cache'[q] = cache[q]
    BY <1>4 DEF Stage, Store
  <2>3. /\ hs'[h].pc = "idle"
        /\ \A k \in Handlers : k # h => hs'[k] = hs[k]
    BY <1>4 DEF Stage
  <2> QED
    BY <2>1, <2>2, <2>3
<1>5. ASSUME NEW h \in Handlers, SettleErr(h) PROVE TimingInv'
  BY <1>5 DEF SettleErr
<1>6. ASSUME NEW h \in Handlers, NEW tx \in TxHashes, SettleOk(h, tx) PROVE TimingInv'
  BY <1>6 DEF SettleOk
<1>7. ASSUME NEW h \in Handlers, Record(h) PROVE TimingInv'
  BY <1>7 DEF Record
<1>8. ASSUME NEW h \in Handlers, Delete(h) PROVE TimingInv'
  BY <1>8 DEF Delete, Unstage
<1>9. ASSUME NEW h \in Handlers, NEW got \in BOOLEAN, Respond(h, got) PROVE TimingInv'
  BY <1>9 DEF Respond
<1>10. CASE Sweep
  <2>1. ASSUME NEW r \in ReqIds, cache'[r] # None
        PROVE  cache'[r] = cache[r] /\ cache[r].age <= TTL
    BY <1>10, <2>1 DEF Sweep, Get, Expired
  <2>2. UNCHANGED <<server, hs>> /\ server # "down" /\ sweepIn' = SweepPeriod
    BY <1>10 DEF Sweep
  <2> QED
    BY <2>1, <2>2
<1>11. CASE Tick
  <2>1. server' = server /\ server # "down" /\ sweepIn' = sweepIn - 1
    BY <1>11 DEF Tick
  <2>2. TickFrame
    BY <1>11, TickKeeps
  <2> QED
    BY <2>1, <2>2 DEF TickFrame
<1>12. CASE Crash
  BY <1>12 DEF Crash, Stop
<1>13. CASE Signal
  BY <1>13 DEF Signal
<1>14. CASE DrainDone
  BY <1>14 DEF DrainDone, Stop
<1>15. CASE DrainExpires
  BY <1>15 DEF DrainExpires, Stop
<1>16. CASE Restart
  BY <1>16 DEF Restart
<1>17. CASE UNCHANGED vars
  BY <1>17 DEF vars
<1> QED
  BY <1>1, <1>2, <1>3, <1>4, <1>5, <1>6, <1>7, <1>8, <1>9, <1>10, <1>11,
     <1>12, <1>13, <1>14, <1>15, <1>16, <1>17
  DEF Next, Arrivals, UpstreamReturns, SettleReturns, FinishSteps, Lifecycle

(***************************************************************************)
(* The theorems                                                            *)
(***************************************************************************)

\* The initial state satisfies every part of the invariant.
LEMMA InitInv == Init => Inv
<1> SUFFICES ASSUME Init PROVE Inv
  OBVIOUS
<1>1. Typed
  BY InitTyped
<1>2. QuoteInv /\ UnstagedInv /\ RecordedInv /\ TimingInv
  BY IdleType, RelayAssumption
  DEF Init, QuoteInv, UnstagedInv, RecordedInv, ServedIsRecorded, TimingInv,
      Paying, Settled
<1> QED
  BY <1>1, <1>2 DEF Inv, Typed

\* Every step keeps the invariant.
LEMMA NextInv == Inv /\ [Next]_vars => Inv'
  BY NextTyped, NextQuote, NextUnstaged, NextRecorded, NextTiming DEF Inv, Typed

\* No step takes back a quote.
LEMMA ChallengeKeeps ==
  ASSUME TypeOK, [Next]_vars, NEW r \in ReqIds, challenge[r] # None
  PROVE  challenge'[r] = challenge[r]
<1>1. ASSUME NEW h \in Handlers, NEW q \in ReqIds, NEW cost \in Costs, Stage(h, q, cost)
      PROVE  challenge'[r] = challenge[r]
  BY <1>1 DEF Stage, FreshId, TypeOK
<1>2. UNCHANGED challenge \/
        \E h \in Handlers, q \in ReqIds, cost \in Costs : Stage(h, q, cost)
  BY DEF Next, Arrivals, UpstreamReturns, SettleReturns, FinishSteps, Lifecycle,
         BeginInitial, BeginPayment, UpstreamFails, SettleErr, SettleOk, Record,
         Delete, Respond, Sweep, Tick, Crash, Signal, DrainDone, DrainExpires,
         Restart, Stop, vars
<1> QED
  BY <1>1, <1>2

\* The parts together are an inductive invariant of the relay.
THEOREM InvHolds == SafeSpec => []Inv
  BY InitInv, NextInv, PTL DEF SafeSpec

\* Every variable keeps its type; no age or countdown ever goes below zero.
THEOREM TypeCorrect == SafeSpec => []TypeOK
<1>1. Inv => TypeOK
  BY DEF Inv
<1> QED
  BY <1>1, InvHolds, PTL

\* Clients are charged what the 402 quoted: the amount settled, the amount
\* recorded and the X-Cost of the paid response agree with the challenge.
THEOREM ChargedAsQuoted == SafeSpec => []QuoteIsCharged
<1>1. Inv => QuoteIsCharged
  BY DEF Inv, QuoteInv, QuoteIsCharged
<1> QED
  BY <1>1, InvHolds, PTL

\* A delivered response can never be found, and so paid for, again.
THEOREM DeliveredIsGone == SafeSpec => []ServedIsUnstaged
<1>1. Inv => ServedIsUnstaged
  BY DEF Inv, UnstagedInv, ServedIsUnstaged
<1> QED
  BY <1>1, InvHolds, PTL

\* A delivered response has a row for its id or its transaction, unless the
\* database refused to write at all.
THEOREM DeliveredIsRecorded == SafeSpec => []ServedIsRecorded
<1>1. Inv => ServedIsRecorded
  BY DEF Inv, RecordedInv
<1> QED
  BY <1>1, InvHolds, PTL

\* A settlement under way works on a response no older than TTL + PayTimeout.
THEOREM SettlesInTime == SafeSpec => []SettlementWindow
<1>1. Inv => SettlementWindow
  BY RelayAssumption DEF Inv, TypeOK, HandlerState, TimingInv, SettlementWindow
<1> QED
  BY <1>1, InvHolds, PTL

\* A staged response stays in memory no longer than TTL + SweepPeriod.
THEOREM LeavesMemory == SafeSpec => []ResidencyBound
<1>1. Inv => ResidencyBound
  BY RelayAssumption DEF Inv, TypeOK, Entry, TimingInv, ResidencyBound
<1> QED
  BY <1>1, InvHolds, PTL
=============================================================================
