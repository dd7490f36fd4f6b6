--------------------------- MODULE DeliveryProofs ---------------------------
(***************************************************************************)
(* Proof that Relay implements the safety part of PaidDelivery, under the  *)
(* mapping of RelayDelivery, for all values of the constants.  The steps   *)
(* rest on Relay's inductive invariant, which RelayProofs proves.          *)
(***************************************************************************)
EXTENDS RelayDelivery, RelayProofs

(***************************************************************************)
(* The mapping under the ways in which steps change the relay's state      *)
(***************************************************************************)

\* When one handler changes its locals, only its attempt changes.
LEMMA AttemptStep ==
    ASSUME TypeOK, NEW h \in Handlers, NEW s, hs' = [hs EXCEPT ![h] = s]
    PROVE  attemptOf' = [attemptOf EXCEPT ![h] = AttemptFor(s)]
BY DEF attemptOf, AttemptFor, TypeOK

\* An attempt that stays as it was leaves all of them as they were.
LEMMA AttemptSame ==
    ASSUME TypeOK, NEW h \in Handlers, NEW s, hs' = [hs EXCEPT ![h] = s],
           AttemptFor(s) = AttemptFor(hs[h])
    PROVE  UNCHANGED attemptOf
BY AttemptStep DEF attemptOf

\* An entry is a record and no mark of absence.
LEMMA EntryIsSome ==
    ASSUME NEW e \in Entry
    PROVE  e # None
BY RelayAssumption DEF Entry

\* What is staged has been quoted.
LEMMA StagedIsQuoted ==
    ASSUME Inv, NEW r \in ReqIds, cache[r] # None
    PROVE  challenge[r] # None
<1>1. cache[r] \in Entry
  BY DEF Inv, TypeOK
<1>2. cache[r].cost \in Costs /\ cache[r].cost = challenge[r]
  BY <1>1 DEF Entry, Inv, QuoteInv
<1> QED
  BY <1>2, RelayAssumption

\* What a handler works on has been quoted.
LEMMA PaidIsQuoted ==
    ASSUME Inv, NEW h \in Handlers, hs[h].pc \in Paying
    PROVE  /\ hs[h].req \in ReqIds
           /\ challenge[hs[h].req] # None
           /\ challenge[hs[h].req] = hs[h].cost
BY RelayAssumption DEF Inv, LocalsInv, QuoteInv

(***************************************************************************)
(* Phase one                                                               *)
(***************************************************************************)

LEMMA ArrivalMaps ==
    ASSUME Inv, NEW h \in Handlers, BeginInitial(h) \/ UpstreamFails(h)
    PROVE  UNCHANGED PD!pdVars
<1>1. UNCHANGED <<cache, challenge, served>>
  BY DEF BeginInitial, UpstreamFails
<1>2. UNCHANGED <<offerOf, soldOf>>
  BY <1>1 DEF offerOf, soldOf
<1>3. hs[h] \in HandlerState /\ TypeOK
  BY DEF Inv, TypeOK
<1>4. CASE BeginInitial(h)
  <2> DEFINE s == [hs[h] EXCEPT !.pc = "upstream"]
  <2>1. hs[h].pc = "idle" /\ hs' = [hs EXCEPT ![h] = s]
    BY <1>4 DEF BeginInitial
  <2>2. AttemptFor(s) = AttemptFor(hs[h])
    BY <1>3, <2>1 DEF AttemptFor, Settled, HandlerState
  <2> HIDE DEF s
  <2>3. UNCHANGED attemptOf
    BY <1>3, <2>1, <2>2, AttemptSame
  <2> QED
    BY <1>1, <1>2, <2>3 DEF PD!pdVars
<1>5. CASE UpstreamFails(h)
  <2>1. hs[h].pc = "upstream" /\ hs' = [hs EXCEPT ![h] = Idle]
    BY <1>5 DEF UpstreamFails
  <2>2. AttemptFor(Idle) = AttemptFor(hs[h])
    BY <2>1 DEF AttemptFor, Settled, Idle
  <2>3. UNCHANGED attemptOf
    BY <1>3, <2>1, <2>2, AttemptSame
  <2> QED
    BY <1>1, <1>2, <2>3 DEF PD!pdVars
<1> QED
  BY <1>4, <1>5

LEMMA StageMaps ==
    ASSUME Inv, NEW h \in Handlers, NEW r \in ReqIds, NEW cost \in Costs,
           Stage(h, r, cost)
    PROVE  PD!Offer(r, cost)
<1> DEFINE e == [cost |-> cost, age |-> 0]
<1>1. e # None
  BY EntryIsSome DEF Entry
<1>2. /\ challenge[r] = None
      /\ challenge' = [challenge EXCEPT ![r] = cost]
      /\ cache' = [cache EXCEPT ![r] = e]
      /\ hs[h].pc = "upstream"
      /\ hs' = [hs EXCEPT ![h] = Idle]
      /\ UNCHANGED served
  BY DEF Stage, FreshId, Store
<1>3. TypeOK
  BY DEF Inv
<1>4. offerOf[r] = "none"
  BY <1>2 DEF offerOf, OfferFor
<1>5. cost # None
  BY RelayAssumption
<1> HIDE DEF e
<1>6. offerOf' = [offerOf EXCEPT ![r] = "open"]
  BY <1>1, <1>2, <1>3, <1>5 DEF offerOf, OfferFor, TypeOK
<1>7. UNCHANGED attemptOf
  BY <1>2, <1>3, AttemptSame DEF AttemptFor, Idle, Settled
<1>8. UNCHANGED soldOf
  BY <1>2 DEF soldOf
<1> QED
  BY <1>2, <1>4, <1>6, <1>7, <1>8 DEF PD!Offer

(***************************************************************************)
(* Phase two                                                               *)
(***************************************************************************)

LEMMA BeginPaymentMaps ==
    ASSUME Inv, NEW h \in Handlers, NEW r \in ReqIds, BeginPayment(h, r)
    PROVE  PD!Try(h, r)
<1> DEFINE s == [Idle EXCEPT !.pc = "settling", !.req = r, !.cost = Get(r).cost,
                             !.age = Get(r).age, !.left = PayTimeout]
<1>1. /\ hs[h].pc = "idle"
      /\ cache[r] # None
      /\ hs' = [hs EXCEPT ![h] = s]
      /\ UNCHANGED <<cache, challenge, served>>
  BY DEF BeginPayment, Get
<1>2. AttemptFor(s) = [state |-> "trying", good |-> r]
  BY DEF AttemptFor, Idle
<1> HIDE DEF s
<1>3. attemptOf[h] = [state |-> "none"]
  BY <1>1 DEF attemptOf, AttemptFor, Settled
<1>4. offerOf[r] = "open"
  BY <1>1, StagedIsQuoted DEF offerOf, OfferFor
<1>5. attemptOf' = [attemptOf EXCEPT ![h] = [state |-> "trying", good |-> r]]
  BY <1>1, <1>2, AttemptStep DEF Inv
<1>6. UNCHANGED <<offerOf, challenge, soldOf>>
  BY <1>1 DEF offerOf, soldOf
<1> QED
  BY <1>3, <1>4, <1>5, <1>6 DEF PD!Try, PD!Nothing, PD!Trying

LEMMA SettleErrMaps ==
    ASSUME Inv, NEW h \in Handlers, SettleErr(h)
    PROVE  PD!Fail(h)
<1>1. /\ hs[h].pc = "settling"
      /\ hs' = [hs EXCEPT ![h] = Idle]
      /\ UNCHANGED <<cache, challenge, served>>
  BY DEF SettleErr
<1>2. hs[h].req \in ReqIds
  BY <1>1, PaidIsQuoted DEF Paying
<1>3. attemptOf[h] = [state |-> "trying", good |-> hs[h].req]
  BY <1>1 DEF attemptOf, AttemptFor
<1>4. AttemptFor(Idle) = [state |-> "none"]
  BY DEF AttemptFor, Idle, Settled
<1>5. attemptOf' = [attemptOf EXCEPT ![h] = [state |-> "none"]]
  BY <1>1, <1>4, AttemptStep DEF Inv
<1>6. UNCHANGED <<offerOf, challenge, soldOf>>
  BY <1>1 DEF offerOf, soldOf
<1> QED
  BY <1>2, <1>3, <1>5, <1>6 DEF PD!Fail, PD!Nothing, PD!Trying

LEMMA SettleOkMaps ==
    ASSUME Inv, NEW h \in Handlers, NEW tx \in TxHashes, SettleOk(h, tx)
    PROVE  PD!Take(h, tx)
<1> DEFINE s == [hs[h] EXCEPT !.pc = "record", !.tx = tx, !.age = 0, !.left = 0]
<1>1. /\ hs[h].pc = "settling"
      /\ hs' = [hs EXCEPT ![h] = s]
      /\ UNCHANGED <<cache, challenge, served>>
  BY DEF SettleOk
<1>2. hs[h].req \in ReqIds
  BY <1>1, PaidIsQuoted DEF Paying
<1>3. attemptOf[h] = [state |-> "trying", good |-> hs[h].req]
  BY <1>1 DEF attemptOf, AttemptFor
<1>4. hs[h] \in HandlerState
  BY DEF Inv, TypeOK
<1>5. AttemptFor(s) = [state |-> "owed", good |-> hs[h].req, receipt |-> tx]
  BY <1>4 DEF AttemptFor, Settled, HandlerState
<1> HIDE DEF s
<1>6. attemptOf' = [attemptOf EXCEPT ![h] =
                       [state |-> "owed", good |-> hs[h].req, receipt |-> tx]]
  BY <1>1, <1>5, AttemptStep DEF Inv
<1>7. UNCHANGED <<offerOf, challenge, soldOf>>
  BY <1>1 DEF offerOf, soldOf
<1> QED
  BY <1>2, <1>3, <1>6, <1>7 DEF PD!Take, PD!Trying, PD!Owed

LEMMA RecordMaps ==
    ASSUME Inv, NEW h \in Handlers, Record(h)
    PROVE  UNCHANGED PD!pdVars
<1>1. PICK rec \in RecordOutcomes(Row(hs[h])) :
          hs' = [hs EXCEPT ![h] = [hs[h] EXCEPT !.pc = "delete", !.rec = rec]]
  BY DEF Record
<1> DEFINE s == [hs[h] EXCEPT !.pc = "delete", !.rec = rec]
<1>2. hs[h].pc = "record" /\ UNCHANGED <<cache, challenge, served>>
  BY DEF Record
<1>3. hs[h] \in HandlerState
  BY DEF Inv, TypeOK
<1>4. AttemptFor(s) = AttemptFor(hs[h])
  BY <1>2, <1>3 DEF AttemptFor, Settled, HandlerState
<1>5. hs' = [hs EXCEPT ![h] = s]
  BY <1>1
<1> HIDE DEF s
<1>6. UNCHANGED attemptOf
  BY <1>4, <1>5, AttemptSame DEF Inv
<1>7. UNCHANGED <<offerOf, soldOf>>
  BY <1>2 DEF offerOf, soldOf
<1> QED
  BY <1>2, <1>6, <1>7 DEF PD!pdVars

\* The entry may be gone already: then nothing is withdrawn.
LEMMA DeleteMaps ==
    ASSUME Inv, NEW h \in Handlers, Delete(h)
    PROVE  PD!Withdraw({hs[h].req}) \/ UNCHANGED PD!pdVars
<1> DEFINE r == hs[h].req
           s == [hs[h] EXCEPT !.pc = "respond"]
<1>1. /\ hs[h].pc = "delete"
      /\ cache' = [cache EXCEPT ![r] = None]
      /\ hs' = [hs EXCEPT ![h] = s]
      /\ UNCHANGED <<challenge, served>>
  BY DEF Delete, Unstage
<1>2. TypeOK /\ hs[h] \in HandlerState
  BY DEF Inv, TypeOK
<1>3. r \in ReqIds /\ challenge[r] # None
  BY <1>1, PaidIsQuoted DEF Paying, Settled
<1>4. AttemptFor(s) = AttemptFor(hs[h])
  BY <1>1, <1>2 DEF AttemptFor, Settled, HandlerState
<1> HIDE DEF r, s
<1>5. UNCHANGED attemptOf
  BY <1>1, <1>2, <1>4, AttemptSame
<1>6. UNCHANGED soldOf
  BY <1>1 DEF soldOf
<1>7. CASE cache[r] = None
  <2>1. UNCHANGED offerOf
    BY <1>1, <1>2, <1>7 DEF offerOf, OfferFor, TypeOK
  <2> QED
    BY <1>1, <1>5, <1>6, <2>1 DEF PD!pdVars
<1>8. CASE cache[r] # None
  <2>1. offerOf[r] = "open"
    BY <1>3, <1>8 DEF offerOf, OfferFor
  <2>2. offerOf' = [g \in ReqIds |-> IF g \in {r} THEN "closed" ELSE offerOf[g]]
    BY <1>1, <1>2, <1>3 DEF offerOf, OfferFor, TypeOK
  <2>3. PD!Withdraw({r})
    BY <1>1, <1>5, <1>6, <2>1, <2>2 DEF PD!Withdraw
  <2> QED
    BY <2>3 DEF r
<1> QED
  BY <1>7, <1>8

LEMMA RespondMaps ==
    ASSUME Inv, NEW h \in Handlers, NEW got \in BOOLEAN, Respond(h, got)
    PROVE  PD!Answer(h)
<1> DEFINE r == hs[h].req
           x == [req |-> r, amount |-> hs[h].cost, tx |-> hs[h].tx,
                 rec |-> hs[h].rec, got |-> got]
<1>1. /\ hs[h].pc = "respond"
      /\ served' = served \cup {x}
      /\ hs' = [hs EXCEPT ![h] = Idle]
      /\ UNCHANGED <<cache, challenge>>
  BY DEF Respond
<1>2. r \in ReqIds /\ challenge[r] # None /\ challenge[r] = hs[h].cost
  BY <1>1, PaidIsQuoted DEF Paying, Settled
<1>3. hs[h].tx \in TxHashes
  BY <1>1 DEF Inv, LocalsInv, Settled
<1>4. cache[r] = None
  BY <1>1 DEF Inv, UnstagedInv
<1>5. offerOf[r] = "closed"
  BY <1>2, <1>4 DEF offerOf, OfferFor
<1>6. attemptOf[h] = [state |-> "owed", good |-> r, receipt |-> hs[h].tx]
  BY <1>1 DEF attemptOf, AttemptFor, Settled
<1>7. AttemptFor(Idle) = [state |-> "none"]
  BY DEF AttemptFor, Idle, Settled
<1>8. attemptOf' = [attemptOf EXCEPT ![h] = [state |-> "none"]]
  BY <1>1, <1>7, AttemptStep DEF Inv
<1>9. soldOf' = soldOf \cup {[good |-> r, price |-> challenge[r],
                              receipt |-> hs[h].tx, arrives |-> got]}
  <2>1. SoldFor(x) = [good |-> r, price |-> challenge[r],
                      receipt |-> hs[h].tx, arrives |-> got]
    BY <1>2 DEF SoldFor
  <2> HIDE DEF x
  <2>2. soldOf' = soldOf \cup {SoldFor(x)}
    BY <1>1 DEF soldOf
  <2> QED
    BY <2>1, <2>2
<1>10. UNCHANGED <<offerOf, challenge>>
  BY <1>1 DEF offerOf
<1> HIDE DEF r, x
<1> QED
  BY <1>2, <1>3, <1>5, <1>6, <1>8, <1>9, <1>10 DEF PD!Answer, PD!Owed, PD!Nothing

(***************************************************************************)
(* The sweeper, the clock and the process                                  *)
(***************************************************************************)

LEMMA SweepMaps ==
    ASSUME Inv, Sweep
    PROVE  (\E gs \in SUBSET ReqIds : PD!Withdraw(gs)) \/ UNCHANGED PD!pdVars
<1> DEFINE gs == {r \in ReqIds : cache[r] # None /\ Get(r) = None}
<1>1. /\ cache' = [r \in ReqIds |-> Get(r)]
      /\ UNCHANGED <<challenge, hs, served>>
  BY DEF Sweep
<1>2. UNCHANGED <<attemptOf, soldOf>>
  BY <1>1 DEF attemptOf, soldOf
<1>3. \A r \in ReqIds : Get(r) # None => cache[r] # None
  BY DEF Get
<1>4. \A r \in gs : offerOf[r] = "open"
  BY StagedIsQuoted DEF offerOf, OfferFor
<1>5. \A r \in ReqIds : offerOf'[r] = IF r \in gs THEN "closed" ELSE offerOf[r]
  BY <1>1, <1>3, StagedIsQuoted DEF offerOf, OfferFor
<1>6. offerOf' = [r \in ReqIds |-> IF r \in gs THEN "closed" ELSE offerOf[r]]
  BY <1>5 DEF offerOf
<1>7. gs \in SUBSET ReqIds
  OBVIOUS
<1> HIDE DEF gs
<1>8. CASE gs = {}
  <2>1. UNCHANGED offerOf
    BY <1>6, <1>8 DEF offerOf
  <2> QED
    BY <1>1, <1>2, <2>1 DEF PD!pdVars
<1>9. CASE gs # {}
  <2>1. PD!Withdraw(gs)
    BY <1>1, <1>2, <1>4, <1>6, <1>9 DEF PD!Withdraw
  <2> QED
    BY <1>7, <2>1
<1> QED
  BY <1>8, <1>9

LEMMA TickMaps ==
    ASSUME Inv, Tick
    PROVE  UNCHANGED PD!pdVars
<1>1. /\ cache' = [r \in ReqIds |-> Older(cache[r])]
      /\ hs' = [h \in Handlers |-> HandlerOlder(hs[h])]
      /\ UNCHANGED <<challenge, served>>
  BY DEF Tick
<1>2. \A r \in ReqIds : (Older(cache[r]) = None) <=> (cache[r] = None)
  <2>1. TAKE r \in ReqIds
  <2>2. CASE cache[r] = None
    BY <2>2 DEF Older
  <2>3. CASE cache[r] # None
    <3>1. cache[r] \in Entry
      BY <2>3 DEF Inv, TypeOK
    <3>2. Older(cache[r]) \in Entry
      BY <2>3, <3>1 DEF Older, Entry
    <3> QED
      BY <2>3, <3>2, EntryIsSome
  <2> QED
    BY <2>2, <2>3
<1>3. UNCHANGED offerOf
  BY <1>1, <1>2 DEF offerOf, OfferFor
<1>4. \A h \in Handlers : AttemptFor(HandlerOlder(hs[h])) = AttemptFor(hs[h])
  <2>1. TAKE h \in Handlers
  <2>2. hs[h] \in HandlerState
    BY DEF Inv, TypeOK
  <2> QED
    BY <2>2 DEF AttemptFor, HandlerOlder, HandlerState
<1>5. UNCHANGED attemptOf
  BY <1>1, <1>4 DEF attemptOf
<1>6. UNCHANGED soldOf
  BY <1>1 DEF soldOf
<1> QED
  BY <1>1, <1>3, <1>5, <1>6 DEF PD!pdVars

LEMMA StopMaps ==
    ASSUME Inv, Stop
    PROVE  PD!Abandon
<1>1. /\ cache' = [r \in ReqIds |-> None]
      /\ hs' = [h \in Handlers |-> Idle]
      /\ UNCHANGED <<challenge, served>>
  BY DEF Stop
<1>2. offerOf' = [r \in ReqIds |-> IF offerOf[r] = "open" THEN "closed" ELSE offerOf[r]]
  BY <1>1 DEF offerOf, OfferFor
<1>3. AttemptFor(Idle) = [state |-> "none"]
  BY DEF AttemptFor, Idle, Settled
<1>4. attemptOf' = [h \in Handlers |-> [state |-> "none"]]
  BY <1>1, <1>3 DEF attemptOf
<1>5. UNCHANGED <<challenge, soldOf>>
  BY <1>1 DEF soldOf
<1> QED
  BY <1>2, <1>4, <1>5 DEF PD!Abandon, PD!Nothing

LEMMA LifecycleMaps ==
    ASSUME Inv, Lifecycle
    PROVE  PD!Abandon \/ UNCHANGED PD!pdVars
<1>1. CASE Crash \/ DrainDone \/ DrainExpires
  BY <1>1, StopMaps DEF Crash, DrainDone, DrainExpires
<1>2. CASE Signal \/ Restart
  <2>1. UNCHANGED <<cache, challenge, hs, served>>
    BY <1>2 DEF Signal, Restart
  <2> QED
    BY <2>1 DEF PD!pdVars, offerOf, attemptOf, soldOf
<1> QED
  BY <1>1, <1>2 DEF Lifecycle

(***************************************************************************)
(* The refinement                                                          *)
(***************************************************************************)

LEMMA InitMaps == Init => PD!PDInit
<1> SUFFICES ASSUME Init PROVE PD!PDInit
  OBVIOUS
<1>1. offerOf = [r \in ReqIds |-> "none"]
  BY DEF Init, offerOf, OfferFor
<1>2. AttemptFor(Idle) = [state |-> "none"]
  BY DEF AttemptFor, Idle, Settled
<1>3. attemptOf = [h \in Handlers |-> [state |-> "none"]]
  BY <1>2 DEF Init, attemptOf
<1>4. soldOf = {}
  BY DEF Init, soldOf
<1> QED
  BY <1>1, <1>3, <1>4 DEF Init, PD!PDInit, PD!Nothing

LEMMA StepMaps == Inv /\ [Next]_vars => [PD!PDNext]_(PD!pdVars)
<1> SUFFICES ASSUME Inv, [Next]_vars PROVE PD!PDNext \/ UNCHANGED PD!pdVars
  OBVIOUS
<1>1. ASSUME NEW h \in Handlers, Arrivals(h)
      PROVE  PD!PDNext \/ UNCHANGED PD!pdVars
  BY <1>1, ArrivalMaps, BeginPaymentMaps DEF Arrivals, PD!PDNext
<1>2. ASSUME NEW h \in Handlers, UpstreamReturns(h)
      PROVE  PD!PDNext \/ UNCHANGED PD!pdVars
  BY <1>2, ArrivalMaps, StageMaps DEF UpstreamReturns, PD!PDNext
<1>3. ASSUME NEW h \in Handlers, SettleReturns(h)
      PROVE  PD!PDNext
  BY <1>3, SettleErrMaps, SettleOkMaps DEF SettleReturns, PD!PDNext
<1>4. ASSUME NEW h \in Handlers, FinishSteps(h)
      PROVE  PD!PDNext \/ UNCHANGED PD!pdVars
  <2>1. CASE Record(h)
    BY <2>1, RecordMaps
  <2>2. CASE Delete(h)
    <3>1. {hs[h].req} \in SUBSET ReqIds
      BY <2>2, PaidIsQuoted DEF Delete, Paying, Settled
    <3> QED
      BY <2>2, <3>1, DeleteMaps DEF PD!PDNext
  <2>3. CASE \E got \in BOOLEAN : Respond(h, got)
    BY <2>3, RespondMaps DEF PD!PDNext
  <2> QED
    BY <1>4, <2>1, <2>2, <2>3 DEF FinishSteps
<1>5. CASE Sweep
  BY <1>5, SweepMaps DEF PD!PDNext
<1>6. CASE Tick
  BY <1>6, TickMaps
<1>7. CASE Lifecycle
  BY <1>7, LifecycleMaps DEF PD!PDNext
<1>8. CASE UNCHANGED vars
  BY <1>8 DEF vars, PD!pdVars, offerOf, attemptOf, soldOf
<1> QED
  BY <1>1, <1>2, <1>3, <1>4, <1>5, <1>6, <1>7, <1>8 DEF Next

\* Every behaviour of the relay is one that PaidDelivery allows: one price and
\* one offer per response, no payment taken for an offer that was closed when
\* the attempt began, and every payment taken answered once the offer has
\* closed, unless the process ends (relay.go 143-242, cache.go 49-93).
THEOREM DeliveryIsSafe == SafeSpec => DeliverySafe
<1>1. SafeSpec => []Inv
  BY InvHolds
<1>2. Init => PD!PDInit
  BY InitMaps
<1>3. Inv /\ [Next]_vars => [PD!PDNext]_(PD!pdVars)
  BY StepMaps
<1> QED
  BY <1>1, <1>2, <1>3, PTL DEF SafeSpec, DeliverySafe, PD!PDSafe
=============================================================================
