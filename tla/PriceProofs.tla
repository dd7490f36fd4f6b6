---------------------------- MODULE PriceProofs ----------------------------
(***************************************************************************)
(* Proofs about PriceAdmin, for every set of admin requests, models,       *)
(* prices, defaults and markups and any number of restarts.                *)
(*                                                                         *)
(* PriceInv is inductive.  TypeOK is proved first; EditSurvives,           *)
(* DefaultsPresent and DownInv need only it; LoneInv, from which the two   *)
(* properties about a lone request follow, also needs DownInv (a start     *)
(* finds every request idle, so nothing under way can be stale).           *)
(***************************************************************************)
EXTENDS PriceAdmin, TLAPS

\* What the operator may have done to a model.
Edits == {<<>>} \cup {<<p>> : p \in Prices \cup {None}}

\* The local state of an admin request.
AdminState == [pc : {"idle", "list", "replace", "setting"}, list : Rows, markup : Markups]

\* The tables the code builds are tables.
LEMMA RowsType == NoRows \in Rows /\ DefaultRows \in Rows /\ Idle \in AdminState
  BY PriceAssumption DEF NoRows, Rows, DefaultRows, Idle, AdminState

\* The bootstrap keeps every row there is and makes a table of a table.
LEMMA BootstrapRows ==
  ASSUME NEW rows \in Rows
  PROVE  /\ Bootstrap(rows) \in Rows
         /\ \A m \in Models : rows[m] # None => Bootstrap(rows)[m] = rows[m]
         /\ \A m \in Models : rows[m] = None => Bootstrap(rows)[m] = DefaultRows[m]
  BY RowsType DEF Bootstrap, Rows

\* One request at a time changes its local state.
LEMMA AdminStep ==
  ASSUME ad \in [Admins -> AdminState], NEW a \in Admins, NEW new \in AdminState,
         ad' = [ad EXCEPT ![a] = new]
  PROVE  /\ ad' \in [Admins -> AdminState]
         /\ ad'[a] = new
         /\ \A b \in Admins \ {a} : ad'[b] = ad[b]
  OBVIOUS

\* How every action that serves a request moves it, and what else it changes.
LEMMA Moves ==
  ASSUME TypeOK, NEW a \in Admins
  PROVE  /\ \A rows \in Rows : Write(a, rows) =>
              /\ ad' \in [Admins -> AdminState]
              /\ ad'[a].pc = "list"
              /\ \A b \in Admins \ {a} : ad'[b] = ad[b]
         /\ List(a) =>
              /\ ad' \in [Admins -> AdminState]
              /\ ad'[a].pc = "replace" /\ ad'[a].list = modelPrices
              /\ \A b \in Admins \ {a} : ad'[b] = ad[b]
         /\ ListFails(a) \/ Replace(a) \/ SetSetting(a) \/ SetSettingFails(a) =>
              /\ ad' \in [Admins -> AdminState]
              /\ ad'[a].pc = "idle"
              /\ \A b \in Admins \ {a} : ad'[b] = ad[b]
         /\ \A mk \in Markups : SaveSettings(a, mk) =>
              /\ ad' \in [Admins -> AdminState]
              /\ ad'[a].pc = "setting" /\ ad'[a].markup = mk
              /\ \A b \in Admins \ {a} : ad'[b] = ad[b]
<1>1. ad \in [Admins -> AdminState]
  BY DEF TypeOK, AdminState
<1>2. ASSUME NEW rows \in Rows, Write(a, rows)
      PROVE  /\ ad' \in [Admins -> AdminState]
             /\ ad'[a].pc = "list"
             /\ \A b \in Admins \ {a} : ad'[b] = ad[b]
  BY <1>1, <1>2 DEF Write, AdminState
<1>3. ASSUME List(a)
      PROVE  /\ ad' \in [Admins -> AdminState]
             /\ ad'[a].pc = "replace" /\ ad'[a].list = modelPrices
             /\ \A b \in Admins \ {a} : ad'[b] = ad[b]
  BY <1>1, <1>3 DEF List, AdminState, TypeOK
<1>4. ASSUME ListFails(a) \/ Replace(a) \/ SetSetting(a) \/ SetSettingFails(a)
      PROVE  /\ ad' \in [Admins -> AdminState]
             /\ ad'[a].pc = "idle"
             /\ \A b \in Admins \ {a} : ad'[b] = ad[b]
  <2>1. ad' = [ad EXCEPT ![a] = Idle]
    BY <1>4 DEF ListFails, Replace, SetSetting, SetSettingFails
  <2>2. Idle \in AdminState /\ Idle.pc = "idle"
    BY RowsType DEF Idle
  <2> QED
    BY <1>1, <2>1, <2>2, AdminStep
<1>5. ASSUME NEW mk \in Markups, SaveSettings(a, mk)
      PROVE  /\ ad' \in [Admins -> AdminState]
             /\ ad'[a].pc = "setting" /\ ad'[a].markup = mk
             /\ \A b \in Admins \ {a} : ad'[b] = ad[b]
  <2> DEFINE new == [Idle EXCEPT !.pc = "setting", !.markup = mk]
  <2>1. ad' = [ad EXCEPT ![a] = new]
    BY <1>5 DEF SaveSettings
  <2>2. new \in AdminState /\ new.pc = "setting" /\ new.markup = mk
    BY RowsType DEF Idle, AdminState
  <2> HIDE DEF new
  <2> QED
    BY <1>1, <2>1, <2>2, AdminStep
<1> QED
  BY <1>2, <1>3, <1>4, <1>5

\* Every action leaves every variable with a value of its type.
LEMMA NextType == TypeOK /\ [Next]_vars => TypeOK'
<1> SUFFICES ASSUME TypeOK, [Next]_vars PROVE TypeOK'
  OBVIOUS
<1> USE PriceAssumption
<1> DEFINE Same == ad' \in [Admins -> AdminState]
<1>0. modelPrices \in Rows /\ edited \in [Models -> Edits]
  BY DEF TypeOK, Edits
<1>1. ASSUME NEW a \in Admins, NEW m \in Models, NEW p \in Prices, SavePrice(a, m, p)
      PROVE  TypeOK'
  <2>1. [modelPrices EXCEPT ![m] = p] \in Rows
    BY <1>0 DEF Rows
  <2>2. Same
    BY <1>1, <2>1, Moves DEF SavePrice
  <2>3. edited' \in [Models -> Edits]
    BY <1>0, <1>1 DEF SavePrice, Edits
  <2> QED
    BY <1>1, <2>1, <2>2, <2>3 DEF TypeOK, SavePrice, Write, Begin, AdminState, Edits
<1>2. ASSUME NEW a \in Admins, NEW m \in Models, DeletePrice(a, m)
      PROVE  TypeOK'
  <2>1. [modelPrices EXCEPT ![m] = None] \in Rows
    BY <1>0 DEF Rows
  <2>2. Same
    BY <1>2, <2>1, Moves DEF DeletePrice
  <2>3. edited' \in [Models -> Edits]
    BY <1>0, <1>2 DEF DeletePrice, Edits
  <2> QED
    BY <1>2, <2>1, <2>2, <2>3 DEF TypeOK, DeletePrice, Write, Begin, AdminState, Edits
<1>3. ASSUME NEW a \in Admins, ResetPrices(a) PROVE TypeOK'
  <2>1. Same
    BY <1>3, Moves, RowsType DEF ResetPrices
  <2> QED
    BY <1>3, <2>1, RowsType DEF TypeOK, ResetPrices, Write, Begin, AdminState
<1>4. ASSUME NEW a \in Admins, WriteFails(a) PROVE TypeOK'
  BY <1>4 DEF TypeOK, WriteFails, Answers
<1>5. ASSUME NEW a \in Admins, List(a) \/ ListFails(a) PROVE TypeOK'
  <2>1. Same
    BY <1>5, Moves
  <2> QED
    BY <1>5, <2>1 DEF TypeOK, List, ListFails, AdminState, Answers
<1>6. ASSUME NEW a \in Admins, Replace(a) PROVE TypeOK'
  <2>1. Same
    BY <1>6, Moves
  <2> QED
    BY <1>6, <2>1 DEF TypeOK, Replace, AdminState, Answers
<1>7. ASSUME NEW a \in Admins, NEW mk \in Markups, SaveSettings(a, mk) PROVE TypeOK'
  <2>1. Same
    BY <1>7, Moves
  <2> QED
    BY <1>7, <2>1 DEF TypeOK, SaveSettings, Begin, AdminState
<1>8. ASSUME NEW a \in Admins, SetSetting(a) \/ SetSettingFails(a) PROVE TypeOK'
  <2>1. Same
    BY <1>8, Moves
  <2> QED
    BY <1>8, <2>1 DEF TypeOK, SetSetting, SetSettingFails, AdminState, Answers
<1>9. CASE Stop
  <2>1. restarts' \in 0..MaxRestarts
    BY <1>9 DEF Stop, TypeOK
  <2> QED
    BY <1>9, <2>1, RowsType DEF TypeOK, Stop, AdminState
<1>10. CASE Start
  BY <1>10, <1>0, BootstrapRows DEF TypeOK, Start, LoadMarkup, Answers
<1>11. CASE UNCHANGED vars
  BY <1>11 DEF TypeOK, vars
<1> QED
  BY <1>1, <1>2, <1>3, <1>4, <1>5, <1>6, <1>7, <1>8, <1>9, <1>10, <1>11
  DEF Next, PriceRequest, Reload, MarkupRequest

\* What the database holds changes in four places only.
LEMMA RowsStep ==
  ASSUME TypeOK, [Next]_vars
  PROVE  \/ /\ up' = up
            /\ \E a \in Admins, m \in Models, p \in Prices \cup {None} :
                 /\ modelPrices' = [modelPrices EXCEPT ![m] = p]
                 /\ edited' = [edited EXCEPT ![m] = <<p>>]
         \/ /\ up' = up
            /\ modelPrices' = DefaultRows
            /\ edited' = [m \in Models |-> <<>>]
         \/ ~up /\ modelPrices' = Bootstrap(modelPrices) /\ edited' = edited
         \/ (up' => up) /\ modelPrices' = modelPrices /\ edited' = edited
<1>1. ASSUME NEW a \in Admins, PriceRequest(a) \/ Reload(a) \/ MarkupRequest(a)
      PROVE  \/ /\ up' = up
                /\ \E m \in Models, p \in Prices \cup {None} :
                     /\ modelPrices' = [modelPrices EXCEPT ![m] = p]
                     /\ edited' = [edited EXCEPT ![m] = <<p>>]
             \/ /\ up' = up
                /\ modelPrices' = DefaultRows
                /\ edited' = [m \in Models |-> <<>>]
             \/ up' = up /\ modelPrices' = modelPrices /\ edited' = edited
  <2>1. ASSUME NEW m \in Models, NEW p \in Prices, SavePrice(a, m, p)
        PROVE  /\ up' = up
               /\ modelPrices' = [modelPrices EXCEPT ![m] = p]
               /\ edited' = [edited EXCEPT ![m] = <<p>>]
    BY <2>1 DEF SavePrice, Write
  <2>2. ASSUME NEW m \in Models, DeletePrice(a, m)
        PROVE  /\ up' = up
               /\ modelPrices' = [modelPrices EXCEPT ![m] = None]
               /\ edited' = [edited EXCEPT ![m] = <<None>>]
    BY <2>2 DEF DeletePrice, Write
  <2>3. ASSUME ResetPrices(a)
        PROVE  up' = up /\ modelPrices' = DefaultRows /\ edited' = [m \in Models |-> <<>>]
    BY <2>3 DEF ResetPrices, Write
  <2>4. ASSUME WriteFails(a) \/ Reload(a)
        PROVE  up' = up /\ modelPrices' = modelPrices /\ edited' = edited
    BY <2>4 DEF WriteFails, Reload, List, ListFails, Replace
  <2>5. ASSUME MarkupRequest(a)
        PROVE  up' = up /\ modelPrices' = modelPrices /\ edited' = edited
    BY <2>5 DEF MarkupRequest, SaveSettings, SetSetting, SetSettingFails
  <2> QED
    BY <1>1, <2>1, <2>2, <2>3, <2>4, <2>5 DEF PriceRequest
<1>2. CASE Stop
  BY <1>2 DEF Stop
<1>3. CASE Start
  BY <1>3 DEF Start
<1>4. CASE UNCHANGED vars
  BY <1>4 DEF vars
<1> QED
  BY <1>1, <1>2, <1>3, <1>4 DEF Next

\* No step loses an edit of the operator or leaves a serving process without
\* a default that nobody deleted.
LEMMA NextRows ==
  TypeOK /\ EditSurvives /\ DefaultsPresent /\ [Next]_vars
    => EditSurvives' /\ DefaultsPresent'
<1> SUFFICES ASSUME TypeOK, EditSurvives, DefaultsPresent, [Next]_vars
             PROVE  EditSurvives' /\ DefaultsPresent'
  OBVIOUS
<1> USE PriceAssumption
<1>0. modelPrices \in Rows /\ edited \in [Models -> Edits]
  BY DEF TypeOK, Edits
<1>1. CASE /\ up' = up
           /\ \E a \in Admins, m \in Models, p \in Prices \cup {None} :
                /\ modelPrices' = [modelPrices EXCEPT ![m] = p]
                /\ edited' = [edited EXCEPT ![m] = <<p>>]
  <2>1. PICK m \in Models, p \in Prices \cup {None} :
          /\ modelPrices' = [modelPrices EXCEPT ![m] = p]
          /\ edited' = [edited EXCEPT ![m] = <<p>>]
    BY <1>1
  <2>2. /\ modelPrices'[m] = p /\ edited'[m] = <<p>>
        /\ \A n \in Models : n # m => modelPrices'[n] = modelPrices[n] /\ edited'[n] = edited[n]
    BY <2>1, <1>0 DEF Rows
  <2>3. EditSurvives'
    BY <2>2 DEF EditSurvives
  <2>4. DefaultsPresent'
    BY <1>1, <2>2 DEF DefaultsPresent
  <2> QED
    BY <2>3, <2>4
<1>2. CASE /\ up' = up
           /\ modelPrices' = DefaultRows
           /\ edited' = [m \in Models |-> <<>>]
  BY <1>2 DEF EditSurvives, DefaultsPresent, DefaultRows
<1>3. CASE ~up /\ modelPrices' = Bootstrap(modelPrices) /\ edited' = edited
  <2>1. \A m \in Models : modelPrices[m] # None => modelPrices'[m] = modelPrices[m]
    BY <1>0, <1>3, BootstrapRows
  <2>2. \A m \in Models : modelPrices[m] = None => modelPrices'[m] = DefaultRows[m]
    BY <1>0, <1>3, BootstrapRows
  <2>3. \A m \in DOMAIN Defaults : DefaultRows[m] # None
    BY DEF DefaultRows
  <2>4. EditSurvives'
    BY <1>3, <2>1, <2>2 DEF EditSurvives
  <2>5. DefaultsPresent'
    BY <2>1, <2>2, <2>3 DEF DefaultsPresent
  <2> QED
    BY <2>4, <2>5
<1>4. CASE (up' => up) /\ modelPrices' = modelPrices /\ edited' = edited
  BY <1>4 DEF EditSurvives, DefaultsPresent
<1> QED
  BY <1>1, <1>2, <1>3, <1>4, RowsStep

\* A process that is down stays without requests until it has started.
LEMMA NextDown == TypeOK /\ DownInv /\ [Next]_vars => DownInv'
<1> SUFFICES ASSUME TypeOK, DownInv, [Next]_vars PROVE DownInv'
  OBVIOUS
<1>1. ASSUME NEW a \in Admins, PriceRequest(a) PROVE DownInv'
  <2>1. up' = up /\ up
    BY <1>1 DEF PriceRequest, SavePrice, DeletePrice, ResetPrices, WriteFails, Write
  <2> QED
    BY <2>1 DEF DownInv
<1>2. ASSUME NEW a \in Admins, Reload(a) \/ MarkupRequest(a) PROVE DownInv'
  <2>1. up' = up /\ (up \/ ad[a].pc # "idle")
    BY <1>2 DEF Reload, List, ListFails, Replace, MarkupRequest, SaveSettings, SetSetting,
                SetSettingFails
  <2> QED
    BY <2>1 DEF DownInv
<1>3. CASE Stop
  BY <1>3 DEF DownInv, Stop, Idle
<1>4. CASE Start
  BY <1>4 DEF DownInv, Start
<1>5. CASE UNCHANGED vars
  BY <1>5 DEF DownInv, vars
<1> QED
  BY <1>1, <1>2, <1>3, <1>4, <1>5 DEF Next

\* What a request that runs alone has read or assigned is never out of date,
\* and a step that leaves memory and database apart answers with a failure.
LEMMA NextLone == TypeOK /\ DownInv /\ LoneInv /\ [Next]_vars => LoneInv'
<1> SUFFICES ASSUME TypeOK, DownInv, LoneInv, [Next]_vars, ~overlap' PROVE LoneInv'
  BY DEF LoneInv
<1> USE PriceAssumption
<1>1. ASSUME NEW a \in Admins, NEW rows \in Rows, Write(a, rows) PROVE LoneInv'
  <2>1. /\ ~overlap
        /\ \A b \in Admins \ {a} : ad[b].pc = "idle"
    BY <1>1 DEF Write, Begin, TypeOK
  <2>2. /\ ad'[a].pc = "list"
        /\ \A b \in Admins \ {a} : ad'[b] = ad[b]
    BY <1>1, Moves
  <2>3. /\ \A b \in Admins : ad'[b].pc # "idle" => b = a
        /\ \A b \in Admins : ad[b].pc # "setting" /\ ad'[b].pc \notin {"replace", "setting"}
    BY <1>1, <2>1, <2>2 DEF Write
  <2>4. UNCHANGED <<up, markup, settings, markupAnswer>>
    BY <1>1 DEF Write
  <2> QED
    BY <2>1, <2>2, <2>3, <2>4 DEF LoneInv
<1>2. ASSUME NEW a \in Admins, WriteFails(a) PROVE LoneInv'
  BY <1>2 DEF WriteFails, LoneInv
<1>3. ASSUME NEW a \in Admins, List(a) PROVE LoneInv'
  <2>1. /\ ad'[a].pc = "replace" /\ ad'[a].list = modelPrices
        /\ \A b \in Admins \ {a} : ad'[b] = ad[b]
    BY <1>3, Moves
  <2>2. /\ UNCHANGED <<up, modelPrices, table, markup, settings, priceAnswer, markupAnswer, overlap>>
        /\ ad[a].pc = "list"
    BY <1>3 DEF List
  <2>3. \A b \in Admins : ad'[b].pc # "setting" => ad[b].pc # "setting"
    BY <2>1, <2>2
  <2> QED
    BY <2>1, <2>2, <2>3 DEF LoneInv
<1>4. ASSUME NEW a \in Admins, ListFails(a) PROVE LoneInv'
  <2>1. /\ ad'[a].pc = "idle"
        /\ \A b \in Admins \ {a} : ad'[b] = ad[b]
    BY <1>4, Moves
  <2>2. /\ UNCHANGED <<up, modelPrices, table, markup, settings, markupAnswer, overlap>>
        /\ priceAnswer' = "failed"
        /\ ad[a].pc = "list"
    BY <1>4 DEF ListFails
  <2>3. \A b \in Admins : ad'[b].pc # "setting" => ad[b].pc # "setting"
    BY <2>1, <2>2
  <2> QED
    BY <2>1, <2>2, <2>3 DEF LoneInv
<1>5. ASSUME NEW a \in Admins, Replace(a) PROVE LoneInv'
  <2>1. /\ ad'[a].pc = "idle"
        /\ \A b \in Admins \ {a} : ad'[b] = ad[b]
    BY <1>5, Moves
  <2>2. /\ UNCHANGED <<up, modelPrices, markup, settings, markupAnswer, overlap>>
        /\ ad[a].pc = "replace"
        /\ table' = ad[a].list
    BY <1>5 DEF Replace
  <2>3. table' = modelPrices'
    BY <2>2 DEF LoneInv
  <2>4. \A b \in Admins : ad'[b].pc # "setting" => ad[b].pc # "setting"
    BY <2>1, <2>2
  <2> QED
    BY <2>1, <2>2, <2>3, <2>4 DEF LoneInv
<1>6. ASSUME NEW a \in Admins, NEW mk \in Markups, SaveSettings(a, mk) PROVE LoneInv'
  <2>1. /\ ~overlap
        /\ \A b \in Admins \ {a} : ad[b].pc = "idle"
    BY <1>6 DEF SaveSettings, Begin, TypeOK
  <2>2. /\ ad'[a].pc = "setting" /\ ad'[a].markup = mk
        /\ \A b \in Admins \ {a} : ad'[b] = ad[b]
    BY <1>6, Moves
  <2>3. /\ UNCHANGED <<up, modelPrices, table, priceAnswer>>
        /\ ad[a].pc = "idle"
        /\ markup' = mk
    BY <1>6 DEF SaveSettings
  <2>4. /\ \A b \in Admins : ad'[b].pc # "idle" => b = a
        /\ \A b \in Admins : ad[b].pc = "idle"
    BY <2>1, <2>2, <2>3
  <2> QED
    BY <2>1, <2>2, <2>3, <2>4 DEF LoneInv
<1>7. ASSUME NEW a \in Admins, SetSetting(a) \/ SetSettingFails(a) PROVE LoneInv'
  <2>1. /\ ad'[a].pc = "idle"
        /\ \A b \in Admins \ {a} : ad'[b] = ad[b]
    BY <1>7, Moves
  <2>2. /\ UNCHANGED <<up, modelPrices, table, markup, priceAnswer, overlap>>
        /\ ad[a].pc = "setting"
        /\ \/ settings' = ad[a].markup
           \/ markupAnswer' = "failed"
    BY <1>7 DEF SetSetting, SetSettingFails
  <2>3. markupAnswer' # "failed" => markup' = settings' /\ settings' # None
    BY <2>2 DEF LoneInv, TypeOK
  <2>4. \A b \in Admins : ad'[b].pc \in {"idle", "setting"} => ad[b].pc \in {"idle", "setting"}
    BY <2>1, <2>2
  <2> QED
    BY <2>1, <2>2, <2>3, <2>4 DEF LoneInv
<1>8. CASE Stop
  BY <1>8 DEF Stop, LoneInv, Idle
<1>9. CASE Start
  BY <1>9 DEF Start, LoneInv, DownInv, LoadMarkup
<1>10. CASE UNCHANGED vars
  BY <1>10 DEF LoneInv, vars
<1>11. ASSUME NEW a \in Admins, PriceRequest(a) PROVE LoneInv'
  <2>1. \A m \in Models, p \in Prices \cup {None} : [modelPrices EXCEPT ![m] = p] \in Rows
    BY DEF TypeOK, Rows
  <2> QED
    BY <1>1, <1>2, <1>11, <2>1, RowsType
    DEF PriceRequest, SavePrice, DeletePrice, ResetPrices
<1> QED
  BY <1>3, <1>4, <1>5, <1>6, <1>7, <1>8, <1>9, <1>10, <1>11
  DEF Next, Reload, MarkupRequest

\* The first start finds an empty database and nothing under way.
LEMMA PriceInit == Init => PriceInv
<1> SUFFICES ASSUME Init PROVE PriceInv
  OBVIOUS
<1>1. TypeOK
  <2>1. edited \in [Models -> Edits]
    BY DEF Init, Edits
  <2>2. ad \in [Admins -> AdminState]
    BY RowsType DEF Init
  <2>3. restarts \in 0..MaxRestarts
    BY PriceAssumption DEF Init
  <2> QED
    BY <2>1, <2>2, <2>3, PriceAssumption, RowsType
    DEF Init, TypeOK, Answers, AdminState, Edits
<1>2. DownInv /\ LoneInv
  BY DEF Init, DownInv, LoneInv, Idle
<1>3. EditSurvives /\ DefaultsPresent
  BY DEF Init, EditSurvives, DefaultsPresent
<1> QED
  BY <1>1, <1>2, <1>3 DEF PriceInv

\* PriceInv is inductive.
LEMMA PriceStep == PriceInv /\ [Next]_vars => PriceInv'
  BY NextType, NextRows, NextDown, NextLone DEF PriceInv

\* PriceInv holds in every state: no reload of a lone request installs a stale
\* list, and memory and database differ only after a failed answer.
THEOREM PriceInvHolds == Spec => []PriceInv
  BY PriceInit, PriceStep, PTL DEF Spec

\* Every variable of the prices keeps its type.
THEOREM PriceTypes == Spec => []TypeOK
<1>1. PriceInv => TypeOK
  BY DEF PriceInv
<1> QED
  BY <1>1, PriceInvHolds, PTL

\* What the operator did to a price outlives every restart, every failed call
\* and every overlapping request.
THEOREM EditsSurvive == Spec => []EditSurvives
<1>1. PriceInv => EditSurvives
  BY DEF PriceInv
<1> QED
  BY <1>1, PriceInvHolds, PTL

\* A process that serves has every default price that nobody deleted.
THEOREM DefaultsStay == Spec => []DefaultsPresent
<1>1. PriceInv => DefaultsPresent
  BY DEF PriceInv
<1> QED
  BY <1>1, PriceInvHolds, PTL

\* Without overlapping requests, a price request answered 200 leaves the relay
\* pricing with the rows of the database.
THEOREM LoneSaves == Spec => []LoneSaveIsEffective
<1>1. PriceInv => LoneSaveIsEffective
  BY DEF PriceInv, LoneInv, LoneSaveIsEffective, SavedIsEffective, AllIdle
<1> QED
  BY <1>1, PriceInvHolds, PTL

\* Without overlapping requests, a markup answered 200 is the one in use and
\* the one the next start loads.
THEOREM MarkupsAreDurable == Spec => []MarkupIsDurable
<1>1. PriceInv => MarkupIsDurable
  BY DEF PriceInv, LoneInv, MarkupIsDurable, AllIdle
<1> QED
  BY <1>1, PriceInvHolds, PTL
=============================================================================
