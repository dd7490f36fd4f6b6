----------------------------- MODULE PriceAdmin -----------------------------
(***************************************************************************)
(* The prices and the markup: the model_prices and settings tables of      *)
(* internal/store/settings.go, the price table and cfg.Markup the relay    *)
(* prices with, the admin API of internal/handler/admin.go that changes    *)
(* both, and the start of cmd/server that loads one from the other.        *)
(*                                                                         *)
(* An admin request writes the database, then lists the prices, then swaps *)
(* the table in memory, with no lock over the three; every request runs in *)
(* a goroutine of its own, each database call may fail, and the process    *)
(* may end between any two steps.  A database call or transaction is       *)
(* atomic.  Requests that are refused before they write are stuttering     *)
(* steps.                                                                  *)
(***************************************************************************)
EXTENDS Integers

CONSTANTS
    Admins,       \* goroutines serving /admin/api
    Models,       \* model names
    Prices,       \* compiled prices
    Defaults,     \* DefaultEntries: model -> price, for some of the models
    Markups,      \* positive finite markups
    EnvMarkup,    \* MARKUP from the environment
    MaxRestarts,  \* bound: how often the process ends and starts again
    DbMayFail,    \* whether a database call may fail
    None          \* no row, no price

ASSUME PriceAssumption ==
    /\ DOMAIN Defaults \subseteq Models
    /\ \A m \in DOMAIN Defaults : Defaults[m] \in Prices
    /\ EnvMarkup \in Markups
    /\ MaxRestarts \in Nat
    /\ DbMayFail \in BOOLEAN
    /\ None \notin Prices \cup Markups

VARIABLES
    up,            \* the process runs
    restarts,      \* how often it has ended
    modelPrices,   \* table model_prices: model -> price
    settings,      \* settings row "markup"
    table,         \* Manager.table: model -> price
    markup,        \* cfg.Markup
    ad,            \* admin request -> its local state
    priceAnswer,   \* how the last price request was answered
    markupAnswer,  \* how the last settings request was answered
    edited,        \* what the operator last did to a model: its price or None
    overlap        \* history: a request began while another was under way

vars == <<up, restarts, modelPrices, settings, table, markup, ad, priceAnswer,
          markupAnswer, edited, overlap>>

Rows == [Models -> Prices \cup {None}]

Answers == {"none", "ok", "failed"}

NoRows == [m \in Models |-> None]

Idle == [pc |-> "idle", list |-> NoRows, markup |-> EnvMarkup]

DefaultRows == [m \in Models |-> IF m \in DOMAIN Defaults THEN Defaults[m] ELSE None]

\* A request begins, alone or not.
Begin(a) == overlap' = (overlap \/ \E b \in Admins \ {a} : ad[b].pc # "idle")

(***************************************************************************)
(* Price requests                                                          *)
(***************************************************************************)

\* Every price handler: one write, and on to reloadPrices.
Write(a, rows) ==
    /\ up
    /\ ad[a].pc = "idle"
    /\ Begin(a)
    /\ modelPrices' = rows
    /\ ad' = [ad EXCEPT ![a].pc = "list"]
    /\ UNCHANGED <<up, restarts, settings, table, markup, priceAnswer, markupAnswer>>

\* Mutant of SavePrice: answers without reloading.
SavePriceNoReload(a, m, p) ==
    /\ up
    /\ ad[a].pc = "idle"
    /\ modelPrices' = [modelPrices EXCEPT ![m] = p]
    /\ edited' = [edited EXCEPT ![m] = <<p>>]
    /\ priceAnswer' = "ok"
    /\ UNCHANGED <<up, restarts, settings, table, markup, ad, markupAnswer, overlap>>

\* POST /prices: the price compiles and is upserted.
SavePrice(a, m, p) ==
    /\ Write(a, [modelPrices EXCEPT ![m] = p])
    /\ edited' = [edited EXCEPT ![m] = <<p>>]

\* DELETE /prices/:model, whether there is such a row or not.
DeletePrice(a, m) ==
    /\ Write(a, [modelPrices EXCEPT ![m] = None])
    /\ edited' = [edited EXCEPT ![m] = <<None>>]

\* Mutant of ResetPrices: ends after the rows are deleted.
ResetPricesTorn(a) ==
    /\ Write(a, NoRows)
    /\ edited' = [m \in Models |-> <<>>]

\* POST /prices/reset-defaults: ReplaceModelPrices, one transaction.
ResetPrices(a) ==
    /\ Write(a, DefaultRows)
    /\ edited' = [m \in Models |-> <<>>]

\* The write fails: 500, nothing changed.
WriteFails(a) ==
    /\ DbMayFail
    /\ up
    /\ ad[a].pc = "idle"
    /\ priceAnswer' = "failed"
    /\ UNCHANGED <<up, restarts, modelPrices, settings, table, markup, ad,
                   markupAnswer, edited, overlap>>

\* reloadPrices: ListModelPrices, and the table built from the list.
List(a) ==
    /\ ad[a].pc = "list"
    /\ ad' = [ad EXCEPT ![a].pc = "replace", ![a].list = modelPrices]
    /\ UNCHANGED <<up, restarts, modelPrices, settings, table, markup,
                   priceAnswer, markupAnswer, edited, overlap>>

\* The list fails: 500, with the write done and the old table in use.
ListFails(a) ==
    /\ DbMayFail
    /\ ad[a].pc = "list"
    /\ ad' = [ad EXCEPT ![a] = Idle]
    /\ priceAnswer' = "failed"
    /\ UNCHANGED <<up, restarts, modelPrices, settings, table, markup,
                   markupAnswer, edited, overlap>>

\* Manager.Replace, and 200.
Replace(a) ==
    /\ ad[a].pc = "replace"
    /\ table' = ad[a].list
    /\ ad' = [ad EXCEPT ![a] = Idle]
    /\ priceAnswer' = "ok"
    /\ UNCHANGED <<up, restarts, modelPrices, settings, markup, markupAnswer, edited, overlap>>

(***************************************************************************)
(* The markup                                                              *)
(***************************************************************************)

\* PUT /settings: cfg.Markup is assigned first.
SaveSettings(a, mk) ==
    /\ up
    /\ ad[a].pc = "idle"
    /\ Begin(a)
    /\ markup' = mk
    /\ ad' = [ad EXCEPT ![a] = [Idle EXCEPT !.pc = "setting", !.markup = mk]]
    /\ UNCHANGED <<up, restarts, modelPrices, settings, table, priceAnswer,
                   markupAnswer, edited>>

\* Mutant of SetSetting: the row is inserted once and never updated.
SetSettingOnce(a) ==
    /\ ad[a].pc = "setting"
    /\ settings' = IF settings = None THEN ad[a].markup ELSE settings
    /\ ad' = [ad EXCEPT ![a] = Idle]
    /\ markupAnswer' = "ok"
    /\ UNCHANGED <<up, restarts, modelPrices, table, markup, priceAnswer, edited, overlap>>

\* Then the row is upserted, and 200.
SetSetting(a) ==
    /\ ad[a].pc = "setting"
    /\ settings' = ad[a].markup
    /\ ad' = [ad EXCEPT ![a] = Idle]
    /\ markupAnswer' = "ok"
    /\ UNCHANGED <<up, restarts, modelPrices, table, markup, priceAnswer, edited, overlap>>

\* The upsert fails: 500, with the new markup in use.
SetSettingFails(a) ==
    /\ DbMayFail
    /\ ad[a].pc = "setting"
    /\ ad' = [ad EXCEPT ![a] = Idle]
    /\ markupAnswer' = "failed"
    /\ UNCHANGED <<up, restarts, modelPrices, settings, table, markup,
                   priceAnswer, edited, overlap>>

(***************************************************************************)
(* The process                                                             *)
(***************************************************************************)

\* The process ends, by a signal or a crash; memory is gone.
Stop ==
    /\ up
    /\ restarts < MaxRestarts
    /\ up' = FALSE
    /\ restarts' = restarts + 1
    /\ ad' = [a \in Admins |-> Idle]
    /\ table' = NoRows
    /\ markup' = EnvMarkup
    /\ UNCHANGED <<modelPrices, settings, priceAnswer, markupAnswer, edited, overlap>>

\* Mutant of Bootstrap: the defaults overwrite what is there.
BootstrapOverwrites(rows) ==
    [m \in Models |-> IF m \in DOMAIN Defaults THEN Defaults[m] ELSE rows[m]]

\* BootstrapDefaultPrices: defaults are inserted where there is no row.
Bootstrap(rows) == [m \in Models |-> IF rows[m] = None THEN DefaultRows[m] ELSE rows[m]]

LoadMarkup == IF settings = None THEN EnvMarkup ELSE settings

\* The start: bootstrap, load the markup, list the prices, build the table.
\* A start that fails exits and is tried again.
Start ==
    /\ ~up
    /\ up' = TRUE
    /\ modelPrices' = Bootstrap(modelPrices)
    /\ table' = Bootstrap(modelPrices)
    /\ markup' = LoadMarkup
    /\ priceAnswer' = "none"
    /\ markupAnswer' = "none"
    /\ overlap' = FALSE
    /\ UNCHANGED <<restarts, settings, ad, edited>>

Init ==
    /\ up = FALSE
    /\ restarts = 0
    /\ modelPrices = NoRows
    /\ settings = None
    /\ table = NoRows
    /\ markup = EnvMarkup
    /\ ad = [a \in Admins |-> Idle]
    /\ priceAnswer = "none"
    /\ markupAnswer = "none"
    /\ edited = [m \in Models |-> <<>>]
    /\ overlap = FALSE

PriceRequest(a) ==
    \/ \E m \in Models, p \in Prices : SavePrice(a, m, p)
    \/ \E m \in Models : DeletePrice(a, m)
    \/ ResetPrices(a)
    \/ WriteFails(a)

Reload(a) == List(a) \/ ListFails(a) \/ Replace(a)

MarkupRequest(a) ==
    \/ \E mk \in Markups : SaveSettings(a, mk)
    \/ SetSetting(a)
    \/ SetSettingFails(a)

Next ==
    \/ \E a \in Admins : PriceRequest(a) \/ Reload(a) \/ MarkupRequest(a)
    \/ Stop
    \/ Start

Spec == Init /\ [][Next]_vars

(***************************************************************************)
(* Properties                                                              *)
(***************************************************************************)

\* Every variable holds values of its type.
TypeOK ==
    /\ up \in BOOLEAN
    /\ restarts \in 0..MaxRestarts
    /\ modelPrices \in Rows
    /\ settings \in Markups \cup {None}
    /\ table \in Rows
    /\ markup \in Markups
    /\ ad \in [Admins -> [pc : {"idle", "list", "replace", "setting"},
                          list : Rows, markup : Markups]]
    /\ priceAnswer \in Answers
    /\ markupAnswer \in Answers
    /\ edited \in [Models -> {<<>>} \cup {<<p>> : p \in Prices \cup {None}}]
    /\ overlap \in BOOLEAN

AllIdle == up /\ \A a \in Admins : ad[a].pc = "idle"

\* README.md 295: after a save the table in memory is updated at once.  When
\* no request is under way and the last price request was answered 200, the
\* relay prices with exactly the rows of the database, whatever failed before.
SavedIsEffective == AllIdle /\ priceAnswer # "failed" => table = modelPrices

\* It is so as long as no two requests of this run overlapped: a failed write,
\* a failed list or an exit after the write is made good by the next success
\* or the next start (admin.go 152-163, main.go 64-74).
LoneSaveIsEffective == ~overlap => SavedIsEffective

\* README.md 24: runtime settings persist.  When no request is under way, a
\* markup that was answered 200 is the one in use and the one the next start
\* will load, as long as no two requests overlapped: a restart does not change
\* what clients are charged (admin.go 88-93, main.go 42-52).
MarkupIsDurable ==
    ~overlap /\ AllIdle /\ markupAnswer # "failed" =>
        markup = IF settings = None THEN EnvMarkup ELSE settings

\* What the operator did to a price outlives every restart and every request
\* that failed or overlapped: a saved price is never overwritten by the
\* bootstrap that runs at each start, and a deleted one stays away unless it
\* is a default, which the bootstrap brings back (settings.go 33-50).
EditSurvives ==
    \A m \in Models :
        /\ \A p \in Prices : edited[m] = <<p>> => modelPrices[m] = p
        /\ edited[m] = <<None>> => modelPrices[m] \in {None, DefaultRows[m]}

\* A process that serves never lacks a default price that nobody deleted: a
\* reset is one transaction and the bootstrap completes what is missing
\* (settings.go 33-50 and 94-112).
DefaultsPresent ==
    up => \A m \in DOMAIN Defaults : edited[m] # <<None>> => modelPrices[m] # None

(***************************************************************************)
(* The inductive invariant behind them                                     *)
(***************************************************************************)

\* A process that is down serves no request.
DownInv == ~up => \A a \in Admins : ad[a].pc = "idle"

\* As long as no two requests of this run overlapped, at most one is under
\* way; what it has listed or assigned is what the database or the memory
\* still holds; and whatever no request is about to change agrees with the
\* database unless the last answer was a failure.
LoneInv ==
    ~overlap =>
        /\ \A a, b \in Admins : ad[a].pc # "idle" /\ ad[b].pc # "idle" => a = b
        /\ \A a \in Admins : ad[a].pc = "replace" => ad[a].list = modelPrices
        /\ \A a \in Admins : ad[a].pc = "setting" => ad[a].markup = markup
        /\ up /\ priceAnswer # "failed" /\ (\A a \in Admins : ad[a].pc \in {"idle", "setting"})
              => table = modelPrices
        /\ up /\ markupAnswer # "failed" /\ (\A a \in Admins : ad[a].pc # "setting")
              => markup = IF settings = None THEN EnvMarkup ELSE settings

\* A reload of a request that ran alone never installs a list the database has
\* moved on from, and a table or a markup that differs from the database is
\* one a failed answer told the operator of (admin.go 88-163, main.go 42-74).
PriceInv == TypeOK /\ DownInv /\ LoneInv /\ EditSurvives /\ DefaultsPresent
=============================================================================
