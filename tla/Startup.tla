------------------------------ MODULE Startup ------------------------------
(***************************************************************************)
(* The start of cmd/server, step by step: config.Load, the migration of    *)
(* internal/store/db.go one statement at a time, the bootstrap of default  *)
(* prices, the stored markup, settler.New, the price table, and then the   *)
(* server.  The database outlives the process; the process may be killed   *)
(* between any two steps, every database call may fail, and the operator   *)
(* may start it again in another environment.                              *)
(*                                                                         *)
(* While the server is up the admin API stores what later starts read: the *)
(* markup and the prices, as the texts that were sent.  What is deleted    *)
(* there no start reads; PriceAdmin has the deletions.                     *)
(***************************************************************************)
EXTENDS Config, Sequences

CONSTANTS
    Envs,          \* the environments the operator may start the process in
    Databases,     \* what the database file may hold at first: sets of objects
    Transports,    \* nodes whose URL ethclient.Dial has a transport for
    Dialable,      \* those it accepts without connecting
    PriceTexts,    \* prices an admin request may carry
    Compiling,     \* those that compilePrice accepts
    MaxStarts      \* bound: how often the process is started

ASSUME StartupAssumption ==
    /\ Dialable \subseteq Transports
    /\ Compiling \subseteq PriceTexts
    /\ MaxStarts \in Nat

VARIABLES
    env,     \* the environment of the current start
    pc,      \* where main is
    stmt,    \* the next statement of migrate
    cfg,     \* the configuration in use
    exit,    \* which step ended the last start
    faulty,  \* a database call failed or a node was not reached in this start
    starts,  \* how often the process was started
    schema,  \* the tables, indexes and added columns of the database
    stored,  \* settings row "markup", "" when there is none
    prices   \* the texts in model_prices that an operator saved

startVars == <<env, pc, stmt, cfg, exit, faulty, starts, schema, stored, prices>>

\* The statements of migrate, each named after what it creates.
Statements == <<"payments", "from_created", "network_tx_hash", "request_id",
                "settings", "model_prices", "cached_input">>

Objects == {Statements[i] : i \in DOMAIN Statements}

ASSUME DatabaseAssumption == Databases \subseteq SUBSET Objects

\* The table a statement needs.
Needs == [from_created |-> "payments", network_tx_hash |-> "payments",
          request_id |-> "payments", cached_input |-> "model_prices"]

\* A new model_prices has the column that older ones lack.
Creates(s) == IF s = "model_prices" /\ s \notin schema
              THEN {"model_prices", "cached_input"} ELSE {s}

ExecResults == {"none", "fault", "no such table", "duplicate column name"}

\* What db.Exec may return for a statement: everything but the column is IF
\* NOT EXISTS, and any call can fail of itself (disk, lock).  A unique index
\* meets no duplicates: rows are written by a process that serves, and that
\* is one which has both indexes (ServesFullSchema).
Errors(s) ==
    {"fault"} \cup
    {CASE s \in DOMAIN Needs /\ Needs[s] \notin schema -> "no such table"
       [] s = "cached_input" /\ s \in schema           -> "duplicate column name"
       [] OTHER                                        -> "none"}

\* Mutant of Tolerated: every error is.
AlwaysTolerated(s, err) == TRUE

Tolerated(s, err) == s = "cached_input" /\ err = "duplicate column name"

(***************************************************************************)
(* Steps of main                                                           *)
(***************************************************************************)

\* os.Exit(1)
Exit(step) ==
    /\ pc' = "down"
    /\ exit' = step
    /\ UNCHANGED <<env, stmt, cfg, starts, schema, stored, prices>>

\* The operator starts the process.
Launch(e) ==
    /\ pc = "down"
    /\ starts < MaxStarts
    /\ env' = e
    /\ pc' = "load"
    /\ stmt' = 1
    /\ exit' = "none"
    /\ faulty' = FALSE
    /\ starts' = starts + 1
    /\ UNCHANGED <<cfg, schema, stored, prices>>

LoadOk ==
    /\ pc = "load"
    /\ Accepted(env)
    /\ cfg' = Load(env)
    /\ pc' = "migrate"
    /\ UNCHANGED <<env, stmt, exit, faulty, starts, schema, stored, prices>>

LoadFails ==
    /\ pc = "load"
    /\ ~Accepted(env)
    /\ Exit("load")
    /\ UNCHANGED faulty

\* Mutant of Migrate: a tolerated statement is tried again.
MigrateAgain(err) ==
    LET s == Statements[stmt] IN
    /\ pc = "migrate"
    /\ stmt \in DOMAIN Statements
    /\ err \in Errors(s)
    /\ faulty' = (faulty \/ err = "fault")
    /\ IF err = "none" \/ Tolerated(s, err)
       THEN /\ schema' = IF err = "none" THEN schema \cup Creates(s) ELSE schema
            /\ stmt' = IF err = "none" THEN stmt + 1 ELSE stmt
            /\ UNCHANGED <<env, pc, cfg, exit, starts, stored, prices>>
       ELSE Exit("migrate")

\* One statement of migrate; an error that is not tolerated ends the start.
Migrate(err) ==
    LET s == Statements[stmt] IN
    /\ pc = "migrate"
    /\ stmt \in DOMAIN Statements
    /\ err \in Errors(s)
    /\ faulty' = (faulty \/ err = "fault")
    /\ IF err = "none" \/ Tolerated(s, err)
       THEN /\ schema' = IF err = "none" THEN schema \cup Creates(s) ELSE schema
            /\ stmt' = stmt + 1
            /\ UNCHANGED <<env, pc, cfg, exit, starts, stored, prices>>
       ELSE Exit("migrate")

\* A step of main, which exits when what it reads is no good.
Step(p, ok, next) ==
    /\ pc = p
    /\ IF ok THEN pc' = next /\ UNCHANGED <<env, stmt, cfg, exit, starts, schema, stored, prices>>
             ELSE Exit(p)
    /\ UNCHANGED faulty

Migrated == stmt \notin DOMAIN Statements /\ Step("migrate", TRUE, "bootstrap")

\* BootstrapDefaultPrices and ListModelPrices name the added column.
PricesReadable == {"model_prices", "cached_input"} \subseteq schema

\* The default prices are inserted; their content is PriceAdmin's subject.
BootstrapPrices == Step("bootstrap", PricesReadable, "markup")

\* The stored markup, if there is one, must parse and be greater than zero.
MarkupLoads ==
    \/ stored = ""
    \/ stored \in DOMAIN ParseFloat /\ ParseFloat[stored] \notin {"negative", "zero"}

LoadMarkup == Step("markup", "settings" \in schema /\ MarkupLoads, "settler")

\* NewSolana reads the addresses again; New dials the node and reads the key
\* again, unless in a dry run.  Load does not look at the node's URL.
SettlerReads ==
    IF cfg.chain = "solana"
        THEN {cfg.usdc, cfg.payTo} \subseteq PublicKeys
        ELSE cfg.dryRun \/ (cfg.rpc \in Transports /\ cfg.gasKey \in PrivateKeys)

NewSettler == Step("settler", SettlerReads, "prices")

\* ListModelPrices and NewTableFromEntries: every row must compile.
BuildTable == Step("prices", PricesReadable /\ prices \subseteq Compiling, "up")

\* A live EVM start: it dials the node and makes a signer for the chain id.
PaysGas == cfg.chain = "evm" /\ ~cfg.dryRun

\* Load takes a chain id of zero or less; NewKeyedTransactorWithChainID may not,
\* and then the process ends.
SignerRefuses ==
    /\ pc = "settler"
    /\ PaysGas /\ cfg.chainID <= 0
    /\ Exit("settler")
    /\ UNCHANGED faulty

\* A database call of a step fails, or an EVM node is not reached.
StepFaults ==
    /\ \/ pc \in {"bootstrap", "markup", "prices"}
       \/ pc = "settler" /\ PaysGas /\ cfg.rpc \in Transports \ Dialable
    /\ Exit(pc)
    /\ faulty' = TRUE

\* A signal, a crash or a listener that fails, at any step.
Kill == pc # "down" /\ Exit("kill") /\ UNCHANGED faulty

(***************************************************************************)
(* The admin API, as far as the next start depends on it                   *)
(***************************************************************************)

\* Mutant of MarkupValid: only an infinite markup is refused.
MarkupFinite(m) == m \notin {"inf", "nan"}

\* SaveSettings accepts a number that is positive and finite.
MarkupValid(m) == m = "positive"

\* The number is stored as FormatFloat writes it, which ParseFloat reads back.
SaveSettings(text) ==
    /\ pc = "up"
    /\ MarkupValid(ParseFloat[text])
    /\ stored' = text
    /\ UNCHANGED <<env, pc, stmt, cfg, exit, faulty, starts, schema, prices>>

\* SavePrice compiles the price before it is stored.
SavePrice(text) ==
    /\ pc = "up"
    /\ text \in Compiling
    /\ prices' = prices \cup {text}
    /\ UNCHANGED <<env, pc, stmt, cfg, exit, faulty, starts, schema, stored>>

(***************************************************************************)
(* Composition                                                             *)
(***************************************************************************)

Unconfigured == [chain |-> "none"]

StartInit ==
    /\ env = [none |-> ""]
    /\ pc = "down"
    /\ stmt = 1
    /\ cfg = Unconfigured
    /\ exit = "none"
    /\ faulty = FALSE
    /\ starts = 0
    /\ schema \in Databases
    /\ stored = ""
    /\ prices = {}

\* The steps of main that need nobody else, ...
Boot ==
    \/ LoadOk \/ LoadFails
    \/ \E err \in ExecResults \ {"fault"} : Migrate(err)
    \/ Migrated
    \/ BootstrapPrices \/ LoadMarkup \/ NewSettler \/ BuildTable

\* ... and what may happen to them.
Faults == Migrate("fault") \/ StepFaults \/ SignerRefuses

AdminSaves ==
    \/ \E text \in DOMAIN ParseFloat : SaveSettings(text)
    \/ \E text \in PriceTexts : SavePrice(text)

(***************************************************************************)
(* Properties                                                              *)
(***************************************************************************)

\* Load accepts the environment and settler.New has no objection of its own: on
\* EVM, outside a dry run, the node's URL needs a transport and the chain id must
\* be positive.
Startable(e) ==
    /\ Accepted(e)
    /\ paymentChain(e) = "evm" /\ ~dryRun(e) =>
           rpcURL(e) \in Transports /\ chainID(e) > 0

\* An environment that Load accepts starts the server, on every database that
\* kills at any statement, failed starts, older releases and the admin API can
\* have left behind: only a fault of the database or of the node ends a start,
\* or settler.New, for the two things Load does not look at (main.go 26-74,
\* db.go 68-113, settler.go 63-95, admin.go 84-110).
StartsUnlessFaulty ==
    \/ exit \in {"none", "load", "kill"}
    \/ faulty
    \/ exit = "settler" /\ ~Startable(env)

\* A process that serves has every table, index and column: the two unique
\* indexes, on which a payment being booked once rests, are there before the
\* first row is (db.go 84-111).
ServesFullSchema == pc = "up" => schema = Objects

\* A start in such an environment comes to serve unless a fault or a kill
\* ends it: no statement is tried for ever (db.go 103-111, main.go 26-78).
AcceptedServes ==
    (pc = "load" /\ Startable(env)) ~> (pc = "up" \/ faulty \/ exit = "kill")

(***************************************************************************)
(* The inductive invariant behind them                                     *)
(***************************************************************************)

Places == {"down", "load", "migrate", "bootstrap", "markup", "settler", "prices", "up"}

\* The statements up to the current one are in the schema, whatever was there.
MigratesInOrder ==
    /\ pc = "load" => stmt = 1
    /\ pc = "migrate" => /\ stmt \in 1..(Len(Statements) + 1)
                         /\ \A j \in 1..(stmt - 1) : Statements[j] \in schema
    /\ pc \notin {"down", "load", "migrate"} => schema = Objects

\* The configuration in use is that of the environment, which Load accepted.
Configured ==
    pc \notin {"down", "load"} => Accepted(env) /\ cfg = Load(env)

\* What the admin API stored, every later start can read.
StoredIsReadable ==
    /\ \/ stored = ""
       \/ stored \in DOMAIN ParseFloat /\ ParseFloat[stored] = "positive"
    /\ prices \subseteq Compiling

StartInv ==
    /\ pc \in Places
    /\ pc # "down" => exit = "none"
    /\ schema \subseteq Objects
    /\ MigratesInOrder
    /\ Configured
    /\ StoredIsReadable
    /\ StartsUnlessFaulty
=============================================================================
