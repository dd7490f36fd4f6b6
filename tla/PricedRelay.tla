---------------------------- MODULE PricedRelay ----------------------------
(***************************************************************************)
(* The relay's use of the prices, composed with the administration of      *)
(* them: PriceAdmin with responses that are priced from the table in       *)
(* memory, staged, and delivered with the prices of that moment in their   *)
(* headers.                                                                *)
(*                                                                         *)
(* handleInitial reads cfg.Markup and then the table; handlePayment reads  *)
(* the table again, when the response has been paid.  Admin requests and   *)
(* restarts come in between.  How a response is paid for, expires or is    *)
(* asked for twice is left to Relay.                                       *)
(***************************************************************************)
EXTENDS PriceAdmin, Pricing

CONSTANTS
    Resps,         \* responses of the upstream
    Letters,       \* what model names are made of
    Names,         \* normalised model names that responses carry
    Reports,       \* usage objects that responses carry
    Written,       \* prices an operator may try to save
    DefaultPrice   \* pricing.DefaultPrice: the price of a model without a match

\* Only a price that compiles gets into the database (admin.go 107).
ASSUME PricedAssumption ==
    /\ Models \cup Names \subseteq Seq(Letters)
    /\ IsFiniteSet(Models)
    /\ Written \cup {DefaultPrice} \subseteq [input : Text, output : Text, cached : Text]
    /\ Prices = {p \in Written : Compiles(p)}
    /\ Compiles(DefaultPrice)
    /\ Markups \subseteq [num : Nat \ {0}, den : Nat \ {0}]
    /\ \A e \in Reports : extractUsage(e) \in [prompt : Int, completion : Int, cached : Int]

VARIABLE resp  \* response -> what the relay holds of it

pricedVars == <<up, restarts, modelPrices, settings, table, markup, ad,
                priceAnswer, markupAnswer, edited, overlap, resp>>

NoResp == [pc |-> "none"]

(***************************************************************************)
(* The table in memory                                                     *)
(***************************************************************************)

Listed(rows) == {m \in Models : rows[m] # None}

\* NewTable.
Compiled(rows) == [m \in Listed(rows) |-> compilePrice(rows[m])]

\* The prices that priceFor may return for a name.
Found(name) ==
    {priceFor(Compiled(table), order, compilePrice(DefaultPrice), name) :
        order \in PrefixOrders(Listed(table))}

(***************************************************************************)
(* What the operator has configured for a name                             *)
(***************************************************************************)

\* The micro-dollars that are written; a blank cached price is the input price.
Meant(text) ==
    [input  |-> text.input.micros,
     output |-> text.output.micros,
     cached |-> IF text.cached = Blank THEN text.input.micros ELSE text.cached.micros]

\* README.md 278-281: the model itself or else its longest prefix, in the
\* database.
Due(name) ==
    LET keys == {m \in Listed(modelPrices) : IsPrefix(m, name)}
        best == CHOOSE m \in keys : \A k \in keys : Len(k) <= Len(m)
    IN  Meant(IF keys = {} THEN DefaultPrice ELSE modelPrices[best])

\* The last price request of this run succeeded, no two have overlapped and
\* none is under way: the operator has been told what the prices are.
Calm ==
    /\ ~overlap
    /\ priceAnswer # "failed"
    /\ \A a \in Admins : ad[a].pc \notin {"list", "replace"}

(***************************************************************************)
(* Pricing a response                                                      *)
(***************************************************************************)

\* The upstream has answered with a report of its usage; the markup is read.
Arrive(r, name, report) ==
    /\ up
    /\ resp[r].pc = "none"
    /\ HasUsage(extractUsage(report))
    /\ resp' = [resp EXCEPT ![r] = [pc |-> "pricing", name |-> name,
                                    usage |-> extractUsage(report),
                                    markup |-> markup]]
    /\ UNCHANGED vars

\* The table is read, and the response is staged and quoted.
Quote(r) ==
    /\ resp[r].pc = "pricing"
    /\ \E p \in Found(resp[r].name) :
         resp' = [resp EXCEPT ![r] =
                     [pc |-> "staged", name |-> resp[r].name,
                      usage |-> resp[r].usage, markup |-> resp[r].markup,
                      cost |-> CostMicroUSDC(p, resp[r].usage, resp[r].markup),
                      price |-> p, due |-> Due(resp[r].name), calm |-> Calm]]
    /\ UNCHANGED vars

\* The response has been paid for; the table is read again for the headers.
Deliver(r) ==
    /\ resp[r].pc = "staged"
    /\ \E p \in Found(resp[r].name) :
         resp' = [resp EXCEPT ![r] =
                     [pc |-> "delivered", name |-> resp[r].name,
                      usage |-> resp[r].usage, markup |-> resp[r].markup,
                      cost |-> resp[r].cost, price |-> p,
                      due |-> Due(resp[r].name),
                      calm |-> resp[r].calm /\ Calm /\ resp[r].due = Due(resp[r].name),
                      headers |-> receipt(resp[r].usage, p)]]
    /\ UNCHANGED vars

\* The process ends with what it has staged.
Drop ==
    /\ Stop
    /\ resp' = [r \in Resps |-> IF resp[r].pc = "delivered" THEN resp[r] ELSE NoResp]

PricedInit == Init /\ resp = [r \in Resps |-> NoResp]

Administer ==
    /\ \/ \E a \in Admins : PriceRequest(a) \/ Reload(a) \/ MarkupRequest(a)
       \/ Start
    /\ UNCHANGED resp

PricedNext ==
    \/ Administer
    \/ Drop
    \/ \E r \in Resps, name \in Names, report \in Reports : Arrive(r, name, report)
    \/ \E r \in Resps : Quote(r)
    \/ \E r \in Resps : Deliver(r)

PricedSpec == PricedInit /\ [][PricedNext]_pricedVars

(***************************************************************************)
(* Properties                                                              *)
(***************************************************************************)

Quoted == {r \in Resps : resp[r].pc \in {"staged", "delivered"}}

\* The compiled price holds what was written.
Fits(p) == \A n \in {p.input, p.output, p.cached} : n < Half

\* README.md 278-281 and 295: a response is priced, and its headers are filled
\* in, with what the operator has configured for its model: the row of the
\* model or else of its longest prefix, as it stands in the database, whatever
\* the order of the map and of the sort, however many requests and restarts
\* came before (pricing.go 120-151 and 233-247, admin.go 152-163).
PricedAsConfigured ==
    \A r \in Quoted : resp[r].calm /\ Fits(resp[r].due) => resp[r].price = resp[r].due

CeilDiv(a, b) == -((-a) \div b)

\* README.md 273-275, on the figures the client is shown.
Formula(h, mk) ==
    LET amount == CeilDiv(h.input * h.price.input + h.cached * h.price.cached
                              + h.output * h.price.output, Million)
    IN  CeilDiv(amount * mk.num, mk.den)

\* The client can recompute what it was charged: README's formula on the usage
\* and the prices in the headers gives the cost, but for the minimum of one
\* unit, if the price configured for the model was the same when the response
\* was staged and when it was delivered, no count is below zero and the cached
\* tokens are part of the prompt tokens (relay.go 224-240 against 140,
\* pricing.go 250-275).
ReceiptExplainsCost ==
    \A r \in Quoted :
        resp[r].pc = "delivered" /\ resp[r].calm /\ Fits(resp[r].due)
                /\ resp[r].usage.cached \in 0..resp[r].usage.prompt
                /\ resp[r].usage.completion >= 0 =>
            \/ resp[r].cost = Formula(resp[r].headers, resp[r].markup)
            \/ resp[r].cost = 1 /\ Formula(resp[r].headers, resp[r].markup) = 0

\* What the tokens are worth at the configured price; a count below zero is
\* none.
Value(r) ==
    LET count(n) == IF n < 0 THEN 0 ELSE n
        u == resp[r].usage
        p == count(u.prompt)
        c == IF u.cached < p THEN count(u.cached) ELSE p
        d == resp[r].due
    IN  (p - c) * d.input + c * d.cached + count(u.completion) * d.output

\* A staged response is never quoted below its worth, and the two roundings
\* add less than one unit and one unit times the markup, whatever the upstream
\* reports; one unit is the least if any tokens were used (pricing.go 250-275).
QuoteIsTight ==
    \A r \in Resps :
        resp[r].pc = "staged" /\ resp[r].calm /\ Fits(resp[r].due) =>
            LET mk == resp[r].markup
                paid == resp[r].cost * Million * mk.den
                worth == Value(r) * mk.num
            IN  /\ resp[r].usage.prompt > 0 \/ resp[r].usage.completion > 0 => resp[r].cost >= 1
                /\ worth <= paid
                /\ \/ resp[r].cost = 1
                   \/ paid < worth + Million * mk.num + Million * mk.den

(***************************************************************************)
(* The inductive invariant behind them                                     *)
(***************************************************************************)

Counts == [prompt : Int, completion : Int, cached : Int]

Amounts(S) == [input : S, output : S, cached : S]

RespState ==
    {NoResp}
        \cup [pc : {"pricing"}, name : Names, usage : Counts, markup : Markups]
        \cup [pc : {"staged"}, name : Names, usage : Counts, markup : Markups,
              cost : Int, price : Amounts(Int), due : Amounts(Nat), calm : BOOLEAN]
        \cup [pc : {"delivered"}, name : Names, usage : Counts, markup : Markups,
              cost : Int, price : Amounts(Int), due : Amounts(Nat), calm : BOOLEAN,
              headers : [input : Int, cached : Int, output : Int, price : Amounts(Int)]]

\* What is staged is lost with the process; a response quoted in a calm moment
\* has the cost of the configured price, and one delivered in a calm moment
\* still has it, with that price in its headers.
RespOK(r) ==
    /\ resp[r].pc \in {"pricing", "staged"} => up
    /\ resp[r].pc \in {"staged", "delivered"} /\ resp[r].calm /\ Fits(resp[r].due) =>
           /\ resp[r].price = resp[r].due
           /\ resp[r].cost = CostMicroUSDC(resp[r].due, resp[r].usage, resp[r].markup)
    /\ resp[r].pc = "delivered" => resp[r].headers = receipt(resp[r].usage, resp[r].price)

\* The prices the relay charges and shows follow the database through every
\* reload, failure and restart that the operator is told of (relay.go 140-166
\* and 224-240, admin.go 152-163).
PricedInv ==
    /\ PriceInv
    /\ resp \in [Resps -> RespState]
    /\ \A r \in Resps : RespOK(r)
=============================================================================
