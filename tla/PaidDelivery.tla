--------------------------- MODULE PaidDelivery ---------------------------
(***************************************************************************)
(* What the relay promises the clients that pay it, with the cache, its    *)
(* clock, the payments table and the process hidden.                       *)
(*                                                                         *)
(* A response is offered once, at one price.  While the offer is open a    *)
(* client may try to buy it; the attempt fails and costs nothing, or the   *)
(* payment is taken.  A payment that was taken is answered with the        *)
(* response, after the offer has closed, whether or not the answer         *)
(* arrives.  The only other way out is the end of the process, which       *)
(* closes every offer and drops every attempt.                             *)
(***************************************************************************)
CONSTANTS
    Buyers,    \* requests that may be under way at the same time
    Goods,     \* responses
    Prices,    \* what a response may cost
    Receipts,  \* proofs of payment
    None       \* no price

VARIABLES
    offer,    \* response -> "none", "open" or "closed"
    price,    \* response -> its price
    attempt,  \* buyer -> what it is doing
    sold      \* the answers given: response, price, receipt, arrived or not

pdVars == <<offer, price, attempt, sold>>

Nothing == [state |-> "none"]

Trying(g) == [state |-> "trying", good |-> g]

Owed(g, receipt) == [state |-> "owed", good |-> g, receipt |-> receipt]

PDInit ==
    /\ offer = [g \in Goods |-> "none"]
    /\ price = [g \in Goods |-> None]
    /\ attempt = [b \in Buyers |-> Nothing]
    /\ sold = {}

Offer(g, p) ==
    /\ offer[g] = "none"
    /\ offer' = [offer EXCEPT ![g] = "open"]
    /\ price' = [price EXCEPT ![g] = p]
    /\ UNCHANGED <<attempt, sold>>

\* Offers end, because they have lapsed or because one has been paid for.
Withdraw(gs) ==
    /\ gs # {}
    /\ \A g \in gs : offer[g] = "open"
    /\ offer' = [g \in Goods |-> IF g \in gs THEN "closed" ELSE offer[g]]
    /\ UNCHANGED <<price, attempt, sold>>

Try(b, g) ==
    /\ attempt[b] = Nothing
    /\ offer[g] = "open"
    /\ attempt' = [attempt EXCEPT ![b] = Trying(g)]
    /\ UNCHANGED <<offer, price, sold>>

Fail(b) ==
    /\ \E g \in Goods : attempt[b] = Trying(g)
    /\ attempt' = [attempt EXCEPT ![b] = Nothing]
    /\ UNCHANGED <<offer, price, sold>>

Take(b, receipt) ==
    /\ \E g \in Goods :
         /\ attempt[b] = Trying(g)
         /\ attempt' = [attempt EXCEPT ![b] = Owed(g, receipt)]
    /\ UNCHANGED <<offer, price, sold>>

Answer(b) ==
    /\ \E g \in Goods, receipt \in Receipts, arrives \in BOOLEAN :
         /\ attempt[b] = Owed(g, receipt)
         /\ offer[g] = "closed"
         /\ sold' = sold \cup {[good |-> g, price |-> price[g],
                                receipt |-> receipt, arrives |-> arrives]}
    /\ attempt' = [attempt EXCEPT ![b] = Nothing]
    /\ UNCHANGED <<offer, price>>

\* The process ends.
Abandon ==
    /\ offer' = [g \in Goods |-> IF offer[g] = "open" THEN "closed" ELSE offer[g]]
    /\ attempt' = [b \in Buyers |-> Nothing]
    /\ UNCHANGED <<price, sold>>

PDNext ==
    \/ \E g \in Goods, p \in Prices : Offer(g, p)
    \/ \E gs \in SUBSET Goods : Withdraw(gs)
    \/ \E b \in Buyers, g \in Goods : Try(b, g)
    \/ \E b \in Buyers : Fail(b)
    \/ \E b \in Buyers, receipt \in Receipts : Take(b, receipt)
    \/ \E b \in Buyers : Answer(b)
    \/ Abandon

PDSafe == PDInit /\ [][PDNext]_pdVars

\* An attempt ends, an offer does not stay open for ever, and what is owed
\* once the offer has closed is delivered.
PDFair ==
    /\ \A b \in Buyers :
         /\ WF_pdVars(Fail(b) \/ \E receipt \in Receipts : Take(b, receipt))
         /\ WF_pdVars(Answer(b))
    /\ \A g \in Goods : WF_pdVars(\E gs \in SUBSET Goods : g \in gs /\ Withdraw(gs))

PDSpec == PDSafe /\ PDFair
=============================================================================
