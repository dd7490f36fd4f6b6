--------------------------- MODULE RelayDelivery ---------------------------
(***************************************************************************)
(* Relay implements PaidDelivery.                                          *)
(*                                                                         *)
(* An offer is open while the response is staged, expired or not, and      *)
(* closed once its id was quoted and is staged no longer; an attempt is a  *)
(* handler between its look-up and its answer; what is sold is what was    *)
(* written out.                                                            *)
(***************************************************************************)
EXTENDS Relay

OfferFor(quote, entry) ==
    IF quote = None THEN "none" ELSE IF entry # None THEN "open" ELSE "closed"

AttemptFor(s) ==
    IF s.pc = "settling" THEN [state |-> "trying", good |-> s.req]
    ELSE IF s.pc \in Settled THEN [state |-> "owed", good |-> s.req, receipt |-> s.tx]
    ELSE [state |-> "none"]

offerOf == [r \in ReqIds |-> OfferFor(challenge[r], cache[r])]

attemptOf == [h \in Handlers |-> AttemptFor(hs[h])]

SoldFor(s) == [good |-> s.req, price |-> s.amount, receipt |-> s.tx, arrives |-> s.got]

soldOf == {SoldFor(s) : s \in served}

PD == INSTANCE PaidDelivery
      WITH Buyers <- Handlers, Goods <- ReqIds, Prices <- Costs,
           Receipts <- TxHashes, None <- None, offer <- offerOf,
           price <- challenge, attempt <- attemptOf, sold <- soldOf

\* The safety part: a response is offered once at one price, nothing is taken
\* for an offer that had closed before the attempt began, and an attempt whose
\* payment was taken ends in an answer or with the process (relay.go 171-242).
DeliverySafe == PD!PDSafe

\* README.md 3: the client pays and the service returns the response it has
\* generated.  However requests, sweeps, retries, refused rows and restarts
\* interleave, the relay behaves as PaidDelivery: in particular a payment that
\* was taken is answered unless the process ends (relay.go 171-242).
DeliveryPromised == PD!PDSpec
=============================================================================
