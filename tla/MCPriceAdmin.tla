---------------------------- MODULE MCPriceAdmin ----------------------------
(* Instances of PriceAdmin for TLC: one model with a default, one without. *)
EXTENDS PriceAdmin, TLC

CONSTANTS m1, m2, p1

OneDefault == m1 :> p1
=============================================================================
