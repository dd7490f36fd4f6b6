------------------------------ MODULE MCRelay ------------------------------
(* Instances of Relay for TLC: small sets of model values, and the symmetry *)
(* of ids, goroutines and hashes for the runs that check only safety.       *)
EXTENDS RelayDelivery, TLC

Symmetry == Permutations(Handlers) \cup Permutations(ReqIds)
                \cup Permutations(TxHashes)
=============================================================================
