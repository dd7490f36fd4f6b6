---------------------------- MODULE MCEvmRelay ----------------------------
(* Instances of EvmRelay for TLC. *)
EXTENDS EvmRelay, TLC

EvmHashes == Auths \X (Nonces \cup {-1})

\* The process stays up: drains, crashes and restarts are in the instance that
\* checks EvmInv, of which the three properties are parts or consequences.
ServingSpec == EvmInit /\ [][EvmNext /\ server' = "up"]_evmVars

Symmetry == Permutations(Handlers) \cup Permutations(ReqIds)
=============================================================================
