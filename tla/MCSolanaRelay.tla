--------------------------- MODULE MCSolanaRelay ---------------------------
(* Instances of SolanaRelay for TLC. *)
EXTENDS SolanaRelay, TLC

SolHashes == {"sig", "DRYRUN"} \X Txs

Body(ixs) == [verifies |-> TRUE, lookups |-> FALSE, ixs |-> ixs]

\* Transactions as docs/solana-client.md asks for.
Documented == {Body(<<Memo(r), PlainTransfer(c)>>) : r \in ReqIds, c \in Costs}

\* Transactions in another order, or with something too much, too little or wrong.
Odd ==
    UNION {{Body(<<Budget, PlainTransfer(c), Memo(r)>>),
            Body(<<PlainTransfer(c)>>),
            Body(<<Memo(None), PlainTransfer(c), Memo(r)>>),
            Body(<<Memo(r)>>),
            Body(<<Memo(r), PlainTransfer(c), PlainTransfer(c)>>),
            Body(<<Memo(r), Transfer(c, TRUE, TRUE, FALSE, TRUE), PlainTransfer(c)>>),
            Body(<<Memo(r), Transfer(c, TRUE, FALSE, TRUE, TRUE)>>),
            Body(<<Memo(r), Transfer(c, FALSE, TRUE, TRUE, FALSE)>>),
            Body(<<Memo(r), PlainTransfer(c), Foreign>>),
            [Body(<<Memo(r), PlainTransfer(c)>>) EXCEPT !.verifies = FALSE],
            [Body(<<Memo(r), PlainTransfer(c)>>) EXCEPT !.lookups = TRUE]} :
                r \in ReqIds, c \in {1}}

\* One transfer that names two responses.
Shared == {Body(<<Memo(r), Memo(q), PlainTransfer(1)>>) : r, q \in ReqIds}

AllBodies == Documented \cup Odd \cup Shared

Symmetry == Permutations(Handlers) \cup Permutations(ReqIds)
                \cup Permutations(Txs)
=============================================================================
