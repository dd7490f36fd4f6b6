------------------------- MODULE SolanaTransaction -------------------------
(***************************************************************************)
(* A signed Solana transaction as validateTransaction of                   *)
(* internal/settler/solana.go sees it, and its verdict.                    *)
(*                                                                         *)
(* A transaction is a sequence of instructions.  The loop over them stops  *)
(* at the first one it does not accept, and otherwise leaves behind        *)
(* whether a memo matched, how many transfers there were and the last of   *)
(* them; it is stated here by what it leaves.                              *)
(***************************************************************************)
EXTENDS Integers, Sequences, FiniteSets

(***************************************************************************)
(* Instructions                                                            *)
(***************************************************************************)

Budget == [program |-> "ComputeBudget"]

\* The text "x402:" followed by an id, or another text.
Memo(id) == [program |-> "Memo", id |-> id]

\* A transferChecked: its amount, and whether its decimals are 6, its mint is
\* USDC, its destination is payTo's token account and its owner has signed.
Transfer(amount, decimals, mint, destination, owner) ==
    [program |-> "Token", amount |-> amount, decimals |-> decimals,
     mint |-> mint, destination |-> destination, owner |-> owner]

PlainTransfer(amount) == Transfer(amount, TRUE, TRUE, TRUE, TRUE)

\* A token instruction that is not a transferChecked, an instruction that does
\* not decode, or one of another program.
Foreign == [program |-> "other"]

(***************************************************************************)
(* validateTransaction                                                     *)
(***************************************************************************)

At(ixs, program) == {i \in DOMAIN ixs : ixs[i].program = program}

\* Some instruction makes the loop return an error.
LoopFails(ixs) == At(ixs, "other") # {}

\* Mutant of MemoOK: any memo will do.
SomeMemo(ixs, id) == At(ixs, "Memo") # {}

MemoOK(ixs, id) == \E i \in At(ixs, "Memo") : ixs[i].id = id

\* Mutant of TransferCountOK: further transfers are not counted.
AnyTransfers(ixs) == At(ixs, "Token") # {}

TransferCountOK(ixs) == Cardinality(At(ixs, "Token")) = 1

\* The last transfer of the loop.
LastTransfer(ixs) ==
    LET i == CHOOSE i \in At(ixs, "Token") : \A j \in At(ixs, "Token") : j <= i
    IN  ixs[i]

\* Mutant of TransferOK: the amount is not compared.
TransferAnyAmount(ix, cost) == ix.decimals /\ ix.mint /\ ix.destination /\ ix.owner

TransferOK(ix, cost) ==
    /\ ix.amount = cost
    /\ ix.decimals
    /\ ix.mint
    /\ ix.destination
    /\ ix.owner

\* A transaction without lookup tables whose signatures verify, for a positive
\* cost (costs fit the integers, see Relay), and what the loop leaves.
ValidateTransaction(tx, cost, id) ==
    /\ tx.verifies
    /\ ~tx.lookups
    /\ cost > 0
    /\ ~LoopFails(tx.ixs)
    /\ MemoOK(tx.ixs, id)
    /\ TransferCountOK(tx.ixs)
    /\ TransferOK(LastTransfer(tx.ixs), cost)

(***************************************************************************)
(* What the transaction does once it is executed                           *)
(***************************************************************************)

\* The transfers that put USDC into payTo's token account.
Credits(tx) == {i \in At(tx.ixs, "Token") : tx.ixs[i].mint /\ tx.ixs[i].destination}

\* The ids it is a payment for.
Named(tx) == {tx.ixs[i].id : i \in At(tx.ixs, "Memo")}

\* It pays this amount, once and without anything else, naming the id.
PaysExactly(tx, amount, id) ==
    /\ id \in Named(tx)
    /\ At(tx.ixs, "other") = {}
    /\ At(tx.ixs, "Token") = Credits(tx)
    /\ \E i \in Credits(tx) : Credits(tx) = {i} /\ tx.ixs[i].amount = amount
=============================================================================
