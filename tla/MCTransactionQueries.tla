------------------------- MODULE MCTransactionQueries -------------------------
(***************************************************************************)
(* A small instance of TransactionQueries: two migrated rows of the same   *)
(* second, transfers to and from the account and one between others.       *)
(***************************************************************************)
EXTENDS TransactionQueries

MCTransferOf ==
    [i \in Ids |-> CASE i = 1 -> [debit |-> 1, credit |-> 2, amount |-> 5]
                     [] i = 2 -> [debit |-> 2, credit |-> 1, amount |-> 1]
                     [] OTHER -> [debit |-> 2, credit |-> 3, amount |-> 1]]

MCMigratedRows ==
    {[id |-> 10, at |-> 0, debit |-> 1, credit |-> 2, amount |-> 3],
     [id |-> 11, at |-> 0, debit |-> 2, credit |-> 1, amount |-> 2],
     [id |-> 12, at |-> 0, debit |-> 3, credit |-> 2, amount |-> 4]}
=============================================================================
