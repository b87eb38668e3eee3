------------------------------ MODULE MCBoiler ------------------------------
(***************************************************************************)
(* A small instance of Boiler.  Each scene has the objects of a few tables *)
(* that have something to do with each other, some bound to rows and some  *)
(* not inserted yet.                                                       *)
(***************************************************************************)
EXTENDS Boiler, TLC

MCKeys ==
    [t \in Tables |-> CASE t = "accounts" -> 1..3 [] t = "account_codes" -> 1..3
                        [] t = "ledgers" -> 0..2 [] OTHER -> 1..2]

MCGiven == [column \in {"account_code", "ledger", "credit_account_id", "debit_account_id", "label", "dirty"} |->
              IF column \in {"account_code", "credit_account_id"} THEN {2} ELSE {1}]

MCLoads ==
    [t \in Tables |-> CASE t = "transactions" -> {<<>>, <<"CreditAccount", "DebitAccount">>}
                        [] t = "accounts"     -> {<<>>, <<"AccountLedger">>}
                        [] OTHER              -> {<<>>}]

Account(code, ledger)      == [account_code |-> code, ledger |-> ledger]
Transfer(credit, debit, l) == [credit_account_id |-> credit, debit_account_id |-> debit, ledger |-> l]
Label                      == [label |-> 0]

Row0 ==
    [t \in Tables |-> CASE t = "accounts"      -> 1 :> Account(1, 0) @@ 2 :> Account(2, 0)
                        [] t = "account_codes" -> 1 :> Label @@ 2 :> Label
                        [] t = "ledgers"       -> 0 :> Label @@ 1 :> Label
                        [] t = "transactions"  -> 1 :> Transfer(1, 2, 0)
                        [] OTHER               -> 1 :> [dirty |-> 0]]

Bound(t, id)       == NewObject(t, id, Row0[t][id], 1)
Fresh(t, id, cols) == NewObject(t, id, cols, 0)

\* The rows of some tables only: as many as the objects can have to do with.
Scene(tables, maxCalls, maxWrites, objects) ==
    [db     |-> [t \in Tables |-> IF t \in tables THEN Row0[t] ELSE <<>>],
     heap   |-> objects,
     calls  |-> maxCalls,
     writes |-> maxWrites]

Accounting == {"accounts", "account_codes", "ledgers"}
Posting    == Accounting \cup {"transactions"}
Versions   == {"schema_migrations"}

MCScenes ==
    {Scene(Posting,    1, 2, <<Bound("transactions", 1), Bound("accounts", 1)>>),
     Scene(Posting,    2, 1, <<Bound("transactions", 1), Fresh("accounts", 3, Account(0, 0))>>),
     Scene(Posting,    2, 1, <<Fresh("transactions", 2, Transfer(2, 1, 0)), Bound("accounts", 2)>>),
     Scene(Posting,    2, 1, <<Bound("transactions", 1), Bound("ledgers", 1)>>),
     Scene(Accounting, 3, 0, <<Bound("accounts", 1), Bound("ledgers", 1)>>),
     Scene(Accounting, 2, 1, <<Bound("accounts", 1), Bound("accounts", 2), Fresh("ledgers", 2, Label)>>),
     Scene(Accounting, 2, 1, <<Bound("accounts", 1), Fresh("accounts", 3, Account(0, 0)), Bound("account_codes", 2)>>),
     Scene(Accounting, 2, 1, <<Bound("accounts", 1), Fresh("account_codes", 3, Label)>>),
     Scene(Versions,   2, 1, <<Bound("schema_migrations", 1), Fresh("schema_migrations", 2, [dirty |-> 1])>>)}
=============================================================================
