------------------------------- MODULE Boiler -------------------------------
(***************************************************************************)
(* The functions sqlboiler generated for the five tables (src/boiler), in  *)
(* terms of ActiveRecord: which table each works on and which foreign key  *)
(* each relation stands for.                                               *)
(***************************************************************************)
EXTENDS ActiveRecord

CONSTANTS Given,  \* values UpdateAll is asked to give each column
          Loads   \* relations the queries of each table load with qm.Load

ASSUME CallAssumption ==
    \A t \in Tables : /\ \A column \in Columns(t) : Given[column] \subseteq Int
                      /\ Loads[t] \subseteq Seq(ToOne(t))

-----------------------------------------------------------------------------
(* accounts.go.                                                           *)

AccountInsert(o)                           == Insert("accounts", o)
AccountUpsert(o, updateOnConflict)         == Upsert("accounts", o, updateOnConflict)
AccountUpdate(o)                           == Update("accounts", o)
AccountDelete(o)                           == Delete("accounts", o)
AccountReload(o)                           == Reload("accounts", o)
AccountSliceUpdateAll(objs, column, value) == SliceUpdateAll("accounts", objs, column, value)
AccountSliceDeleteAll(objs)                == SliceDeleteAll("accounts", objs)
AccountQueryUpdateAll(ids, column, value)  == QueryUpdateAll("accounts", ids, column, value)
AccountQueryDeleteAll(ids)                 == QueryDeleteAll("accounts", ids)

FindAccount(id)             == Query("accounts", {id}, <<>>)
AccountQueryOne(ids, rels)  == Cardinality(ids) = 1 /\ Query("accounts", ids, rels)
AccountQueryAll(ids, rels)  == Query("accounts", ids, rels)
AccountSliceReloadAll(objs) == ReloadAll("accounts", objs)

AccountLoadAccountAccountCode(objs)                     == LoadToOne("AccountAccountCode", objs)
AccountLoadAccountLedger(objs)                          == LoadToOne("AccountLedger", objs)
AccountLoadCreditAccountTransactions(objs, singular)    == LoadToMany("CreditAccount", objs, singular)
AccountLoadDebitAccountTransactions(objs, singular)     == LoadToMany("DebitAccount", objs, singular)
AccountSetAccountAccountCode(o, insert, p)              == Set("AccountAccountCode", o, insert, p)
AccountSetAccountLedger(o, insert, p)                   == Set("AccountLedger", o, insert, p)
AccountAddCreditAccountTransactions(o, insert, related) == Add("CreditAccount", o, insert, related)
AccountAddDebitAccountTransactions(o, insert, related)  == Add("DebitAccount", o, insert, related)

-----------------------------------------------------------------------------
(* transactions.go.                                                       *)

TransactionInsert(o)                           == Insert("transactions", o)
TransactionUpsert(o, updateOnConflict)         == Upsert("transactions", o, updateOnConflict)
TransactionUpdate(o)                           == Update("transactions", o)
TransactionDelete(o)                           == Delete("transactions", o)
TransactionReload(o)                           == Reload("transactions", o)
TransactionSliceUpdateAll(objs, column, value) == SliceUpdateAll("transactions", objs, column, value)
TransactionSliceDeleteAll(objs)                == SliceDeleteAll("transactions", objs)
TransactionQueryUpdateAll(ids, column, value)  == QueryUpdateAll("transactions", ids, column, value)
TransactionQueryDeleteAll(ids)                 == QueryDeleteAll("transactions", ids)

FindTransaction(id)             == Query("transactions", {id}, <<>>)
TransactionQueryOne(ids, rels)  == Cardinality(ids) = 1 /\ Query("transactions", ids, rels)
TransactionQueryAll(ids, rels)  == Query("transactions", ids, rels)
TransactionSliceReloadAll(objs) == ReloadAll("transactions", objs)

TransactionLoadCreditAccount(objs)            == LoadToOne("CreditAccount", objs)
TransactionLoadDebitAccount(objs)             == LoadToOne("DebitAccount", objs)
TransactionLoadTransactionLedger(objs)        == LoadToOne("TransactionLedger", objs)
TransactionSetCreditAccount(o, insert, p)     == Set("CreditAccount", o, insert, p)
TransactionSetDebitAccount(o, insert, p)      == Set("DebitAccount", o, insert, p)
TransactionSetTransactionLedger(o, insert, p) == Set("TransactionLedger", o, insert, p)

-----------------------------------------------------------------------------
(* ledgers.go.                                                            *)

LedgerInsert(o)                           == Insert("ledgers", o)
LedgerUpsert(o, updateOnConflict)         == Upsert("ledgers", o, updateOnConflict)
LedgerUpdate(o)                           == Update("ledgers", o)
LedgerDelete(o)                           == Delete("ledgers", o)
LedgerReload(o)                           == Reload("ledgers", o)
LedgerSliceUpdateAll(objs, column, value) == SliceUpdateAll("ledgers", objs, column, value)
LedgerSliceDeleteAll(objs)                == SliceDeleteAll("ledgers", objs)
LedgerQueryUpdateAll(ids, column, value)  == QueryUpdateAll("ledgers", ids, column, value)
LedgerQueryDeleteAll(ids)                 == QueryDeleteAll("ledgers", ids)

FindLedger(id)             == Query("ledgers", {id}, <<>>)
LedgerQueryOne(ids, rels)  == Cardinality(ids) = 1 /\ Query("ledgers", ids, rels)
LedgerQueryAll(ids, rels)  == Query("ledgers", ids, rels)
LedgerSliceReloadAll(objs) == ReloadAll("ledgers", objs)

LedgerLoadAccounts(objs, singular)        == LoadToMany("AccountLedger", objs, singular)
LedgerLoadTransactions(objs, singular)    == LoadToMany("TransactionLedger", objs, singular)
LedgerAddAccounts(o, insert, related)     == Add("AccountLedger", o, insert, related)
LedgerAddTransactions(o, insert, related) == Add("TransactionLedger", o, insert, related)

-----------------------------------------------------------------------------
(* account_codes.go.                                                      *)

AccountCodeInsert(o)                           == Insert("account_codes", o)
AccountCodeUpsert(o, updateOnConflict)         == Upsert("account_codes", o, updateOnConflict)
AccountCodeUpdate(o)                           == Update("account_codes", o)
AccountCodeDelete(o)                           == Delete("account_codes", o)
AccountCodeReload(o)                           == Reload("account_codes", o)
AccountCodeSliceUpdateAll(objs, column, value) == SliceUpdateAll("account_codes", objs, column, value)
AccountCodeSliceDeleteAll(objs)                == SliceDeleteAll("account_codes", objs)
AccountCodeQueryUpdateAll(ids, column, value)  == QueryUpdateAll("account_codes", ids, column, value)
AccountCodeQueryDeleteAll(ids)                 == QueryDeleteAll("account_codes", ids)

FindAccountCode(id)             == Query("account_codes", {id}, <<>>)
AccountCodeQueryOne(ids, rels)  == Cardinality(ids) = 1 /\ Query("account_codes", ids, rels)
AccountCodeQueryAll(ids, rels)  == Query("account_codes", ids, rels)
AccountCodeSliceReloadAll(objs) == ReloadAll("account_codes", objs)

AccountCodeLoadAccounts(objs, singular)    == LoadToMany("AccountAccountCode", objs, singular)
AccountCodeAddAccounts(o, insert, related) == Add("AccountAccountCode", o, insert, related)

-----------------------------------------------------------------------------
(* schema_migrations.go.                                                  *)

SchemaMigrationInsert(o)                           == Insert("schema_migrations", o)
SchemaMigrationUpsert(o, updateOnConflict)         == Upsert("schema_migrations", o, updateOnConflict)
SchemaMigrationUpdate(o)                           == Update("schema_migrations", o)
SchemaMigrationDelete(o)                           == Delete("schema_migrations", o)
SchemaMigrationReload(o)                           == Reload("schema_migrations", o)
SchemaMigrationSliceUpdateAll(objs, column, value) == SliceUpdateAll("schema_migrations", objs, column, value)
SchemaMigrationSliceDeleteAll(objs)                == SliceDeleteAll("schema_migrations", objs)
SchemaMigrationQueryUpdateAll(ids, column, value)  == QueryUpdateAll("schema_migrations", ids, column, value)
SchemaMigrationQueryDeleteAll(ids)                 == QueryDeleteAll("schema_migrations", ids)

FindSchemaMigration(id)             == Query("schema_migrations", {id}, <<>>)
SchemaMigrationQueryOne(ids, rels)  == Cardinality(ids) = 1 /\ Query("schema_migrations", ids, rels)
SchemaMigrationQueryAll(ids, rels)  == Query("schema_migrations", ids, rels)
SchemaMigrationSliceReloadAll(objs) == ReloadAll("schema_migrations", objs)

-----------------------------------------------------------------------------
Of(t)      == {o \in Objects : heap[o].table = t}
Slices(t)  == SUBSET Of(t)
\* A query that selects every row, or one.
Ranges(t)  == {DOMAIN db[t]} \cup {{id} : id \in DOMAIN db[t]}
Related(t) == {s \in UNION {[1..n -> Of(t)] : n \in 1..2} : Len(s) = 2 => s[1] # s[2]}

AccountCalls ==
    \/ \E o \in Of("accounts") :
         \/ AccountInsert(o) \/ AccountUpdate(o) \/ AccountDelete(o) \/ AccountReload(o)
         \/ \E b \in BOOLEAN : AccountUpsert(o, b)
         \/ \E b \in BOOLEAN, p \in Of("account_codes") :
              \/ AccountSetAccountAccountCode(o, b, p)
         \/ \E b \in BOOLEAN, p \in Of("ledgers") :
              \/ AccountSetAccountLedger(o, b, p)
         \/ \E b \in BOOLEAN, related \in Related("transactions") :
              \/ AccountAddCreditAccountTransactions(o, b, related)
              \/ AccountAddDebitAccountTransactions(o, b, related)
    \/ \E objs \in Slices("accounts") :
         \/ AccountSliceDeleteAll(objs) \/ AccountSliceReloadAll(objs)
         \/ \E column \in Columns("accounts") : \E value \in Given[column] :
              AccountSliceUpdateAll(objs, column, value)
         \/ AccountLoadAccountAccountCode(objs)
         \/ AccountLoadAccountLedger(objs)
         \/ \E b \in BOOLEAN : AccountLoadCreditAccountTransactions(objs, b) \/ AccountLoadDebitAccountTransactions(objs, b)
    \/ \E id \in Keys["accounts"] : FindAccount(id)
    \/ \E ids \in Ranges("accounts"), rels \in Loads["accounts"] :
         AccountQueryOne(ids, rels) \/ AccountQueryAll(ids, rels)

TransactionCalls ==
    \/ \E o \in Of("transactions") :
         \/ TransactionInsert(o) \/ TransactionUpdate(o) \/ TransactionDelete(o) \/ TransactionReload(o)
         \/ \E b \in BOOLEAN : TransactionUpsert(o, b)
         \/ \E b \in BOOLEAN, p \in Of("accounts") :
              \/ TransactionSetCreditAccount(o, b, p) \/ TransactionSetDebitAccount(o, b, p)
         \/ \E b \in BOOLEAN, p \in Of("ledgers") :
              \/ TransactionSetTransactionLedger(o, b, p)
    \/ \E objs \in Slices("transactions") :
         \/ TransactionSliceDeleteAll(objs) \/ TransactionSliceReloadAll(objs)
         \/ \E column \in Columns("transactions") : \E value \in Given[column] :
              TransactionSliceUpdateAll(objs, column, value)
         \/ TransactionLoadCreditAccount(objs)
         \/ TransactionLoadDebitAccount(objs)
         \/ TransactionLoadTransactionLedger(objs)
    \/ \E id \in Keys["transactions"] : FindTransaction(id)
    \/ \E ids \in Ranges("transactions"), rels \in Loads["transactions"] :
         TransactionQueryOne(ids, rels) \/ TransactionQueryAll(ids, rels)

LedgerCalls ==
    \/ \E o \in Of("ledgers") :
         \/ LedgerInsert(o) \/ LedgerUpdate(o) \/ LedgerDelete(o) \/ LedgerReload(o)
         \/ \E b \in BOOLEAN : LedgerUpsert(o, b)
         \/ \E b \in BOOLEAN, related \in Related("accounts") :
              \/ LedgerAddAccounts(o, b, related)
         \/ \E b \in BOOLEAN, related \in Related("transactions") :
              \/ LedgerAddTransactions(o, b, related)
    \/ \E objs \in Slices("ledgers") :
         \/ LedgerSliceDeleteAll(objs) \/ LedgerSliceReloadAll(objs)
         \/ \E column \in Columns("ledgers") : \E value \in Given[column] :
              LedgerSliceUpdateAll(objs, column, value)
         \/ \E b \in BOOLEAN : LedgerLoadAccounts(objs, b) \/ LedgerLoadTransactions(objs, b)
    \/ \E id \in Keys["ledgers"] : FindLedger(id)
    \/ \E ids \in Ranges("ledgers"), rels \in Loads["ledgers"] :
         LedgerQueryOne(ids, rels) \/ LedgerQueryAll(ids, rels)

AccountCodeCalls ==
    \/ \E o \in Of("account_codes") :
         \/ AccountCodeInsert(o) \/ AccountCodeUpdate(o) \/ AccountCodeDelete(o) \/ AccountCodeReload(o)
         \/ \E b \in BOOLEAN : AccountCodeUpsert(o, b)
         \/ \E b \in BOOLEAN, related \in Related("accounts") :
              \/ AccountCodeAddAccounts(o, b, related)
    \/ \E objs \in Slices("account_codes") :
         \/ AccountCodeSliceDeleteAll(objs) \/ AccountCodeSliceReloadAll(objs)
         \/ \E column \in Columns("account_codes") : \E value \in Given[column] :
              AccountCodeSliceUpdateAll(objs, column, value)
         \/ \E b \in BOOLEAN : AccountCodeLoadAccounts(objs, b)
    \/ \E id \in Keys["account_codes"] : FindAccountCode(id)
    \/ \E ids \in Ranges("account_codes"), rels \in Loads["account_codes"] :
         AccountCodeQueryOne(ids, rels) \/ AccountCodeQueryAll(ids, rels)

SchemaMigrationCalls ==
    \/ \E o \in Of("schema_migrations") :
         \/ SchemaMigrationInsert(o) \/ SchemaMigrationUpdate(o) \/ SchemaMigrationDelete(o) \/ SchemaMigrationReload(o)
         \/ \E b \in BOOLEAN : SchemaMigrationUpsert(o, b)
    \/ \E objs \in Slices("schema_migrations") :
         \/ SchemaMigrationSliceDeleteAll(objs) \/ SchemaMigrationSliceReloadAll(objs)
         \/ \E column \in Columns("schema_migrations") : \E value \in Given[column] :
              SchemaMigrationSliceUpdateAll(objs, column, value)
    \/ \E id \in Keys["schema_migrations"] : FindSchemaMigration(id)
    \/ \E ids \in Ranges("schema_migrations"), rels \in Loads["schema_migrations"] :
         SchemaMigrationQueryOne(ids, rels) \/ SchemaMigrationQueryAll(ids, rels)

\* Statements of other goroutines.
Elsewhere ==
    \/ \E id \in Keys["accounts"] :
         \/ AccountQueryDeleteAll({id})
         \/ \E column \in Columns("accounts") : \E value \in Given[column] :
              AccountQueryUpdateAll({id}, column, value)
    \/ \E id \in Keys["transactions"] :
         \/ TransactionQueryDeleteAll({id})
         \/ \E column \in Columns("transactions") : \E value \in Given[column] :
              TransactionQueryUpdateAll({id}, column, value)
    \/ \E id \in Keys["ledgers"] :
         \/ LedgerQueryDeleteAll({id})
         \/ \E column \in Columns("ledgers") : \E value \in Given[column] :
              LedgerQueryUpdateAll({id}, column, value)
    \/ \E id \in Keys["account_codes"] :
         \/ AccountCodeQueryDeleteAll({id})
         \/ \E column \in Columns("account_codes") : \E value \in Given[column] :
              AccountCodeQueryUpdateAll({id}, column, value)
    \/ \E id \in Keys["schema_migrations"] :
         \/ SchemaMigrationQueryDeleteAll({id})
         \/ \E column \in Columns("schema_migrations") : \E value \in Given[column] :
              SchemaMigrationQueryUpdateAll({id}, column, value)

\* The statements that follow the first one of a call.
Continue ==
    \/ EagerLoad \/ QueryEnds \/ QueryFails
    \/ SetInserts \/ SetUpdates \/ SetFails
    \/ AddInserts \/ AddUpdates \/ AddFails \/ AddEnds

\* The bound on calls is reached.
Quiescent ==
    /\ Idle /\ calls = 0
    /\ UNCHANGED vars

Next ==
    \/ AccountCalls \/ TransactionCalls \/ LedgerCalls \/ AccountCodeCalls \/ SchemaMigrationCalls
    \/ Elsewhere \/ Continue \/ Quiescent

Spec == Init /\ [][Next]_vars
=============================================================================
