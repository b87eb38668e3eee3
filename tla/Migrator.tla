------------------------------- MODULE Migrator -------------------------------
(***************************************************************************)
(* The data migrator (cmd/migrate/main.go, storage/migration.go,           *)
(* legacy_storage/legacy_storage.go) between two live neighbours: the      *)
(* legacy database it reads, to which the old service still posts, and the *)
(* server, which starts as soon as the new database has an account.        *)
(*                                                                         *)
(* A balance is represented by the set of transfers it counts, so that     *)
(* balances and history can be compared.                                   *)
(***************************************************************************)
EXTENDS Integers

CONSTANTS Accounts,         \* ids of legacy accounts
          InitialAccounts,  \* those that exist from the start
          Transfers,        \* transfers the legacy service may post
          NewTransfers,     \* transfers the server may post
          Parties,          \* debtor and creditor of each transfer
          MaxFails,         \* bound on interruptions of a run
          MaxCuts           \* bound on reads cut short

AllTransfers == Transfers \cup NewTransfers

ASSUME MigratorAssumption ==
    /\ InitialAccounts \subseteq Accounts
    /\ Transfers \cap NewTransfers = {}
    /\ Parties \in [AllTransfers -> SUBSET Accounts]
    /\ \A t \in AllTransfers : Parties[t] # {}
    /\ MaxFails \in Nat
    /\ MaxCuts \in Nat

VARIABLES
    legacy,    \* rows of the legacy accounts table
    log,       \* rows of the legacy transactions table
    rows,      \* rows of the new accounts table
    counted,   \* the transfers each row's balance counts
    history,   \* rows of the new transactions table
    trigger,   \* trigger_check_balance exists
    locked,    \* a transaction of the migrator locks the transactions table
    server,    \* the server has started
    pc,        \* where the migrator is
    accounts,  \* result of GetAccounts
    balances,  \* and the balances it read with them
    txes,      \* result of GetTransactions
    fails,     \* runs that exited with an error
    cuts       \* reads that ended before their last row

legacyVars == <<legacy, log>>
newVars    == <<rows, counted, history, trigger, locked>>
localVars  == <<accounts, balances, txes>>
vars       == <<legacyVars, newVars, server, pc, localVars, fails, cuts>>

Running == {"check", "getAccounts", "insertAccounts", "getTransactions", "begin",
            "insertTransfers", "committed"}

Init ==
    /\ legacy = InitialAccounts
    /\ log = {}
    /\ rows = {}
    /\ counted = [a \in Accounts |-> {}]
    /\ history = {}
    /\ trigger = TRUE
    /\ locked = FALSE
    /\ server = FALSE
    /\ pc = "check"
    /\ accounts = {}
    /\ balances = [a \in Accounts |-> {}]
    /\ txes = {}
    /\ fails = 0
    /\ cuts = 0

-----------------------------------------------------------------------------
(* The legacy service.                                                     *)

LegacyOpen(a) ==
    /\ a \in Accounts \ legacy
    /\ legacy' = legacy \cup {a}
    /\ UNCHANGED <<log, newVars, server, pc, localVars, fails, cuts>>

LegacyPost(t) ==
    /\ t \in Transfers \ log
    /\ Parties[t] \subseteq legacy
    /\ log' = log \cup {t}
    /\ UNCHANGED <<legacy, newVars, server, pc, localVars, fails, cuts>>

-----------------------------------------------------------------------------
(* The migrator.                                                           *)

\* Mutant of CheckDataExists: a run never finds data.
CheckNothing ==
    /\ pc = "check"
    /\ pc' = "getAccounts"
    /\ UNCHANGED <<legacyVars, newVars, server, localVars, fails, cuts>>

\* Mutant of CheckDataExists: a run that finds data exits with an error.
CheckRefusesData ==
    /\ pc = "check"
    /\ pc' = IF rows # {} THEN "failed" ELSE "getAccounts"
    /\ UNCHANGED <<legacyVars, newVars, server, localVars, fails, cuts>>

\* DataExists: with an account in the new database there is nothing to do.
CheckDataExists ==
    /\ pc = "check"
    /\ pc' = IF rows # {} THEN "done" ELSE "getAccounts"
    /\ UNCHANGED <<legacyVars, newVars, server, localVars, fails, cuts>>

(***************************************************************************)
(* What a rows.Next loop over table may return.  The loop ends at the last *)
(* row or at a read error, and the code does not ask rows.Err() which.     *)
(***************************************************************************)
Scanned(table, result) ==
    \/ result = table /\ cuts' = cuts
    \/ /\ cuts < MaxCuts
       /\ result \in SUBSET table /\ result # table
       /\ cuts' = cuts + 1

GetAccounts ==
    /\ pc = "getAccounts"
    /\ \E result \in SUBSET legacy : Scanned(legacy, result) /\ accounts' = result
    /\ balances' = [a \in Accounts |-> {t \in log : a \in Parties[t]}]
    /\ pc' = "insertAccounts"
    /\ UNCHANGED <<legacyVars, newVars, server, txes, fails>>

\* MigrateInsertAccounts: one transaction, ON CONFLICT DO NOTHING.
InsertAccounts ==
    /\ pc = "insertAccounts"
    /\ rows' = rows \cup accounts
    /\ counted' = [a \in Accounts |-> IF a \in accounts \ rows THEN balances[a] ELSE counted[a]]
    /\ pc' = "getTransactions"
    /\ UNCHANGED <<legacyVars, history, trigger, locked, server, localVars, fails, cuts>>

GetTransactions ==
    /\ pc = "getTransactions"
    /\ \E result \in SUBSET log : Scanned(log, result) /\ txes' = result
    /\ pc' = "begin"
    /\ UNCHANGED <<legacyVars, newVars, server, accounts, balances, fails>>

\* Mutant of DropTrigger: the statement runs outside the transaction.
DropTriggerCommitted ==
    /\ pc = "begin"
    /\ trigger' = FALSE
    /\ pc' = "insertTransfers"
    /\ UNCHANGED <<legacyVars, rows, counted, history, locked, server, localVars, fails, cuts>>

(***************************************************************************)
(* MigrateInsertTransfers begins its transaction and drops the trigger,    *)
(* which locks the table against every other statement to the end.         *)
(***************************************************************************)
DropTrigger ==
    /\ pc = "begin"
    /\ trigger' = FALSE
    /\ locked' = TRUE
    /\ pc' = "insertTransfers"
    /\ UNCHANGED <<legacyVars, rows, counted, history, server, localVars, fails, cuts>>

\* The accounts the rows refer to.
Referenced(transfers) == UNION {Parties[t] : t \in transfers}

\* Mutant of CommitTransfers: the loop starts one row late.
CommitTransfersButOne ==
    /\ pc = "insertTransfers"
    /\ Referenced(txes) \subseteq rows
    /\ history' = history \cup (txes \ {CHOOSE t \in AllTransfers : txes # {} => t \in txes})
    /\ trigger' = TRUE
    /\ locked' = FALSE
    /\ pc' = "committed"
    /\ UNCHANGED <<legacyVars, rows, counted, server, localVars, fails, cuts>>

\* Every row goes in, the trigger is created again, the transaction commits.
CommitTransfers ==
    /\ pc = "insertTransfers"
    /\ Referenced(txes) \subseteq rows
    /\ history' = history \cup txes
    /\ trigger' = TRUE
    /\ locked' = FALSE
    /\ pc' = "committed"
    /\ UNCHANGED <<legacyVars, rows, counted, server, localVars, fails, cuts>>

\* A foreign key refuses a row: roll back and exit with an error.
RejectTransfers ==
    /\ pc = "insertTransfers"
    /\ ~(Referenced(txes) \subseteq rows)
    /\ trigger' = TRUE
    /\ locked' = FALSE
    /\ fails' = fails + 1
    /\ pc' = "failed"
    /\ UNCHANGED <<legacyVars, rows, counted, history, server, localVars, cuts>>

Finish ==
    /\ pc = "committed"
    /\ pc' = "done"
    /\ UNCHANGED <<legacyVars, newVars, server, localVars, fails, cuts>>

(***************************************************************************)
(* A statement fails, the answer to a commit is lost, or the process dies: *)
(* the open transaction is rolled back and the run exits with an error.    *)
(***************************************************************************)
Interrupt ==
    /\ pc \in Running
    /\ fails < MaxFails
    /\ trigger' = TRUE
    /\ locked' = FALSE
    /\ fails' = fails + 1
    /\ pc' = "failed"
    /\ UNCHANGED <<legacyVars, rows, counted, history, server, localVars, cuts>>

\* restart: on-failure.
Restart ==
    /\ pc = "failed"
    /\ pc' = "check"
    /\ accounts' = {}
    /\ balances' = [a \in Accounts |-> {}]
    /\ txes' = {}
    /\ UNCHANGED <<legacyVars, newVars, server, fails, cuts>>

\* The service is brought up again, and the migrator with it.
Rerun ==
    /\ pc = "done"
    /\ pc' = "check"
    /\ accounts' = {}
    /\ balances' = [a \in Accounts |-> {}]
    /\ txes' = {}
    /\ UNCHANGED <<legacyVars, newVars, server, fails, cuts>>

-----------------------------------------------------------------------------
(* The server.                                                             *)

\* Mutant of ServerStart: it starts with an empty cache.
ServerStartsEmpty ==
    /\ ~server
    /\ server' = TRUE
    /\ UNCHANGED <<legacyVars, newVars, pc, localVars, fails, cuts>>

\* NewTransactor refuses to start without accounts.
ServerStart ==
    /\ ~server
    /\ rows # {}
    /\ server' = TRUE
    /\ UNCHANGED <<legacyVars, newVars, pc, localVars, fails, cuts>>

\* An INSERT of the server: it waits for the table's lock, and the trigger counts it.
ServerPost(t) ==
    /\ server
    /\ ~locked
    /\ t \in NewTransfers \ history
    /\ Parties[t] \subseteq rows
    /\ history' = history \cup {t}
    /\ counted' = [a \in Accounts |->
                     IF trigger /\ a \in Parties[t] THEN counted[a] \cup {t} ELSE counted[a]]
    /\ UNCHANGED <<legacyVars, rows, trigger, locked, server, pc, localVars, fails, cuts>>

-----------------------------------------------------------------------------
Step ==
    \/ CheckDataExists \/ GetAccounts \/ InsertAccounts \/ GetTransactions
    \/ DropTrigger \/ CommitTransfers \/ RejectTransfers \/ Finish

Next ==
    \/ \E a \in Accounts : LegacyOpen(a)
    \/ \E t \in Transfers : LegacyPost(t)
    \/ Step \/ Interrupt \/ Restart \/ Rerun
    \/ ServerStart \/ \E t \in NewTransfers : ServerPost(t)

Spec == Init /\ [][Next]_vars

\* The migrator runs, its databases answer, and docker restarts it after an error.
FairSpec == Spec /\ WF_vars(Step) /\ WF_vars(Restart)

-----------------------------------------------------------------------------
\* Every variable has its type, and the lock is held inside its transaction only.
TypeOK ==
    /\ legacy \in SUBSET Accounts
    /\ log \in SUBSET Transfers
    /\ rows \in SUBSET Accounts
    /\ counted \in [Accounts -> SUBSET AllTransfers]
    /\ history \in SUBSET AllTransfers
    /\ trigger \in BOOLEAN
    /\ locked \in BOOLEAN
    /\ locked <=> pc = "insertTransfers"
    /\ server \in BOOLEAN
    /\ pc \in Running \cup {"failed", "done"}
    /\ accounts \in SUBSET Accounts
    /\ balances \in [Accounts -> SUBSET Transfers]
    /\ txes \in SUBSET Transfers
    /\ fails \in Nat
    /\ cuts \in 0..MaxCuts

(***************************************************************************)
(* The trigger is missing while the migrator inserts, and the server may   *)
(* already post: none of its transfers escapes the trigger, and no balance *)
(* counts one that is not in the history.                                  *)
(***************************************************************************)
PostedMeansCounted ==
    \A t \in NewTransfers : \A a \in Parties[t] : t \in history <=> t \in counted[a]

(***************************************************************************)
(* Data moves once: no later run, after a failure or a new start of the    *)
(* service, adds accounts behind the server that has loaded them, adds     *)
(* legacy transfers to those moved, or rewrites a moved balance.           *)
(***************************************************************************)
MovedOnce ==
    [][/\ rows' # rows => rows = {} /\ ~server
       /\ history' \cap Transfers # history \cap Transfers => history \cap Transfers = {}
       /\ \A a \in rows : counted'[a] \cap Transfers = counted[a] \cap Transfers]_vars

(***************************************************************************)
(* The migrator implements DataMove: between the legacy service and the    *)
(* server, and across its failures and restarts, what it changes is one    *)
(* consistent move of accounts, one move of transfers, or nothing.         *)
(***************************************************************************)
MoveView == INSTANCE DataMove WITH
    LegacyTransfers <- Transfers, ServerTransfers <- NewTransfers, moved <- rows

ImplementsMove == MoveView!MoveSpec

Explained(a) == counted[a] \cap Transfers \subseteq history

(***************************************************************************)
(* When no run failed and no read was cut short, every legacy transfer     *)
(* that a moved balance counts was moved too, although the legacy service  *)
(* went on posting: the accounts are read before the transfers.            *)
(***************************************************************************)
CleanRunExplains ==
    pc = "done" /\ fails = 0 /\ cuts = 0 => \A a \in rows : Explained(a)

(***************************************************************************)
(* readme.md:8, "move all the data to a new database": once the migrator   *)
(* has exited without error, the history explains every moved balance.     *)
(* False after a failure between the two transactions: the next run finds  *)
(* data and does nothing.                                                  *)
(***************************************************************************)
AllTransfersMoved == pc = "done" => \A a \in rows : Explained(a)

(***************************************************************************)
(* The same line of the accounts: a run that has moved some of them and    *)
(* exits without error has moved them all.  False when the read of them is *)
(* cut short after the first row: DataExists keeps a later run from moving *)
(* the rest.  (One cut short before it moves nothing, and a rerun repairs  *)
(* that.)                                                                  *)
(***************************************************************************)
AllAccountsMoved == pc = "done" /\ rows # {} => InitialAccounts \subseteq rows

(***************************************************************************)
(* Every run ends without error in the end, and never keeps the server     *)
(* from posting for ever.                                                  *)
(***************************************************************************)
MigrationEnds ==
    /\ pc # "done" ~> pc = "done"
    /\ []<>(~locked)
=============================================================================
