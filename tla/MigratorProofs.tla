---------------------------- MODULE MigratorProofs ----------------------------
(***************************************************************************)
(* What TLAPS proves of Migrator, for every value of its constants.        *)
(***************************************************************************)
EXTENDS Migrator, TLAPS

\* Only a transaction that holds the lock sees the table without its trigger.
TriggerGuarded == ~locked => trigger

\* Before the accounts nothing else is there, and nobody to add to it.
AccountsFirst == rows = {} => ~server /\ history = {}

\* A run that moves data found none, and commits each half once.
MovingOnEmpty ==
    /\ pc \in {"getAccounts", "insertAccounts"} => rows = {}
    /\ pc \in {"getAccounts", "insertAccounts", "getTransactions", "begin", "insertTransfers"}
         => history \cap Transfers = {}

\* From where a run of no short read will explain what balance a counts.
Moved(a) == counted[a] \cap Transfers

Explaining ==
    cuts = 0 =>
        /\ pc = "insertAccounts" => \A a \in Accounts : balances[a] \subseteq log
        /\ pc = "getTransactions" => \A a \in rows : Moved(a) \subseteq log
        /\ pc \in {"begin", "insertTransfers"} => \A a \in rows : Moved(a) \subseteq txes
        /\ pc = "committed" => \A a \in rows : Moved(a) \subseteq history
        /\ pc \in {"check", "done"} /\ fails = 0 => \A a \in rows : Moved(a) \subseteq history
        /\ pc = "failed" => fails > 0

\* What a run holds in memory was true of the legacy database when it was read.
Snapshot(seen) == [a \in Accounts |-> {t \in seen : a \in Parties[t]}]

ReadsConsistent ==
    /\ pc = "insertAccounts" =>
         /\ accounts \subseteq legacy
         /\ \E seen \in SUBSET log : balances = Snapshot(seen)
    /\ pc \in {"begin", "insertTransfers"} => txes \subseteq log
    /\ \A a \in Accounts \ rows : counted[a] = {}

Inv ==
    /\ TypeOK
    /\ TriggerGuarded
    /\ AccountsFirst
    /\ MovingOnEmpty
    /\ PostedMeansCounted

-----------------------------------------------------------------------------
LEMMA InitInv == Init => Inv /\ Explaining
<1> SUFFICES ASSUME Init
             PROVE  Inv /\ Explaining
  OBVIOUS
<1>1. TypeOK
  <2>1. /\ counted \in [Accounts -> SUBSET AllTransfers]
        /\ balances \in [Accounts -> SUBSET Transfers]
        /\ legacy \in SUBSET Accounts
        /\ fails \in Nat /\ cuts \in 0..MaxCuts
    BY MigratorAssumption DEF Init
  <2>2. pc \in Running /\ pc # "insertTransfers"
    BY DEF Init, Running
  <2> QED
    BY <2>1, <2>2 DEF Init, TypeOK
<1>2. TriggerGuarded /\ AccountsFirst /\ MovingOnEmpty
  BY DEF Init, TriggerGuarded, AccountsFirst, MovingOnEmpty
<1>3. PostedMeansCounted
  BY MigratorAssumption DEF Init, PostedMeansCounted, AllTransfers
<1>4. Explaining
  BY DEF Init, Explaining
<1> QED
  BY <1>1, <1>2, <1>3, <1>4 DEF Inv

\* A transfer without rows to refer to cannot be inserted.
LEMMA NoRowsNoTransfers ==
    ASSUME TypeOK, rows = {}, Referenced(txes) \subseteq rows
    PROVE  txes = {}
<1> SUFFICES ASSUME NEW t \in txes
             PROVE  FALSE
  OBVIOUS
<1>1. Parties[t] # {}
  BY MigratorAssumption DEF TypeOK, AllTransfers
<1>2. Parties[t] \subseteq Referenced(txes)
  BY DEF Referenced
<1> QED
  BY <1>1, <1>2

LEMMA InvStep == Inv /\ [Next]_vars => Inv'
<1> SUFFICES ASSUME Inv, [Next]_vars
             PROVE  Inv'
  OBVIOUS
<1> USE MigratorAssumption DEF Inv
<1>1. ASSUME NEW a \in Accounts, LegacyOpen(a)
      PROVE  Inv'
  BY <1>1 DEF LegacyOpen, newVars, localVars, TypeOK, TriggerGuarded, AccountsFirst,
              MovingOnEmpty, PostedMeansCounted
<1>2. ASSUME NEW t \in Transfers, LegacyPost(t)
      PROVE  Inv'
  BY <1>2 DEF LegacyPost, newVars, localVars, TypeOK, TriggerGuarded, AccountsFirst,
              MovingOnEmpty, PostedMeansCounted
<1>3. CASE CheckDataExists
  BY <1>3 DEF CheckDataExists, legacyVars, newVars, localVars, TypeOK, Running,
              TriggerGuarded, AccountsFirst, MovingOnEmpty, PostedMeansCounted
<1>4. CASE GetAccounts
  <2>1. accounts' \in SUBSET Accounts /\ cuts' \in 0..MaxCuts
    BY <1>4 DEF GetAccounts, Scanned, TypeOK
  <2>2. balances' \in [Accounts -> SUBSET Transfers]
    BY <1>4 DEF GetAccounts, TypeOK
  <2> QED
    BY <1>4, <2>1, <2>2 DEF GetAccounts, legacyVars, newVars, TypeOK, Running,
              TriggerGuarded, AccountsFirst, MovingOnEmpty, PostedMeansCounted
<1>5. CASE InsertAccounts
  <2>1. rows = {} /\ history = {}
    BY <1>5 DEF InsertAccounts, MovingOnEmpty, AccountsFirst
  <2>2. TypeOK'
    BY <1>5 DEF InsertAccounts, legacyVars, localVars, TypeOK, Running, AllTransfers
  <2>3. PostedMeansCounted'
    <3> SUFFICES ASSUME NEW t \in NewTransfers, NEW a \in Parties[t]
                 PROVE  t \notin history' /\ t \notin counted'[a]
      BY DEF PostedMeansCounted
    <3>1. a \in Accounts /\ t \notin Transfers
      BY DEF AllTransfers
    <3>2. t \notin counted[a]
      BY <2>1 DEF PostedMeansCounted
    <3>3. balances[a] \subseteq Transfers
      BY <3>1 DEF TypeOK
    <3> QED
      BY <1>5, <2>1, <3>1, <3>2, <3>3 DEF InsertAccounts
  <2> QED
    BY <1>5, <2>1, <2>2, <2>3 DEF InsertAccounts, TriggerGuarded, AccountsFirst, MovingOnEmpty
<1>6. CASE GetTransactions
  <2>1. txes' \in SUBSET Transfers /\ cuts' \in 0..MaxCuts
    BY <1>6 DEF GetTransactions, Scanned, TypeOK
  <2> QED
    BY <1>6, <2>1 DEF GetTransactions, legacyVars, newVars, TypeOK, Running,
              TriggerGuarded, AccountsFirst, MovingOnEmpty, PostedMeansCounted
<1>7. CASE DropTrigger
  BY <1>7 DEF DropTrigger, legacyVars, localVars, TypeOK, Running,
              TriggerGuarded, AccountsFirst, MovingOnEmpty, PostedMeansCounted
<1>8. CASE CommitTransfers
  <2>1. rows' = {} => history' = {} /\ ~server'
    BY <1>8, NoRowsNoTransfers DEF CommitTransfers, AccountsFirst
  <2>2. PostedMeansCounted'
    <3>1. txes \subseteq Transfers
      BY DEF TypeOK
    <3> QED
      BY <1>8, <3>1 DEF CommitTransfers, PostedMeansCounted
  <2>3. TypeOK'
    BY <1>8 DEF CommitTransfers, legacyVars, localVars, TypeOK, Running, AllTransfers
  <2> QED
    BY <1>8, <2>1, <2>2, <2>3 DEF CommitTransfers, TriggerGuarded, AccountsFirst, MovingOnEmpty
<1>9. CASE RejectTransfers \/ Interrupt
  <2>1. TypeOK'
    <3>1. fails' \in Nat /\ trigger' = TRUE /\ locked' = FALSE /\ pc' = "failed"
      BY <1>9 DEF RejectTransfers, Interrupt, TypeOK
    <3>2. UNCHANGED <<legacy, log, rows, counted, history, server, accounts, balances, txes, cuts>>
      BY <1>9 DEF RejectTransfers, Interrupt, legacyVars, localVars
    <3> QED
      BY <3>1, <3>2 DEF TypeOK
  <2>2. (TriggerGuarded /\ AccountsFirst /\ MovingOnEmpty)'
    BY <1>9 DEF RejectTransfers, Interrupt, TriggerGuarded, AccountsFirst, MovingOnEmpty
  <2>3. PostedMeansCounted'
    BY <1>9 DEF RejectTransfers, Interrupt, PostedMeansCounted
  <2> QED
    BY <2>1, <2>2, <2>3
<1>10. CASE Finish
  BY <1>10 DEF Finish, legacyVars, newVars, localVars, TypeOK, Running,
              TriggerGuarded, AccountsFirst, MovingOnEmpty, PostedMeansCounted
<1>11. CASE Restart \/ Rerun
  BY <1>11 DEF Restart, Rerun, legacyVars, newVars, TypeOK, Running,
              TriggerGuarded, AccountsFirst, MovingOnEmpty, PostedMeansCounted
<1>12. CASE ServerStart
  BY <1>12 DEF ServerStart, legacyVars, newVars, localVars, TypeOK,
              TriggerGuarded, AccountsFirst, MovingOnEmpty, PostedMeansCounted
<1>13. ASSUME NEW t \in NewTransfers, ServerPost(t)
       PROVE  Inv'
  <2>1. trigger /\ rows # {} /\ t \notin Transfers
    BY <1>13 DEF ServerPost, TriggerGuarded, AccountsFirst
  <2>2. TypeOK'
    BY <1>13 DEF ServerPost, legacyVars, localVars, TypeOK, AllTransfers
  <2>3. PostedMeansCounted'
    <3> SUFFICES ASSUME NEW u \in NewTransfers, NEW a \in Parties[u]
                 PROVE  u \in history' <=> u \in counted'[a]
      BY DEF PostedMeansCounted
    <3>1. a \in Accounts
      BY DEF AllTransfers
    <3>2. counted'[a] = IF a \in Parties[t] THEN counted[a] \cup {t} ELSE counted[a]
      BY <1>13, <2>1, <3>1 DEF ServerPost
    <3>3. u \in history <=> u \in counted[a]
      BY DEF PostedMeansCounted
    <3> QED
      BY <1>13, <3>2, <3>3 DEF ServerPost
  <2>4. history' \cap Transfers = history \cap Transfers
    BY <1>13, <2>1 DEF ServerPost
  <2> QED
    BY <1>13, <2>1, <2>2, <2>3, <2>4 DEF ServerPost, localVars, TriggerGuarded, AccountsFirst,
                                         MovingOnEmpty
<1>14. CASE UNCHANGED vars
  BY <1>14 DEF vars, legacyVars, newVars, localVars, TypeOK, TriggerGuarded, AccountsFirst,
               MovingOnEmpty, PostedMeansCounted
<1> QED
  BY <1>1, <1>2, <1>3, <1>4, <1>5, <1>6, <1>7, <1>8, <1>9, <1>10, <1>11, <1>12, <1>13, <1>14
     DEF Next, Step

\* A run without short reads explains the balances it moves.
LEMMA ExplainingStep == Inv /\ Explaining /\ [Next]_vars => Explaining'
<1> SUFFICES ASSUME Inv, Explaining, [Next]_vars
             PROVE  Explaining'
  OBVIOUS
<1> USE MigratorAssumption DEF Explaining, Moved
<1>0. cuts \in Nat /\ fails \in Nat
  BY DEF Inv, TypeOK
<1>1. ASSUME NEW a \in Accounts, LegacyOpen(a)
      PROVE  Explaining'
  BY <1>1 DEF LegacyOpen, newVars, localVars
<1>2. ASSUME NEW t \in Transfers, LegacyPost(t)
      PROVE  Explaining'
  BY <1>2 DEF LegacyPost, newVars, localVars
<1>3. CASE CheckDataExists
  BY <1>3 DEF CheckDataExists, legacyVars, newVars, localVars
<1>4. CASE GetAccounts
  BY <1>0, <1>4 DEF GetAccounts, Scanned, newVars, legacyVars
<1>5. CASE InsertAccounts
  <2>1. rows = {}
    BY <1>5 DEF Inv, InsertAccounts, MovingOnEmpty
  <2>2. \A a \in accounts : counted'[a] = balances[a] /\ a \in Accounts
    BY <1>5, <2>1 DEF Inv, TypeOK, InsertAccounts
  <2> QED
    BY <1>5, <2>1, <2>2 DEF InsertAccounts, legacyVars, localVars
<1>6. CASE GetTransactions
  BY <1>0, <1>6 DEF GetTransactions, Scanned, newVars, legacyVars
<1>7. CASE DropTrigger
  BY <1>7 DEF DropTrigger, legacyVars, localVars
<1>8. CASE CommitTransfers
  BY <1>8 DEF CommitTransfers, legacyVars, localVars
<1>9. CASE RejectTransfers \/ Interrupt
  BY <1>0, <1>9 DEF RejectTransfers, Interrupt, legacyVars, localVars
<1>10. CASE Finish
  BY <1>10 DEF Finish, legacyVars, newVars, localVars
<1>11. CASE Restart
  BY <1>0, <1>11 DEF Restart, legacyVars, newVars
<1>12. CASE Rerun
  BY <1>12 DEF Rerun, legacyVars, newVars
<1>13. CASE ServerStart
  BY <1>13 DEF ServerStart, legacyVars, newVars, localVars
<1>14. ASSUME NEW t \in NewTransfers, ServerPost(t)
       PROVE  Explaining'
  <2>1. \A a \in rows : counted'[a] \cap Transfers = counted[a] \cap Transfers
    BY <1>14 DEF ServerPost, Inv, TypeOK
  <2> QED
    BY <1>14, <2>1 DEF ServerPost, legacyVars, localVars
<1>15. CASE UNCHANGED vars
  BY <1>15 DEF vars, legacyVars, newVars, localVars
<1> QED
  BY <1>1, <1>2, <1>3, <1>4, <1>5, <1>6, <1>7, <1>8, <1>9, <1>10, <1>11, <1>12, <1>13, <1>14,
     <1>15 DEF Next, Step

\* No step moves a half of the data twice.
LEMMA MovedOnceStep ==
    Inv /\ [Next]_vars =>
        /\ rows' # rows => rows = {} /\ ~server
        /\ history' \cap Transfers # history \cap Transfers => history \cap Transfers = {}
        /\ \A a \in rows : counted'[a] \cap Transfers = counted[a] \cap Transfers
<1> SUFFICES ASSUME Inv, [Next]_vars
             PROVE  /\ rows' # rows => rows = {} /\ ~server
                    /\ history' \cap Transfers # history \cap Transfers
                         => history \cap Transfers = {}
                    /\ \A a \in rows : counted'[a] \cap Transfers = counted[a] \cap Transfers
  OBVIOUS
<1> DEFINE Frame == UNCHANGED <<rows, counted, history>>
<1>1. Frame \/ InsertAccounts \/ CommitTransfers \/ \E t \in NewTransfers : ServerPost(t)
  BY DEF Next, Step, LegacyOpen, LegacyPost, CheckDataExists, GetAccounts, GetTransactions,
         DropTrigger, RejectTransfers, Finish, Interrupt, Restart, Rerun, ServerStart, vars, newVars
<1>2. CASE Frame
  BY <1>2
<1>3. CASE InsertAccounts
  BY <1>3 DEF InsertAccounts, Inv, MovingOnEmpty, AccountsFirst
<1>4. CASE CommitTransfers
  BY <1>4 DEF CommitTransfers, Inv, MovingOnEmpty
<1>5. ASSUME NEW t \in NewTransfers, ServerPost(t)
      PROVE  /\ rows' = rows
             /\ history' \cap Transfers = history \cap Transfers
             /\ \A a \in rows : counted'[a] \cap Transfers = counted[a] \cap Transfers
  BY <1>5, MigratorAssumption DEF ServerPost, Inv, TypeOK
<1> HIDE DEF Frame
<1> QED
  BY <1>1, <1>2, <1>3, <1>4, <1>5

-----------------------------------------------------------------------------
LEMMA InvHolds == Spec => [](Inv /\ Explaining)
<1>1. Init => Inv /\ Explaining
  BY InitInv
<1>2. Inv /\ Explaining /\ [Next]_vars => (Inv /\ Explaining)'
  BY InvStep, ExplainingStep
<1> QED
  BY <1>1, <1>2, PTL DEF Spec

(***************************************************************************)
(* Every variable keeps its type, and the table's lock is never left       *)
(* behind by a run that failed (storage/migration.go:63).                  *)
(***************************************************************************)
THEOREM MigratorTypes == Spec => []TypeOK
<1>1. Inv => TypeOK
  BY DEF Inv
<1> QED
  BY InvHolds, <1>1, PTL

(***************************************************************************)
(* A server that posts while the migrator runs never inserts past the      *)
(* dropped trigger (storage/migration.go:67-106).                          *)
(***************************************************************************)
THEOREM ServerAlwaysCounted == Spec => []PostedMeansCounted
<1>1. Inv => PostedMeansCounted
  BY DEF Inv
<1> QED
  BY InvHolds, <1>1, PTL

(***************************************************************************)
(* Restarts and reruns move nothing a second time (cmd/migrate/main.go:88).*)
(***************************************************************************)
THEOREM NothingMovedTwice == Spec => MovedOnce
<1>1. Inv /\ [Next]_vars =>
        [/\ rows' # rows => rows = {} /\ ~server
         /\ history' \cap Transfers # history \cap Transfers => history \cap Transfers = {}
         /\ \A a \in rows : counted'[a] \cap Transfers = counted[a] \cap Transfers]_vars
  BY MovedOnceStep
<1> QED
  BY InvHolds, <1>1, PTL DEF Spec, MovedOnce

(***************************************************************************)
(* Without a failure or a short read, the moved transfers explain the      *)
(* moved balances, whatever the legacy service posts meanwhile.            *)
(***************************************************************************)
THEOREM CleanRunsExplain == Spec => []CleanRunExplains
<1>1. Explaining => CleanRunExplains
  BY DEF Explaining, Moved, CleanRunExplains, Explained
<1> QED
  BY InvHolds, <1>1, PTL

-----------------------------------------------------------------------------
(* Migrator implements DataMove.                                           *)

LEMMA InitReads == Init => ReadsConsistent
BY DEF Init, ReadsConsistent

LEMMA ReadsStep == Inv /\ ReadsConsistent /\ [Next]_vars => ReadsConsistent'
<1> SUFFICES ASSUME Inv, ReadsConsistent, [Next]_vars
             PROVE  ReadsConsistent'
  OBVIOUS
<1> USE DEF ReadsConsistent
<1>0. legacy \in SUBSET Accounts /\ log \in SUBSET Transfers
  BY DEF Inv, TypeOK
<1>1. CASE \E a \in Accounts : LegacyOpen(a)
  BY <1>1 DEF LegacyOpen, newVars, localVars
<1>2. CASE \E t \in Transfers : LegacyPost(t)
  <2>1. log \subseteq log' /\ UNCHANGED <<legacy, rows, counted, pc, accounts, balances, txes>>
    BY <1>2 DEF LegacyPost, newVars, localVars
  <2>2. pc = "insertAccounts" => \E seen \in SUBSET log' : balances = Snapshot(seen)
    BY <2>1
  <2>3. \A seen : Snapshot(seen)' = Snapshot(seen)
    BY DEF Snapshot
  <2> QED
    BY <2>1, <2>2
<1>3. CASE GetAccounts
  <2>1. accounts' \subseteq legacy /\ balances' = Snapshot(log) /\ pc' = "insertAccounts"
    BY <1>3 DEF GetAccounts, Snapshot
  <2>2. UNCHANGED <<legacy, log, rows, counted>>
    BY <1>3 DEF GetAccounts, legacyVars, newVars
  <2> QED
    BY <2>1, <2>2
<1>4. CASE InsertAccounts
  BY <1>4 DEF InsertAccounts, legacyVars, localVars
<1>5. CASE GetTransactions
  BY <1>5 DEF GetTransactions, legacyVars, newVars
<1>6. CASE DropTrigger
  BY <1>6 DEF DropTrigger, legacyVars, localVars
<1>7. CASE CheckDataExists \/ CommitTransfers \/ RejectTransfers \/ Finish \/ Interrupt \/ Restart \/ Rerun
  <2>1. pc' \notin {"insertAccounts", "begin", "insertTransfers"} /\ UNCHANGED <<rows, counted>>
    BY <1>7 DEF CheckDataExists, CommitTransfers, RejectTransfers, Finish, Interrupt, Restart, Rerun, newVars
  <2> QED
    BY <2>1
<1>8. CASE ServerStart
  BY <1>8 DEF ServerStart, legacyVars, newVars, localVars
<1>9. CASE \E t \in NewTransfers : ServerPost(t)
  <2>1. /\ UNCHANGED <<legacy, log, rows, pc, accounts, balances, txes>>
        /\ \A a \in Accounts \ rows : counted'[a] = counted[a]
    BY <1>9 DEF ServerPost, legacyVars, localVars
  <2> QED
    BY <2>1
<1>10. CASE UNCHANGED vars
  BY <1>10 DEF vars, legacyVars, newVars, localVars
<1> QED
  BY <1>1, <1>2, <1>3, <1>4, <1>5, <1>6, <1>7, <1>8, <1>9, <1>10 DEF Next, Step

LEMMA InitMove == Init => MoveView!MoveInit
BY MigratorAssumption DEF Init, MoveView!MoveInit

\* The accounts of one read, with the balances of the moment of that read.
LEMMA AccountsMove ==
    ASSUME Inv, ReadsConsistent, InsertAccounts
    PROVE  MoveView!MoveNext
<1>1. /\ rows = {} /\ ~server
      /\ accounts \in SUBSET Accounts /\ log \in SUBSET Transfers
      /\ counted \in [Accounts -> SUBSET AllTransfers]
  BY DEF Inv, InsertAccounts, MovingOnEmpty, AccountsFirst, TypeOK
<1>2. PICK seen \in SUBSET log : balances = Snapshot(seen)
  BY DEF InsertAccounts, ReadsConsistent
<1>3. \A a \in Accounts :
        counted'[a] = {t \in seen : a \in accounts /\ a \in Parties[t]}
  BY <1>1, <1>2 DEF InsertAccounts, ReadsConsistent, Snapshot
<1>4. counted' = [a \in Accounts |-> {t \in seen : a \in accounts /\ a \in Parties[t]}]
  BY <1>3 DEF InsertAccounts
<1>5. MoveView!MoveAccounts(accounts, seen)
  BY <1>1, <1>2, <1>4 DEF InsertAccounts, ReadsConsistent, legacyVars, MoveView!MoveAccounts
<1>6. accounts \in SUBSET Accounts /\ seen \in SUBSET Transfers
  BY <1>1, <1>2
<1> QED
  BY <1>5, <1>6 DEF MoveView!MoveNext

\* The transfers of one read, when every account they name was moved.
LEMMA TransfersMove ==
    ASSUME Inv, ReadsConsistent, CommitTransfers
    PROVE  MoveView!MoveNext
<1>1. history \cap Transfers = {} /\ txes \in SUBSET Transfers /\ txes \subseteq log
  BY DEF Inv, CommitTransfers, MovingOnEmpty, TypeOK, ReadsConsistent
<1>2. \A t \in txes : Parties[t] \subseteq rows
  BY DEF CommitTransfers, Referenced
<1>3. MoveView!MoveTransfers(txes)
  BY <1>1, <1>2 DEF CommitTransfers, legacyVars, MoveView!MoveTransfers
<1> QED
  BY <1>1, <1>3 DEF MoveView!MoveNext

\* A transfer of the server, which never meets the table without its trigger.
LEMMA ServerMove ==
    ASSUME Inv, NEW t \in NewTransfers, ServerPost(t)
    PROVE  MoveView!MoveNext
<1>1. trigger
  BY DEF Inv, ServerPost, TriggerGuarded
<1>2. MoveView!ServerPosts(t)
  BY <1>1 DEF ServerPost, legacyVars, MoveView!ServerPosts
<1> QED
  BY <1>2 DEF MoveView!MoveNext

LEMMA MoveStep == Inv /\ ReadsConsistent /\ [Next]_vars => [MoveView!MoveNext]_MoveView!moveVars
<1> SUFFICES ASSUME Inv, ReadsConsistent, [Next]_vars
             PROVE  MoveView!MoveNext \/ UNCHANGED MoveView!moveVars
  OBVIOUS
<1>1. ASSUME NEW a \in Accounts, LegacyOpen(a)
      PROVE  MoveView!MoveNext
  BY <1>1 DEF LegacyOpen, newVars, MoveView!LegacyOpens, MoveView!MoveNext
<1>2. ASSUME NEW t \in Transfers, LegacyPost(t)
      PROVE  MoveView!MoveNext
  BY <1>2 DEF LegacyPost, newVars, MoveView!LegacyPosts, MoveView!MoveNext
<1>3. CASE InsertAccounts
  BY <1>3, AccountsMove
<1>4. CASE CommitTransfers
  BY <1>4, TransfersMove
<1>5. CASE ServerStart
  BY <1>5 DEF ServerStart, legacyVars, newVars, MoveView!ServerStarts, MoveView!MoveNext
<1>6. ASSUME NEW t \in NewTransfers, ServerPost(t)
      PROVE  MoveView!MoveNext
  BY <1>6, ServerMove
<1>7. CASE \/ CheckDataExists \/ GetAccounts \/ GetTransactions \/ DropTrigger \/ RejectTransfers
           \/ Finish \/ Interrupt \/ Restart \/ Rerun \/ UNCHANGED vars
  BY <1>7 DEF CheckDataExists, GetAccounts, GetTransactions, DropTrigger, RejectTransfers, Finish,
              Interrupt, Restart, Rerun, vars, legacyVars, newVars, MoveView!moveVars
<1> QED
  BY <1>1, <1>2, <1>3, <1>4, <1>5, <1>6, <1>7 DEF Next, Step

(***************************************************************************)
(* The migrator, restarted and rerun between two live neighbours, moves    *)
(* the data as DataMove says: accounts with the balances of one moment,    *)
(* transfers in one piece or not at all (cmd/migrate/main.go:82-113,       *)
(* storage/migration.go:15-111).                                           *)
(***************************************************************************)
THEOREM MovesAsPromised == Spec => ImplementsMove
<1>1. Init => MoveView!MoveInit /\ ReadsConsistent
  BY InitMove, InitReads
<1>2. Inv /\ ReadsConsistent /\ [Next]_vars
        => ReadsConsistent' /\ [MoveView!MoveNext]_MoveView!moveVars
  BY ReadsStep, MoveStep
<1>3. Inv /\ [Next]_vars => Inv'
  BY InvStep
<1>4. Init => Inv
  BY InitInv
<1> QED
  BY <1>1, <1>2, <1>3, <1>4, PTL DEF Spec, ImplementsMove, MoveView!MoveSpec
=============================================================================
