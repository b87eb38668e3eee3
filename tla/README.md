# Verification of xsyn-transactions

TLA+ models of the transaction service in this repository, the TLC runs that
check them on small instances, and TLAPS proofs for every value of the
constants. Paths below are relative to the repository.

To check a run: `tlc -config <run>.cfg <module>`; to check the proofs:
`tlapm <module>.tla` for `TransactorProofs`, `CacheProofs`, `TransactorRefinement`,
`MigratorProofs`, `TransferFeedProofs`, `TransactionQueriesProofs` and
`BoilerProofs`. `PROJECT.json` names the lines each definition stands for, the
hazards of the code with the properties that cover them, and for every property a
mutation of the model that it catches.

## 1. The system

| Part | State it keeps | Operations | Model |
|---|---|---|---|
| Schema and trigger (`migrations/…up.sql`) | rows of `accounts` and `transactions` | `check_balances` on every INSERT | `LedgerSchema`, `Transactor` |
| Transfer handlers, queue, runner (`transactor/transactions.go`, `transactor.go`) | channel `runner` (100 closures), one goroutine | `Transact`, `TransactWithID`, `run`, `Close` | `Transactor` |
| Account cache (`transactor/account_controller.go`) | `userMap`, the account objects it points to, `userMapLock` | `get`, `getAndSet`, `put`, `balanceUpdate` | `Transactor` |
| Account handlers (`transactor/accounts.go`, `storage/storage.go`) | none of their own | `GetBalance`, `AccountGetViaUser`, `AccountsUser`, `CreateAccount` | `Transactor` |
| Feed (`transactor/transactor.go`) | channel `broadcaster` (1000 events), map `clients` | `broadcast`, `TransferCompleteSubscribe` | `TransferFeed` |
| Migrator (`cmd/migrate`, `storage/migration.go`, `legacy_storage`) | the database it fills | `RunMigrate` and the two reads and two transactions it makes | `Migrator` |
| Queries (`storage/transactions.go`) | none; their callers keep pages and ids | `TransactionGetByID`, `TransactionsGetByAccountID` | `TransactionQueries` |
| Generated database layer (`boiler/*.go`) | objects that copy rows, the pointers between them in `o.R` | `Insert`, `Upsert`, `Update`, `Delete`, `Reload`, `Load…`, `Set…`, `Add…` and queries, of five tables | `ActiveRecord`, `Boiler` |
| Server process, generated RPC code, proto, docker | flags, encoders, restart policies | | see 7 |

How they interact. A handler looks both accounts up in the cache under the read
lock; a miss reads the database with that lock held and *writes the map*. It
then queues a closure without blocking and waits on a `WaitGroup`. The runner
takes one closure at a time, sends the INSERT, and, when that succeeds, changes
the two cached objects, stores them under the write lock, sends two events into
a bounded channel and releases the handler. The trigger decides in the database
whether the transfer is allowed and moves both balances. So a balance lives in
two places, which are written at different moments by different goroutines. A
second goroutine takes the events and sends each, one client after the other, to
the streams in `clients`; a subscription stores its stream there under an id the
client chose and deletes that id when it ends. Before any of this the migrator
fills the database from one that the legacy service still writes to; the server
refuses to start on a database without accounts and starts on any other.
Clients read transfers back by id and by account, from the table the runner
inserts into; the two queries, the INSERTs and the migrator all go through the
generated layer, whose objects are copies of rows that others write meanwhile.

Hard behaviours: a refill of the cache in the middle of a balance update;
a writer waiting for readers that wait for the database; a broken connection or
a dead process that leaves a statement running; the trigger's unlocked read;
NUMERIC(28) columns under a cache of exact decimals; two bounded channels of
which one blocks; map entries that change under `Range`; a migration in two
transactions that is restarted when it fails; offset pages of a table that
grows; a retry of a call whose answer was lost. `PROJECT.json` lists each with its
line.

What makes each part correct:

- *Schema*: no account but the on chain user's goes below zero; a row and both
  balances change together or not at all.
- *Handlers, queue and runner*: a transfer settles at most once; a caller told
  "ok" has its row, one told of a refusal never will, one told of an error may;
  every caller is answered.
- *Cache*: the runner never misses; a cached balance equals the database's but
  for causes that can be named.
- *Account handlers*: an account is opened once, and one that a caller asked to
  be created is not reported missing.
- *Feed*: each subscriber sees consecutive events, and balances that never count
  less than those before them and never more than one transfer too many; nobody's
  failure costs another an event; the goroutine never stops.
- *Queries*: paging lists every transfer that was there, and tells of a repetition
  only what can be explained; asking by id before a retry keeps it from posting
  twice, as far as it can.
- *Generated layer*: an object that nobody has overtaken has its row's values; the
  pointer to another object and the foreign key name the same row; what an eager
  load was asked for is there to be dereferenced.
- *Migrator*: everything moves, once; no transfer of the server escapes the
  trigger while it is dropped; a history that explains the balances beside it.

## 2. The modules

| Module | What it is |
|---|---|
| `LedgerSchema` | accounts, NUMERIC(28), what the trigger reads, checks and writes: operators without state |
| `Transactor` | handlers, queue, runner, cache, database statements, death and restart; its properties |
| `Bank` | what the service promises its clients, in four actions; `Transactor!BankView` is the refinement mapping |
| `MCTransactor` | the accounts and request sets of the runs |
| `TransactorProofs`, `CacheProofs`, `TransactorRefinement` | theorems about `Transactor` |
| `DataMove` | what the migrator promises, without steps, restarts or locks; `Migrator!MoveView` is the refinement mapping |
| `Migrator`, `MCMigrator`, `MigratorProofs` | the migrator between the legacy service and the server; runs; theorems |
| `TransferFeed`, `MCTransferFeed`, `TransferFeedProofs` | the events of the runner, the channel, `broadcast` and the subscribers; runs; theorems |
| `TransactionQueries`, `MCTransactionQueries`, `TransactionQueriesProofs` | the two reads of transfers, the clients that page and retry; run; theorems |
| `ActiveRecord` | what the generated layer does whatever the table: objects, rows, pointers, calls of one and of several statements |
| `Boiler`, `MCBoiler` | the generated functions of the five tables, each an instance of an operation of `ActiveRecord`; run |
| `BoilerProofs` | theorems about `Boiler` |

### Transactor

One element of `Calls` is one RPC, `req[c]` its message, `pc[c]` where its
handler goroutine is:

| In the code | In the model |
|---|---|
| `TransactorService` handler enters | `Start` |
| `get` finds the account, or calls `getAndSet` with the read lock held | `GetHit`, `GetMiss` |
| `getAndSet`: `GetAllUserAccounts` answers, or fails; the loop that stores; unlock | `Load`, `LoadFails`, `Fill` |
| `CreateAccount`: the row is committed; the handler gets it again; an error | `CreateRow`, `CreateReturns`, `CreateFails` |
| `decimal.NewFromString` fails | `ParseFails` |
| `select { case runner <- … default }` in `transact` and `Close` | `Enqueue`, `QueueFull` |
| `run` receives a closure; the INSERT is sent; `Close`'s closure ends the loop | `Take` |
| the trigger's reads; commit with both updates; refusal | `CheckRow`, `PostRow`, `RejectRow` |
| `Insert` returns an error of the connection | `ConnectionLost` |
| `balanceUpdate`: get and assign; `Lock` announced; stored; `broadcaster <-` | `Apply`, `AnnounceWriter`, `Put`, `Emit` |
| `broadcast` takes an event (in detail in `TransferFeed`) | `Broadcast` |
| the process dies; docker starts it and `NewTransactor` loads all accounts | `Crash`, `Restart` |

`userMap[k]` is a pointer: an index into `heap[k]`, the balances of all objects
allocated for account `k`. That is how the model tells an object that was
replaced from the one `balanceUpdate` still holds. `readers` and `runner.pc =
"locking"` are the two halves of the read-write lock, with Go's rule that a
waiting writer keeps new readers out. `inflight` holds statements the database
has not finished; `checked` those whose trigger has read the balance and not yet
written it, which is where another statement may come in between.

Steps end where another goroutine, the database or a crash can intervene.
`Quiescent` lets a behaviour stop when every caller has its answer, or waits
behind `Close`, and nowhere else: every run checks deadlock.

### TransferFeed

`rows` numbers the rows of `transactions` as they are committed. `balanceUpdate`
takes the two sides of the runner's row in turn: `AssignBegins` gets the object from
the cache, `AssignEnds` has assigned its new balance, `Put` stores the pointer under
the write lock and `Push` sends the event. `OrphanRow` is a row that nobody calls
`balanceUpdate` for. `objects[a]` are all objects made for an account and
`cached[a]` says which of them the map holds: a handler that misses another ledger
of the user reads the rows (`FillReads`) and stores a new object (`FillStores`),
whatever has happened in between. A balance is represented by what it counts: the
rows of the moment it was read and the events assigned to it since, so that "older"
and "counted twice" can be said without arithmetic. An event *points* to an object,
so what a Send encodes is the object's balance of that moment, or
`Torn` when the runner is in the middle of the assignment (Go strings are two
words and there is no lock). `sender.left` are the ids `Range` has not visited,
`sender.batch` the entries it has copied and not yet passed to the callback:
xsync's `MapOf.Range` copies a bucket at a time, so any non-empty subset of the
ids left may be copied at once, in any order. A Send to a stream that has ended
may fail or vanish, and a Send to a client that does not read blocks.

Simplified here, and modelled in `Transactor`: all accounts are loaded at the start
(none is opened meanwhile); a refill is one account at a time, as no step reads two
accounts' objects; a waiting writer does not keep new readers out, which only adds
behaviours to the safety runs; the process does not die (two handlers that write
the map at once end it, which drops every stream with it).

### Migrator

A balance is represented by the set of transfers it counts, so that "the history
explains the balance" is set inclusion. `GetAccounts` and `GetTransactions` each
take one snapshot of a table, and may end early: `rows.Next()` stops at a read
error too. `locked` is the lock that dropping the trigger takes to the end of
the transaction. `Interrupt` stands for any failed statement, lost answer or
death; `Restart` and `Rerun` for docker. A commit has taken effect or not when the
next run begins: one still on its way to the database then, seconds after its
process has ended, is not modelled.

### TransactionQueries

`attempts` are the calls of `TransactWithID` in the order they were queued, each
"queued", "running" (its INSERT was sent), "orphaned" (its connection broke or
its process died), "posted" or "dead". A client whose call brings no answer or an
error is "unsure": every failure of the handler is `CodeInternal`, so it cannot
tell a refusal from a lost answer. It asks `TransactionGetByID` (`Found`,
`NotFound`, `LookupFails`) and sends the transfer again unless it found a row.
Another client lists the transfers of `Account`: `CountRows` and `ReadPage` are
the two statements of `TransactionsGetByAccountID`, `LoadAccounts` the eager load
and the answer, `ListFails` an error of any of the three. `Effective` is the
choice of column and direction, with its fallbacks; `IsPage` is what `ORDER BY …
LIMIT … OFFSET` may return: rows with the same key come in any order, another one
in each statement, which matters because the migrator wrote `created_at` in whole
seconds. A page is a set: the order within it follows from `sort`.

Its clients are a protocol that the API allows, not code of the repository: they
are there because the two queries promise nothing by themselves.

### ActiveRecord and Boiler

sqlboiler generates the same functions for every table. `ActiveRecord` has each
once, with the table or the relation as a parameter; `Boiler` names the generated
functions (`AccountInsert`, `TransactionSetCreditAccount`, …) and lists them table
by table as the code does, and `PROJECT.json` maps each to its lines.

`src/` calls `Insert`, `Upsert` (the migrator), the queries and the eager loads. The
other functions (`Set…`, `Add…`, `Update`, `Delete`, `Reload`, those on slices) have no
caller in `src/` today: they are modelled as the layer's API, and what could go wrong
in them is not among the hazards of the program.

One goroutine owns the objects in `heap`. `seen` is the version of the row that
the object's columns copy, so that "stale" can be said; `one` and `many` are the
pointers of `o.R`. A call of one statement is one action. A statement that fails has
changed nothing, or only its answer was lost and the row is written (or, for an INSERT,
there) without the object being told. `unsaved` are the columns assigned to an object
that no answered statement has written. `Set` and `Add` are one
action for every statement: the related row is inserted or updated, then the next,
and the pointers are set at the end, so that an error in between (`SetFails`,
`AddFails`) leaves what the code leaves: `Add` assigns the key before its INSERT and
after its UPDATE. `half` marks the foreign keys that an
`Add` has changed without the pointer. A query with `qm.Load` is a step for its own
statement and one for every relation (`EagerLoad`). In between, other goroutines
update and delete rows (`Elsewhere`), as far as the foreign keys allow.

## 3. What each run checks

| Run | Specification and instance | Checks | Shows |
|---|---|---|---|
| `transactor_safety` | three calls out of four requests, one death of the process, broken connections anywhere; 392k states | `TypeOK`, `Lifecycle`, `OverdraftNeedsOrphan`, `RunnerFindsAccounts`, `DriftCauses`, `ImplementsBank` | answers are true, money moves as `Bank` says, the cache leaves the database for the stated causes only |
| `transactor_fractional` | half tokens, columns that overflow at three tokens, a bad amount, a transfer to oneself, a missing account; 25k | `DriftCauses`, `ImplementsBank` | NUMERIC(28) rounds what the cache does not; a refused row moves nothing |
| `transactor_live` | fair; two calls out of five requests, `Close` among them, one death; 25k | `CallsAnswered`, `ClosedMeansQuiet`, `NobodyForgotten` | every started call is answered unless `Close` stops the runner, and nobody waits for what nobody will do; after `Close` no statement runs whose caller waits |
| `migrator` | fair; three accounts, one opened late, two legacy transfers and one of the server, two interruptions, one short read; 10k | `TypeOK`, `PostedMeansCounted`, `CleanRunExplains`, `MovedOnce`, `ImplementsMove`, `MigrationEnds` | data moves once and as `DataMove` says, nothing goes uncounted, runs end and release the table |
| `feed_safety` | two streams with ids of their own, two accounts, two rows (four events, or one row orphaned), two refilling handlers, a channel of one, two scenes (section 4); 0.76M | `TypeOK`, `NoneMissed`, `NeverStale`, `OneCountedTwice` | nobody else's failure costs a subscriber an event; a balance never counts less than one before it, nor two transfers twice |
| `feed_streams` | fair; two streams under one id, one account, two rows (four events), a channel of one; 780k | `ReceivedInOrder`, `EventsHandled` | consecutive events whatever happens to the entry during `Range`; neither goroutine stops |
| `transaction_queries` | three migrated rows of one second, two of them of the account, two clients with one retry between them, a third that pages with sizes 1 and 2 in every order; 680k | `TypeOK`, `NoneSkipped`, `RepeatsExplained`, `TwiceMeansUnsettled` | what paging and retrying give, and what they cannot |
| `generated_layer` | nine scenes of two or three objects, some bound to rows and some new, one to three calls and up to two writes of others; 301k | `TypeOK`, `CopyAgrees`, `RelationsFollowKeys`, `EagerLoadComplete` | copies, keys, pointers and rows stay level through partial failures, lost answers and other writers, but for the exceptions named below |
| `negative_amount`, `migration_interrupted`, `migration_cut`, `feed_reconnect` | the smallest instances that show it | one property each, found violated | section 6 |

The properties that take some explaining:

- **`ImplementsBank`**. In `Bank` a transfer settles in one step, only out of an
  account that has the money, and an answer is true: "ok" after it settled,
  "refused" only if it never will, "unknown" at any time. The mapping takes
  balances from the database, not from the cache, `posted` for what has settled,
  and the handlers' answers for what was told; an answer lost with its
  connection or with the process is "unknown". One excuse weakens the funds
  check of `Settle`: a transfer out of the account was posted whose caller was
  told of a failure (`OverdraftNeedsOrphan`).
- **`DriftCauses`** is about the cache, which `Bank` does not see. Whenever an
  object that is cached, or that `balanceUpdate` is about to cache, stops
  agreeing with the database (not counting what `balanceUpdate` has still to
  apply), that very step is a refill inside `balanceUpdate`'s window, or a
  transfer on the account was posted whose caller was told of a failure, or
  NUMERIC(28) rounded one. All three happen. What it excludes is worse: a
  handler that stores a stale read over a finished update. That cannot happen
  because `put` waits for the readers, and the mutation in which it does not is
  caught.
- **`RunnerFindsAccounts`**: if `balanceUpdate` missed, it would read a balance
  that already contains its transfer. It never does, as nothing is ever removed
  from the cache and the handler has looked both accounts up.
- **`ClosedMeansQuiet`** guards a path that the program does not take today: nothing in
  `src/` calls `Close`.
- **`NeverStale`** says what of "balances never go back" is true. The object an event
  points to may be changed by later transfers, replaced in the map by a refill, put
  back by `balanceUpdate`; what a client receives of an account still counts every
  transfer of the account up to the event's own and all that it has been told of
  before, because `put` waits for the handlers that are in `getAndSet`: none of them
  stores a snapshot it read before an update that is over by then. The *amount*
  may go back: a refill that reads the row the runner is working on makes that
  transfer count twice, and after another refill it counts once again.
  **`OneCountedTwice`** bounds this: never two transfers at a time, since the runner
  begins no statement before both sides of the last are assigned. Both except torn
  strings.
- **`NoneMissed`** holds when every stream has an id of its own and fails when a
  client reconnects under its id (section 6). `ReceivedInOrder` holds in both
  cases.
- **`CallsAnswered`** excepts one kind of call: a closure sent after that of `Close`,
  which the runner never takes. Lookups, full queues and the transfers ahead of
  `Close` are answered even then.
- **`NobodyForgotten`** is the half of `CallsAnswered` that is an invariant: a caller
  in `wg.Wait` has its closure in the channel or in the runner's hands, and whoever
  holds the read lock that `put` waits for is on the way to release it. An error path
  that forgets `wg.Done` or `RUnlock` breaks it.
- **`NoneSkipped`** and **`RepeatsExplained`** speak of rows that no other row sorts
  level with. Two migrated rows of one second may change places between two
  statements, and then one is listed twice and the other never. A client that
  trusts `total` instead of reading to a short page may also miss a row when a
  transfer was posted between the two statements of its last answer.
- **`TwiceMeansUnsettled`**: the primary key of `transactions` is `(id,
  created_at)`, so that a second INSERT with the same id succeeds. Only the lookup
  stands against it, and it cannot see an attempt that is still queued, running or
  orphaned. Each of these happens; nothing else does.
- **`CopyAgrees`** is about objects whose row was not written behind their back: by
  others, or by a statement of their own whose answer was lost. It has one exception,
  a key that `Add` assigns before its INSERT (`boiler/accounts.go:1061`): when that
  fails, on the primary key of an object already bound to a row for one, the object
  keeps a key its row does not have, until a reload or a later write of the column
  (`unsaved`). A default that is not read back breaks it.
- **`RelationsFollowKeys`** has one exception as well, an `Add` that returned an
  error: it leaves the keys of the objects it has reached, and not their pointers
  (`half`).
- **`EagerLoadComplete`** is what keeps `R.CreditAccount` and `R.DebitAccount` from
  being nil when the queries dereference them: a foreign key holds the row, unless
  the transfer itself was rewritten between the two statements.
- **`ImplementsMove`**. In `DataMove` the accounts move in one step, all with the
  balances of one moment of the legacy database, and only before there is a server;
  transfers move in one step, when their accounts have; and a transfer of the server
  is posted and counted in both balances at once. The mapping hides where the
  migrator is, what it holds in memory, the trigger, the lock and the failures. What
  is moved may be a part: `DataMove` does not promise more than the code keeps
  (`AllTransfersMoved` and `AllAccountsMoved` in section 6).
- **`MovedOnce`** and **`PostedMeansCounted`** are what `DataExists` and the
  lock taken by dropping the trigger are there for; their mutations remove them.
- **`CleanRunExplains`** goes one way: every transfer that a moved balance counts is in
  the history. The history may also hold transfers made between the two reads, which
  no moved balance counts.
- **`MigrationEnds`** rests on `DataExists` ending a run without an error: were finding
  data an error, docker would restart the migrator for ever.

## 4. Bounds

| Bound | Value | Why it is enough |
|---|---|---|
| `QueueCap`, `FeedCap` | 1 or 2, for 100 and 1000 | Only "full" and "not full" are told apart. With 1, two callers and the two events of one transfer reach every combination. |
| `Calls` | 2 or 3 | One call in the runner, one queued or looking up, one refilling the cache or refused by a full queue. |
| `Users`, `Ledgers` | 3 and 2 | A debtor, a creditor and the on chain user; a second ledger without accounts is what makes `AccountsUser` miss and refill. |
| `Scale`, `NumericLimit` | 1 and 100, or 2 and 6 | With 2 units to a token half an amount exists to be rounded; three tokens overflow. |
| `MaxCrashes` | 0 or 1 | Two generations of the process meet statements of the first. A second death repeats this. |
| `MaxFails`, `MaxCuts` | 2 and 1 (1 or 0 where a violation needs no more) | A failure on the first run and on the one that follows; one short read of either table. Failures by a foreign key are not bounded by `MaxFails`. |
| `Streams`, `Ids`, `MaxRows` | 2, 2, 2 | An old and a new stream, or two strangers; two rows make four events, and three are needed to leave one out in the middle. |
| `Lookups`, `MaxObjects` | 2 and 3 (none and 1 in the other runs) | Two handlers may read at different moments and store in either order. Two refills, of which the second begins after the first or beside it, are what a double count and its undoing take; the run reaches both. The handlers are interchangeable (`Handlers`). |
| `Scenes` (`feed_safety`) | a CONSTRAINT | Refills and streams meet only in what a Send reads. Either handlers refill the payee, whose side comes second, twice at most, while the first stream is open and reads, or two streams come, stall and go while one row is posted and nothing is refilled. |
| `Ids`, `MaxAttempts` | 2 and 2 | Both transfers sent once, or one of them twice; a repeated posting needs two attempts. |
| `MigratedRows`, `PageSizes` | 3 and {1, 2} | Two rows level with each other and one of another account; with two posted transfers, up to four rows and five pages. |
| `Scenes` (`generated_layer`) | 9, each with `calls` and `writes` | Each relation is set, added and loaded with bound and new objects. Two calls make every pair (a failed one and its repetition, a load after a change); three where no rows change in between. |

The theorems have none of these bounds: they hold for every value of the
constants under the assumptions of section 5.

## 5. Proofs

All theorems are proved by TLAPS to the last leaf, from the named assumptions
`SchemaAssumption`, `TransactorAssumption`, `MigratorAssumption`, `FeedAssumption`,
`QueriesAssumption`, `SceneAssumption` and `CallAssumption`: channels have room for
one element, the requests are well formed, the database the service starts on has
an account and no debt outside the on chain user's, migrated rows have ids of their
own and are not from the future; a scene's rows have their table's columns and keep
its foreign keys, its objects were read from their rows or are literals, and no
account code has id 0 (`initial_migration.up.sql` numbers them from 1).

**`TransactorProofs`**. `Lifecycle` says of every call where its closure, its
statement and its answer may be: a queued closure belongs to a caller that
waits and has no statement; the closure that runs serves a waiting caller; a
statement is the runner's own or its caller was told of a failure; a posted
transfer is being applied or was answered "ok", "error" or "lost". None of these
parts is inductive alone. `Core == TypeOK /\ Lifecycle /\ PointersValid` is:
types need valid pointers (`Apply` indexes `heap`), and pointers need to know
that the runner's call is a transfer. `Correctness` proves it together with
`LookupsCached` (every account a transfer has looked up so far is cached), from
which `RunnerNeverMisses` follows. `TypeCorrectness` bounds both channels.
`OverdraftExplained` assumes in addition `AmountsNotNegative`. It needs
`FundsReserved`: an account without an orphaned transfer out of it has a balance
of at least zero, *and* of at least the amount that the runner's checked
statement is about to take. That second half is what the trigger's unlocked read
establishes and what only another statement on the same debtor could destroy;
such a statement is the runner's own, of which there is one, or an orphan.
`CloseLeavesNobody` is `ClosedMeansQuiet`. `Lifecycle` already says that a statement
is the runner's own or its caller was told; `ClosesOnce` adds that a `Close` that
has returned success stopped the runner of the first process, which then has no
statement of its own. `NobodyWaitsInVain` is `NobodyForgotten`, inductive together
with `Lifecycle`, which says whose closure the runner has and that a dead process
leaves nobody waiting: what liveness needs besides fairness, proved for any number of
calls and any capacities.

**`CacheProofs`**. `DriftExplained` is `DriftCauses`: a cached balance leaves the
database's only in one of the three ways the code allows. What has to be excluded is
a handler that stores a balance it read before an update which is over by then, and
`DriftCauses` says nothing of such a handler. `CacheInv` does. `FillersRead`: a
handler holds the read lock from its miss to the last object it stores.
`SnapshotsFresh`: a balance read and not yet stored is still the database's, unless
`balanceUpdate` has not yet stored its own for that account, or a transfer of the
account has tainted it already. The step that could break it is `Put`, which ends an
update and makes such a read old; but `Put` waits until nobody holds the read lock,
so by `FillersRead` there is no such handler. `DebtorFirst` says that the cache has
taken nothing of the row that is being inserted. The step from there to
`DriftCauses` counts, for every object that is cached or about to be, what
`balanceUpdate` has still to apply to it.

**`TransactorRefinement`**. `Refinement`: with `AmountsNotNegative`, `Spec =>
ImplementsBank`. `PostRow` is `Settle`, `CreateRow` is `Open`, a step that answers
is `Tell`, `Crash` is `Hangup`, and all else stutters. `FundsReserved` gives
`Settle`'s guard.

**`MigratorProofs`**. `Inv` adds to `TypeOK` and `PostedMeansCounted` that the
trigger exists whenever the table is not locked, that before there are accounts
there is no server and no history, and that a run which has passed `DataExists`
with nothing has moved nothing. `Explaining` follows a clean run from what
`GetAccounts` counted to what was committed. From these: `MigratorTypes`,
`ServerAlwaysCounted`, `NothingMovedTwice` and `CleanRunsExplain`. The last rests
on the order of the two reads: a transfer that a moved balance counts was in the
legacy table when the accounts were read, so it still is when the transfers are.
`MovesAsPromised` is the refinement, `Spec => ImplementsMove`. `InsertAccounts` is
`MoveAccounts`, `CommitTransfers` is `MoveTransfers`, `ServerPost` is `ServerPosts`
because the trigger exists whenever the table is not locked, and every other step of
the migrator, failures and restarts among them, changes nothing `DataMove` sees.
`ReadsConsistent` gives the guards: between its read and its commit the migrator
holds balances of one moment and transfers that are in the legacy table, and an
account that was not moved counts nothing.

**`TransferFeedProofs`**. `FeedTypes` and `FeedInSequence` come from one invariant.
`Order` says where each event is: the channel holds a run of numbers that ends at
the last event pushed, the sender works on the one before it, and a batch has an
entry only for an id that `Range` no longer visits. `Position` relates this to
what a stream has: if it is still to be visited it has everything up to the event
before, and otherwise up to this one or it is out of the map for good.
`ReceivedInOrder` alone is not inductive, as it says nothing of what will be sent
next. `OwnIdsMissNothing` assumes `OwnIds` (no two streams have the same id), under
which an open stream is always stored (`OpenStored`), a failed Send only ever
deletes its own stream (`FailedGone`), and a stream has every event but the one
`Range` is bringing (`ReceivedAll`). `feed_reconnect` shows that the assumption is
needed. `BalancesNeverStale` and `OneTransferTwice` follow from `Ledger` and `Seen`.
`Ledger` is about events, objects and the cache alone. `Numbering`: transfers are done
one after the other. `Snapshots`: a handler that has read and not stored has read
after every event whose object is back in the map, which `Put`, waiting for the
readers, keeps. `Assigned` and `Climbs`: an object was assigned the events that point
to it, and the events of an account point to newer and newer objects. `Covered`: what
the object of an earlier event counts, that of a later one does, and so does the cached
one unless `balanceUpdate` is in the middle of the account. `Singles`: an object counts
at most one transfer twice, and if it does, any transfer with a side still to be
assigned is that one or one the object's snapshot does not hold. `Seen` carries this
over to the receipts: each is a former state of the object its event points to.

**`TransactionQueriesProofs`**. `QueryTypes` first. `RetryOnceSettled` follows from
`Retries`: every row of a client's is that of a posted attempt; of an id that was
never sent again on uncertain knowledge at most one attempt is not dead; and all
are dead when such a client is about to send. For paging, `Rank(r)` is the number
of rows that sort before `r`. `Ahead` says that a row of the beginning that is not
listed yet has a rank of at least the offset of the next page, `Behind` that a
listed row nothing was inserted before has a smaller one. An insertion only
raises ranks, which keeps the first and is the excuse of the second; the page read
at an offset holds exactly the ranks from there on, for a row with a key of its
own. `PagingSkipsNone` and `RepeatsHaveCauses` are read off at the end.

**`BoilerProofs`**. One inductive invariant, `BoilerInv`, for every scene, any number
of calls and any values. The three properties need each other and more: a pointer
and a key can only be compared when the pointer leads to an object of the right
table (`PointersTyped`); a copy says what its row says only while no object has seen
a version that is not written (`SeenWritten`); a row that an eager load reads has
the rows it refers to (`RowsWell`, the foreign keys, which every write and delete
keeps); and in the middle of a call of several statements the objects left and those
done with belong to the two tables of its relation, those done with having the
parent's key (`CallTyped`). The operations of `ActiveRecord` are proved once, with the table and
the relation as variables, and each function of `Boiler` is then an instance of one of
them. `SceneAssumption` is needed where `boil.Infer` leaves the column out of an
INSERT: `account_code` 0 is replaced by the column's default, 1, which would part the
stored key from the pointer if an account code could have id 0. `BoilerTypes`,
`CopiesAgree`, `RelationsFollow` and `EagerLoads` are its parts, with the exceptions
their properties name.

Only model-checked: liveness (`CallsAnswered`, `MigrationEnds`, `EventsHandled`),
which is out of the prover's reach but for what `NobodyWaitsInVain` says. Every other property that holds in a run is a
theorem.

### Fairness

Liveness assumes: Go schedules every goroutine that can run; the database
answers the statement that the runner or a handler waits for; `docker-compose.yaml`
restarts the server always and the migrator on failure; a lock is handed on (Go's
`RWMutex` starves neither side). It does not assume that clients call anything, that
a statement whose connection broke ever finishes, or that the legacy service
posts. `transactor_live` takes each `Send` to return; `feed_streams` says what
that rests on: a client that stops reading reads on, again and again until the
Send is through (`SF_vars(Send)`), or hangs up. It has no refilling handlers: that
`put` gets the lock between them is `transactor_live`'s subject. The code sets no deadline there,
so a client that stays connected and never reads stops `broadcast`, then the
runner, then every transfer. That is listed as a hazard, and no document of the
repository promises otherwise.

## 6. Where the code and its documents part

- **`negative_amount`**. Nothing refuses a negative amount. The funds check
  subtracts it from the debtor's balance and always passes (the debtor of the run is
  an ordinary account that has nothing); the update then takes
  the money from the creditor, who may end in debt. The trigger's comment has the
  on chain account as "the only account allow to go negative".
- **`migration_interrupted`**. Accounts and transfers are committed in two
  transactions. After a failure in between, the restarted run finds data and exits
  without error; the transfers are never moved.
- **`migration_cut`**. The loops over `rows.Next()` do not ask `rows.Err()`: a read
  that breaks off looks like the end of the table, and the run succeeds with a
  part of it. Once one account has been committed the database is no longer empty:
  every later run finds data and moves nothing, so the rest is never moved. (A read
  that breaks off before the first row leaves nothing behind, and a rerun repairs it;
  `AllAccountsMoved` does not count that.)
- **`feed_reconnect`**. A subscription that ends deletes whatever its id maps to.
  When its client has reconnected under that id, this is the new stream, which
  stays open and hears nothing more. A failed Send does the same.

Not findings, as no document promises otherwise, or because no run is needed to
see them, but worth knowing:

- The trigger reads the balance without locking the row. What keeps two
  statements apart is the single runner; when the connection of one breaks, the
  runner goes on to the next while the first may still be running, both read the
  same balance, and both pass. `OverdraftNeedsOrphan` is what is left of the
  trigger's promise, and is proved.
- `AccountGetViaUserRequest` has `create_if_not_exists`; the handler never reads
  it. `GetBalance`, with the same flag, does.
- A refill of the cache in `balanceUpdate`'s window applies a transfer to it twice
  (`DriftCauses`, first case), subscribers are sent that balance, and may be sent a
  corrected one after the next refill (`OneCountedTwice`).
- Subscribers may be sent a torn balance (`Carried`).
- A transfer queued behind `Close` waits for ever.
- A retry of `TransactWithID` with the same id can post twice even after a lookup
  that found nothing (`TwiceMeansUnsettled`).
- Offset pages of rows with equal keys may repeat one and leave out another.
- `Set`, `Add` and `Update` on a row that is gone report success, and `Update` with
  `boil.Infer` writes every column, over what others have written since.
- A Send may go to a stream whose handler has returned.

## 7. What is left out, and why

- *Id, code and timestamp of a transfer* in `Transactor`: no step there reads them;
  a retry is another call with the same request. `TransactionQueries` has the id
  and the timestamp.
- *Sort columns* other than `created_at` and `amount`: they differ in nothing but
  their values. *The order within a page* follows from the column.
- *The numbers of ledgers and codes*: `AccountUser` is 3 in the proto while the
  label `user` has id 4 in `account_codes`; nothing in the code compares the two.
- *The auth interceptor, flags, HTTP server*: no state.
- *Generated database code*: hooks, which nothing registers; the caches of statement
  texts (`makeCacheKey`), which change no statement; columns that are neither a
  key nor compared; `Count` and `Exists`, which only read and are modelled where
  they are called.
- *Generated RPC code* (`*.pb.go`, `*.connect.go`): encoders, field access and
  routing. A request is one record of `Transactor!Request`, or the arguments of an
  action.
- *Accounts that the server creates while the migrator runs*: `Migrator`'s server
  only posts; a new account would change no property there, as the migrator has
  inserted its own before the server can start.
- *The concurrent map write* of two handlers in `Fill`: the Go runtime ends the
  process for it, so it is one of the causes of `Crash`.
- *go-deadlock's timeout* on `userMapLock`: it ends the process as well.

`Transactor!Broadcast` is the whole of `TransferFeed`'s sender seen from the
runner, `Transactor`'s calls are `TransactionQueries`' attempts seen from the
table, and the INSERT of either is one `Insert` of `ActiveRecord`. These modules
share a channel or a table and are checked apart: composed, they multiply states
without a step that none of them has.

## 8. Plan

Done, in the order of importance: `LedgerSchema`, `Transactor` and `Bank` with their
runs, invariants and refinement; `Migrator` with its theorems; `TransferFeed` with
its theorems; `TransactionQueries` with its theorems; the generated layer.

`DriftCauses`, the generated layer's properties and `Migrator` against `DataMove` are
proved.

Left:

1. `DataMove` promises that what is moved is consistent, and `CleanRunsExplain` that
   it is complete in a clean run; one abstract specification that says both, with a
   step for what a failure gives up.
2. The same for the feed as `NobodyWaitsInVain` for the calls: what `EventsHandled`
   needs besides fairness, as an invariant.

Dropped: a proof that each of `TransferFeed`'s steps is `Emit`, `Broadcast` or a
stutter of `Transactor`'s. The two modules share nothing but the bounded channel, of
which `Transactor` keeps the length; it would say that a push adds one element and a
take removes one.
