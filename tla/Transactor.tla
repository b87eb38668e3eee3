------------------------------ MODULE Transactor ------------------------------
(***************************************************************************)
(* The transaction service: RPC handlers, the single runner goroutine that *)
(* executes queued transfers, the cache of accounts under its read-write   *)
(* lock, the feed to the broadcaster, and the database they share          *)
(* (transactor/*.go, storage/storage.go).                                  *)
(*                                                                         *)
(* Every RPC is one element of Calls and runs once; a client's retry is    *)
(* another call with the same request.  Go code between two points where   *)
(* another goroutine, the database or a crash can intervene is one step.   *)
(***************************************************************************)
EXTENDS LedgerSchema, Sequences, FiniteSets

CONSTANTS Calls,           \* RPC invocations
          NoCall,          \* the runner has no call in hand
          Requests,        \* the request messages clients may send
          Unparsable,      \* an amount decimal.NewFromString refuses
          QueueCap,        \* capacity of channel runner (100 in the code)
          FeedCap,         \* capacity of channel broadcaster (1000 in the code)
          MaxCrashes,      \* bound on process deaths in one behaviour
          Seeds,           \* accounts the data migration left behind
          OpeningDebits,   \* debits_posted of each account at the start
          OpeningCredits   \* credits_posted of each account at the start

TransferOps == {"Transact", "TransactWithID"}
LookupOps   == {"GetBalance", "AccountGetViaUser", "AccountsUser"}

(***************************************************************************)
(* One record for all requests.  user is credit_user_id of a transfer and  *)
(* user_id of an account RPC; debtor and amount matter to transfers only;  *)
(* create holds the ledgers of create_if_not_exist(s).                     *)
(***************************************************************************)
Request == [op     : TransferOps \cup LookupOps \cup {"Close"},
            user   : Users,
            debtor : Users,
            ledger : Ledgers,
            amount : Int \cup {Unparsable},
            create : SUBSET Ledgers]

ASSUME TransactorAssumption ==
    /\ Requests \subseteq Request
    /\ NoCall \notin Calls
    /\ Unparsable \notin Int
    /\ QueueCap \in Nat \ {0}
    /\ FeedCap \in Nat \ {0}
    /\ MaxCrashes \in Nat
    /\ Seeds # {} /\ Seeds \subseteq Keys
    /\ OpeningDebits \in [Keys -> Int]
    /\ OpeningCredits \in [Keys -> Int]
    /\ \A k \in Keys : UserOf(k) # OnChain => OpeningCredits[k] >= OpeningDebits[k]
    /\ \A k \in Keys \ Seeds : OpeningCredits[k] = 0 /\ OpeningDebits[k] = 0

VARIABLES
    accounts,     \* rows of table accounts
    debits,       \* column debits_posted
    credits,      \* column credits_posted
    posted,       \* rows of table transactions, each named by its call
    inflight,     \* INSERT statements the database has not finished
    checked,      \* those of them whose trigger has done its reads
    up,           \* the service process is running
    crashes,      \* number of times it died
    userMap,      \* cached account object of each key, 0 when absent
    heap,         \* Balance of every account object allocated for each key
    readers,      \* calls holding userMapLock for reading inside getAndSet
    queue,        \* channel runner
    runner,       \* where the runner goroutine is
    feed,         \* channel broadcaster
    pc, req, todo, key, made, snap, out   \* the handler goroutine of each call

dbVars    == <<accounts, debits, credits, posted, inflight, checked>>
procVars  == <<up, crashes>>
cacheVars == <<userMap, heap, readers>>
callVars  == <<pc, req, todo, key, made, snap, out>>
vars      == <<dbVars, procVars, cacheVars, queue, runner, feed, callVars>>

-----------------------------------------------------------------------------
IsTransfer(r) == r.op \in TransferOps
CreditKey(r)  == <<r.user, r.ledger>>
DebitKey(r)   == <<r.debtor, r.ledger>>

TxOf(c) == [debit  |-> DebitKey(req[c]),  credit |-> CreditKey(req[c]),
            ledger |-> req[c].ledger,     amount |-> req[c].amount]

\* The accounts a handler calls get for.
Lookups(r) ==
    IF IsTransfer(r) THEN {CreditKey(r), DebitKey(r)}
    ELSE IF r.op = "AccountsUser" THEN {<<r.user, l>> : l \in Ledgers}
    ELSE IF r.op = "Close" THEN {}
    ELSE {<<r.user, r.ledger>>}

(***************************************************************************)
(* Which missing accounts a handler creates.  Transact creates the         *)
(* creditor only; AccountGetViaUser never reads create_if_not_exists.      *)
(***************************************************************************)
MayCreate(r, k) ==
    \/ r.op = "Transact" /\ k = CreditKey(r)
    \/ r.op \in {"GetBalance", "AccountsUser"} /\ LedgerOf(k) \in r.create

Balance(k) == credits[k] - debits[k]

NoSnap     == [keys |-> {}, bal |-> [k \in Keys |-> 0]]
RunnerIdle == [pc |-> "idle", call |-> NoCall, side |-> "debit", ptr |-> 0]

-----------------------------------------------------------------------------
(***************************************************************************)
(* NewTransactor has loaded every account of the migrated database.        *)
(***************************************************************************)
Init ==
    /\ accounts = Seeds
    /\ debits = OpeningDebits
    /\ credits = OpeningCredits
    /\ posted = {}
    /\ inflight = {}
    /\ checked = {}
    /\ up = TRUE
    /\ crashes = 0
    /\ userMap = [k \in Keys |-> IF k \in accounts THEN 1 ELSE 0]
    /\ heap = [k \in Keys |-> IF k \in accounts THEN <<Balance(k)>> ELSE <<>>]
    /\ readers = {}
    /\ queue = <<>>
    /\ runner = RunnerIdle
    /\ feed = <<>>
    /\ pc = [c \in Calls |-> "idle"]
    /\ req \in [Calls -> Requests]
    /\ todo = [c \in Calls |-> {}]
    /\ key = [c \in Calls |-> CHOOSE k \in Keys : TRUE]
    /\ made = [c \in Calls |-> FALSE]
    /\ snap = [c \in Calls |-> NoSnap]
    /\ out = [c \in Calls |-> "none"]

-----------------------------------------------------------------------------
(* Handlers.                                                               *)

Start(c) ==
    /\ up
    /\ pc[c] = "idle"
    /\ todo' = [todo EXCEPT ![c] = Lookups(req[c])]
    /\ pc' = [pc EXCEPT ![c] = IF req[c].op = "Close" THEN "send" ELSE "get"]
    /\ UNCHANGED <<dbVars, procVars, cacheVars, queue, runner, feed,
                   req, key, made, snap, out>>

\* The handler returns to its client.
Return(c, answer) ==
    /\ pc' = [pc EXCEPT ![c] = "done"]
    /\ out' = [out EXCEPT ![c] = answer]

\* get(k) returned an account, or AccountsUser skips a ledger without one.
Advance(c, k) ==
    LET rest == todo[c] \ {k}
    IN  /\ todo' = [todo EXCEPT ![c] = rest]
        /\ made' = [made EXCEPT ![c] = FALSE]
        /\ \/ rest = {} /\ ~IsTransfer(req[c]) /\ Return(c, "ok")
           \/ /\ rest # {} \/ IsTransfer(req[c])
              /\ pc' = [pc EXCEPT ![c] = IF rest = {} THEN "send" ELSE "get"]
              /\ out' = out

\* get(k) returned ErrUnableToFindAccount.
NotFound(c, k) ==
    \/ /\ ~made[c] /\ MayCreate(req[c], k)
       /\ pc' = [pc EXCEPT ![c] = "create"]
       /\ UNCHANGED <<todo, made, out>>
    \/ /\ ~made[c] /\ ~MayCreate(req[c], k) /\ req[c].op = "AccountsUser"
       /\ Advance(c, k)
    \/ /\ ~made[c] /\ ~MayCreate(req[c], k) /\ req[c].op # "AccountsUser"
       /\ Return(c, "notfound")
       /\ UNCHANGED <<todo, made>>
    \/ /\ made[c]
       /\ Return(c, "error")
       /\ UNCHANGED <<todo, made>>

\* A transfer gets the creditor first; after CreateAccount the same key again.
NextLookup(c, k) ==
    /\ k \in todo[c]
    /\ made[c] => k = key[c]
    /\ IsTransfer(req[c]) /\ CreditKey(req[c]) \in todo[c] => k = CreditKey(req[c])

\* RLock: a writer that has announced itself keeps new readers out.
CanRLock == runner.pc # "locking"

GetHit(c, k) ==
    /\ pc[c] = "get" /\ NextLookup(c, k)
    /\ CanRLock
    /\ userMap[k] # 0
    /\ Advance(c, k)
    /\ UNCHANGED <<dbVars, procVars, cacheVars, queue, runner, feed, req, key, snap>>

\* A miss goes on to getAndSet with the read lock still held.
GetMiss(c, k) ==
    /\ pc[c] = "get" /\ NextLookup(c, k)
    /\ CanRLock
    /\ userMap[k] = 0
    /\ readers' = readers \cup {c}
    /\ key' = [key EXCEPT ![c] = k]
    /\ pc' = [pc EXCEPT ![c] = "load"]
    /\ UNCHANGED <<dbVars, procVars, userMap, heap, queue, runner, feed,
                   req, todo, made, snap, out>>

\* GetAllUserAccounts reads every account of the user in one statement.
Load(c) ==
    /\ pc[c] = "load"
    /\ LET rows == {k \in accounts : UserOf(k) = UserOf(key[c])}
       IN  snap' = [snap EXCEPT ![c] =
                      [keys |-> rows,
                       bal  |-> [k \in Keys |-> IF k \in rows THEN Balance(k) ELSE 0]]]
    /\ pc' = [pc EXCEPT ![c] = "fill"]
    /\ UNCHANGED <<dbVars, procVars, cacheVars, queue, runner, feed,
                   req, todo, key, made, out>>

\* Mutant of LoadFails: get returns the error and keeps the read lock.
LoadFailsLocked(c) ==
    /\ pc[c] = "load"
    /\ Return(c, "error")
    /\ UNCHANGED <<dbVars, procVars, cacheVars, queue, runner, feed, req, todo, key, made, snap>>

LoadFails(c) ==
    /\ pc[c] = "load"
    /\ readers' = readers \ {c}
    /\ Return(c, "error")
    /\ UNCHANGED <<dbVars, procVars, userMap, heap, queue, runner, feed,
                   req, todo, key, made, snap>>

(***************************************************************************)
(* getAndSet stores a new object for every account it read, replacing the  *)
(* objects already cached, then looks the wanted key up and unlocks.       *)
(***************************************************************************)
Fill(c) ==
    /\ pc[c] = "fill"
    /\ userMap' = [k \in Keys |-> IF k \in snap[c].keys THEN Len(heap[k]) + 1 ELSE userMap[k]]
    /\ heap' = [k \in Keys |-> IF k \in snap[c].keys THEN Append(heap[k], snap[c].bal[k])
                                                     ELSE heap[k]]
    /\ readers' = readers \ {c}
    /\ snap' = [snap EXCEPT ![c] = NoSnap]
    /\ \/ userMap'[key[c]] # 0 /\ Advance(c, key[c])
       \/ userMap'[key[c]] = 0 /\ NotFound(c, key[c])
    /\ UNCHANGED <<dbVars, procVars, queue, runner, feed, req, key>>

\* CreateAccount: the database commits the row,
CreateRow(c) ==
    /\ pc[c] = "create"
    /\ key[c] \notin accounts
    /\ accounts' = accounts \cup {key[c]}
    /\ pc' = [pc EXCEPT ![c] = "created"]
    /\ UNCHANGED <<debits, credits, posted, inflight, checked, procVars, cacheVars,
                   queue, runner, feed, req, todo, key, made, snap, out>>

\* Mutant of CreateReturns: the new account is used without being cached.
CreateReturnsUncached(c) ==
    /\ pc[c] = "created"
    /\ Advance(c, key[c])
    /\ UNCHANGED <<dbVars, procVars, cacheVars, queue, runner, feed, req, key, snap>>

\* and the handler gets the account again.
CreateReturns(c) ==
    /\ pc[c] = "created"
    /\ made' = [made EXCEPT ![c] = TRUE]
    /\ pc' = [pc EXCEPT ![c] = "get"]
    /\ UNCHANGED <<dbVars, procVars, cacheVars, queue, runner, feed,
                   req, todo, key, snap, out>>

\* The row existed already (UNIQUE), or the database failed around its commit.
CreateFails(c) ==
    /\ pc[c] \in {"create", "created"}
    /\ Return(c, "error")
    /\ UNCHANGED <<dbVars, procVars, cacheVars, queue, runner, feed,
                   req, todo, key, made, snap>>

\* The amount does not parse: refused before anything is queued.
ParseFails(c) ==
    /\ pc[c] = "send" /\ IsTransfer(req[c])
    /\ req[c].amount = Unparsable
    /\ Return(c, "badamount")
    /\ UNCHANGED <<dbVars, procVars, cacheVars, queue, runner, feed,
                   req, todo, key, made, snap>>

\* Mutant of Enqueue: the channel is taken for unbounded.
EnqueueUnbounded(c) ==
    /\ pc[c] = "send"
    /\ IsTransfer(req[c]) => req[c].amount # Unparsable
    /\ queue' = Append(queue, c)
    /\ pc' = [pc EXCEPT ![c] = "wait"]
    /\ UNCHANGED <<dbVars, procVars, cacheVars, runner, feed,
                   req, todo, key, made, snap, out>>

\* The non-blocking send of the closure; Close sends its own the same way.
Enqueue(c) ==
    /\ pc[c] = "send"
    /\ IsTransfer(req[c]) => req[c].amount # Unparsable
    /\ Len(queue) < QueueCap
    /\ queue' = Append(queue, c)
    /\ pc' = [pc EXCEPT ![c] = "wait"]
    /\ UNCHANGED <<dbVars, procVars, cacheVars, runner, feed,
                   req, todo, key, made, snap, out>>

QueueFull(c) ==
    /\ pc[c] = "send"
    /\ IsTransfer(req[c]) => req[c].amount # Unparsable
    /\ Len(queue) >= QueueCap
    /\ Return(c, "full")
    /\ UNCHANGED <<dbVars, procVars, cacheVars, queue, runner, feed,
                   req, todo, key, made, snap>>

-----------------------------------------------------------------------------
(* The runner goroutine and the statement it waits for.                    *)

\* Mutant of Take: run goes on after Close's closure.
TakeAfterClose ==
    /\ runner.pc = "idle"
    /\ queue # <<>>
    /\ queue' = Tail(queue)
    /\ LET c == Head(queue)
       IN  \/ /\ IsTransfer(req[c])
              /\ runner' = [RunnerIdle EXCEPT !.pc = "insert", !.call = c]
              /\ inflight' = inflight \cup {c}
              /\ UNCHANGED <<pc, out>>
           \/ /\ ~IsTransfer(req[c])
              /\ runner' = RunnerIdle
              /\ Return(c, "ok")
              /\ UNCHANGED inflight
    /\ UNCHANGED <<accounts, debits, credits, posted, checked, procVars, cacheVars, feed,
                   req, todo, key, made, snap>>

\* run receives a closure.  Close's answers its caller and stops the loop.
Take ==
    /\ runner.pc = "idle"
    /\ queue # <<>>
    /\ queue' = Tail(queue)
    /\ LET c == Head(queue)
       IN  \/ /\ IsTransfer(req[c])
              /\ runner' = [RunnerIdle EXCEPT !.pc = "insert", !.call = c]
              /\ inflight' = inflight \cup {c}
              /\ UNCHANGED <<pc, out>>
           \/ /\ ~IsTransfer(req[c])
              /\ runner' = [RunnerIdle EXCEPT !.pc = "stopped"]
              /\ Return(c, "ok")
              /\ UNCHANGED inflight
    /\ UNCHANGED <<accounts, debits, credits, posted, checked, procVars, cacheVars, feed,
                   req, todo, key, made, snap>>

Awaited(c) == runner.pc = "insert" /\ runner.call = c

\* The runner is in balanceUpdate.
Settling == runner.pc \in {"apply", "applied", "locking", "emit"}

(***************************************************************************)
(* The trigger of c's row reads the debtor's balance.  It does so without  *)
(* a lock, under READ COMMITTED: another statement may commit before c's   *)
(* updates do.                                                             *)
(***************************************************************************)
CheckRow(c) ==
    /\ c \in inflight \ checked
    /\ TriggerAllows(TxOf(c), accounts, debits, credits)
    /\ checked' = checked \cup {c}
    /\ UNCHANGED <<accounts, debits, credits, posted, inflight, procVars, cacheVars,
                   queue, runner, feed, callVars>>

\* The database commits the row and, by the trigger, both balances.
PostRow(c) ==
    /\ c \in checked
    /\ UpdatesFit(TxOf(c), debits, credits)
    /\ debits' = DebitsAfter(TxOf(c), debits)
    /\ credits' = CreditsAfter(TxOf(c), credits)
    /\ posted' = posted \cup {c}
    /\ inflight' = inflight \ {c}
    /\ checked' = checked \ {c}
    /\ runner' = IF Awaited(c) THEN [runner EXCEPT !.pc = "apply"] ELSE runner
    /\ UNCHANGED <<accounts, procVars, cacheVars, queue, feed, callVars>>

(***************************************************************************)
(* Statements that hold their debtor's row and wait for each other's: the  *)
(* database ends one of them.                                              *)
(***************************************************************************)
Deadlocked(c) ==
    \E ring \in SUBSET checked :
        LET held == {DebitKey(req[d]) : d \in ring}
        IN  /\ c \in ring
            /\ held = {CreditKey(req[d]) : d \in ring}
            /\ Cardinality(held) = Cardinality(ring)

\* Mutant of RejectRow: the closure's error path forgets wg.Done.
RejectRowSilently(c) ==
    /\ c \in inflight \ checked
    /\ ~TriggerAllows(TxOf(c), accounts, debits, credits)
    /\ inflight' = inflight \ {c}
    /\ runner' = IF Awaited(c) THEN RunnerIdle ELSE runner
    /\ UNCHANGED <<accounts, debits, credits, posted, checked, procVars, cacheVars, queue,
                   feed, callVars>>

\* The database refuses the row; the closure reports it and the runner goes on.
RejectRow(c) ==
    /\ c \in inflight
    /\ \/ c \notin checked /\ ~TriggerAllows(TxOf(c), accounts, debits, credits)
       \/ c \in checked /\ ~UpdatesFit(TxOf(c), debits, credits)
       \/ c \in checked /\ Deadlocked(c)
    /\ inflight' = inflight \ {c}
    /\ checked' = checked \ {c}
    /\ \/ /\ Awaited(c)
          /\ runner' = RunnerIdle
          /\ Return(c, "rejected")
       \/ /\ ~Awaited(c)
          /\ UNCHANGED <<runner, pc, out>>
    /\ UNCHANGED <<accounts, debits, credits, posted, procVars, cacheVars, queue, feed,
                   req, todo, key, made, snap>>

\* Mutant of ConnectionLost: a broken connection is taken for a refusal.
ConnectionLostIsRefusal ==
    /\ runner.pc = "insert"
    /\ runner' = RunnerIdle
    /\ Return(runner.call, "rejected")
    /\ UNCHANGED <<dbVars, procVars, cacheVars, queue, feed, req, todo, key, made, snap>>

(***************************************************************************)
(* Insert returns an error because the connection broke.  The statement    *)
(* may still run to its commit, or never.                                  *)
(***************************************************************************)
ConnectionLost ==
    /\ runner.pc = "insert"
    /\ runner' = RunnerIdle
    /\ Return(runner.call, "error")
    /\ UNCHANGED <<dbVars, procVars, cacheVars, queue, feed, req, todo, key, made, snap>>

SideKey(c, side) == IF side = "debit" THEN DebitKey(req[c]) ELSE CreditKey(req[c])

\* Mutant of Change: the sides are swapped.
ChangeSwapped(c, side) == IF side = "debit" THEN req[c].amount ELSE -req[c].amount

Change(c, side) == IF side = "debit" THEN -req[c].amount ELSE req[c].amount

(***************************************************************************)
(* balanceUpdate: get the cached object and assign its Balance, without    *)
(* the write lock and with the amount as it was requested.                 *)
(***************************************************************************)
Apply ==
    /\ runner.pc = "apply"
    /\ LET k == SideKey(runner.call, runner.side)
       IN  /\ userMap[k] # 0
           /\ heap' = [heap EXCEPT ![k][userMap[k]] = @ + Change(runner.call, runner.side)]
           /\ runner' = [runner EXCEPT !.pc = "applied", !.ptr = userMap[k]]
    /\ UNCHANGED <<dbVars, procVars, userMap, readers, queue, feed, callVars>>

\* put calls Lock: from here on RLock blocks.
AnnounceWriter ==
    /\ runner.pc = "applied"
    /\ runner' = [runner EXCEPT !.pc = "locking"]
    /\ UNCHANGED <<dbVars, procVars, cacheVars, queue, feed, callVars>>

\* Mutant of Put: the write lock does not wait for readers.
PutUnlocked ==
    /\ runner.pc = "locking"
    /\ userMap' = [userMap EXCEPT ![SideKey(runner.call, runner.side)] = runner.ptr]
    /\ runner' = [runner EXCEPT !.pc = "emit"]
    /\ UNCHANGED <<dbVars, procVars, heap, readers, queue, feed, callVars>>

\* The last reader is gone: store the object and unlock.
Put ==
    /\ runner.pc = "locking"
    /\ readers = {}
    /\ userMap' = [userMap EXCEPT ![SideKey(runner.call, runner.side)] = runner.ptr]
    /\ runner' = [runner EXCEPT !.pc = "emit"]
    /\ UNCHANGED <<dbVars, procVars, heap, readers, queue, feed, callVars>>

\* The blocking send to the broadcaster; after the credit side, wg.Done.
Emit ==
    /\ runner.pc = "emit"
    /\ Len(feed) < FeedCap
    /\ feed' = Append(feed, [call |-> runner.call, side |-> runner.side])
    /\ \/ /\ runner.side = "debit"
          /\ runner' = [runner EXCEPT !.pc = "apply", !.side = "credit", !.ptr = 0]
          /\ UNCHANGED <<pc, out>>
       \/ /\ runner.side = "credit"
          /\ runner' = RunnerIdle
          /\ Return(runner.call, "ok")
    /\ UNCHANGED <<dbVars, procVars, cacheVars, queue, req, todo, key, made, snap>>

\* broadcast takes an event and sends it to every client.
Broadcast ==
    /\ feed # <<>>
    /\ feed' = Tail(feed)
    /\ UNCHANGED <<dbVars, procVars, cacheVars, queue, runner, callVars>>

-----------------------------------------------------------------------------
(***************************************************************************)
(* The process dies: killed, ended by go-deadlock's timeout on             *)
(* userMapLock, or by the Go runtime when it finds two handlers in Fill    *)
(* writing userMap under the read lock.  Every client with a call open     *)
(* loses its connection; statements already sent stay with the database.   *)
(***************************************************************************)
Crash ==
    /\ up
    /\ crashes < MaxCrashes
    /\ up' = FALSE
    /\ crashes' = crashes + 1
    /\ userMap' = [k \in Keys |-> 0]
    /\ heap' = [k \in Keys |-> <<>>]
    /\ readers' = {}
    /\ queue' = <<>>
    /\ runner' = RunnerIdle
    /\ feed' = <<>>
    /\ LET lost == {c \in Calls : pc[c] \notin {"idle", "done"}}
       IN  /\ pc' = [c \in Calls |-> IF c \in lost THEN "done" ELSE pc[c]]
           /\ out' = [c \in Calls |-> IF c \in lost THEN "lost" ELSE out[c]]
           /\ snap' = [c \in Calls |-> NoSnap]
    /\ UNCHANGED <<dbVars, req, todo, key, made>>

\* NewTransactor: load every account, refuse to start without any.
Restart ==
    /\ ~up
    /\ accounts # {}
    /\ up' = TRUE
    /\ userMap' = [k \in Keys |-> IF k \in accounts THEN 1 ELSE 0]
    /\ heap' = [k \in Keys |-> IF k \in accounts THEN <<Balance(k)>> ELSE <<>>]
    /\ UNCHANGED <<dbVars, crashes, readers, queue, runner, feed, callVars>>

\* Every client has its answer, but for those whose closures are queued behind Close's.
Quiescent ==
    /\ \A c \in Calls : pc[c] = "done" \/ (pc[c] = "wait" /\ runner.pc = "stopped")
    /\ UNCHANGED vars

-----------------------------------------------------------------------------
Handler(c) ==
    \/ \E k \in Keys : GetHit(c, k) \/ GetMiss(c, k)
    \/ Load(c) \/ LoadFails(c) \/ Fill(c) \/ CreateRow(c) \/ CreateReturns(c) \/ CreateFails(c)
    \/ ParseFails(c) \/ Enqueue(c) \/ QueueFull(c)

Statement(c) == CheckRow(c) \/ PostRow(c) \/ RejectRow(c)

Runner == Take \/ Apply \/ AnnounceWriter \/ Put \/ Emit

Next ==
    \/ \E c \in Calls : Start(c) \/ Handler(c) \/ Statement(c)
    \/ Runner \/ ConnectionLost \/ Broadcast
    \/ Crash \/ Restart \/ Quiescent

Spec == Init /\ [][Next]_vars

(***************************************************************************)
(* Fairness.  Go schedules every runnable goroutine, the database answers  *)
(* the statement the runner waits for, the supervisor restarts a dead      *)
(* process (docker-compose: restart: always), and each Send of broadcast   *)
(* returns.  Clients owe nothing, and no statement whose connection broke  *)
(* has to finish.                                                          *)
(***************************************************************************)
Fairness ==
    /\ \A c \in Calls : WF_vars(Handler(c))
    /\ \A c \in Calls : WF_vars(Awaited(c) /\ Statement(c))
    /\ WF_vars(Runner)
    /\ WF_vars(Broadcast)
    /\ WF_vars(Restart)

FairSpec == Spec /\ Fairness
-----------------------------------------------------------------------------
(* Types.                                                                  *)

PCs  == {"idle", "get", "load", "fill", "create", "created", "send", "wait", "done"}
Outs == {"none", "ok", "notfound", "badamount", "full", "rejected", "error", "lost"}

Sides == {"debit", "credit"}

RunnerPCs == {"idle", "insert", "apply", "applied", "locking", "emit", "stopped"}

\* Every variable has its type and neither channel exceeds its capacity.
TypeOK ==
    /\ accounts \in SUBSET Keys
    /\ debits \in [Keys -> Int]
    /\ credits \in [Keys -> Int]
    /\ posted \in SUBSET Calls
    /\ inflight \in SUBSET Calls
    /\ checked \in SUBSET inflight
    /\ up \in BOOLEAN
    /\ crashes \in 0..MaxCrashes
    /\ userMap \in [Keys -> Nat]
    /\ heap \in [Keys -> Seq(Int)]
    /\ readers \in SUBSET Calls
    /\ queue \in Seq(Calls) /\ Len(queue) <= QueueCap
    /\ runner \in [pc : RunnerPCs, call : Calls \cup {NoCall}, side : Sides, ptr : Nat]
    /\ feed \in Seq([call : Calls, side : Sides]) /\ Len(feed) <= FeedCap
    /\ pc \in [Calls -> PCs]
    /\ req \in [Calls -> Requests]
    /\ todo \in [Calls -> SUBSET Keys]
    /\ key \in [Calls -> Keys]
    /\ made \in [Calls -> BOOLEAN]
    /\ snap \in [Calls -> [keys : SUBSET Keys, bal : [Keys -> Int]]]
    /\ out \in [Calls -> Outs]

-----------------------------------------------------------------------------
(* Safety.                                                                 *)

(***************************************************************************)
(* The life of a call.  Each part is a fact about two or three goroutines  *)
(* that share the call; together with TypeOK they are inductive.           *)
(***************************************************************************)
Orphaned(c) == pc[c] = "done" /\ out[c] \in {"error", "lost"}

\* A queued closure belongs to a caller in wg.Wait and has not run.
QueuedCallsWait ==
    /\ \A i \in 1..Len(queue) :
         LET c == queue[i]
         IN  /\ pc[c] = "wait"
             /\ IsTransfer(req[c]) => req[c].amount \in Int
             /\ c \notin posted \cup inflight
             /\ c # runner.call
    /\ \A i, j \in 1..Len(queue) : queue[i] = queue[j] => i = j

\* The closure that runs is a transfer whose caller is in wg.Wait.
RunnerServesWaiter ==
    \/ runner.pc \in {"idle", "stopped"} /\ runner.call = NoCall
    \/ /\ \/ runner.pc = "insert" /\ runner.call \in inflight
          \/ Settling /\ runner.call \in posted
       /\ IsTransfer(req[runner.call])
       /\ req[runner.call].amount \in Int
       /\ pc[runner.call] = "wait"

\* A statement is the runner's own, or its caller was told of a failure.
StatementsAccounted ==
    /\ \A c \in inflight :
         /\ IsTransfer(req[c]) /\ req[c].amount \in Int
         /\ c \notin posted
         /\ Awaited(c) \/ Orphaned(c)
    /\ \A c \in checked : DebitKey(req[c]) # CreditKey(req[c])

\* No caller is told of a refusal whose transfer is posted, or of a success that is not.
AnswersTrue ==
    /\ \A c \in posted :
         /\ IsTransfer(req[c]) /\ req[c].amount \in Int
         /\ \/ Settling /\ runner.call = c
            \/ pc[c] = "done" /\ out[c] \in {"ok", "error", "lost"}
    /\ \A c \in Calls : pc[c] = "done" <=> out[c] # "none"
    /\ \A c \in Calls : IsTransfer(req[c]) /\ out[c] = "ok" => c \in posted

\* The accounts of a checked row exist: accounts are never deleted.
CheckedRowsRefer ==
    \A c \in checked : DebitKey(req[c]) \in accounts /\ CreditKey(req[c]) \in accounts

\* A dead process has no goroutines.
DeadIsSilent ==
    ~up => /\ queue = <<>> /\ runner.pc = "idle"
           /\ \A c \in Calls : pc[c] \in {"idle", "done"}

Lifecycle ==
    /\ QueuedCallsWait
    /\ RunnerServesWaiter
    /\ StatementsAccounted
    /\ AnswersTrue
    /\ CheckedRowsRefer
    /\ DeadIsSilent

\* Cached pointers, and the one balanceUpdate holds, point to objects.
PointersValid ==
    /\ \A k \in Keys : userMap[k] <= Len(heap[k])
    /\ runner.pc \in {"applied", "locking"} =>
         runner.ptr \in 1..Len(heap[SideKey(runner.call, runner.side)])

(***************************************************************************)
(* Only the on chain user's accounts are ever in debt, as check_balances   *)
(* has it.  False for negative amounts, and when a statement outlives its  *)
(* connection: see OverdraftNeedsOrphan.                                   *)
(***************************************************************************)
OnlyOnChainNegative ==
    \A k \in Keys : UserOf(k) # OnChain => Balance(k) >= 0

(***************************************************************************)
(* What remains true of it when no amount is negative: the runner's        *)
(* statements come one at a time, so an account other than the on chain    *)
(* user's is in debt only after a transfer out of it was posted whose      *)
(* caller was told of a failure.                                           *)
(***************************************************************************)
OverdraftNeedsOrphan ==
    \A k \in Keys :
        UserOf(k) # OnChain /\ Balance(k) < 0 =>
            \E c \in posted : Orphaned(c) /\ DebitKey(req[c]) = k

\* The strengthening of OverdraftNeedsOrphan that is inductive.
FundsReserved ==
    \A k \in Keys :
        UserOf(k) # OnChain /\ (\A c \in posted : Orphaned(c) => DebitKey(req[c]) # k) =>
            /\ Balance(k) >= 0
            /\ \A c \in checked : Awaited(c) /\ DebitKey(req[c]) = k =>
                                  Balance(k) >= Numeric(req[c].amount)

AmountsNotNegative ==
    \A r \in Requests : r.amount # Unparsable => r.amount >= 0

(***************************************************************************)
(* balanceUpdate never misses: from the moment a transfer leaves its       *)
(* lookups until the runner is done with it, both its accounts are cached, *)
(* so the runner itself never re-reads a balance that already contains the *)
(* transfer it is about to apply.                                          *)
(***************************************************************************)
RunnerFindsAccounts ==
    \A c \in Calls :
        IsTransfer(req[c]) /\ pc[c] \in {"send", "wait"} =>
            userMap[CreditKey(req[c])] # 0 /\ userMap[DebitKey(req[c])] # 0

\* The strengthening that is inductive: every account looked up so far is cached.
LookupsCached ==
    \A c \in Calls :
        IsTransfer(req[c]) /\ pc[c] \notin {"idle", "done"} =>
            /\ \A k \in Lookups(req[c]) \ todo[c] : userMap[k] # 0
            /\ pc[c] \in {"send", "wait"} => todo[c] = {}

(***************************************************************************)
(* How far the balance an account object holds is from the database, not   *)
(* counting what balanceUpdate has still to apply of the current transfer. *)
(***************************************************************************)
AppliedTo(side) ==
    \/ side = runner.side /\ runner.pc \in {"applied", "locking", "emit"}
    \/ side = "debit" /\ runner.side = "credit"

Unapplied(k, side) ==
    IF Settling /\ SideKey(runner.call, side) = k /\ ~AppliedTo(side)
    THEN Change(runner.call, side) ELSE 0

Drift(k, object) ==
    heap[k][object] + Unapplied(k, "debit") + Unapplied(k, "credit") - Balance(k)

\* The objects of k that are cached or that balanceUpdate is about to cache.
Objects(k) ==
    LET held == /\ runner.pc \in {"applied", "locking"}
                /\ SideKey(runner.call, runner.side) = k
    IN  ({userMap[k]} \ {0}) \cup (IF held THEN {runner.ptr} ELSE {})

Accurate(k) == \A object \in Objects(k) : Drift(k, object) = 0

\* balanceUpdate has put the object of this side.
Stored(side) ==
    \/ side = runner.side /\ runner.pc = "emit"
    \/ side = "debit" /\ runner.side = "credit"

\* The runner is between the commit of a transfer on k and its put.
Updating(k) ==
    Settling /\ \E side \in Sides : SideKey(runner.call, side) = k /\ ~Stored(side)

Touches(c, k) == IsTransfer(req[c]) /\ k \in {CreditKey(req[c]), DebitKey(req[c])}

(***************************************************************************)
(* A cached balance leaves the database's in three ways only: a miss on    *)
(* another ledger re-reads the account inside balanceUpdate's window, so   *)
(* that the transfer is applied twice; the row was posted although its     *)
(* caller was told of a failure; or NUMERIC(28) rounded the amount.  In    *)
(* particular no handler can store a stale read over a finished update.    *)
(***************************************************************************)
DriftCauses ==
    [][\A k \in Keys :
         Accurate(k) /\ ~Accurate(k)' =>
            \/ Updating(k) /\ \E c \in Calls : pc[c] = "fill" /\ pc'[c] # "fill"
            \/ \E c \in posted' : Touches(c, k) /\ out'[c] \in {"error", "lost"}
            \/ \E c \in posted' : Touches(c, k) /\ ~IsWhole(req[c].amount)]_vars

-----------------------------------------------------------------------------
(* The service implements Bank.                                            *)

ToldAs(o) ==
    CASE o = "ok" -> "ok"
      [] o \in {"notfound", "badamount", "full", "rejected"} -> "refused"
      [] o \in {"error", "lost"} -> "unknown"
      [] OTHER -> "none"

AmountOf(r) == IF r.amount = Unparsable THEN 0 ELSE Numeric(r.amount)

Balances == [k \in Keys |-> Balance(k)]

Orders == [c \in Calls |-> [from   |-> DebitKey(req[c]),
                           to     |-> CreditKey(req[c]),
                           amount |-> AmountOf(req[c])]]

Told == [c \in Calls |-> IF IsTransfer(req[c]) THEN ToldAs(out[c]) ELSE "none"]

BankView == INSTANCE Bank WITH
    Clients       <- Calls,
    Accounts      <- Keys,
    MayGoNegative <- {k \in Keys : UserOf(k) = OnChain},
    open          <- accounts,
    balance       <- Balances,
    order         <- Orders,
    settled       <- posted,
    answer        <- Told

(***************************************************************************)
(* Every transfer settles at most once, in one step and within the funds;  *)
(* a client told ok has its transfer in the database; a client refused for *)
(* a missing account, a bad amount, a full queue or by the trigger never   *)
(* will.                                                                   *)
(***************************************************************************)
ImplementsBank == BankView!BankSpec

-----------------------------------------------------------------------------
(***************************************************************************)
(* Nobody waits for what nobody will do.  A caller in wg.Wait has its      *)
(* closure in the channel or in the runner's hands, on every path of the   *)
(* closure and through every death of the process, and the lock that the   *)
(* runner waits for is held only by handlers on their way to release it.   *)
(***************************************************************************)
NobodyForgotten ==
    /\ \A c \in Calls :
         pc[c] = "wait" => runner.call = c \/ \E i \in 1..Len(queue) : queue[i] = c
    /\ \A c \in readers : pc[c] \in {"load", "fill"}

-----------------------------------------------------------------------------
(* Liveness.                                                               *)

Stranded(c) == runner.pc = "stopped" /\ \E i \in DOMAIN queue : queue[i] = c

(***************************************************************************)
(* Every call that started is answered: no caller waits for ever on the    *)
(* read lock, on wg.Wait or behind the blocking send to the broadcaster.   *)
(* The one exception is a closure that was sent after Close's and that the *)
(* runner therefore never takes; lookups, refusals and the transfers ahead *)
(* of Close are answered even then.                                        *)
(***************************************************************************)
CallsAnswered ==
    \A c \in Calls : pc[c] # "idle" ~> (pc[c] = "done" \/ Stranded(c))

(***************************************************************************)
(* Once Close has returned success, and until another process takes over,  *)
(* no caller still waits for a statement: the transfers queued before it   *)
(* were answered and those behind it never run.                            *)
(***************************************************************************)
ClosedMeansQuiet ==
    \A c \in Calls :
        crashes = 0 /\ req[c].op = "Close" /\ out[c] = "ok" =>
            \A d \in inflight : pc[d] = "done"
=============================================================================
