------------------------------ MODULE CacheProofs ------------------------------
(***************************************************************************)
(* What TLAPS proves of the account cache (transactor/                     *)
(* account_controller.go) beyond that lookups succeed: when a balance in   *)
(* it may part from the database's.                                        *)
(***************************************************************************)
EXTENDS TransactorProofs

\* A posted transfer of k that the cache never applied, or applied unrounded.
Tainted(k) ==
    \E c \in posted :
        Touches(c, k) /\ (out[c] \in {"error", "lost"} \/ ~IsWhole(req[c].amount))

\* getAndSet holds the read lock from its miss to the last object it stores.
FillersRead == \A c \in Calls : pc[c] \in {"load", "fill"} => c \in readers

\* balanceUpdate begins with the debtor.
DebtorFirst == runner.pc = "insert" => runner.side = "debit"

(***************************************************************************)
(* A balance read and not yet stored is the database's, or it was read     *)
(* before a transfer that balanceUpdate has still to store.                *)
(***************************************************************************)
SnapshotsFresh ==
    \A c \in Calls : \A k \in snap[c].keys :
        pc[c] = "fill" /\ ~Tainted(k) /\ ~Updating(k) => snap[c].bal[k] = Balance(k)

CacheInv == FillersRead /\ DebtorFirst /\ SnapshotsFresh

LEMMA InitCache == Init => CacheInv
BY DEF Init, CacheInv, FillersRead, DebtorFirst, SnapshotsFresh, RunnerIdle

-----------------------------------------------------------------------------
(* Helpers.                                                                *)

\* Answers of failure and posted rows are final.
LEMMA TaintStays ==
    ASSUME TypeOK, Lifecycle, [Next]_vars, NEW k
    PROVE  Tainted(k) => Tainted(k)'
<1>1. /\ \A c \in Calls : Orphaned(c) => Orphaned(c)'
      /\ posted \subseteq posted' /\ req' = req
  BY OrphansStay
<1>2. \A c \in posted : c \in Calls /\ (out[c] # "none" => pc[c] = "done")
  BY DEF TypeOK, Lifecycle, AnswersTrue
<1>3. \A c \in posted : out[c] \in {"error", "lost"} => out'[c] \in {"error", "lost"}
  BY <1>1, <1>2 DEF Orphaned
<1> QED
  BY <1>1, <1>3 DEF Tainted, Touches, CreditKey, DebitKey, IsTransfer

\* Between two transfers nothing is left to apply or to store.
LEMMA AtRest ==
    ASSUME ~Settling, NEW k \in Keys
    PROVE  /\ Unapplied(k, "debit") = 0 /\ Unapplied(k, "credit") = 0
           /\ ~Updating(k)
           /\ Objects(k) = {userMap[k]} \ {0}
BY DEF Settling, Unapplied, Updating, Objects

\* When balanceUpdate has stored both sides of k, or has none, it holds no object of k.
LEMMA NotUpdating ==
    ASSUME TypeOK, Lifecycle, NEW k \in Keys, ~Updating(k)
    PROVE  /\ Unapplied(k, "debit") = 0 /\ Unapplied(k, "credit") = 0
           /\ Objects(k) = {userMap[k]} \ {0}
           /\ runner.pc \in {"applied", "locking"} => SideKey(runner.call, runner.side) # k
<1>1. CASE ~Settling
  BY <1>1, AtRest DEF Settling
<1>2. CASE Settling
  <2>1. \A side \in Sides : SideKey(runner.call, side) = k => Stored(side)
    BY <1>2 DEF Updating
  <2>2. \A side \in Sides : Stored(side) => AppliedTo(side)
    BY DEF Stored, AppliedTo
  <2>3. \A side \in Sides : Unapplied(k, side) = 0
    BY <2>1, <2>2 DEF Unapplied
  <2>4. runner.pc \in {"applied", "locking"} => ~Stored(runner.side)
    BY DEF Stored, TypeOK, Sides
  <2>5. runner.side \in Sides
    BY DEF TypeOK
  <2> QED
    BY <2>1, <2>3, <2>4, <2>5 DEF Objects, Sides
<1> QED
  BY <1>1, <1>2
-----------------------------------------------------------------------------
(* A handler's step.                                                       *)

\* get and getAndSet hold the lock as they must, and a read is of this moment.
LEMMA HandlerReads ==
    ASSUME TypeOK, FillersRead, NEW c \in Calls, Start(c) \/ Handler(c)
    PROVE  /\ \A d \in Calls : d # c => /\ pc'[d] = pc[d] /\ snap'[d] = snap[d]
                                        /\ d \in readers => d \in readers'
           /\ pc'[c] \in {"load", "fill"} => c \in readers'
           /\ pc'[c] = "fill" => \A k \in snap'[c].keys : snap'[c].bal[k] = Balance(k)
           /\ UNCHANGED <<debits, credits, posted, runner, req>>
<1>1. ASSUME NEW k \in Keys, Advance(c, k)
      PROVE  \E p \in {"get", "send", "done"} : pc' = [pc EXCEPT ![c] = p]
  BY <1>1 DEF Advance, Return
<1>2. CASE Start(c)
  BY <1>2 DEF Start, TypeOK, dbVars, cacheVars
<1>3. ASSUME NEW k \in Keys, GetHit(c, k)
      PROVE  \E p \in {"get", "send", "done"} :
                pc' = [pc EXCEPT ![c] = p] /\ UNCHANGED <<dbVars, cacheVars, runner, req, snap>>
  BY <1>1, <1>3 DEF GetHit
<1>4. ASSUME NEW k \in Keys, GetMiss(c, k)
      PROVE  /\ pc' = [pc EXCEPT ![c] = "load"] /\ readers' = readers \cup {c}
             /\ UNCHANGED <<dbVars, runner, req, snap>>
  BY <1>4 DEF GetMiss
<1>5. CASE Load(c)
  <2>1. /\ snap'[c] = [keys |-> {k \in accounts : UserOf(k) = UserOf(key[c])},
                       bal  |-> [k \in Keys |-> IF k \in {j \in accounts : UserOf(j) = UserOf(key[c])}
                                                THEN Balance(k) ELSE 0]]
        /\ \A d \in Calls : d # c => snap'[d] = snap[d]
    BY <1>5 DEF Load, TypeOK
  <2>2. \A k \in snap'[c].keys : snap'[c].bal[k] = Balance(k)
    BY <2>1 DEF TypeOK
  <2>3. c \in readers
    BY <1>5 DEF Load, FillersRead
  <2> QED
    BY <1>5, <2>1, <2>2, <2>3 DEF Load, TypeOK, dbVars, cacheVars
<1>6. CASE LoadFails(c)
  BY <1>6 DEF LoadFails, Return, TypeOK, dbVars
<1>7. CASE Fill(c)
  <2>1. key[c] \in Keys
    BY DEF TypeOK
  <2>2. \E p \in {"get", "send", "done", "create"} : pc' = [pc EXCEPT ![c] = p]
    BY <1>1, <1>7, <2>1 DEF Fill, NotFound, Return
  <2> QED
    BY <1>7, <2>2 DEF Fill, TypeOK, dbVars
<1>8. CASE CreateRow(c)
  BY <1>8 DEF CreateRow, TypeOK, cacheVars
<1>9. CASE CreateReturns(c)
  BY <1>9 DEF CreateReturns, TypeOK, dbVars, cacheVars
<1>10. CASE CreateFails(c) \/ ParseFails(c) \/ QueueFull(c)
  BY <1>10 DEF CreateFails, ParseFails, QueueFull, Return, TypeOK, dbVars, cacheVars
<1>11. CASE Enqueue(c)
  BY <1>11 DEF Enqueue, TypeOK, dbVars, cacheVars
<1>12. CASE \E k \in Keys : GetHit(c, k)
  BY <1>3, <1>12 DEF TypeOK, dbVars, cacheVars
<1>13. CASE \E k \in Keys : GetMiss(c, k)
  BY <1>4, <1>13 DEF TypeOK, dbVars, cacheVars
<1> QED
  BY <1>2, <1>5, <1>6, <1>7, <1>8, <1>9, <1>10, <1>11, <1>12, <1>13 DEF Handler

-----------------------------------------------------------------------------
(* CacheInv is inductive.                                                  *)

\* What balanceUpdate has to store is still to be stored after the step.
KeepsUpdating == \A k \in Keys : Updating(k) => Updating(k)'

\* A step that reads no balance and changes none leaves what was read as fresh.
LEMMA FreshKept ==
    ASSUME TypeOK, Lifecycle, SnapshotsFresh, [Next]_vars,
           \A c \in Calls : pc'[c] = "fill" => pc[c] = "fill" /\ snap'[c] = snap[c],
           UNCHANGED <<debits, credits>>,
           KeepsUpdating
    PROVE  SnapshotsFresh'
<1> SUFFICES ASSUME NEW c \in Calls, NEW k \in snap'[c].keys,
                    pc'[c] = "fill", ~Tainted(k)', ~Updating(k)'
             PROVE  snap'[c].bal[k] = Balance(k)'
  BY DEF SnapshotsFresh
<1>1. pc[c] = "fill" /\ snap'[c] = snap[c] /\ k \in Keys
  BY DEF TypeOK
<1>2. ~Tainted(k) /\ ~Updating(k)
  BY <1>1, TaintStays DEF KeepsUpdating
<1> QED
  BY <1>1, <1>2 DEF SnapshotsFresh, Balance

\* A committed row is one that balanceUpdate now applies, or one its caller was told failed.
LEMMA PostRowKeepsFresh ==
    ASSUME TypeOK, Lifecycle, CacheInv, NEW d \in Calls, PostRow(d)
    PROVE  SnapshotsFresh'
<1> SUFFICES ASSUME NEW c \in Calls, NEW k \in snap'[c].keys,
                    pc'[c] = "fill", ~Tainted(k)', ~Updating(k)'
             PROVE  snap'[c].bal[k] = Balance(k)'
  BY DEF SnapshotsFresh
<1>1. /\ pc[c] = "fill" /\ snap'[c] = snap[c] /\ k \in Keys
      /\ UNCHANGED <<pc, out, req>>
  BY DEF PostRow, TypeOK, callVars
<1>2. Next
  BY DEF Next, Statement
<1>3. ~Tainted(k)
  BY <1>2, TaintStays
<1>4. d \in inflight /\ IsTransfer(req[d]) /\ (Awaited(d) \/ Orphaned(d))
  BY DEF PostRow, TypeOK, Lifecycle, StatementsAccounted
<1>5. DebitKey(req[d]) # k /\ CreditKey(req[d]) # k
  <2>1. ASSUME Touches(d, k), Awaited(d)
        PROVE  FALSE
    <3>1. runner.side = "debit" /\ runner' = [runner EXCEPT !.pc = "apply"] /\ runner.call = d
      BY <2>1 DEF CacheInv, DebtorFirst, Awaited, PostRow
    <3>2. runner'.pc = "apply" /\ runner'.side = "debit" /\ runner'.call = d
      BY <3>1 DEF TypeOK
    <3>3. \E side \in Sides : SideKey(d, side)' = k
      BY <1>1, <2>1 DEF Touches, SideKey, Sides
    <3> QED
      BY <3>2, <3>3 DEF Updating, Settling, Stored, Sides
  <2>2. ASSUME Touches(d, k), Orphaned(d)
        PROVE  FALSE
    BY <1>1, <1>4, <2>2 DEF PostRow, Tainted, Touches, Orphaned, IsTransfer, DebitKey, CreditKey
  <2> QED
    BY <1>4, <2>1, <2>2 DEF Touches
<1>6. Balance(k)' = Balance(k)
  BY <1>1, <1>5 DEF PostRow, DebitsAfter, CreditsAfter, TxOf, TypeOK, Balance
<1>7. ~Updating(k)
  <2>1. CASE Awaited(d)
    BY <2>1 DEF Awaited, Updating, Settling
  <2>2. CASE ~Awaited(d)
    BY <1>1, <2>2 DEF PostRow, Updating, Settling, Stored, SideKey, DebitKey, CreditKey
  <2> QED
    BY <2>1, <2>2
<1> QED
  BY <1>1, <1>3, <1>6, <1>7 DEF CacheInv, SnapshotsFresh

\* The parts of CacheInv, action by action.
LEMMA CacheStep ==
    ASSUME TypeOK, Lifecycle, PointersValid, CacheInv, [Next]_vars
    PROVE  CacheInv'
<1>1. ASSUME UNCHANGED <<debits, credits, runner, req, pc, snap, readers>>
      PROVE  CacheInv'
  <2>1. KeepsUpdating
    BY <1>1 DEF KeepsUpdating, Updating, Settling, Stored, SideKey, DebitKey, CreditKey
  <2>2. SnapshotsFresh'
    BY <1>1, <2>1, FreshKept DEF CacheInv
  <2> QED
    BY <1>1, <2>2 DEF CacheInv, FillersRead, DebtorFirst
<1>2. ASSUME NEW c \in Calls, Start(c) \/ Handler(c)
      PROVE  CacheInv'
  <2>1. /\ \A d \in Calls : d # c => /\ pc'[d] = pc[d] /\ snap'[d] = snap[d]
                                     /\ d \in readers => d \in readers'
        /\ pc'[c] \in {"load", "fill"} => c \in readers'
        /\ pc'[c] = "fill" => \A k \in snap'[c].keys : snap'[c].bal[k] = Balance(k)
        /\ UNCHANGED <<debits, credits, posted, runner, req>>
    BY <1>2, HandlerReads DEF CacheInv
  <2>2. \A k \in Keys : /\ Updating(k)' = Updating(k) /\ Balance(k)' = Balance(k)
                        /\ Tainted(k) => Tainted(k)'
    BY <2>1, TaintStays
       DEF Updating, Settling, Stored, SideKey, DebitKey, CreditKey, Balance
  <2>3. SnapshotsFresh'
    <3> SUFFICES ASSUME NEW d \in Calls, NEW k \in snap'[d].keys,
                        pc'[d] = "fill", ~Tainted(k)', ~Updating(k)'
                 PROVE  snap'[d].bal[k] = Balance(k)'
      BY DEF SnapshotsFresh
    <3>1. k \in Keys
      <4>1. TypeOK'
        BY TypeStep
      <4> QED
        BY <4>1 DEF TypeOK
    <3> QED
      BY <2>1, <2>2, <3>1 DEF CacheInv, SnapshotsFresh
  <2>4. FillersRead'
    BY <2>1 DEF CacheInv, FillersRead
  <2>5. DebtorFirst'
    BY <2>1 DEF CacheInv, DebtorFirst
  <2> QED
    BY <2>3, <2>4, <2>5 DEF CacheInv
<1>3. ASSUME NEW c \in Calls, CheckRow(c)
      PROVE  CacheInv'
  BY <1>1, <1>3 DEF CheckRow, callVars, cacheVars
<1>4. ASSUME NEW c \in Calls, PostRow(c)
      PROVE  CacheInv'
  <2>1. SnapshotsFresh'
    BY <1>4, PostRowKeepsFresh
  <2>2. FillersRead'
    BY <1>4 DEF PostRow, CacheInv, FillersRead, callVars, cacheVars
  <2>3. DebtorFirst'
    BY <1>4 DEF PostRow, CacheInv, DebtorFirst, TypeOK
  <2> QED
    BY <2>1, <2>2, <2>3 DEF CacheInv
\* Steps that end a closure, answering at most its caller.
<1>5. ASSUME \A d \in Calls : pc'[d] = pc[d] \/ pc'[d] = "done",
             UNCHANGED <<debits, credits, readers, snap, req>>,
             runner'.pc = "insert" => runner'.side = "debit",
             KeepsUpdating
      PROVE  CacheInv'
  <2>1. SnapshotsFresh'
    BY <1>5, FreshKept DEF CacheInv
  <2>2. FillersRead'
    BY <1>5 DEF CacheInv, FillersRead
  <2> QED
    BY <1>5, <2>1, <2>2 DEF CacheInv, DebtorFirst
<1>6. runner.pc \in {"idle", "insert"} => KeepsUpdating
  BY DEF KeepsUpdating, Updating, Settling
<1>7. ASSUME NEW c \in Calls, RejectRow(c)
      PROVE  CacheInv'
  <2>1. CASE Awaited(c)
    <3>1. /\ \A d \in Calls : pc'[d] = pc[d] \/ pc'[d] = "done"
          /\ runner' = RunnerIdle
          /\ UNCHANGED <<debits, credits, readers, snap, req>>
      BY <1>7, <2>1 DEF RejectRow, Return, TypeOK, cacheVars
    <3> QED
      BY <1>5, <1>6, <2>1, <3>1 DEF Awaited, RunnerIdle
  <2>2. CASE ~Awaited(c)
    BY <1>1, <1>7, <2>2 DEF RejectRow, cacheVars
  <2> QED
    BY <2>1, <2>2
<1>8. CASE ConnectionLost
  <2>1. /\ \A d \in Calls : pc'[d] = pc[d] \/ pc'[d] = "done"
        /\ runner' = RunnerIdle /\ runner.pc = "insert"
        /\ UNCHANGED <<debits, credits, readers, snap, req>>
    BY <1>8 DEF ConnectionLost, Return, TypeOK, cacheVars, dbVars
  <2> QED
    BY <1>5, <1>6, <2>1 DEF RunnerIdle
<1>9. CASE Take
  <2>1. /\ \A d \in Calls : pc'[d] = pc[d] \/ pc'[d] = "done"
        /\ runner.pc = "idle"
        /\ UNCHANGED <<debits, credits, readers, snap, req>>
    BY <1>9 DEF Take, Return, TypeOK, cacheVars
  <2>2. runner'.pc = "insert" => runner'.side = "debit"
    BY <1>9 DEF Take, RunnerIdle
  <2> QED
    BY <1>5, <1>6, <2>1, <2>2
<1>10. CASE Apply
  <2>1. /\ runner.pc = "apply"
        /\ UNCHANGED <<debits, credits, readers, pc, snap, req>>
    BY <1>10 DEF Apply, callVars, dbVars
  <2>2. runner'.pc = "applied" /\ runner'.side = runner.side /\ runner'.call = runner.call
    BY <1>10 DEF Apply, TypeOK
  <2>3. KeepsUpdating
    BY <2>1, <2>2 DEF KeepsUpdating, Updating, Settling, Stored, SideKey, DebitKey, CreditKey
  <2> QED
    BY <1>5, <2>1, <2>2, <2>3
<1>11. CASE AnnounceWriter
  <2>1. /\ runner.pc = "applied" /\ runner' = [runner EXCEPT !.pc = "locking"]
        /\ UNCHANGED <<debits, credits, readers, pc, snap, req>>
    BY <1>11 DEF AnnounceWriter, callVars, dbVars, cacheVars
  <2>2. runner'.pc = "locking" /\ runner'.side = runner.side /\ runner'.call = runner.call
    BY <2>1 DEF TypeOK
  <2>3. KeepsUpdating
    BY <2>1, <2>2 DEF KeepsUpdating, Updating, Settling, Stored, SideKey, DebitKey, CreditKey
  <2> QED
    BY <1>5, <2>1, <2>2, <2>3
<1>12. CASE Put
  <2>1. /\ readers = {} /\ runner' = [runner EXCEPT !.pc = "emit"]
        /\ UNCHANGED <<readers, pc>>
    BY <1>12 DEF Put, callVars
  <2>2. \A c \in Calls : pc[c] \notin {"load", "fill"}
    BY <2>1 DEF CacheInv, FillersRead
  <2>3. runner'.pc = "emit"
    BY <2>1 DEF TypeOK
  <2> QED
    BY <2>1, <2>2, <2>3 DEF CacheInv, FillersRead, DebtorFirst, SnapshotsFresh
<1>13. CASE Emit
  <2>1. /\ runner.pc = "emit"
        /\ UNCHANGED <<debits, credits, readers, snap, req>>
        /\ \A d \in Calls : pc'[d] = pc[d] \/ pc'[d] = "done"
    BY <1>13 DEF Emit, Return, TypeOK, dbVars, cacheVars
  <2>2. CASE runner.side = "debit"
    <3>1. runner'.pc = "apply" /\ runner'.side = "credit" /\ runner'.call = runner.call
      BY <1>13, <2>2 DEF Emit, TypeOK
    <3>2. KeepsUpdating
      BY <2>1, <2>2, <3>1
         DEF KeepsUpdating, Updating, Settling, Stored, Sides, SideKey, DebitKey, CreditKey
    <3> QED
      BY <1>5, <2>1, <3>1, <3>2
  <2>3. CASE runner.side = "credit"
    <3>1. KeepsUpdating
      BY <2>1, <2>3 DEF KeepsUpdating, Updating, Stored, Sides
    <3>2. runner' = RunnerIdle
      BY <1>13, <2>3 DEF Emit
    <3> QED
      BY <1>5, <2>1, <3>1, <3>2 DEF RunnerIdle
  <2> QED
    BY <2>2, <2>3 DEF TypeOK, Sides
<1>14. CASE Broadcast
  BY <1>1, <1>14 DEF Broadcast, dbVars, cacheVars, callVars
<1>15. CASE Crash
  <2>1. \A c \in Calls : pc'[c] \notin {"load", "fill"}
    BY <1>15 DEF Crash, TypeOK
  <2>2. runner'.pc = "idle"
    BY <1>15 DEF Crash, RunnerIdle
  <2> QED
    BY <2>1, <2>2 DEF CacheInv, FillersRead, DebtorFirst, SnapshotsFresh
<1>16. CASE Restart
  BY <1>1, <1>16 DEF Restart, dbVars, callVars
<1>17. CASE Quiescent \/ UNCHANGED vars
  BY <1>1, <1>17 DEF Quiescent, vars, dbVars, cacheVars, callVars
<1> QED
  BY <1>2, <1>3, <1>4, <1>7, <1>8, <1>9, <1>10, <1>11, <1>12, <1>13, <1>14, <1>15, <1>16, <1>17
     DEF Next, Statement, Runner
-----------------------------------------------------------------------------
(* What makes a cached balance drift.                                      *)

\* DriftCauses, for one account and one step.
Explained(k) ==
    \/ Updating(k) /\ \E c \in Calls : pc[c] = "fill" /\ pc'[c] # "fill"
    \/ \E c \in posted' : Touches(c, k) /\ out'[c] \in {"error", "lost"}
    \/ \E c \in posted' : Touches(c, k) /\ ~IsWhole(req[c].amount)

LEMMA TaintExplains ==
    ASSUME req' = req, NEW k, Tainted(k)'
    PROVE  Explained(k)
BY DEF Tainted, Explained, Touches, IsTransfer, CreditKey, DebitKey

LEMMA DriftTypes ==
    ASSUME TypeOK, Lifecycle, PointersValid, NEW k \in Keys
    PROVE  /\ Balance(k) \in Int
           /\ \A side \in Sides : Unapplied(k, side) \in Int
           /\ \A object \in Objects(k) : object \in 1..Len(heap[k]) /\ heap[k][object] \in Int
<1>1. heap[k] \in Seq(Int) /\ userMap[k] \in Nat /\ userMap[k] <= Len(heap[k])
  BY DEF TypeOK, PointersValid
<1>2. \A object \in Objects(k) : object \in 1..Len(heap[k])
  BY <1>1 DEF Objects, PointersValid
<1>3. Settling => runner.call \in Calls /\ req[runner.call].amount \in Int
  BY DEF TypeOK, Lifecycle, RunnerServesWaiter, Settling
<1>4. \A side \in Sides : Unapplied(k, side) \in Int
  BY <1>3 DEF Unapplied, Change
<1>5. \A object \in Objects(k) : heap[k][object] \in Int
  BY <1>1, <1>2
<1>6. Balance(k) \in Int
  BY DEF TypeOK, Balance
<1> QED
  BY <1>2, <1>4, <1>5, <1>6

\* An object keeps its drift when nothing it is measured by changes.
LEMMA DriftKept ==
    ASSUME NEW k \in Keys, Accurate(k),
           Objects(k)' \subseteq Objects(k),
           heap'[k] = heap[k],
           UNCHANGED <<Balance(k), Unapplied(k, "debit"), Unapplied(k, "credit")>>
    PROVE  Accurate(k)'
BY DEF Accurate, Drift

\* The row balanceUpdate is about to apply, or one that nobody will apply.
LEMMA PostRowDrift ==
    ASSUME TypeOK, Lifecycle, PointersValid, DebtorFirst,
           NEW k \in Keys, Accurate(k), NEW c \in Calls, PostRow(c)
    PROVE  Accurate(k)' \/ Explained(k)
<1>1. /\ c \in inflight /\ c \in checked /\ IsTransfer(req[c]) /\ req[c].amount \in Int
      /\ Awaited(c) \/ Orphaned(c)
      /\ DebitKey(req[c]) # CreditKey(req[c])
  BY DEF PostRow, TypeOK, Lifecycle, StatementsAccounted
<1>2. /\ UNCHANGED <<req, out, userMap, heap>> /\ c \in posted'
      /\ debits' = [debits EXCEPT ![DebitKey(req[c])] = @ + Numeric(req[c].amount)]
      /\ credits' = [credits EXCEPT ![CreditKey(req[c])] = @ + Numeric(req[c].amount)]
  BY DEF PostRow, TxOf, DebitsAfter, CreditsAfter, callVars, cacheVars
<1>3. CASE ~Touches(c, k)
  <2>1. Balance(k)' = Balance(k)
    BY <1>1, <1>2, <1>3 DEF Touches, Balance, TypeOK
  <2>2. CASE Awaited(c)
    <3>1. /\ runner.pc = "insert" /\ runner.call = c
          /\ runner'.pc = "apply" /\ runner'.call = c
      BY <2>2 DEF PostRow, Awaited, TypeOK
    <3>2. /\ Objects(k)' \subseteq Objects(k)
          /\ UNCHANGED <<Unapplied(k, "debit"), Unapplied(k, "credit")>>
      BY <1>1, <1>2, <1>3, <3>1
         DEF Objects, Unapplied, Settling, SideKey, Touches, CreditKey, DebitKey
    <3> QED
      BY <1>2, <2>1, <3>2, DriftKept
  <2>3. CASE ~Awaited(c)
    <3>1. runner' = runner
      BY <2>3 DEF PostRow
    <3>2. /\ Objects(k)' \subseteq Objects(k)
          /\ UNCHANGED <<Unapplied(k, "debit"), Unapplied(k, "credit")>>
      BY <1>2, <3>1 DEF Objects, Unapplied, Settling, SideKey, AppliedTo, Change, CreditKey, DebitKey
    <3> QED
      BY <1>2, <2>1, <3>2, DriftKept
  <2> QED
    BY <2>2, <2>3
<1>4. CASE Touches(c, k) /\ Orphaned(c)
  BY <1>2, <1>4 DEF Explained, Orphaned
<1>5. CASE Touches(c, k) /\ ~IsWhole(req[c].amount)
  BY <1>2, <1>5 DEF Explained
<1>6. CASE Touches(c, k) /\ Awaited(c) /\ IsWhole(req[c].amount)
  <2> DEFINE a == req[c].amount
  <2>1. /\ runner.pc = "insert" /\ runner.call = c /\ runner.side = "debit"
        /\ runner'.pc = "apply" /\ runner'.call = c /\ runner'.side = "debit"
    BY <1>6 DEF PostRow, Awaited, TypeOK, DebtorFirst
  <2>2. Objects(k)' = Objects(k) /\ Unapplied(k, "debit") = 0 /\ Unapplied(k, "credit") = 0
    BY <1>2, <2>1 DEF Objects, Unapplied, Settling
  <2>3. /\ Unapplied(k, "debit")'  = IF DebitKey(req[c]) = k THEN -a ELSE 0
        /\ Unapplied(k, "credit")' = IF CreditKey(req[c]) = k THEN a ELSE 0
    BY <1>2, <2>1 DEF Unapplied, Settling, AppliedTo, SideKey, Change, CreditKey, DebitKey
  <2>4. Balance(k)' = Balance(k) + (IF DebitKey(req[c]) = k THEN -a ELSE a)
    <3>1. debits \in [Keys -> Int] /\ credits \in [Keys -> Int] /\ Numeric(a) = a /\ a \in Int
      BY <1>1, <1>6 DEF TypeOK, IsWhole
    <3>2. CASE DebitKey(req[c]) = k
      <4>1. debits'[k] = debits[k] + a /\ credits'[k] = credits[k]
        BY <1>1, <1>2, <3>1, <3>2
      <4> QED
        BY <3>1, <3>2, <4>1 DEF Balance
    <3>3. CASE DebitKey(req[c]) # k
      <4>1. debits'[k] = debits[k] /\ credits'[k] = credits[k] + a
        BY <1>1, <1>2, <1>6, <3>1, <3>3 DEF Touches
      <4> QED
        BY <3>1, <3>3, <4>1 DEF Balance
    <3> QED
      BY <3>2, <3>3
  <2>5. Unapplied(k, "debit")' + Unapplied(k, "credit")' = Balance(k)' - Balance(k)
    BY <1>1, <1>6, <2>3, <2>4, DriftTypes DEF Touches
  <2>6. /\ Unapplied(k, "debit")' \in Int /\ Unapplied(k, "credit")' \in Int
        /\ Balance(k) \in Int /\ Balance(k)' \in Int
    BY <1>1, <2>3, <2>4, DriftTypes
  <2>7. ASSUME NEW o \in Objects(k)
        PROVE  Drift(k, o)' = 0
    <3>1. heap[k][o] \in Int /\ heap'[k][o] = heap[k][o] /\ Drift(k, o) = 0
      BY <1>2, DriftTypes DEF Accurate
    <3>2. heap[k][o] - Balance(k) = 0
      BY <2>2, <2>6, <3>1 DEF Drift
    <3> QED
      BY <2>5, <2>6, <3>1, <3>2 DEF Drift
  <2> QED
    BY <2>2, <2>7 DEF Accurate
<1> QED
  BY <1>1, <1>3, <1>4, <1>5, <1>6

\* The sum stays when two of its terms are replaced by two of the same sum.
LEMMA SumKept ==
    ASSUME NEW x \in Int, NEW y \in Int, NEW z \in Int, NEW b \in Int,
           NEW u \in Int, NEW v \in Int, u + v = x + y, x + y + z = b
    PROVE  u + v + z = b /\ u + z + v = b
OBVIOUS

\* The object balanceUpdate assigns to is the cached one.
LEMMA ApplyDrift ==
    ASSUME TypeOK, Lifecycle, PointersValid, NEW k \in Keys, Accurate(k), Apply
    PROVE  Accurate(k)'
<1>0. PICK s \in Sides : runner.side = s
  BY DEF TypeOK
<1> DEFINE j == SideKey(runner.call, s)
           change == Change(runner.call, s)
<1>1. /\ runner.pc = "apply" /\ userMap[j] # 0
      /\ heap' = [heap EXCEPT ![j][userMap[j]] = @ + change]
      /\ runner'.pc = "applied" /\ runner'.side = s /\ runner'.call = runner.call
      /\ runner'.ptr = userMap[j]
      /\ UNCHANGED <<debits, credits, userMap, req>>
  BY <1>0 DEF Apply, TypeOK, dbVars, callVars
<1>2. runner.call \in Calls /\ req[runner.call].amount \in Int
  BY <1>1 DEF TypeOK, Lifecycle, RunnerServesWaiter, Settling
<1>3. /\ \A c, side : SideKey(c, side)' = SideKey(c, side) /\ Change(c, side)' = Change(c, side)
      /\ Balance(k)' = Balance(k)
  BY <1>1 DEF SideKey, Change, CreditKey, DebitKey, Balance
<1>4. Objects(k)' = Objects(k)
  BY <1>0, <1>1, <1>3 DEF Objects
<1>5. \A side \in Sides : side # s => Unapplied(k, side)' = Unapplied(k, side)
  BY <1>0, <1>1, <1>2, <1>3 DEF Unapplied, Settling, AppliedTo, Sides
<1>6. Unapplied(k, s)' = 0 /\ Unapplied(k, s) = IF j = k THEN change ELSE 0
  BY <1>0, <1>1, <1>2, <1>3 DEF Unapplied, Settling, AppliedTo, Sides
<1>7. change \in Int
  BY <1>2 DEF Change
<1> HIDE DEF change, j
<1>8. ASSUME NEW o \in Objects(k)
      PROVE  heap'[k][o] + Unapplied(k, s)' = heap[k][o] + Unapplied(k, s) /\ heap'[k][o] \in Int
  <2>1. o \in 1..Len(heap[k]) /\ heap[k][o] \in Int /\ heap[k] \in Seq(Int)
    BY <1>8, DriftTypes DEF TypeOK
  <2>2. CASE j # k
    BY <1>1, <1>6, <2>1, <2>2 DEF TypeOK
  <2>3. CASE j = k
    <3>1. o = userMap[k]
      BY <1>1, <1>8 DEF Objects
    <3>2. heap'[k] = [heap[k] EXCEPT ![userMap[k]] = @ + change]
      BY <1>1, <2>3 DEF TypeOK
    <3>3. heap'[k][o] = heap[k][o] + change
      BY <2>1, <3>1, <3>2
    <3> QED
      BY <1>6, <1>7, <2>1, <2>3, <3>3
  <2> QED
    BY <2>2, <2>3
<1>9. ASSUME NEW o \in Objects(k)
      PROVE  Drift(k, o)' = 0
  <2>1. /\ Unapplied(k, "debit") \in Int /\ Unapplied(k, "credit") \in Int /\ Balance(k) \in Int
        /\ heap[k][o] \in Int /\ Drift(k, o) = 0
    BY DriftTypes DEF Sides, Accurate
  <2>2. heap'[k][o] + Unapplied(k, s)' = heap[k][o] + Unapplied(k, s) /\ heap'[k][o] \in Int
    BY <1>8
  <2>3. Unapplied(k, s)' \in Int /\ Unapplied(k, s) \in Int
    BY <1>6, <1>7
  <2>4. heap[k][o] + Unapplied(k, "debit") + Unapplied(k, "credit") = Balance(k)
    BY <2>1 DEF Drift
  <2>5. heap'[k][o] + Unapplied(k, "debit")' + Unapplied(k, "credit")' = Balance(k)
    <3>1. PICK h \in Int, d \in Int, c \in Int, b \in Int, h1 \in Int, m \in Int :
             /\ h = heap[k][o] /\ d = Unapplied(k, "debit") /\ c = Unapplied(k, "credit") /\ b = Balance(k)
             /\ h1 = heap'[k][o] /\ m = Unapplied(k, s)'
      BY <2>1, <2>2, <2>3
    <3>2. h + d + c = b
      BY <2>4, <3>1
    <3>3. CASE s = "debit"
      <4>1. Unapplied(k, "credit")' = c
        BY <1>5, <3>1, <3>3 DEF Sides
      <4>2. h1 + m = h + d
        BY <2>2, <3>1, <3>3
      <4>3. h1 + m + c = b
        BY <3>2, <4>2, SumKept
      <4> QED
        BY <3>1, <3>3, <4>1, <4>3
    <3>4. CASE s = "credit"
      <4>1. Unapplied(k, "debit")' = d
        BY <1>5, <3>1, <3>4 DEF Sides
      <4>2. h1 + m = h + c
        BY <2>2, <3>1, <3>4
      <4>3. h + c + d = b
        BY <3>2
      <4>4. h1 + d + m = b
        BY <4>2, <4>3, SumKept
      <4> QED
        BY <3>1, <3>4, <4>1, <4>4
    <3> QED
      BY <3>3, <3>4 DEF Sides
  <2>6. Unapplied(k, "debit")' \in Int /\ Unapplied(k, "credit")' \in Int
    BY <1>5, <2>1, <2>3 DEF Sides
  <2> QED
    BY <1>3, <2>1, <2>2, <2>5, <2>6 DEF Drift
<1> QED
  BY <1>4, <1>9 DEF Accurate

\* getAndSet stores what it read, which is the balance when nothing is under way.
LEMMA FillDrift ==
    ASSUME TypeOK, Lifecycle, PointersValid, CacheInv, [Next]_vars,
           NEW k \in Keys, Accurate(k), NEW c \in Calls, Fill(c)
    PROVE  Accurate(k)' \/ Explained(k)
<1>1. pc[c] = "fill" /\ pc'[c] # "fill"
  <2>1. \E p \in {"get", "send", "done", "create"} : pc' = [pc EXCEPT ![c] = p]
    BY DEF Fill, NotFound, Advance, Return
  <2> QED
    BY <2>1 DEF Fill, TypeOK
<1>2. /\ userMap'[k] = IF k \in snap[c].keys THEN Len(heap[k]) + 1 ELSE userMap[k]
      /\ heap'[k] = IF k \in snap[c].keys THEN Append(heap[k], snap[c].bal[k]) ELSE heap[k]
      /\ UNCHANGED <<debits, credits, runner, req>>
  BY DEF Fill, dbVars
<1>3. CASE Updating(k)
  BY <1>1, <1>3 DEF Explained
<1>4. CASE Tainted(k)
  BY <1>2, <1>4, TaintStays, TaintExplains
<1>5. CASE ~Updating(k) /\ ~Tainted(k)
  <2>1. /\ Unapplied(k, "debit") = 0 /\ Unapplied(k, "credit") = 0
        /\ Objects(k) = {userMap[k]} \ {0}
        /\ runner.pc \in {"applied", "locking"} => SideKey(runner.call, runner.side) # k
    BY <1>5, NotUpdating
  <2>2. UNCHANGED <<Balance(k), Unapplied(k, "debit"), Unapplied(k, "credit")>>
    BY <1>2 DEF Balance, Unapplied, Settling, SideKey, AppliedTo, Change, CreditKey, DebitKey
  <2>3. Objects(k)' = {userMap'[k]} \ {0}
    BY <1>2, <2>1 DEF Objects, SideKey, CreditKey, DebitKey
  <2>4. CASE k \notin snap[c].keys
    BY <1>2, <2>1, <2>2, <2>3, <2>4, DriftKept
  <2>5. CASE k \in snap[c].keys
    <3>1. snap[c].bal[k] = Balance(k)
      BY <1>1, <1>5, <2>5 DEF CacheInv, SnapshotsFresh
    <3>2. Balance(k) \in Int /\ heap[k] \in Seq(Int)
      BY DriftTypes DEF TypeOK
    <3>3. heap'[k][Len(heap[k]) + 1] = Balance(k)
      BY <1>2, <2>5, <3>1, <3>2, AppendFacts
    <3>4. \A o \in Objects(k)' : Drift(k, o)' = 0
      BY <1>2, <2>1, <2>2, <2>3, <2>5, <3>2, <3>3 DEF Drift
    <3> QED
      BY <3>4 DEF Accurate
  <2> QED
    BY <2>4, <2>5
<1> QED
  BY <1>3, <1>4, <1>5

\* put keeps the object balanceUpdate assigned to.
LEMMA PutDrift ==
    ASSUME TypeOK, Lifecycle, PointersValid, NEW k \in Keys, Accurate(k), Put
    PROVE  Accurate(k)'
<1> DEFINE j == SideKey(runner.call, runner.side)
<1>1. /\ runner.pc = "locking"
      /\ userMap' = [userMap EXCEPT ![j] = runner.ptr]
      /\ runner'.pc = "emit" /\ runner'.side = runner.side /\ runner'.call = runner.call
      /\ UNCHANGED <<debits, credits, heap, req>>
  BY DEF Put, TypeOK, dbVars, callVars
<1>2. /\ \A c, side : SideKey(c, side)' = SideKey(c, side) /\ Change(c, side)' = Change(c, side)
      /\ Balance(k)' = Balance(k)
  BY <1>1 DEF SideKey, Change, CreditKey, DebitKey, Balance
<1>3. UNCHANGED <<Unapplied(k, "debit"), Unapplied(k, "credit")>>
  BY <1>1, <1>2 DEF Unapplied, Settling, AppliedTo
<1>4. Objects(k)' \subseteq Objects(k)
  BY <1>1, <1>2 DEF Objects, TypeOK
<1> QED
  BY <1>1, <1>2, <1>3, <1>4, DriftKept

\* Publishing a side changes no balance and leaves the other side to apply.
LEMMA EmitDrift ==
    ASSUME TypeOK, NEW k \in Keys, Accurate(k), Emit
    PROVE  Accurate(k)'
<1>1. runner.pc = "emit" /\ UNCHANGED <<debits, credits, userMap, heap, req>>
  BY DEF Emit, dbVars, cacheVars
<1>2. /\ \A c, side : SideKey(c, side)' = SideKey(c, side) /\ Change(c, side)' = Change(c, side)
      /\ Balance(k)' = Balance(k)
  BY <1>1 DEF SideKey, Change, CreditKey, DebitKey, Balance
<1>3. CASE runner.side = "debit"
  <2>1. runner'.pc = "apply" /\ runner'.side = "credit" /\ runner'.call = runner.call
    BY <1>3 DEF Emit, TypeOK
  <2>2. /\ Objects(k)' \subseteq Objects(k)
        /\ UNCHANGED <<Unapplied(k, "debit"), Unapplied(k, "credit")>>
    BY <1>1, <1>2, <1>3, <2>1 DEF Objects, Unapplied, Settling, AppliedTo
  <2> QED
    BY <1>1, <1>2, <2>2, DriftKept
<1>4. CASE runner.side = "credit"
  <2>1. runner'.pc = "idle"
    BY <1>4 DEF Emit, RunnerIdle
  <2>2. /\ Objects(k)' \subseteq Objects(k)
        /\ UNCHANGED <<Unapplied(k, "debit"), Unapplied(k, "credit")>>
    BY <1>1, <1>4, <2>1 DEF Objects, Unapplied, Settling, AppliedTo
  <2> QED
    BY <1>1, <1>2, <2>2, DriftKept
<1> QED
  BY <1>3, <1>4 DEF TypeOK, Sides

\* Every other step: only Fill and PostRow can part a cached balance from the database's.
LEMMA DriftStep ==
    ASSUME TypeOK, Lifecycle, PointersValid, CacheInv, [Next]_vars,
           NEW k \in Keys, Accurate(k)
    PROVE  Accurate(k)' \/ Explained(k)
<1>1. ASSUME UNCHANGED <<debits, credits, userMap, heap, runner, req>>
      PROVE  Accurate(k)'
  <2>1. /\ Objects(k)' \subseteq Objects(k)
        /\ UNCHANGED <<Balance(k), Unapplied(k, "debit"), Unapplied(k, "credit")>>
    BY <1>1 DEF Objects, Balance, Unapplied, Settling, SideKey, AppliedTo, Change,
                CreditKey, DebitKey
  <2> QED
    BY <1>1, <2>1, DriftKept
<1>2. ASSUME UNCHANGED <<debits, credits, userMap, heap>>,
             runner.pc \in {"idle", "insert"}, runner'.pc \in {"idle", "insert", "stopped"}
      PROVE  Accurate(k)'
  <2>1. /\ Objects(k)' \subseteq Objects(k)
        /\ UNCHANGED <<Balance(k), Unapplied(k, "debit"), Unapplied(k, "credit")>>
    BY <1>2 DEF Objects, Balance, Unapplied, Settling
  <2> QED
    BY <1>2, <2>1, DriftKept
<1>3. ASSUME NEW c \in Calls, Start(c) \/ Handler(c)
      PROVE  Accurate(k)' \/ Explained(k)
  <2>1. UNCHANGED <<debits, credits, runner, req>>
    BY <1>3, HandlerReads DEF CacheInv
  <2>2. CASE Fill(c)
    BY <2>2, FillDrift
  <2>3. CASE ~Fill(c)
    <3>1. UNCHANGED <<userMap, heap>>
      BY <1>3, <2>3
         DEF Handler, Start, GetHit, GetMiss, Load, LoadFails, CreateRow, CreateReturns,
             CreateFails, ParseFails, Enqueue, QueueFull, cacheVars
    <3> QED
      BY <1>1, <2>1, <3>1
  <2> QED
    BY <2>2, <2>3
<1>4. ASSUME NEW c \in Calls, Statement(c)
      PROVE  Accurate(k)' \/ Explained(k)
  <2>1. CASE CheckRow(c)
    BY <1>1, <2>1 DEF CheckRow, callVars, cacheVars
  <2>2. CASE PostRow(c)
    BY <2>2, PostRowDrift DEF CacheInv
  <2>3. CASE RejectRow(c) /\ Awaited(c)
    BY <1>2, <2>3 DEF RejectRow, Awaited, RunnerIdle, cacheVars
  <2>4. CASE RejectRow(c) /\ ~Awaited(c)
    BY <1>1, <2>4 DEF RejectRow, cacheVars
  <2> QED
    BY <1>4, <2>1, <2>2, <2>3, <2>4 DEF Statement
<1>5. CASE ConnectionLost
  BY <1>2, <1>5 DEF ConnectionLost, RunnerIdle, dbVars, cacheVars
<1>6. CASE Take
  BY <1>2, <1>6 DEF Take, RunnerIdle, cacheVars
<1>7. CASE AnnounceWriter
  <2>1. /\ runner.pc = "applied" /\ UNCHANGED <<debits, credits, userMap, heap, req>>
        /\ runner'.pc = "locking" /\ runner'.side = runner.side
        /\ runner'.call = runner.call /\ runner'.ptr = runner.ptr
    BY <1>7 DEF AnnounceWriter, TypeOK, dbVars, cacheVars, callVars
  <2>2. /\ Objects(k)' \subseteq Objects(k)
        /\ UNCHANGED <<Balance(k), Unapplied(k, "debit"), Unapplied(k, "credit")>>
    BY <2>1 DEF Objects, Balance, Unapplied, Settling, SideKey, AppliedTo, Change,
                CreditKey, DebitKey
  <2> QED
    BY <2>1, <2>2, DriftKept
<1>8. CASE Crash
  <2>1. Objects(k)' = {}
    BY <1>8 DEF Crash, Objects, RunnerIdle
  <2> QED
    BY <2>1 DEF Accurate
<1>9. CASE Restart
  <2>1. runner.pc = "idle" /\ runner' = runner /\ UNCHANGED <<debits, credits>>
    BY <1>9 DEF Restart, Lifecycle, DeadIsSilent, dbVars
  <2>2. /\ Unapplied(k, "debit")' = 0 /\ Unapplied(k, "credit")' = 0
        /\ Objects(k)' = {userMap'[k]} \ {0} /\ Balance(k)' = Balance(k)
    BY <2>1 DEF Unapplied, Settling, Objects, Balance
  <2>3. Balance(k) \in Int
    BY DriftTypes
  <2>4. \A o \in Objects(k)' : heap'[k][o] = Balance(k)
    BY <1>9, <2>2 DEF Restart
  <2> QED
    BY <2>2, <2>3, <2>4 DEF Accurate, Drift
<1>10. CASE Broadcast \/ Quiescent \/ UNCHANGED vars
  BY <1>1, <1>10 DEF Broadcast, Quiescent, vars, dbVars, cacheVars, callVars
<1> QED
  BY <1>3, <1>4, <1>5, <1>6, <1>7, <1>8, <1>9, <1>10, ApplyDrift, PutDrift, EmitDrift
     DEF Next, Runner

-----------------------------------------------------------------------------
(***************************************************************************)
(* No balance read by getAndSet is stored stale: what Fill writes is the   *)
(* database's balance, unless balanceUpdate is inside its window or the    *)
(* account has a transfer the cache never applied.                         *)
(***************************************************************************)
THEOREM CacheConsistent == Spec => []CacheInv
<1>1. TypeOK /\ Lifecycle /\ PointersValid /\ LookupsCached /\ CacheInv /\ [Next]_vars => CacheInv'
  BY CacheStep
<1> QED
  BY <1>1, InitCache, Correctness, PTL DEF Spec

(***************************************************************************)
(* DriftCauses: a cached balance leaves the database's only through a miss *)
(* inside balanceUpdate's window, a posted transfer that was reported      *)
(* failed, or an amount NUMERIC(28) rounds.                                *)
(***************************************************************************)
THEOREM DriftExplained == Spec => DriftCauses
<1>1. TypeOK /\ Lifecycle /\ PointersValid /\ LookupsCached /\ CacheInv /\ [Next]_vars =>
        [\A k \in Keys :
           Accurate(k) /\ ~Accurate(k)' =>
              \/ Updating(k) /\ \E c \in Calls : pc[c] = "fill" /\ pc'[c] # "fill"
              \/ \E c \in posted' : Touches(c, k) /\ out'[c] \in {"error", "lost"}
              \/ \E c \in posted' : Touches(c, k) /\ ~IsWhole(req[c].amount)]_vars
  BY DriftStep DEF Explained
<1> QED
  BY <1>1, CacheConsistent, Correctness, PTL DEF Spec, DriftCauses
=============================================================================
