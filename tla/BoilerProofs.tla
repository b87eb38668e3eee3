----------------------------- MODULE BoilerProofs -----------------------------
(***************************************************************************)
(* What TLAPS proves of the generated database layer (src/boiler), for any *)
(* rows, objects and numbers of calls: the operations of ActiveRecord keep *)
(* an invariant, and every function of Boiler is one of them.              *)
(***************************************************************************)
EXTENDS Boiler, FiniteSetTheorems, TLAPS

\* The objects of one table.
ObjectOf(t) ==
    [table : {t}, id : Keys[t], cols : [Columns(t) -> Int], seen : Nat,
     unsaved : SUBSET Columns(t),
     one : [ToOne(t) -> Nat], many : [ToMany(t) -> SUBSET Nat]]

HeapTyped == heap \in Seq(UNION {ObjectOf(t) : t \in Tables})

\* o.R points to objects of the tables the relation connects.
PointersTyped ==
    \A o \in Objects :
        /\ \A r \in ToOne(heap[o].table) :
             heap[o].one[r] = Nil \/ IsA(ForeignKey[r].foreign, heap[o].one[r])
        /\ \A r \in ToMany(heap[o].table) : \A c \in heap[o].many[r] : IsA(ForeignKey[r].table, c)

\* The foreign keys hold, and a row that exists was written.
RowsWell ==
    /\ DOMAIN db = Tables /\ DOMAIN version = Tables
    /\ \A t \in Tables :
         /\ IsFiniteSet(DOMAIN db[t]) /\ DOMAIN db[t] \subseteq Keys[t]
         /\ db[t] \in [DOMAIN db[t] -> [Columns(t) -> Int]]
         /\ version[t] \in [Keys[t] -> Nat]
         /\ \A id \in DOMAIN db[t] : version[t][id] > 0 /\ RefersWell(t, Row(t, id))

\* No object has seen a version that was not written yet.
SeenWritten == \A o \in Objects : heap[o].seen <= version[heap[o].table][heap[o].id]

(***************************************************************************)
(* A call of several statements works on objects of the tables its         *)
(* relation connects, and the objects an Add is done with have the key.    *)
(***************************************************************************)
CallTyped ==
    /\ call \in [op : {"none", "eager", "set", "add"}, rel : Relations \cup {"none"},
                 parent : Nat, insert : BOOLEAN, todo : Seq(Nat), done : SUBSET Nat,
                 rels : Seq(Relations), loaded : SUBSET Relations]
    /\ call.op = "eager" =>
         \E t \in Tables : /\ \A o \in call.done : IsA(t, o) /\ heap[o].unsaved = {}
                           /\ call.rels \in Seq(ToOne(t)) /\ call.loaded \subseteq ToOne(t)
    /\ call.op \in {"set", "add"} =>
         /\ call.rel \in Relations
         /\ IsA(ForeignKey[call.rel].foreign, call.parent)
         /\ \A i \in 1..Len(call.todo) : IsA(ForeignKey[call.rel].table, call.todo[i])
    /\ call.op = "set" => call.todo # <<>>
    /\ call.op = "add" =>
         \A o \in call.done :
            /\ IsA(ForeignKey[call.rel].table, o)
            /\ heap[o].cols[ForeignKey[call.rel].column] = heap[call.parent].id

BoundsTyped == half \subseteq Objects \X Relations /\ calls \in Nat /\ writes \in Nat

Shape == HeapTyped /\ PointersTyped /\ RowsWell /\ CallTyped /\ BoundsTyped

BoilerInv == Shape /\ SeenWritten /\ CopyAgrees /\ RelationsFollowKeys /\ EagerLoadComplete

-----------------------------------------------------------------------------
(* The schema.                                                             *)

\* No table refers to itself, and no column is two foreign keys.
LEMMA Schema ==
    /\ \A r \in Relations :
         /\ ForeignKey[r].table \in Tables /\ ForeignKey[r].foreign \in Tables
         /\ ForeignKey[r].table # ForeignKey[r].foreign
         /\ ForeignKey[r].column \in Columns(ForeignKey[r].table)
         /\ r \in ToOne(ForeignKey[r].table) /\ r \in ToMany(ForeignKey[r].foreign)
         /\ ForeignKey[r].table = "accounts" /\ ForeignKey[r].column = "account_code" =>
              ForeignKey[r].foreign = "account_codes"
    /\ \A r, q \in Relations :
         ForeignKey[r].table = ForeignKey[q].table /\ ForeignKey[r].column = ForeignKey[q].column => r = q
    /\ \A t \in Tables :
         /\ ToOne(t) \subseteq Relations /\ ToMany(t) \subseteq Relations
         /\ \A r \in ToOne(t) : ForeignKey[r].table = t
         /\ \A r \in ToMany(t) : ForeignKey[r].foreign = t
<1>1. \A r \in Relations :
         /\ ForeignKey[r].table \in Tables /\ ForeignKey[r].foreign \in Tables
         /\ ForeignKey[r].table # ForeignKey[r].foreign
         /\ ForeignKey[r].column \in Columns(ForeignKey[r].table)
         /\ ForeignKey[r].table = "accounts" /\ ForeignKey[r].column = "account_code" =>
              ForeignKey[r].foreign = "account_codes"
  BY DEF Relations, ForeignKey, FK, Tables, Columns
<1>2. \A r, q \in Relations :
         ForeignKey[r].table = ForeignKey[q].table /\ ForeignKey[r].column = ForeignKey[q].column => r = q
  BY DEF Relations, ForeignKey, FK
<1> QED
  BY <1>1, <1>2 DEF ToOne, ToMany

\* Columns with one of them assigned.
LEMMA AssignColumn ==
    ASSUME NEW S, NEW T, NEW f \in [S -> T], NEW c, NEW v \in T
    PROVE  /\ [f EXCEPT ![c] = v] \in [S -> T]
           /\ c \in S => [f EXCEPT ![c] = v][c] = v
           /\ \A d \in S : d # c => [f EXCEPT ![c] = v][d] = f[d]
OBVIOUS

\* Only account code 0 is replaced by the default, and no account code has that id.
LEMMA StoredFacts ==
    ASSUME NEW t \in Tables, NEW cols \in [Columns(t) -> Int]
    PROVE  /\ Stored(t, cols) \in [Columns(t) -> Int]
           /\ \A r \in ToOne(t) :
                cols[ForeignKey[r].column] \in Keys[ForeignKey[r].foreign] =>
                     Stored(t, cols)[ForeignKey[r].column] = cols[ForeignKey[r].column]
<1>1. CASE t = "accounts" /\ cols["account_code"] = 0
  <2>1. Stored(t, cols) = [cols EXCEPT !["account_code"] = 1]
    BY <1>1 DEF Stored
  <2>2. ASSUME NEW r \in ToOne(t), cols[ForeignKey[r].column] \in Keys[ForeignKey[r].foreign]
        PROVE  Stored(t, cols)[ForeignKey[r].column] = cols[ForeignKey[r].column]
    <3>1. ForeignKey[r].column # "account_code"
      BY <1>1, <2>2, Schema, SceneAssumption
    <3> QED
      BY <2>1, <3>1, Schema
  <2>3. Stored(t, cols) \in [Columns(t) -> Int]
    BY <2>1, AssignColumn
  <2> QED
    BY <2>2, <2>3
<1>2. CASE ~(t = "accounts" /\ cols["account_code"] = 0)
  BY <1>2 DEF Stored
<1> QED
  BY <1>1, <1>2

-----------------------------------------------------------------------------
(* The heap.                                                               *)

AnyObject == UNION {ObjectOf(t) : t \in Tables}

LEMMA HeapFacts ==
    ASSUME HeapTyped
    PROVE  /\ Len(heap) \in Nat /\ Objects = 1..Len(heap) /\ heap \in Seq(AnyObject)
           /\ \A o \in Objects :
                /\ o \in Nat /\ o # Nil
                /\ heap[o].table \in Tables /\ heap[o] \in ObjectOf(heap[o].table)
                /\ heap[o].id \in Keys[heap[o].table] /\ heap[o].seen \in Nat
                /\ heap[o].cols \in [Columns(heap[o].table) -> Int]
                /\ heap[o].unsaved \in SUBSET Columns(heap[o].table)
                /\ heap[o].one \in [ToOne(heap[o].table) -> Nat]
                /\ heap[o].many \in [ToMany(heap[o].table) -> SUBSET Nat]
<1>1. heap \in Seq(AnyObject)
  BY DEF HeapTyped, AnyObject
<1>2. Len(heap) \in Nat /\ Objects = 1..Len(heap)
  BY <1>1 DEF Objects
<1>3. \A o \in Objects : heap[o] \in AnyObject
  BY <1>1, <1>2
<1>4. \A o \in Objects : \E t \in Tables : heap[o] \in ObjectOf(t)
  BY <1>3 DEF AnyObject
<1>5. \A o \in Objects : heap[o].table \in Tables /\ heap[o] \in ObjectOf(heap[o].table)
  BY <1>4 DEF ObjectOf
<1> QED
  BY <1>1, <1>2, <1>5 DEF ObjectOf, Nil

\* A function on 1..n whose values are objects is a heap.
LEMMA IsHeap ==
    ASSUME NEW n \in Nat, NEW h, DOMAIN h = 1..n, h = [o \in 1..n |-> h[o]],
           \A o \in 1..n : \E t \in Tables : h[o] \in ObjectOf(t)
    PROVE  h \in Seq(AnyObject) /\ Len(h) = n
<1>1. \A o \in 1..n : h[o] \in AnyObject
  BY DEF AnyObject
<1>2. h \in [1..n -> AnyObject]
  BY <1>1
<1> QED
  BY <1>2

\* The objects of the heap, some of them changed.
LEMMA ChangeFacts ==
    ASSUME HeapTyped, NEW h, DOMAIN h = Objects, h = [o \in Objects |-> h[o]],
           \A o \in Objects : h[o] \in ObjectOf(heap[o].table)
    PROVE  h \in Seq(AnyObject) /\ Len(h) = Len(heap)
BY HeapFacts, IsHeap

\* New objects behind those of h.
Appended(all, h, m, new, n) ==
    /\ all \in Seq(AnyObject) /\ Len(all) = m + n
    /\ \A o \in 1..m : all[o] = h[o] /\ o \in 1..Len(all)
    /\ \A i \in 1..n : all[m + i] = new[i] /\ m + i \in 1..Len(all)
    /\ \A o \in 1..Len(all) : o \in 1..m \/ \E i \in 1..n : o = m + i

LEMMA AppendedFacts ==
    ASSUME NEW h \in Seq(AnyObject), NEW new \in Seq(AnyObject),
           NEW m, m = Len(h), NEW n, n = Len(new), NEW all, all = h \o new
    PROVE  Appended(all, h, m, new, n)
<1>1. m \in Nat /\ n \in Nat
  OBVIOUS
<1>2. all \in Seq(AnyObject) /\ Len(all) = m + n
  OBVIOUS
<1>3. \A o \in 1..m : all[o] = h[o]
  OBVIOUS
<1>4. \A i \in 1..n : all[m + i] = new[i]
  OBVIOUS
<1>5. \A o \in 1..(m + n) : o \in 1..m \/ \E i \in 1..n : o = m + i
  <2>1. ASSUME NEW o \in 1..(m + n), o \notin 1..m
        PROVE  o - m \in 1..n /\ o = m + (o - m)
    BY <1>1, <2>1
  <2> QED
    BY <2>1
<1>6. (\A o \in 1..m : o \in 1..(m + n)) /\ (\A i \in 1..n : m + i \in 1..(m + n))
  BY <1>1
<1> QED
  BY <1>2, <1>3, <1>4, <1>5, <1>6 DEF Appended

\* A new object has its type, and points nowhere.
LEMMA NewObjectFacts ==
    ASSUME NEW t \in Tables, NEW id \in Keys[t], NEW cols \in [Columns(t) -> Int], NEW seen \in Nat
    PROVE  /\ NewObject(t, id, cols, seen) \in ObjectOf(t)
           /\ NewObject(t, id, cols, seen).table = t /\ NewObject(t, id, cols, seen).id = id
           /\ NewObject(t, id, cols, seen).cols = cols /\ NewObject(t, id, cols, seen).seen = seen
           /\ NewObject(t, id, cols, seen).unsaved = {}
           /\ \A r \in ToOne(t) : NewObject(t, id, cols, seen).one[r] = Nil
           /\ \A r \in ToMany(t) : NewObject(t, id, cols, seen).many[r] = {}
BY DEF NewObject, ObjectOf, Nil

-----------------------------------------------------------------------------
(* The database.                                                           *)

\* A statement writes the rows ids of table t, and no others.
Touched(t, ids) ==
    /\ \A u \in Tables : u # t => db'[u] = db[u] /\ version'[u] = version[u]
    /\ \A id \in Keys[t] :
         /\ version'[t][id] = IF id \in ids THEN version[t][id] + 1 ELSE version[t][id]
         /\ id \notin ids => Exists(t, id)' = Exists(t, id)
         /\ id \notin ids /\ Exists(t, id) => db'[t][id] = db[t][id]

\* What each statement must keep for the rows to stay as they should be.
LEMMA RowsStay ==
    ASSUME RowsWell, NEW t \in Tables, NEW ids,
           DOMAIN db' = Tables, DOMAIN version' = Tables,
           \A u \in Tables : u # t => db'[u] = db[u],
           IsFiniteSet(DOMAIN db'[t]), DOMAIN db'[t] \subseteq Keys[t],
           db'[t] \in [DOMAIN db'[t] -> [Columns(t) -> Int]],
           Written(t, ids),
           \A id \in DOMAIN db'[t] : id \in ids \/ id \in DOMAIN db[t],
           \A id \in DOMAIN db'[t] : RefersWell(t, db'[t][id]),
           \A r \in ToMany(t) : \A k \in DOMAIN db[ForeignKey[r].table] :
              db[ForeignKey[r].table][k][ForeignKey[r].column] \in DOMAIN db'[t]
    PROVE  /\ RowsWell'
           /\ \A u \in Tables : u # t => version'[u] = version[u]
           /\ \A id \in Keys[t] :
                version'[t][id] = IF id \in ids THEN version[t][id] + 1 ELSE version[t][id]
<1>1. /\ \A u \in Tables : u # t => version'[u] = version[u]
      /\ version'[t] = [id \in Keys[t] |-> IF id \in ids THEN version[t][id] + 1 ELSE version[t][id]]
  <2>1. DOMAIN version = Tables
    BY DEF RowsWell
  <2> QED
    BY <2>1 DEF Written
<1>2. \A u \in Tables : version'[u] \in [Keys[u] -> Nat]
  <2>1. \A u \in Tables : version[u] \in [Keys[u] -> Nat]
    BY DEF RowsWell
  <2> QED
    BY <1>1, <2>1
<1>3. \A id \in DOMAIN db'[t] : version'[t][id] > 0
  BY <1>1 DEF RowsWell
<1>4. \A id \in DOMAIN db'[t] : \A r \in ToOne(t) :
         db'[t][id][ForeignKey[r].column] \in DOMAIN db'[ForeignKey[r].foreign]
  BY Schema DEF RefersWell, Exists
<1>5. ASSUME NEW u \in Tables, u # t, NEW id \in DOMAIN db[u], NEW r \in ToOne(u)
      PROVE  db[u][id][ForeignKey[r].column] \in DOMAIN db'[ForeignKey[r].foreign]
  <2>1. r \in Relations /\ ForeignKey[r].table = u /\ ForeignKey[r].foreign \in Tables
    BY Schema
  <2>2. db[u][id][ForeignKey[r].column] \in DOMAIN db[ForeignKey[r].foreign]
    BY <1>5 DEF RowsWell, RefersWell, Row, Exists
  <2>3. CASE ForeignKey[r].foreign = t
    BY <1>5, <2>1, <2>3, Schema
  <2>4. CASE ForeignKey[r].foreign # t
    BY <2>1, <2>2, <2>4
  <2> QED
    BY <2>3, <2>4
<1>6. \A u \in Tables : \A id \in DOMAIN db'[u] :
         version'[u][id] > 0 /\ RefersWell(u, Row(u, id))'
  <2> SUFFICES ASSUME NEW u \in Tables, NEW id \in DOMAIN db'[u]
               PROVE  version'[u][id] > 0 /\ RefersWell(u, Row(u, id))'
    OBVIOUS
  <2>1. CASE u = t
    BY <1>3, <1>4, <2>1 DEF RefersWell, Row, Exists
  <2>2. CASE u # t
    <3>1. db'[u] = db[u] /\ version'[u] = version[u]
      BY <1>1, <2>2
    <3>2. version'[u][id] > 0
      BY <3>1 DEF RowsWell
    <3> QED
      BY <1>5, <2>2, <3>1, <3>2 DEF RefersWell, Row, Exists
  <2> QED
    BY <2>1, <2>2
<1>7. \A u \in Tables : /\ IsFiniteSet(DOMAIN db'[u]) /\ DOMAIN db'[u] \subseteq Keys[u]
                        /\ db'[u] \in [DOMAIN db'[u] -> [Columns(u) -> Int]]
  <2> SUFFICES ASSUME NEW u \in Tables
               PROVE  /\ IsFiniteSet(DOMAIN db'[u]) /\ DOMAIN db'[u] \subseteq Keys[u]
                      /\ db'[u] \in [DOMAIN db'[u] -> [Columns(u) -> Int]]
    OBVIOUS
  <2>1. u # t => db'[u] = db[u]
    OBVIOUS
  <2> QED
    BY <2>1 DEF RowsWell
<1> QED
  BY <1>1, <1>2, <1>6, <1>7 DEF RowsWell

\* Every row refers to rows.
LEMMA ReferencesHold ==
    ASSUME RowsWell, NEW t \in Tables
    PROVE  \A r \in ToMany(t) : \A k \in DOMAIN db[ForeignKey[r].table] :
              db[ForeignKey[r].table][k][ForeignKey[r].column] \in DOMAIN db[t]
<1> SUFFICES ASSUME NEW r \in ToMany(t), NEW k \in DOMAIN db[ForeignKey[r].table]
             PROVE  db[ForeignKey[r].table][k][ForeignKey[r].column] \in DOMAIN db[t]
  OBVIOUS
<1>1. /\ r \in Relations /\ ForeignKey[r].foreign = t
      /\ ForeignKey[r].table \in Tables /\ r \in ToOne(ForeignKey[r].table)
  BY Schema
<1> QED
  BY <1>1 DEF RowsWell, RefersWell, Row, Exists

\* INSERT or UPDATE of all the columns of one row.
LEMMA WriteRowFacts ==
    ASSUME RowsWell, NEW t \in Tables, NEW id \in Keys[t], NEW cols \in [Columns(t) -> Int],
           WriteRow(t, id, cols)
    PROVE  /\ RowsWell' /\ Touched(t, {id})
           /\ Exists(t, id)' /\ db'[t][id] = cols
<1>1. /\ DOMAIN db' = Tables /\ DOMAIN version' = Tables
      /\ \A u \in Tables : u # t => db'[u] = db[u]
      /\ db'[t] = [k \in DOMAIN db[t] \cup {id} |-> IF k = id THEN cols ELSE db[t][k]]
      /\ Written(t, {id}) /\ RefersWell(t, cols)
  BY DEF WriteRow, Written, RowsWell
<1>2. IsFiniteSet(DOMAIN db'[t]) /\ DOMAIN db'[t] = DOMAIN db[t] \cup {id} /\ DOMAIN db[t] \subseteq Keys[t]
  BY <1>1, FS_AddElement DEF RowsWell
<1>3. db'[t] \in [DOMAIN db'[t] -> [Columns(t) -> Int]]
  BY <1>1, <1>2 DEF RowsWell
<1>4. \A k \in DOMAIN db'[t] : RefersWell(t, db'[t][k])
  BY <1>1, <1>2 DEF RowsWell, Row
<1>5. \A r \in ToMany(t) : \A k \in DOMAIN db[ForeignKey[r].table] :
         db[ForeignKey[r].table][k][ForeignKey[r].column] \in DOMAIN db'[t]
  BY <1>2, ReferencesHold
<1>6. /\ RowsWell'
      /\ \A u \in Tables : u # t => version'[u] = version[u]
      /\ \A k \in Keys[t] :
           version'[t][k] = IF k \in {id} THEN version[t][k] + 1 ELSE version[t][k]
  <2>1. DOMAIN db'[t] \subseteq Keys[t] /\ \A k \in DOMAIN db'[t] : k \in {id} \/ k \in DOMAIN db[t]
    BY <1>2
  <2> QED
    BY <1>1, <1>2, <1>3, <1>4, <1>5, <2>1, RowsStay
<1>7. \A k \in Keys[t] : k # id => (k \in DOMAIN db'[t]) = (k \in DOMAIN db[t])
  BY <1>2
<1>8. \A k \in DOMAIN db[t] : k # id => db'[t][k] = db[t][k]
  BY <1>1
<1> QED
  BY <1>1, <1>2, <1>6, <1>7, <1>8 DEF Touched, Exists

\* UPDATE of one column.
LEMMA SetColumnFacts ==
    ASSUME RowsWell, NEW t \in Tables, NEW ids, ids \subseteq DOMAIN db[t],
           NEW column \in Columns(t), NEW value \in Int,
           SetColumn(t, ids, column, value)
    PROVE  /\ RowsWell' /\ Touched(t, ids)
           /\ \A u \in Tables : DOMAIN db'[u] = DOMAIN db[u]
           /\ \A id \in ids : db'[t][id] = [db[t][id] EXCEPT ![column] = value]
<1>1. /\ DOMAIN db' = Tables /\ DOMAIN version' = Tables
      /\ \A u \in Tables : u # t => db'[u] = db[u]
      /\ db'[t] = [k \in DOMAIN db[t] |-> IF k \in ids THEN [db[t][k] EXCEPT ![column] = value]
                                                       ELSE db[t][k]]
      /\ Written(t, ids)
      /\ \A id \in ids : RefersWell(t, [db[t][id] EXCEPT ![column] = value])
  BY DEF SetColumn, Written, RowsWell, Row
<1>2. /\ IsFiniteSet(DOMAIN db'[t]) /\ DOMAIN db'[t] = DOMAIN db[t] /\ DOMAIN db'[t] \subseteq Keys[t]
      /\ \A k \in DOMAIN db'[t] : k \in ids \/ k \in DOMAIN db[t]
  BY <1>1 DEF RowsWell
<1>3. db'[t] \in [DOMAIN db'[t] -> [Columns(t) -> Int]]
  <2>1. \A k \in DOMAIN db[t] : db[t][k] \in [Columns(t) -> Int]
    BY DEF RowsWell
  <2>2. \A k \in DOMAIN db[t] : [db[t][k] EXCEPT ![column] = value] \in [Columns(t) -> Int]
    BY <2>1, AssignColumn
  <2> QED
    BY <1>1, <1>2, <2>1, <2>2
<1>4. \A k \in DOMAIN db'[t] : RefersWell(t, db'[t][k])
  <2>1. \A k \in DOMAIN db[t] : RefersWell(t, db[t][k])
    BY DEF RowsWell, Row
  <2> QED
    BY <1>1, <1>2, <2>1
<1>5. \A r \in ToMany(t) : \A k \in DOMAIN db[ForeignKey[r].table] :
         db[ForeignKey[r].table][k][ForeignKey[r].column] \in DOMAIN db'[t]
  BY <1>2, ReferencesHold
<1>6. /\ RowsWell'
      /\ \A u \in Tables : u # t => version'[u] = version[u]
      /\ \A k \in Keys[t] :
           version'[t][k] = IF k \in ids THEN version[t][k] + 1 ELSE version[t][k]
  BY <1>1, <1>2, <1>3, <1>4, <1>5, RowsStay
<1> QED
  BY <1>1, <1>2, <1>6 DEF Touched, Exists

\* DELETE of rows no row refers to.
LEMMA RemoveRowsFacts ==
    ASSUME RowsWell, NEW t \in Tables, NEW ids, RemoveRows(t, ids)
    PROVE  /\ RowsWell' /\ Touched(t, ids)
           /\ \A u \in Tables : DOMAIN db'[u] \subseteq DOMAIN db[u]
           /\ \A id \in ids : ~Exists(t, id)'
<1>1. /\ DOMAIN db' = Tables /\ DOMAIN version' = Tables
      /\ \A u \in Tables : u # t => db'[u] = db[u]
      /\ db'[t] = [k \in DOMAIN db[t] \ ids |-> db[t][k]]
      /\ Written(t, ids)
      /\ \A id \in ids : ~Referenced(t, id)
  BY DEF RemoveRows, Written, RowsWell
<1>2. /\ IsFiniteSet(DOMAIN db'[t]) /\ DOMAIN db'[t] = DOMAIN db[t] \ ids /\ DOMAIN db'[t] \subseteq Keys[t]
      /\ \A k \in DOMAIN db'[t] : k \in ids \/ k \in DOMAIN db[t]
  BY <1>1, FS_Difference DEF RowsWell
<1>3. db'[t] \in [DOMAIN db'[t] -> [Columns(t) -> Int]]
  BY <1>1, <1>2 DEF RowsWell
<1>4. \A k \in DOMAIN db'[t] : RefersWell(t, db'[t][k])
  BY <1>1, <1>2 DEF RowsWell, Row
<1>5. \A r \in ToMany(t) : \A k \in DOMAIN db[ForeignKey[r].table] :
         db[ForeignKey[r].table][k][ForeignKey[r].column] \in DOMAIN db'[t]
  <2> SUFFICES ASSUME NEW r \in ToMany(t), NEW k \in DOMAIN db[ForeignKey[r].table]
               PROVE  db[ForeignKey[r].table][k][ForeignKey[r].column] \in DOMAIN db'[t]
    OBVIOUS
  <2>1. db[ForeignKey[r].table][k][ForeignKey[r].column] \in DOMAIN db[t]
    BY ReferencesHold
  <2>2. db[ForeignKey[r].table][k][ForeignKey[r].column] \notin ids
    BY <1>1 DEF Referenced, Row
  <2> QED
    BY <1>2, <2>1, <2>2
<1>6. /\ RowsWell'
      /\ \A u \in Tables : u # t => version'[u] = version[u]
      /\ \A k \in Keys[t] :
           version'[t][k] = IF k \in ids THEN version[t][k] + 1 ELSE version[t][k]
  BY <1>1, <1>2, <1>3, <1>4, <1>5, RowsStay
<1> QED
  BY <1>1, <1>2, <1>6 DEF Touched, Exists

\* An object that is level with its row after the statement was so before.
LEMMA LevelBefore ==
    ASSUME RowsWell, NEW t \in Tables, NEW ids, Touched(t, ids),
           NEW u \in Tables, NEW id \in Keys[u], NEW seen \in Nat, seen <= version[u][id]
    PROVE  /\ seen <= version'[u][id]
           /\ Exists(u, id)' /\ seen = version'[u][id] =>
                /\ Exists(u, id) /\ seen = version[u][id]
                /\ db'[u][id] = db[u][id]
<1>1. version[u][id] \in Nat
  BY DEF RowsWell
<1>2. CASE u = t
  BY <1>1, <1>2 DEF Touched
<1>3. CASE u # t
  BY <1>3 DEF Touched, Exists
<1> QED
  BY <1>2, <1>3

-----------------------------------------------------------------------------
(* What holds of one object.                                               *)

\* Its pointers are to objects of the right tables;
Pointers(o) ==
    /\ \A r \in ToOne(heap[o].table) :
         heap[o].one[r] = Nil \/ IsA(ForeignKey[r].foreign, heap[o].one[r])
    /\ \A r \in ToMany(heap[o].table) : \A c \in heap[o].many[r] : IsA(ForeignKey[r].table, c)

\* it has seen no later version than the row's, and is the row's copy at that one;
Copied(o) ==
    /\ heap[o].seen <= version[heap[o].table][heap[o].id]
    /\ InSync(o) => \A c \in Columns(heap[o].table) \ heap[o].unsaved :
                       heap[o].cols[c] = Row(heap[o].table, heap[o].id)[c]

\* its pointers follow its foreign keys.
Follows(o) ==
    \A r \in ToOne(heap[o].table) :
        heap[o].one[r] # Nil /\ <<o, r>> \notin half =>
            heap[heap[o].one[r]].id = heap[o].cols[ForeignKey[r].column]

ObjectInv(o) == Pointers(o) /\ Copied(o) /\ Follows(o)

Parts ==
    /\ HeapTyped /\ RowsWell /\ CallTyped /\ BoundsTyped /\ EagerLoadComplete
    /\ \A o \in Objects : ObjectInv(o)

LEMMA InvParts == (BoilerInv <=> Parts) /\ (BoilerInv' <=> Parts')
BY DEF BoilerInv, Shape, PointersTyped, SeenWritten, CopyAgrees, RelationsFollowKeys,
       Parts, ObjectInv, Pointers, Copied, Follows

\* Objects stay, with their tables and primary keys.
Grown ==
    /\ Objects \subseteq Objects'
    /\ \A o \in Objects : heap'[o].table = heap[o].table /\ heap'[o].id = heap[o].id

LEMMA IsAKept ==
    ASSUME Grown, NEW t, NEW o, IsA(t, o)
    PROVE  IsA(t, o)'
BY DEF Grown, IsA

LEMMA PointersKept ==
    ASSUME Grown, NEW o \in Objects, Pointers(o),
           heap'[o].one = heap[o].one, heap'[o].many = heap[o].many
    PROVE  Pointers(o)'
<1>1. heap'[o].table = heap[o].table
  BY DEF Grown
<1>2. \A r \in ToOne(heap[o].table) :
         heap[o].one[r] = Nil \/ IsA(ForeignKey[r].foreign, heap[o].one[r])'
  BY IsAKept DEF Pointers
<1>3. \A r \in ToMany(heap[o].table) : \A c \in heap[o].many[r] : IsA(ForeignKey[r].table, c)'
  BY IsAKept DEF Pointers
<1> QED
  BY <1>1, <1>2, <1>3 DEF Pointers, IsA

LEMMA FollowsKept ==
    ASSUME Grown, NEW o \in Objects, Pointers(o), Follows(o),
           heap'[o].one = heap[o].one,
           \A r \in ToOne(heap[o].table) : <<o, r>> \notin half' /\ heap[o].one[r] # Nil =>
              /\ <<o, r>> \notin half
              /\ heap'[o].cols[ForeignKey[r].column] = heap[o].cols[ForeignKey[r].column]
    PROVE  Follows(o)'
<1>1. heap'[o].table = heap[o].table
  BY DEF Grown
<1> SUFFICES ASSUME NEW r \in ToOne(heap[o].table), heap[o].one[r] # Nil, <<o, r>> \notin half'
             PROVE  heap'[heap[o].one[r]].id = heap'[o].cols[ForeignKey[r].column]
  BY <1>1 DEF Follows
<1>2. heap[o].one[r] \in Objects
  BY DEF Pointers, IsA
<1>3. heap'[heap[o].one[r]].id = heap[heap[o].one[r]].id
  BY <1>2 DEF Grown
<1> QED
  BY <1>3 DEF Follows

LEMMA CopiedKept ==
    ASSUME RowsWell, HeapTyped, Grown, NEW o \in Objects, Copied(o),
           heap'[o].cols = heap[o].cols, heap'[o].seen = heap[o].seen,
           heap'[o].unsaved = heap[o].unsaved,
           \/ UNCHANGED <<db, version>>
           \/ \E t \in Tables : \E ids : Touched(t, ids)
    PROVE  Copied(o)' /\ (InSync(o)' => InSync(o))
<1>1. /\ heap[o].table \in Tables /\ heap[o].id \in Keys[heap[o].table] /\ heap[o].seen \in Nat
      /\ heap'[o].table = heap[o].table /\ heap'[o].id = heap[o].id
  BY HeapFacts DEF Grown
<1>2. CASE UNCHANGED <<db, version>>
  BY <1>1, <1>2 DEF Copied, InSync, Exists, Row
<1>3. CASE \E t \in Tables : \E ids : Touched(t, ids)
  <2> DEFINE u == heap[o].table
             id == heap[o].id
             seen == heap[o].seen
  <2>1. seen <= version[u][id]
    BY DEF Copied
  <2>2. /\ seen <= version'[u][id]
        /\ Exists(u, id)' /\ seen = version'[u][id] =>
             /\ Exists(u, id) /\ seen = version[u][id]
             /\ db'[u][id] = db[u][id]
    BY <1>1, <1>3, <2>1, LevelBefore
  <2>3. InSync(o)' => Exists(u, id)' /\ seen = version'[u][id]
    BY <1>1 DEF InSync, Exists
  <2> QED
    BY <1>1, <2>2, <2>3 DEF Copied, InSync, Exists, Row
<1> QED
  BY <1>2, <1>3

-----------------------------------------------------------------------------
(* Steps that leave the objects alone.                                     *)

\* No call is in progress.
LEMMA NoCallTyped == call' = NoCall => CallTyped' /\ EagerLoadComplete'
BY DEF NoCall, CallTyped, EagerLoadComplete, Nil

\* An object no step touches keeps what holds of it.
LEMMA ObjectKept ==
    ASSUME RowsWell, HeapTyped, Grown, NEW o \in Objects, ObjectInv(o),
           heap'[o] = heap[o],
           \A r \in ToOne(heap[o].table) : <<o, r>> \notin half' => <<o, r>> \notin half,
           \/ UNCHANGED <<db, version>>
           \/ \E t \in Tables : \E ids : Touched(t, ids)
    PROVE  ObjectInv(o)' /\ (InSync(o)' => InSync(o))
BY PointersKept, FollowsKept, CopiedKept DEF ObjectInv

LEMMA RowsOnly ==
    ASSUME BoilerInv, UNCHANGED <<heap, half>>, call' = call \/ call' = NoCall,
           calls' \in Nat, writes' \in Nat, RowsWell',
           \/ UNCHANGED <<db, version>>
           \/ \E t \in Tables : \E ids : Touched(t, ids)
    PROVE  BoilerInv'
<1>1. Grown
  BY DEF Grown, Objects
<1>2. HeapTyped' /\ BoundsTyped'
  BY InvParts DEF Parts, HeapTyped, BoundsTyped, Objects
<1>3. \A o \in Objects : ObjectInv(o)' /\ (InSync(o)' => InSync(o))
  BY <1>1, ObjectKept, InvParts DEF Parts
<1>4. CallTyped' /\ EagerLoadComplete'
  <2>1. CASE call' = NoCall
    BY <2>1, NoCallTyped
  <2>2. CASE call' = call
    <3>1. CallTyped'
      BY <2>2, InvParts DEF Parts, CallTyped, IsA, Objects
    <3>2. call.op = "eager" => \A o \in call.done : o \in Objects
      BY InvParts DEF Parts, CallTyped, IsA
    <3> QED
      BY <1>3, <2>2, <3>1, <3>2, InvParts DEF Parts, EagerLoadComplete
  <2> QED
    BY <2>1, <2>2
<1> QED
  BY <1>2, <1>3, <1>4, InvParts DEF Parts, Objects

-----------------------------------------------------------------------------
(* Statements that write one object's row.                                 *)

\* The heap with one object replaced by another of its table and primary key.
LEMMA ReplaceFacts ==
    ASSUME HeapTyped, NEW o \in Objects, NEW x \in ObjectOf(heap[o].table), x.id = heap[o].id,
           heap' = [heap EXCEPT ![o] = x]
    PROVE  /\ HeapTyped' /\ Objects' = Objects /\ Grown /\ heap'[o] = x
           /\ \A p \in Objects : p # o => heap'[p] = heap[p]
<1>1. /\ DOMAIN heap' = Objects /\ heap' = [p \in Objects |-> heap'[p]]
      /\ heap'[o] = x /\ \A p \in Objects : p # o => heap'[p] = heap[p]
  BY DEF Objects
<1>2. \A p \in Objects : heap'[p] \in ObjectOf(heap[p].table)
  BY <1>1, HeapFacts
<1>3. heap' \in Seq(AnyObject)
  BY <1>1, <1>2, ChangeFacts
<1>4. x.table = heap[o].table
  BY DEF ObjectOf
<1> QED
  BY <1>1, <1>3, <1>4 DEF HeapTyped, AnyObject, Objects, Grown

\* An object with other columns, as of a version.
Rewritten(o, cols, seen, unsaved) ==
    [heap EXCEPT ![o].cols = cols, ![o].seen = seen, ![o].unsaved = unsaved]

LEMMA ColumnsFacts ==
    ASSUME HeapTyped, NEW o \in Objects, NEW cols \in [Columns(heap[o].table) -> Int], NEW seen \in Nat,
           NEW unsaved \in SUBSET Columns(heap[o].table),
           heap' = Rewritten(o, cols, seen, unsaved)
    PROVE  /\ HeapTyped' /\ Objects' = Objects /\ Grown
           /\ heap'[o].cols = cols /\ heap'[o].seen = seen /\ heap'[o].unsaved = unsaved
           /\ heap'[o].one = heap[o].one /\ heap'[o].many = heap[o].many
           /\ \A p \in Objects : p # o => heap'[p] = heap[p]
<1> DEFINE x == [heap[o] EXCEPT !.cols = cols, !.seen = seen, !.unsaved = unsaved]
<1>1. heap[o] \in ObjectOf(heap[o].table)
  BY HeapFacts
<1>2. /\ x \in ObjectOf(heap[o].table) /\ x.id = heap[o].id /\ x.cols = cols /\ x.seen = seen
      /\ x.unsaved = unsaved /\ x.one = heap[o].one /\ x.many = heap[o].many
  BY <1>1 DEF ObjectOf
<1>3. heap' = [heap EXCEPT ![o] = x]
  BY DEF Rewritten
<1> HIDE DEF x
<1> QED
  BY <1>2, <1>3, ReplaceFacts

(***************************************************************************)
(* The row of o is written with cols, which become o's columns.  Where a   *)
(* pointer of o must follow its key, that key stays.                       *)
(***************************************************************************)
Storing(o, cols) ==
    /\ WriteRow(heap[o].table, heap[o].id, cols)
    /\ heap' = Rewritten(o, cols, version[heap[o].table][heap[o].id] + 1, {})
    /\ half \subseteq half'
    /\ \A r \in ToOne(heap[o].table) : heap[o].one[r] # Nil /\ <<o, r>> \notin half' =>
          cols[ForeignKey[r].column] = heap[o].cols[ForeignKey[r].column]

\* What holds after it.
StoredWell(o, cols) ==
    /\ HeapTyped' /\ RowsWell' /\ Grown /\ Objects' = Objects
    /\ \A p \in Objects : ObjectInv(p)'
    /\ heap'[o].cols = cols /\ \A p \in Objects : p # o => heap'[p] = heap[p]

LEMMA StoreFacts ==
    ASSUME BoilerInv, NEW o \in Objects, NEW cols \in [Columns(heap[o].table) -> Int], Storing(o, cols)
    PROVE  StoredWell(o, cols)
<1>0. /\ HeapTyped /\ RowsWell /\ \A p \in Objects : ObjectInv(p)
      /\ WriteRow(heap[o].table, heap[o].id, cols)
      /\ heap' = Rewritten(o, cols, version[heap[o].table][heap[o].id] + 1, {})
      /\ half \subseteq half'
      /\ \A r \in ToOne(heap[o].table) : heap[o].one[r] # Nil /\ <<o, r>> \notin half' =>
            cols[ForeignKey[r].column] = heap[o].cols[ForeignKey[r].column]
  BY InvParts DEF Parts, Storing
<1>1. PICK t \in Tables : heap[o].table = t
  BY <1>0, HeapFacts
<1>2. PICK id \in Keys[t] : heap[o].id = id
  BY <1>0, <1>1, HeapFacts
<1>3. /\ version[t][id] \in Nat /\ version[t][id] + 1 \in Nat
      /\ heap' = Rewritten(o, cols, version[t][id] + 1, {})
      /\ WriteRow(t, id, cols) /\ cols \in [Columns(t) -> Int]
  BY <1>0, <1>1, <1>2 DEF RowsWell
<1>4. RowsWell' /\ Touched(t, {id}) /\ Exists(t, id)' /\ db'[t][id] = cols
  BY <1>0, <1>1, <1>2, <1>3, WriteRowFacts
<1>5. /\ HeapTyped' /\ Objects' = Objects /\ Grown
      /\ heap'[o].cols = cols /\ heap'[o].seen = version[t][id] + 1
      /\ heap'[o].one = heap[o].one /\ heap'[o].many = heap[o].many
      /\ \A p \in Objects : p # o => heap'[p] = heap[p]
  BY <1>0, <1>1, <1>2, <1>3, ColumnsFacts
<1>6. \A p \in Objects : p # o => ObjectInv(p)'
  BY <1>0, <1>1, <1>4, <1>5, ObjectKept
<1>7. ObjectInv(o)'
  <2>1. Pointers(o)'
    BY <1>0, <1>5, PointersKept DEF ObjectInv
  <2>2. Follows(o)'
    <3>1. \A r \in ToOne(heap[o].table) : <<o, r>> \notin half' /\ heap[o].one[r] # Nil =>
             /\ <<o, r>> \notin half
             /\ heap'[o].cols[ForeignKey[r].column] = heap[o].cols[ForeignKey[r].column]
      BY <1>0, <1>5
    <3>2. Pointers(o) /\ Follows(o)
      BY <1>0 DEF ObjectInv
    <3> QED
      BY <1>5, <3>1, <3>2, FollowsKept
  <2>3. heap'[o].table = t /\ heap'[o].id = id
    BY <1>1, <1>2, <1>5 DEF Grown
  <2>4. version'[t][id] = version[t][id] + 1
    BY <1>4 DEF Touched
  <2>5. Copied(o)'
    <3>1. heap'[o].seen <= version'[heap'[o].table][heap'[o].id]
      <4>1. heap'[o].seen = version'[heap'[o].table][heap'[o].id] /\ heap'[o].seen \in Nat
        BY <1>3, <1>5, <2>3, <2>4
      <4>2. \A n \in Nat : n <= n
        OBVIOUS
      <4> QED
        BY <4>1, <4>2
    <3>2. heap'[o].cols = db'[heap'[o].table][heap'[o].id]
      BY <1>4, <1>5, <2>3
    <3> QED
      BY <3>1, <3>2 DEF Copied, Row
  <2> QED
    BY <2>1, <2>2, <2>5 DEF ObjectInv
<1> QED
  BY <1>4, <1>5, <1>6, <1>7 DEF StoredWell

\* A pointer that follows its key names an object of the referenced table.
LEMMA KeyOfPointer ==
    ASSUME HeapTyped, NEW o \in Objects, Pointers(o), Follows(o),
           NEW r \in ToOne(heap[o].table), heap[o].one[r] # Nil, <<o, r>> \notin half
    PROVE  heap[o].cols[ForeignKey[r].column] \in Keys[ForeignKey[r].foreign]
<1>1. heap[o].one[r] \in Objects /\ heap[heap[o].one[r]].table = ForeignKey[r].foreign
  BY DEF Pointers, IsA
<1> QED
  BY <1>1, HeapFacts DEF Follows

\* Insert, Upsert and related.Insert.
LEMMA StoresFacts ==
    ASSUME BoilerInv, NEW t \in Tables, NEW o, IsA(t, o),
           WriteRow(t, heap[o].id, Stored(t, heap[o].cols)),
           heap' = Stores(t, o), half' = half
    PROVE  /\ HeapTyped' /\ RowsWell' /\ Grown /\ Objects' = Objects
           /\ \A p \in Objects : ObjectInv(p)'
           /\ \A p \in Objects : p # o => heap'[p] = heap[p]
<1>1. o \in Objects /\ heap[o].table = t
  BY DEF IsA
<1>2. /\ HeapTyped /\ Pointers(o) /\ Follows(o)
      /\ heap[o].cols \in [Columns(t) -> Int]
  BY <1>1, InvParts, HeapFacts DEF Parts, ObjectInv
<1> DEFINE cols == Stored(t, heap[o].cols)
<1>3. /\ cols \in [Columns(t) -> Int]
      /\ \A r \in ToOne(t) : heap[o].one[r] # Nil /\ <<o, r>> \notin half =>
           cols[ForeignKey[r].column] = heap[o].cols[ForeignKey[r].column]
  BY <1>1, <1>2, StoredFacts, KeyOfPointer
<1>4. heap' = Rewritten(o, cols, version[t][heap[o].id] + 1, {})
  BY DEF Stores, Rewritten
<1> HIDE DEF cols
<1>5. WriteRow(t, heap[o].id, cols)
  BY DEF cols
<1>6. cols \in [Columns(heap[o].table) -> Int]
  BY <1>1, <1>3
<1>7. Storing(o, cols)
  BY <1>1, <1>3, <1>4, <1>5 DEF Storing
<1>8. StoredWell(o, cols)
  BY <1>1, <1>6, <1>7, StoreFacts
<1> QED
  BY <1>8 DEF StoredWell

(***************************************************************************)
(* UPDATE of o's foreign key to that of p, and o after it: level with its  *)
(* row only if it was before.                                              *)
(***************************************************************************)
RekeyedWell(rel, t, o, id, p, x) ==
    /\ RowsWell' /\ \E ids : Touched(t, ids)
    /\ x \in ObjectOf(t) /\ x.id = heap[o].id
    /\ x.one = heap[o].one /\ x.many = heap[o].many
    /\ x.cols[ForeignKey[rel].column] = heap[p].id
    /\ \A r \in ToOne(t) : r # rel =>
         x.cols[ForeignKey[r].column] = heap[o].cols[ForeignKey[r].column]
    /\ x.seen <= version'[t][id]
    /\ Exists(t, id)' /\ x.seen = version'[t][id] =>
         \A c \in Columns(t) \ x.unsaved : x.cols[c] = db'[t][id][c]

LEMMA RekeyedFacts ==
    ASSUME BoilerInv, NEW rel \in Relations, NEW t \in Tables, t = ForeignKey[rel].table,
           NEW o, IsA(t, o), NEW id, id = heap[o].id, NEW p, IsA(ForeignKey[rel].foreign, p), UpdateKey(rel, o, p),
           NEW x, x = Rekeyed(rel, o, p)
    PROVE  RekeyedWell(rel, t, o, id, p, x)
<1>0. /\ RowsWell /\ HeapTyped /\ o \in Objects /\ p \in Objects /\ Copied(o)
      /\ heap[o].table = t /\ heap[p].table = ForeignKey[rel].foreign
  BY InvParts DEF IsA, Parts, ObjectInv
<1>1. heap[o].id = id /\ id \in Keys[t]
  BY <1>0, HeapFacts
<1>2. PICK column \in Columns(t) : column = ForeignKey[rel].column
  BY Schema
<1>3. PICK value \in Int : value = heap[p].id
  BY <1>0, HeapFacts, SceneAssumption
<1>4. PICK ids : ids = {id} \cap DOMAIN db[t]
  OBVIOUS
<1>5. SetColumn(t, ids, column, value)
  BY <1>1, <1>2, <1>3, <1>4 DEF UpdateKey
<1>6. /\ RowsWell' /\ Touched(t, ids) /\ \A u \in Tables : DOMAIN db'[u] = DOMAIN db[u]
      /\ \A k \in ids : db'[t][k] = [db[t][k] EXCEPT ![column] = value]
  <2>1. ids \subseteq DOMAIN db[t]
    BY <1>4
  <2> QED
    BY <1>0, <1>5, <2>1, SetColumnFacts
<1>7. PICK v \in Nat : v = version[t][id]
  BY <1>0, <1>1 DEF RowsWell
<1>8. PICK cols \in [Columns(t) -> Int], seen \in Nat : cols = heap[o].cols /\ seen = heap[o].seen
  BY <1>0, HeapFacts
<1>9. PICK new : new = [cols EXCEPT ![column] = value]
  OBVIOUS
<1>10. /\ new \in [Columns(t) -> Int] /\ new[column] = value
       /\ \A c \in Columns(t) : c # column => new[c] = cols[c]
  BY <1>9, AssignColumn
<1>11. PICK s \in Nat : s = IF Exists(t, id) /\ seen = v THEN v + 1 ELSE seen
  BY <1>7, <1>8
<1>12. x = [heap[o] EXCEPT !.cols = new, !.seen = s, !.unsaved = heap[o].unsaved \ {column}]
  BY <1>1, <1>2, <1>3, <1>7, <1>8, <1>9, <1>11 DEF Rekeyed
<1>13. /\ x \in ObjectOf(t) /\ x.id = id /\ x.cols = new /\ x.seen = s
       /\ x.unsaved = heap[o].unsaved \ {column}
       /\ x.one = heap[o].one /\ x.many = heap[o].many
  <2>1. heap[o] \in ObjectOf(t)
    BY <1>0, HeapFacts
  <2> QED
    BY <1>1, <1>10, <1>12, <2>1 DEF ObjectOf
<1>14. \A r \in ToOne(t) : r # rel => new[ForeignKey[r].column] = cols[ForeignKey[r].column]
  BY <1>2, <1>10, Schema
<1>15. /\ seen <= v
       /\ Exists(t, id) /\ seen = v =>
            \A c \in Columns(t) \ heap[o].unsaved : cols[c] = db[t][id][c]
  BY <1>0, <1>1, <1>7, <1>8 DEF Copied, InSync, Row
<1>16. /\ s <= version'[t][id]
       /\ Exists(t, id)' /\ s = version'[t][id] =>
            \A c \in Columns(t) \ x.unsaved : new[c] = db'[t][id][c]
  <2>1. CASE Exists(t, id)
    <3>1. version'[t][id] = v + 1 /\ db'[t][id] = [db[t][id] EXCEPT ![column] = value]
      BY <1>1, <1>4, <1>6, <1>7, <2>1 DEF Touched, Exists
    <3>2. CASE seen = v
      <4>1. s = v + 1 /\ v + 1 <= v + 1
        BY <1>11, <2>1, <3>2
      <4>2. db[t][id] \in [Columns(t) -> Int]
        BY <1>0, <2>1 DEF RowsWell, Exists
      <4>3. /\ db'[t][id][column] = value
            /\ \A c \in Columns(t) : c # column => db'[t][id][c] = db[t][id][c]
        <5>1. [db[t][id] EXCEPT ![column] = value][column] = value
          BY <4>2, AssignColumn
        <5>2. \A c \in Columns(t) : c # column => [db[t][id] EXCEPT ![column] = value][c] = db[t][id][c]
          BY <4>2, AssignColumn
        <5> QED
          BY <3>1, <5>1, <5>2
      <4>4. \A c \in Columns(t) \ heap[o].unsaved : cols[c] = db[t][id][c]
        BY <1>15, <2>1, <3>2
      <4>5. \A c \in Columns(t) \ x.unsaved : new[c] = db'[t][id][c]
        BY <1>10, <1>13, <4>3, <4>4
      <4> QED
        BY ONLY <3>1, <4>1, <4>5
    <3>3. CASE seen # v
      <4>1. s = seen /\ seen <= v + 1 /\ seen # v + 1
        BY <1>11, <1>15, <3>3
      <4> QED
        BY ONLY <3>1, <4>1
    <3> QED
      BY <3>2, <3>3
  <2>2. CASE ~Exists(t, id)
    <3>1. version'[t][id] = v /\ ~Exists(t, id)' /\ s = seen
      BY <1>1, <1>4, <1>6, <1>7, <1>11, <2>2 DEF Touched, Exists
    <3> QED
      BY <1>15, <3>1
  <2> QED
    BY <2>1, <2>2
<1>17. /\ x.one = heap[o].one /\ x.many = heap[o].many
       /\ x.cols[ForeignKey[rel].column] = heap[p].id
       /\ \A r \in ToOne(t) : r # rel =>
            x.cols[ForeignKey[r].column] = heap[o].cols[ForeignKey[r].column]
  BY <1>2, <1>3, <1>8, <1>10, <1>13, <1>14
<1>18. /\ x \in ObjectOf(t) /\ x.id = heap[o].id /\ x.seen <= version'[t][id]
       /\ Exists(t, id)' /\ x.seen = version'[t][id] =>
            \A c \in Columns(t) \ x.unsaved : x.cols[c] = db'[t][id][c]
  BY <1>1, <1>13, <1>16
<1> QED
  BY <1>6, <1>17, <1>18 DEF RekeyedWell

\* The rows stay as they were.
LEMMA SameRows ==
    ASSUME BoilerInv, UNCHANGED <<db, version>>
    PROVE  RowsWell'
BY InvParts DEF Parts, RowsWell, RefersWell, Exists, Row

\* A statement whose answer is lost has written rows of some table, or none.
WrittenBySome == RowsWell' /\ \E t \in Tables : \E ids : Touched(t, ids)

\* A row is inserted or written with the object's columns, or others.
LEMMA WriteUnanswered ==
    ASSUME BoilerInv, NEW t \in Tables, NEW o, IsA(t, o), NEW cols \in [Columns(t) -> Int],
           WriteRow(t, heap[o].id, cols)
    PROVE  WrittenBySome
<1>1. RowsWell /\ heap[o].id \in Keys[t]
  BY HeapFacts, InvParts DEF Parts, IsA
<1> QED
  BY <1>1, WriteRowFacts DEF WrittenBySome

LEMMA InsertUnanswered ==
    ASSUME BoilerInv, NEW t \in Tables, NEW o, IsA(t, o), NEW cols \in [Columns(t) -> Int],
           InsertRow(t, o, cols)
    PROVE  WrittenBySome
<1>1. Stored(t, cols) \in [Columns(t) -> Int]
  BY StoredFacts
<1> QED
  BY <1>1, WriteUnanswered DEF InsertRow

LEMMA UpdateUnanswered ==
    ASSUME BoilerInv, NEW rel \in Relations, NEW o, IsA(ForeignKey[rel].table, o),
           NEW p, IsA(ForeignKey[rel].foreign, p), UpdateKey(rel, o, p)
    PROVE  WrittenBySome
<1>1. PICK t \in Tables : t = ForeignKey[rel].table
  BY Schema
<1>2. RekeyedWell(rel, t, o, heap[o].id, p, Rekeyed(rel, o, p))
  BY <1>1, RekeyedFacts
<1> QED
  BY <1>2 DEF RekeyedWell, WrittenBySome

\* The columns of an object are of the type its table gives them.
LEMMA OwnColumns ==
    ASSUME BoilerInv, NEW t, NEW o, IsA(t, o)
    PROVE  heap[o].cols \in [Columns(t) -> Int]
BY HeapFacts, InvParts DEF Parts, IsA

\* The call has returned an error: no object has learnt what was written.
LEMMA Unanswered ==
    ASSUME BoilerInv, UNCHANGED <<heap, half>>, call' = NoCall, calls' \in Nat, writes' \in Nat,
           UNCHANGED <<db, version>> \/ WrittenBySome
    PROVE  BoilerInv'
<1>1. RowsWell'
  BY SameRows DEF WrittenBySome
<1> QED
  BY <1>1, RowsOnly DEF WrittenBySome
-----------------------------------------------------------------------------
(* Set.                                                                    *)

\* The objects a Set or an Add works on.
LEMMA TodoFacts ==
    ASSUME CallTyped, call.op \in {"set", "add"}
    PROVE  /\ call.rel \in Relations /\ IsA(ForeignKey[call.rel].foreign, call.parent)
           /\ call.todo # <<>> => /\ IsA(ForeignKey[call.rel].table, Head(call.todo))
                                  /\ Head(call.todo) \in Nat /\ Tail(call.todo) \in Seq(Nat)
                                  /\ \A i \in 1..Len(Tail(call.todo)) :
                                       IsA(ForeignKey[call.rel].table, Tail(call.todo)[i])
<1>1. /\ call.rel \in Relations /\ IsA(ForeignKey[call.rel].foreign, call.parent)
      /\ call.todo \in Seq(Nat)
      /\ \A i \in 1..Len(call.todo) : IsA(ForeignKey[call.rel].table, call.todo[i])
  BY DEF CallTyped
<1>2. ASSUME call.todo # <<>>
      PROVE  /\ Head(call.todo) = call.todo[1] /\ 1 \in 1..Len(call.todo)
             /\ Head(call.todo) \in Nat /\ Tail(call.todo) \in Seq(Nat)
             /\ \A i \in 1..Len(Tail(call.todo)) :
                  Tail(call.todo)[i] = call.todo[i + 1] /\ i + 1 \in 1..Len(call.todo)
  BY <1>1, <1>2
<1>3. ASSUME call.todo # <<>>, NEW i \in 1..Len(Tail(call.todo))
      PROVE  IsA(ForeignKey[call.rel].table, Tail(call.todo)[i])
  BY <1>1, <1>2, <1>3
<1> QED
  BY <1>1, <1>2, <1>3

LEMMA SetInsertsStep ==
    ASSUME BoilerInv, SetInserts
    PROVE  BoilerInv'
<1>1. /\ CallTyped /\ BoundsTyped /\ call.op = "set"
  BY InvParts DEF Parts, SetInserts
<1>2. PICK t \in Tables : t = ForeignKey[call.rel].foreign
  BY <1>1, TodoFacts, Schema
<1>3. PICK p : p = call.parent /\ IsA(t, p)
  BY <1>1, <1>2, TodoFacts
<1>4. /\ WriteRow(t, heap[p].id, Stored(t, heap[p].cols)) /\ heap' = Stores(t, p)
      /\ call' = [call EXCEPT !.insert = FALSE]
      /\ UNCHANGED <<half, calls, writes>>
  BY <1>2, <1>3 DEF SetInserts, InsertRow
<1>5. HeapTyped' /\ RowsWell' /\ Grown /\ Objects' = Objects /\ \A q \in Objects : ObjectInv(q)'
  BY <1>3, <1>4, StoresFacts
<1>6. CallTyped'
  <2>1. \A u, q : IsA(u, q) => IsA(u, q)'
    BY <1>5, IsAKept
  <2> QED
    BY <1>1, <1>4, <2>1 DEF CallTyped
<1>7. BoundsTyped'
  BY <1>1, <1>4, <1>5 DEF BoundsTyped
<1>8. EagerLoadComplete'
  BY <1>1, <1>4 DEF EagerLoadComplete, CallTyped
<1> QED
  BY <1>5, <1>6, <1>7, <1>8, InvParts DEF Parts

\* An object with one pointer assigned.
Linked(y, x, rel, p) ==
    /\ y \in ObjectOf(ForeignKey[rel].table)
    /\ y.id = x.id /\ y.cols = x.cols /\ y.seen = x.seen /\ y.unsaved = x.unsaved /\ y.many = x.many
    /\ y.one[rel] = p
    /\ \A r \in ToOne(ForeignKey[rel].table) : r # rel => y.one[r] = x.one[r]

LEMMA LinkFacts ==
    ASSUME NEW rel \in Relations, NEW x \in ObjectOf(ForeignKey[rel].table), NEW p \in Nat,
           NEW y, y = [x EXCEPT !.one[rel] = p]
    PROVE  Linked(y, x, rel, p)
<1>1. PICK t : t = ForeignKey[rel].table
  OBVIOUS
<1>2. rel \in ToOne(t) /\ x \in ObjectOf(t)
  BY <1>1, Schema
<1>3. PICK one : one = [x.one EXCEPT ![rel] = p]
  OBVIOUS
<1>4. x.one \in [ToOne(t) -> Nat]
  BY <1>2 DEF ObjectOf
<1>5. /\ one \in [ToOne(t) -> Nat] /\ one[rel] = p
      /\ \A r \in ToOne(t) : r # rel => one[r] = x.one[r]
  BY <1>2, <1>3, <1>4
<1>6. PICK a : a = [x EXCEPT !.one = one]
  OBVIOUS
<1>7. /\ a \in ObjectOf(t) /\ a.id = x.id /\ a.cols = x.cols /\ a.seen = x.seen
      /\ a.unsaved = x.unsaved /\ a.many = x.many /\ a.one = one
  BY <1>2, <1>5, <1>6 DEF ObjectOf
<1>8. y = a
  BY <1>3, <1>6
<1> QED
  BY <1>1, <1>5, <1>7, <1>8 DEF Linked

\* An object with one list assigned.
Listed(y, x, rel, S) ==
    /\ y \in ObjectOf(ForeignKey[rel].foreign)
    /\ y.id = x.id /\ y.cols = x.cols /\ y.seen = x.seen /\ y.unsaved = x.unsaved /\ y.one = x.one
    /\ y.many[rel] = S
    /\ \A r \in ToMany(ForeignKey[rel].foreign) : r # rel => y.many[r] = x.many[r]

LEMMA ListFacts ==
    ASSUME NEW rel \in Relations, NEW x \in ObjectOf(ForeignKey[rel].foreign), NEW S \in SUBSET Nat,
           NEW y, y = [x EXCEPT !.many[rel] = S]
    PROVE  Listed(y, x, rel, S)
<1>1. PICK t : t = ForeignKey[rel].foreign
  OBVIOUS
<1>2. rel \in ToMany(t) /\ x \in ObjectOf(t)
  BY <1>1, Schema
<1>3. PICK many : many = [x.many EXCEPT ![rel] = S]
  OBVIOUS
<1>4. x.many \in [ToMany(t) -> SUBSET Nat]
  BY <1>2 DEF ObjectOf
<1>5. /\ many \in [ToMany(t) -> SUBSET Nat] /\ many[rel] = S
      /\ \A r \in ToMany(t) : r # rel => many[r] = x.many[r]
  BY <1>2, <1>3, <1>4
<1>6. PICK a : a = [x EXCEPT !.many = many]
  OBVIOUS
<1>7. /\ a \in ObjectOf(t) /\ a.id = x.id /\ a.cols = x.cols /\ a.seen = x.seen
      /\ a.unsaved = x.unsaved /\ a.one = x.one /\ a.many = many
  BY <1>2, <1>5, <1>6 DEF ObjectOf
<1>8. y = a
  BY <1>3, <1>6
<1> QED
  BY <1>1, <1>5, <1>7, <1>8 DEF Listed

\* An object with a pointer to the object whose key it has.
LEMMA LinkedKept ==
    ASSUME Grown, NEW rel \in Relations, NEW o \in Objects, heap[o].table = ForeignKey[rel].table,
           Pointers(o), Follows(o), NEW p, IsA(ForeignKey[rel].foreign, p)',
           heap'[o].one[rel] = p, heap'[o].many = heap[o].many,
           heap'[o].cols[ForeignKey[rel].column] = heap'[p].id,
           \A r \in ToOne(heap[o].table) : r # rel =>
              /\ heap'[o].one[r] = heap[o].one[r]
              /\ heap'[o].cols[ForeignKey[r].column] = heap[o].cols[ForeignKey[r].column]
              /\ <<o, r>> \notin half' => <<o, r>> \notin half
    PROVE  Pointers(o)' /\ Follows(o)'
<1>1. heap'[o].table = heap[o].table
  BY DEF Grown
<1>2. \A t, q : IsA(t, q) => IsA(t, q)' /\ heap'[q].id = heap[q].id
  BY IsAKept DEF Grown, IsA
<1>3. Pointers(o)'
  <2>1. ASSUME NEW r \in ToOne(heap[o].table), NEW q, q = heap'[o].one[r]
        PROVE  q = Nil \/ IsA(ForeignKey[r].foreign, q)'
    <3>1. CASE r = rel
      BY <2>1, <3>1
    <3>2. CASE r # rel
      <4>1. q = Nil \/ IsA(ForeignKey[r].foreign, q)
        BY <2>1, <3>2 DEF Pointers
      <4> QED
        BY <1>2, <4>1
    <3> QED
      BY <3>1, <3>2
  <2>2. \A r \in ToMany(heap[o].table) : \A c \in heap[o].many[r] : IsA(ForeignKey[r].table, c)'
    BY <1>2 DEF Pointers
  <2> QED
    BY <1>1, <2>1, <2>2 DEF Pointers, IsA
<1>4. Follows(o)'
  <2>1. ASSUME NEW r \in ToOne(heap[o].table), heap'[o].one[r] # Nil, <<o, r>> \notin half'
        PROVE  heap'[heap'[o].one[r]].id = heap'[o].cols[ForeignKey[r].column]
    <3>1. CASE r = rel
      BY <1>2, <3>1
    <3>2. CASE r # rel
      <4>1. heap'[o].one[r] = heap[o].one[r] /\ IsA(ForeignKey[r].foreign, heap[o].one[r])
        BY <2>1, <3>2 DEF Pointers
      <4>2. heap[heap[o].one[r]].id = heap[o].cols[ForeignKey[r].column]
        BY <2>1, <3>2, <4>1 DEF Follows
      <4> QED
        BY <1>2, <2>1, <3>2, <4>1, <4>2
    <3> QED
      BY <3>1, <3>2
  <2> QED
    BY <1>1, <2>1 DEF Follows
<1> QED
  BY <1>3, <1>4

\* An object with more objects in one of its lists.
LEMMA ListedKept ==
    ASSUME Grown, NEW rel \in Relations, NEW p \in Objects, heap[p].table = ForeignKey[rel].foreign,
           Pointers(p), heap'[p].one = heap[p].one,
           \A c \in heap'[p].many[rel] : IsA(ForeignKey[rel].table, c)',
           \A r \in ToMany(heap[p].table) : r # rel => heap'[p].many[r] = heap[p].many[r]
    PROVE  Pointers(p)'
<1>1. heap'[p].table = heap[p].table
  BY DEF Grown
<1>2. \A r \in ToOne(heap[p].table) :
         heap[p].one[r] = Nil \/ IsA(ForeignKey[r].foreign, heap[p].one[r])'
  BY IsAKept DEF Pointers
<1>3. \A r \in ToMany(heap[p].table) : \A c \in heap'[p].many[r] : IsA(ForeignKey[r].table, c)'
  <2> SUFFICES ASSUME NEW r \in ToMany(heap[p].table), NEW c \in heap'[p].many[r]
               PROVE  IsA(ForeignKey[r].table, c)'
    OBVIOUS
  <2>1. CASE r = rel
    BY <2>1
  <2>2. CASE r # rel
    <3>1. IsA(ForeignKey[r].table, c)
      BY <2>2 DEF Pointers
    <3> QED
      BY <3>1, IsAKept
  <2> QED
    BY <2>1, <2>2
<1> QED
  BY <1>1, <1>2, <1>3 DEF Pointers, IsA

LEMMA SetUpdatesStep ==
    ASSUME BoilerInv, SetUpdates
    PROVE  BoilerInv'
<1>1. /\ CallTyped /\ BoundsTyped /\ call.op = "set" /\ call.todo # <<>>
      /\ HeapTyped /\ RowsWell /\ \A q \in Objects : ObjectInv(q)
  BY InvParts DEF Parts, SetUpdates, CallTyped
<1>2. PICK rel \in Relations : rel = call.rel
  BY <1>1, TodoFacts
<1>3. PICK o : o = Head(call.todo) /\ IsA(ForeignKey[rel].table, o)
  BY <1>1, <1>2, TodoFacts
<1>4. PICK p : p = call.parent /\ IsA(ForeignKey[rel].foreign, p)
  BY <1>1, <1>2, TodoFacts
<1>5. PICK t \in Tables : t = ForeignKey[rel].table
  BY Schema
<1>6. PICK id : id = heap[o].id
  OBVIOUS
<1>7. PICK x : x = Rekeyed(rel, o, p)
  OBVIOUS
<1>8. /\ UpdateKey(rel, o, p)
      /\ heap' = [heap EXCEPT ![o] = [x EXCEPT !.one[rel] = p], ![p].many[rel] = @ \cup {o}]
      /\ half' = half \ {<<o, rel>>} /\ call' = NoCall /\ UNCHANGED <<calls, writes>>
  BY <1>2, <1>3, <1>4, <1>7 DEF SetUpdates
<1>9. /\ o \in Objects /\ p \in Objects /\ heap[o].table = t /\ heap[p].table = ForeignKey[rel].foreign
      /\ o # p /\ o \in Nat /\ p \in Nat
  BY <1>1, <1>3, <1>4, <1>5, Schema, HeapFacts DEF IsA
<1>10. /\ RowsWell' /\ \E ids : Touched(t, ids)
       /\ x \in ObjectOf(t) /\ x.id = heap[o].id
       /\ x.one = heap[o].one /\ x.many = heap[o].many
       /\ x.cols[ForeignKey[rel].column] = heap[p].id
       /\ \A r \in ToOne(t) : r # rel =>
            x.cols[ForeignKey[r].column] = heap[o].cols[ForeignKey[r].column]
       /\ x.seen <= version'[t][id]
       /\ Exists(t, id)' /\ x.seen = version'[t][id] =>
            \A c \in Columns(t) \ x.unsaved : x.cols[c] = db'[t][id][c]
  <2>1. IsA(t, o) /\ t = ForeignKey[rel].table /\ IsA(ForeignKey[rel].foreign, p) /\ UpdateKey(rel, o, p)
    BY <1>3, <1>4, <1>5, <1>8
  <2>2. RekeyedWell(rel, t, o, id, p, x)
    BY <1>6, <1>7, <2>1, RekeyedFacts
  <2> QED
    BY <2>2 DEF RekeyedWell
<1>11. PICK y : y = [x EXCEPT !.one[rel] = p]
  OBVIOUS
<1>12. PICK S \in SUBSET Nat : S = heap[p].many[rel] \cup {o}
  <2>1. heap[p].many[rel] \in SUBSET Nat
    BY <1>1, <1>9, HeapFacts, Schema
  <2> QED
    BY <1>9, <2>1
<1>13. PICK z : z = [heap[p] EXCEPT !.many[rel] = S]
  OBVIOUS
<1>14. heap' = [heap EXCEPT ![o] = y, ![p] = z]
  BY <1>8, <1>9, <1>11, <1>12, <1>13
<1>15. x \in ObjectOf(ForeignKey[rel].table) /\ heap[p] \in ObjectOf(ForeignKey[rel].foreign)
  BY <1>1, <1>5, <1>9, <1>10, HeapFacts
<1>16. /\ y \in ObjectOf(t) /\ y.id = heap[o].id /\ y.cols = x.cols /\ y.seen = x.seen
       /\ y.unsaved = x.unsaved /\ y.many = heap[o].many /\ y.one[rel] = p
       /\ \A r \in ToOne(t) : r # rel => y.one[r] = heap[o].one[r]
  <2>1. p \in Nat /\ x \in ObjectOf(ForeignKey[rel].table)
    BY <1>9, <1>15
  <2>2. Linked(y, x, rel, p)
    BY <1>11, <2>1, LinkFacts
  <2> QED
    BY <1>5, <1>10, <2>2 DEF Linked
<1>17. /\ z \in ObjectOf(heap[p].table) /\ z.id = heap[p].id /\ z.cols = heap[p].cols
       /\ z.seen = heap[p].seen /\ z.unsaved = heap[p].unsaved
       /\ z.one = heap[p].one /\ z.many[rel] = S
       /\ \A r \in ToMany(heap[p].table) : r # rel => z.many[r] = heap[p].many[r]
  <2>1. PICK w \in ObjectOf(ForeignKey[rel].foreign) : w = heap[p]
    BY <1>15
  <2>2. z = [w EXCEPT !.many[rel] = S]
    BY <1>13, <2>1
  <2>3. Listed(z, w, rel, S)
    BY <2>2, ListFacts
  <2> QED
    BY <1>9, <2>1, <2>3 DEF Listed
<1>18. /\ DOMAIN heap' = Objects /\ heap' = [q \in Objects |-> heap'[q]]
       /\ heap'[o] = y /\ heap'[p] = z
       /\ \A q \in Objects : q # o /\ q # p => heap'[q] = heap[q]
  BY <1>9, <1>14 DEF Objects
<1>19. HeapTyped' /\ Objects' = Objects
  <2>1. \A q \in Objects : heap'[q] \in ObjectOf(heap[q].table)
    BY <1>1, <1>9, <1>16, <1>17, <1>18, HeapFacts
  <2>2. heap' \in Seq(AnyObject)
    BY <1>1, <1>18, <2>1, ChangeFacts
  <2> QED
    BY <1>18, <2>2 DEF HeapTyped, AnyObject, Objects
<1>20. Grown
  BY <1>9, <1>16, <1>17, <1>18, <1>19 DEF Grown, ObjectOf
<1>21. \A q \in Objects : q # o /\ q # p => ObjectInv(q)'
  <2>1. \A q \in Objects : q # o => \A r \in ToOne(heap[q].table) : <<q, r>> \notin half' => <<q, r>> \notin half
    BY <1>8
  <2> QED
    BY <1>1, <1>10, <1>18, <1>20, <2>1, ObjectKept
<1>22. ObjectInv(o)'
  <2>1. Pointers(o)' /\ Follows(o)'
    <3>1. \A r \in ToOne(heap[o].table) : r # rel =>
             /\ heap'[o].one[r] = heap[o].one[r]
             /\ heap'[o].cols[ForeignKey[r].column] = heap[o].cols[ForeignKey[r].column]
             /\ <<o, r>> \notin half' => <<o, r>> \notin half
      BY <1>8, <1>9, <1>10, <1>16, <1>18
    <3>2. /\ heap'[o].one[rel] = p /\ heap'[o].many = heap[o].many
          /\ heap'[o].cols[ForeignKey[rel].column] = heap'[p].id
          /\ heap[o].table = ForeignKey[rel].table
      BY <1>5, <1>9, <1>10, <1>16, <1>17, <1>18
    <3>3. IsA(ForeignKey[rel].foreign, p)'
      BY <1>4, <1>20, IsAKept
    <3> QED
      BY <1>1, <1>9, <1>20, <3>1, <3>2, <3>3, LinkedKept DEF ObjectInv
  <2>2. Copied(o)'
    <3>1. heap'[o].table = t /\ heap'[o].id = id
      BY <1>6, <1>9, <1>20 DEF Grown
    <3> QED
      BY <1>10, <1>16, <1>18, <3>1 DEF Copied, InSync, Exists, Row
  <2> QED
    BY <2>1, <2>2 DEF ObjectInv
<1>23. ObjectInv(p)'
  <2>1. \A c \in heap'[p].many[rel] : IsA(ForeignKey[rel].table, c)'
    <3>1. \A c \in heap[p].many[rel] : IsA(ForeignKey[rel].table, c)
      BY <1>1, <1>9, Schema DEF ObjectInv, Pointers
    <3>2. \A c \in S : IsA(ForeignKey[rel].table, c)
      BY <1>3, <1>12, <3>1
    <3> QED
      BY <1>17, <1>18, <1>20, <3>2, IsAKept
  <2>2. Pointers(p)'
    BY <1>1, <1>9, <1>17, <1>18, <1>20, <2>1, ListedKept DEF ObjectInv
  <2>3. Follows(p)'
    <3>1. \A r \in ToOne(heap[p].table) : <<p, r>> \notin half' /\ heap[p].one[r] # Nil =>
             /\ <<p, r>> \notin half
             /\ heap'[p].cols[ForeignKey[r].column] = heap[p].cols[ForeignKey[r].column]
      BY <1>8, <1>9, <1>17, <1>18
    <3> QED
      BY <1>1, <1>9, <1>17, <1>18, <1>20, <3>1, FollowsKept DEF ObjectInv
  <2>4. Copied(p)'
    BY <1>1, <1>9, <1>10, <1>17, <1>18, <1>20, CopiedKept DEF ObjectInv
  <2> QED
    BY <2>2, <2>3, <2>4 DEF ObjectInv
<1>24. BoundsTyped'
  BY <1>1, <1>8, <1>19 DEF BoundsTyped
<1> QED
  BY <1>8, <1>10, <1>19, <1>21, <1>22, <1>23, <1>24, NoCallTyped, InvParts DEF Parts

LEMMA SetFailsStep ==
    ASSUME BoilerInv, SetFails
    PROVE  BoilerInv'
<1>1. /\ CallTyped /\ BoundsTyped /\ call.op = "set" /\ call.todo # <<>>
      /\ call' = NoCall /\ UNCHANGED <<heap, half, calls, writes>>
  BY InvParts DEF Parts, SetFails, CallTyped
<1>2. PICK rel \in Relations : rel = call.rel
  BY <1>1, TodoFacts
<1>3. PICK o : o = Head(call.todo) /\ IsA(ForeignKey[rel].table, o)
  BY <1>1, <1>2, TodoFacts
<1>4. PICK p : p = call.parent /\ IsA(ForeignKey[rel].foreign, p)
  BY <1>1, <1>2, TodoFacts
<1>5. UNCHANGED <<db, version>> \/ WrittenBySome
  <2>1. CASE InsertRow(ForeignKey[rel].foreign, p, heap[p].cols)
    BY <1>4, <2>1, Schema, OwnColumns, InsertUnanswered
  <2>2. CASE UpdateKey(rel, o, p)
    BY <1>3, <1>4, <2>2, UpdateUnanswered
  <2> QED
    BY <1>2, <1>3, <1>4, <2>1, <2>2 DEF SetFails
<1> QED
  BY <1>1, <1>5, Unanswered DEF BoundsTyped

-----------------------------------------------------------------------------
(* Add.                                                                    *)

\* The next object has the key: one more of those the call is done with.
\* One related object has been dealt with: its column holds the parent's key.
Advancing ==
    /\ call.op = "add" /\ call.todo # <<>> /\ Advance(Head(call.todo))
    /\ Grown /\ Objects' = Objects
    /\ heap'[Head(call.todo)].cols[ForeignKey[call.rel].column] = heap[call.parent].id
    /\ \A q \in Objects : q # Head(call.todo) => heap'[q] = heap[q]

LEMMA AddAdvances ==
    ASSUME BoilerInv, Advancing
    PROVE  CallTyped' /\ BoundsTyped' /\ EagerLoadComplete'
<1>0. /\ call.op = "add" /\ call.todo # <<>> /\ Advance(Head(call.todo))
      /\ Grown /\ Objects' = Objects
      /\ heap'[Head(call.todo)].cols[ForeignKey[call.rel].column] = heap[call.parent].id
      /\ \A q \in Objects : q # Head(call.todo) => heap'[q] = heap[q]
  BY DEF Advancing
<1>1. CallTyped /\ BoundsTyped /\ HeapTyped /\ call.op = "add" /\ call.todo # <<>>
  BY <1>0, InvParts DEF Parts
<1>2. PICK rel \in Relations : rel = call.rel
  BY <1>1, TodoFacts
<1>3. PICK o \in Nat : o = Head(call.todo) /\ IsA(ForeignKey[rel].table, o)
  BY <1>1, <1>2, TodoFacts
<1>4. PICK p : p = call.parent /\ IsA(ForeignKey[rel].foreign, p)
  BY <1>1, <1>2, TodoFacts
<1>5. PICK rest \in Seq(Nat) : rest = Tail(call.todo) /\ \A i \in 1..Len(rest) : IsA(ForeignKey[rel].table, rest[i])
  BY <1>1, <1>2, TodoFacts
<1>6. PICK done \in SUBSET Nat : done = call.done \cup {o}
  BY <1>1 DEF CallTyped
<1>7. call' = [call EXCEPT !.todo = rest, !.done = done] /\ half' = half \cup {<<o, rel>>} /\ UNCHANGED <<calls, writes>>
  BY <1>0, <1>2, <1>3, <1>5, <1>6 DEF Advance
<1>8. /\ call' \in [op : {"none", "eager", "set", "add"}, rel : Relations \cup {"none"},
                    parent : Nat, insert : BOOLEAN, todo : Seq(Nat), done : SUBSET Nat,
                    rels : Seq(Relations), loaded : SUBSET Relations]
      /\ call'.op = "add" /\ call'.rel = rel /\ call'.parent = p
      /\ call'.todo = rest /\ call'.done = done
  BY <1>1, <1>2, <1>4, <1>7 DEF CallTyped
<1>9. \A u, q : IsA(u, q) => IsA(u, q)' /\ heap'[q].id = heap[q].id
  BY <1>0, IsAKept DEF Grown, IsA
<1>10. \A q \in done : IsA(ForeignKey[rel].table, q)' /\ heap'[q].cols[ForeignKey[rel].column] = heap'[p].id
  <2> SUFFICES ASSUME NEW q \in done
               PROVE  IsA(ForeignKey[rel].table, q)' /\ heap'[q].cols[ForeignKey[rel].column] = heap'[p].id
    OBVIOUS
  <2>1. heap'[p].id = heap[p].id
    BY <1>4, <1>9
  <2>2. CASE q = o
    BY <1>0, <1>2, <1>3, <1>4, <1>9, <2>1, <2>2
  <2>3. CASE q # o
    <3>1. q \in call.done
      BY <1>6, <2>3
    <3>2. IsA(ForeignKey[rel].table, q) /\ heap[q].cols[ForeignKey[rel].column] = heap[p].id
      BY <1>1, <1>2, <1>4, <3>1 DEF CallTyped
    <3>3. heap'[q] = heap[q]
      BY <1>0, <1>3, <2>3, <3>2 DEF IsA
    <3> QED
      BY <1>9, <2>1, <3>2, <3>3
  <2> QED
    BY <2>2, <2>3
<1>11. CallTyped'
  <2>1. IsA(ForeignKey[rel].foreign, p)'
    BY <1>4, <1>9
  <2>2. \A i \in 1..Len(rest) : IsA(ForeignKey[rel].table, rest[i])'
    BY <1>5, <1>9
  <2> QED
    BY <1>8, <1>10, <2>1, <2>2 DEF CallTyped, IsA
<1>12. BoundsTyped'
  BY <1>0, <1>1, <1>3, <1>7 DEF BoundsTyped, IsA
<1>13. EagerLoadComplete'
  BY <1>8 DEF EagerLoadComplete
<1> QED
  BY <1>11, <1>12, <1>13

LEMMA AddInsertsStep ==
    ASSUME BoilerInv, AddInserts
    PROVE  BoilerInv'
<1>1. /\ CallTyped /\ HeapTyped /\ call.op = "add" /\ call.todo # <<>>
      /\ \A q \in Objects : ObjectInv(q)
  BY InvParts DEF Parts, AddInserts
<1>2. PICK rel \in Relations : rel = call.rel
  BY <1>1, TodoFacts
<1>3. PICK o \in Objects : o = Head(call.todo) /\ IsA(ForeignKey[rel].table, o)
  BY <1>1, <1>2, TodoFacts DEF IsA
<1>4. PICK p : p = call.parent /\ IsA(ForeignKey[rel].foreign, p)
  BY <1>1, <1>2, TodoFacts
<1>5. PICK t \in Tables : t = ForeignKey[rel].table /\ heap[o].table = t
  BY <1>3, Schema DEF IsA
<1>6. PICK value \in Keys[ForeignKey[rel].foreign] : value = heap[p].id
  BY <1>1, <1>4, HeapFacts DEF IsA
<1>7. PICK column \in Columns(t) : column = ForeignKey[rel].column
  BY <1>5, Schema
<1>8. PICK own \in [Columns(t) -> Int] : own = heap[o].cols
  BY <1>1, <1>5, HeapFacts
<1>9. PICK new : new = [own EXCEPT ![column] = value]
  OBVIOUS
<1>10. value \in Int
  BY <1>6, Schema, SceneAssumption
<1>11. /\ new \in [Columns(t) -> Int] /\ new[column] = value
       /\ \A c \in Columns(t) : c # column => new[c] = own[c]
  BY <1>9, <1>10, AssignColumn
<1>12. PICK cols : cols = Stored(t, new)
  OBVIOUS
<1>13. /\ cols \in [Columns(t) -> Int]
       /\ \A r \in ToOne(t) :
            new[ForeignKey[r].column] \in Keys[ForeignKey[r].foreign] =>
                 cols[ForeignKey[r].column] = new[ForeignKey[r].column]
  BY <1>11, <1>12, StoredFacts
<1>14. cols[column] = value
  BY <1>5, <1>6, <1>7, <1>11, <1>13, Schema
<1>15. /\ WriteRow(t, heap[o].id, cols)
       /\ heap' = [heap EXCEPT ![o].cols = cols, ![o].seen = version[t][heap[o].id] + 1, ![o].unsaved = {}]
       /\ Advance(o)
  <2>1. Keyed(o) = new
    BY <1>2, <1>4, <1>6, <1>7, <1>8, <1>9 DEF Keyed
  <2> QED
    BY <1>2, <1>3, <1>5, <1>12, <2>1 DEF AddInserts, InsertRow
<1>16. half' = half \cup {<<o, rel>>}
  BY <1>2, <1>15 DEF Advance
<1>17. \A r \in ToOne(t) : heap[o].one[r] # Nil /\ <<o, r>> \notin half' =>
          cols[ForeignKey[r].column] = own[ForeignKey[r].column]
  <2> SUFFICES ASSUME NEW r \in ToOne(t), heap[o].one[r] # Nil, <<o, r>> \notin half'
               PROVE  cols[ForeignKey[r].column] = own[ForeignKey[r].column]
    OBVIOUS
  <2>1. r # rel /\ <<o, r>> \notin half
    BY <1>16
  <2>2. own[ForeignKey[r].column] \in Keys[ForeignKey[r].foreign]
    BY <1>1, <1>5, <1>8, <2>1, KeyOfPointer DEF ObjectInv
  <2>3. ForeignKey[r].column # column /\ ForeignKey[r].column \in Columns(t)
    BY <1>5, <1>7, <2>1, Schema
  <2> QED
    BY <1>11, <1>13, <2>2, <2>3
<1>18. cols \in [Columns(heap[o].table) -> Int] /\ Storing(o, cols)
  <2>1. cols \in [Columns(heap[o].table) -> Int]
    BY <1>5, <1>13
  <2>2. /\ WriteRow(heap[o].table, heap[o].id, cols)
        /\ heap' = Rewritten(o, cols, version[heap[o].table][heap[o].id] + 1, {})
    BY <1>5, <1>15 DEF Rewritten
  <2>3. \A r \in ToOne(heap[o].table) : heap[o].one[r] # Nil /\ <<o, r>> \notin half' =>
           cols[ForeignKey[r].column] = heap[o].cols[ForeignKey[r].column]
    BY <1>5, <1>8, <1>17
  <2>4. half \subseteq half'
    BY <1>16
  <2> QED
    BY <2>1, <2>2, <2>3, <2>4 DEF Storing
<1>19. /\ HeapTyped' /\ RowsWell' /\ Grown /\ Objects' = Objects
       /\ \A q \in Objects : ObjectInv(q)'
       /\ heap'[o].cols = cols /\ \A q \in Objects : q # o => heap'[q] = heap[q]
  <2>1. StoredWell(o, cols)
    BY <1>3, <1>18, StoreFacts
  <2> QED
    BY <2>1 DEF StoredWell
<1>20. CallTyped' /\ BoundsTyped' /\ EagerLoadComplete'
  <2>1. heap'[o].cols[ForeignKey[call.rel].column] = heap[call.parent].id
    BY <1>2, <1>4, <1>6, <1>7, <1>14, <1>19
  <2>2. Advancing
    BY <1>1, <1>3, <1>15, <1>19, <2>1 DEF Advancing
  <2> QED
    BY <2>2, AddAdvances
<1> QED
  BY <1>19, <1>20, InvParts DEF Parts

LEMMA AddUpdatesStep ==
    ASSUME BoilerInv, AddUpdates
    PROVE  BoilerInv'
<1>1. /\ CallTyped /\ HeapTyped /\ RowsWell /\ call.op = "add" /\ call.todo # <<>>
      /\ \A q \in Objects : ObjectInv(q)
  BY InvParts DEF Parts, AddUpdates
<1>2. PICK rel \in Relations : rel = call.rel
  BY <1>1, TodoFacts
<1>3. PICK o \in Objects : o = Head(call.todo) /\ IsA(ForeignKey[rel].table, o)
  BY <1>1, <1>2, TodoFacts DEF IsA
<1>4. PICK p : p = call.parent /\ IsA(ForeignKey[rel].foreign, p)
  BY <1>1, <1>2, TodoFacts
<1>5. PICK t \in Tables : t = ForeignKey[rel].table /\ heap[o].table = t
  BY <1>3, Schema DEF IsA
<1>6. PICK id : id = heap[o].id
  OBVIOUS
<1>7. PICK x : x = Rekeyed(rel, o, p)
  OBVIOUS
<1>8. /\ UpdateKey(rel, o, p) /\ heap' = [heap EXCEPT ![o] = x] /\ Advance(o)
  BY <1>2, <1>3, <1>4, <1>7 DEF AddUpdates
<1>9. half' = half \cup {<<o, rel>>}
  BY <1>2, <1>8 DEF Advance
<1>10. /\ RowsWell' /\ \E ids : Touched(t, ids)
       /\ x \in ObjectOf(t) /\ x.id = heap[o].id
       /\ x.one = heap[o].one /\ x.many = heap[o].many
       /\ x.cols[ForeignKey[rel].column] = heap[p].id
       /\ \A r \in ToOne(t) : r # rel =>
            x.cols[ForeignKey[r].column] = heap[o].cols[ForeignKey[r].column]
       /\ x.seen <= version'[t][id]
       /\ Exists(t, id)' /\ x.seen = version'[t][id] =>
            \A c \in Columns(t) \ x.unsaved : x.cols[c] = db'[t][id][c]
  <2>1. IsA(t, o) /\ t = ForeignKey[rel].table /\ IsA(ForeignKey[rel].foreign, p) /\ UpdateKey(rel, o, p)
    BY <1>3, <1>4, <1>5, <1>8
  <2>2. RekeyedWell(rel, t, o, id, p, x)
    BY <1>6, <1>7, <2>1, RekeyedFacts
  <2> QED
    BY <2>2 DEF RekeyedWell
<1>11. /\ HeapTyped' /\ Objects' = Objects /\ Grown /\ heap'[o] = x
       /\ \A q \in Objects : q # o => heap'[q] = heap[q]
  BY <1>1, <1>5, <1>8, <1>10, ReplaceFacts
<1>12. \A q \in Objects : q # o => ObjectInv(q)'
  <2>1. \A q \in Objects : \A r \in ToOne(heap[q].table) : <<q, r>> \notin half' => <<q, r>> \notin half
    BY <1>9
  <2> QED
    BY <1>1, <1>10, <1>11, <2>1, ObjectKept
<1>13. ObjectInv(o)'
  <2>1. Pointers(o)'
    BY <1>1, <1>10, <1>11, PointersKept DEF ObjectInv
  <2>2. Follows(o)'
    <3>1. \A r \in ToOne(heap[o].table) : <<o, r>> \notin half' /\ heap[o].one[r] # Nil =>
             /\ <<o, r>> \notin half
             /\ heap'[o].cols[ForeignKey[r].column] = heap[o].cols[ForeignKey[r].column]
      BY <1>5, <1>9, <1>10, <1>11
    <3> QED
      BY <1>1, <1>10, <1>11, <3>1, FollowsKept DEF ObjectInv
  <2>3. Copied(o)'
    <3>1. heap'[o].table = t /\ heap'[o].id = id
      BY <1>5, <1>6, <1>11 DEF Grown
    <3> QED
      BY <1>10, <1>11, <3>1 DEF Copied, InSync, Exists, Row
  <2> QED
    BY <2>1, <2>2, <2>3 DEF ObjectInv
<1>14. CallTyped' /\ BoundsTyped' /\ EagerLoadComplete'
  <2>1. heap'[o].cols[ForeignKey[call.rel].column] = heap[call.parent].id
    BY <1>2, <1>4, <1>10, <1>11
  <2> QED
    BY <1>1, <1>3, <1>8, <1>11, <2>1, AddAdvances DEF Advancing
<1> QED
  BY <1>10, <1>11, <1>12, <1>13, <1>14, InvParts DEF Parts

LEMMA AddFailsStep ==
    ASSUME BoilerInv, AddFails
    PROVE  BoilerInv'
<1>1. /\ CallTyped /\ HeapTyped /\ RowsWell /\ BoundsTyped /\ call.op = "add" /\ call.todo # <<>>
      /\ \A q \in Objects : ObjectInv(q)
  BY InvParts DEF Parts, AddFails
<1>2. call' = NoCall /\ UNCHANGED <<calls, writes>>
  BY DEF AddFails
<1>3. PICK rel \in Relations : rel = call.rel
  BY <1>1, TodoFacts
<1>4. PICK o \in Objects : o = Head(call.todo) /\ IsA(ForeignKey[rel].table, o)
  BY <1>1, <1>3, TodoFacts DEF IsA
<1>5. PICK p : p = call.parent /\ IsA(ForeignKey[rel].foreign, p)
  BY <1>1, <1>3, TodoFacts
<1>6. CASE ~call.insert
  <2>1. UNCHANGED <<heap, half>> /\ (UNCHANGED <<db, version>> \/ UpdateKey(rel, o, p))
    BY <1>3, <1>4, <1>5, <1>6 DEF AddFails
  <2>2. UNCHANGED <<db, version>> \/ WrittenBySome
    BY <1>4, <1>5, <2>1, UpdateUnanswered
  <2> QED
    BY <1>1, <1>2, <2>1, <2>2, Unanswered DEF BoundsTyped
<1>7. CASE call.insert
  <2>1. PICK t \in Tables : t = ForeignKey[rel].table /\ heap[o].table = t
    BY <1>4, Schema DEF IsA
  <2>2. PICK value \in Int : value = heap[p].id
    BY <1>1, <1>5, HeapFacts, Schema, SceneAssumption DEF IsA
  <2>3. PICK column \in Columns(t) : column = ForeignKey[rel].column
    BY <2>1, Schema
  <2>4. PICK own \in [Columns(t) -> Int] : own = heap[o].cols
    BY <1>1, <2>1, HeapFacts
  <2>5. PICK new : new = [own EXCEPT ![column] = value]
    OBVIOUS
  <2>6. new \in [Columns(t) -> Int] /\ \A c \in Columns(t) : c # column => new[c] = own[c]
    BY <2>5, AssignColumn
  <2>7. /\ heap' = [heap EXCEPT ![o].cols = new, ![o].unsaved = @ \cup {column}]
        /\ half' = half \cup {<<o, rel>>}
        /\ UNCHANGED <<db, version>> \/ InsertRow(t, o, new)
    <3>1. Keyed(o) = new
      BY <1>3, <1>5, <2>2, <2>3, <2>4, <2>5 DEF Keyed
    <3> QED
      BY <1>3, <1>4, <1>7, <2>1, <2>3, <3>1 DEF AddFails
  <2>8. PICK seen \in Nat, unsaved \in SUBSET Columns(t) :
            /\ seen = heap[o].seen /\ unsaved = heap[o].unsaved \cup {column}
            /\ heap' = Rewritten(o, new, seen, unsaved)
    <3>1. /\ heap[o] \in ObjectOf(t) /\ heap[o].seen \in Nat
          /\ heap[o].unsaved \cup {column} \in SUBSET Columns(t)
      BY <1>1, <2>1, HeapFacts
    <3>2. [heap[o] EXCEPT !.cols = new, !.unsaved = @ \cup {column}] =
            [heap[o] EXCEPT !.cols = new, !.seen = heap[o].seen, !.unsaved = heap[o].unsaved \cup {column}]
      BY <3>1 DEF ObjectOf
    <3>3. heap' = Rewritten(o, new, heap[o].seen, heap[o].unsaved \cup {column})
      BY <2>7, <3>2 DEF Rewritten
    <3> QED
      BY <3>1, <3>3
  <2>9. /\ HeapTyped' /\ Objects' = Objects /\ Grown
        /\ heap'[o].cols = new /\ heap'[o].seen = seen /\ heap'[o].unsaved = unsaved
        /\ heap'[o].one = heap[o].one /\ heap'[o].many = heap[o].many
        /\ \A q \in Objects : q # o => heap'[q] = heap[q]
    <3>1. new \in [Columns(heap[o].table) -> Int] /\ unsaved \in SUBSET Columns(heap[o].table)
      BY <2>1, <2>6
    <3>2. heap' = Rewritten(o, new, seen, unsaved)
      BY <2>8
    <3> QED
      BY <1>1, <3>1, <3>2, ColumnsFacts
  <2>10. UNCHANGED <<db, version>> \/ WrittenBySome
    BY <1>4, <2>1, <2>6, <2>7, InsertUnanswered
  <2>11. RowsWell' /\ (UNCHANGED <<db, version>> \/ \E u \in Tables : \E ids : Touched(u, ids))
    BY <2>10, SameRows DEF WrittenBySome
  <2>12. \A q \in Objects : q # o => ObjectInv(q)'
    <3>1. \A q \in Objects : \A r \in ToOne(heap[q].table) : <<q, r>> \notin half' => <<q, r>> \notin half
      BY <2>7
    <3> QED
      BY <1>1, <2>9, <2>11, <3>1, ObjectKept
  <2>13. ObjectInv(o)'
    <3>1. Pointers(o)'
      BY <1>1, <2>9, PointersKept DEF ObjectInv
    <3>2. Follows(o)'
      <4>1. \A r \in ToOne(heap[o].table) : <<o, r>> \notin half' /\ heap[o].one[r] # Nil =>
               /\ <<o, r>> \notin half
               /\ heap'[o].cols[ForeignKey[r].column] = heap[o].cols[ForeignKey[r].column]
        <5> SUFFICES ASSUME NEW r \in ToOne(heap[o].table), <<o, r>> \notin half'
                     PROVE  /\ <<o, r>> \notin half
                            /\ new[ForeignKey[r].column] = own[ForeignKey[r].column]
          BY <2>4, <2>9
        <5>1. r # rel /\ <<o, r>> \notin half
          BY <2>7
        <5>2. ForeignKey[r].column # column /\ ForeignKey[r].column \in Columns(t)
          BY <2>1, <2>3, <5>1, Schema
        <5> QED
          BY <2>6, <5>1, <5>2
      <4> QED
        BY <1>1, <2>9, <4>1, FollowsKept DEF ObjectInv
    <3>3. Copied(o)'
      <4>1. PICK id \in Keys[t] : heap[o].id = id
        BY <1>1, <2>1, HeapFacts
      <4>2. heap'[o].table = t /\ heap'[o].id = id
        BY <2>1, <2>9, <4>1 DEF Grown
      <4>3. /\ seen <= version[t][id]
            /\ Exists(t, id) /\ seen = version[t][id] =>
                 \A c \in Columns(t) \ heap[o].unsaved : own[c] = db[t][id][c]
        BY <1>1, <2>1, <2>4, <2>8, <4>1 DEF ObjectInv, Copied, InSync, Row
      <4>4. /\ seen <= version'[t][id]
            /\ Exists(t, id)' /\ seen = version'[t][id] =>
                 /\ Exists(t, id) /\ seen = version[t][id]
                 /\ db'[t][id] = db[t][id]
        <5>1. CASE UNCHANGED <<db, version>>
          BY <4>3, <5>1 DEF Exists
        <5>2. CASE \E u \in Tables : \E ids : Touched(u, ids)
          BY <1>1, <4>3, <5>2, LevelBefore
        <5> QED
          BY <2>11, <5>1, <5>2
      <4>5. Exists(t, id)' /\ seen = version'[t][id] =>
              \A c \in Columns(t) \ unsaved : new[c] = db'[t][id][c]
        BY <2>6, <2>8, <4>3, <4>4
      <4> QED
        BY <2>9, <4>2, <4>4, <4>5 DEF Copied, InSync, Exists, Row
    <3> QED
      BY <3>1, <3>2, <3>3 DEF ObjectInv
  <2>14. BoundsTyped'
    BY <1>1, <1>2, <2>7, <2>9 DEF BoundsTyped
  <2> QED
    BY <1>2, <2>9, <2>11, <2>12, <2>13, <2>14, NoCallTyped, InvParts DEF Parts
<1> QED
  BY <1>6, <1>7

LEMMA AddEndsStep ==
    ASSUME BoilerInv, AddEnds
    PROVE  BoilerInv'
<1>1. /\ CallTyped /\ HeapTyped /\ RowsWell /\ BoundsTyped /\ call.op = "add"
      /\ \A q \in Objects : ObjectInv(q)
  BY InvParts DEF Parts, AddEnds
<1>2. call' = NoCall /\ UNCHANGED <<db, version, calls, writes>>
  BY DEF AddEnds
<1>3. RowsWell'
  BY <1>1, <1>2 DEF RowsWell, RefersWell, Exists, Row
<1>4. PICK rel \in Relations : rel = call.rel
  BY <1>1, TodoFacts
<1>5. PICK p \in Objects : p = call.parent /\ IsA(ForeignKey[rel].foreign, p)
  BY <1>1, <1>4, TodoFacts DEF IsA
<1>6. PICK done \in SUBSET Nat :
         /\ done = call.done
         /\ \A q \in done : IsA(ForeignKey[rel].table, q) /\ heap[q].cols[ForeignKey[rel].column] = heap[p].id
  BY <1>1, <1>4, <1>5 DEF CallTyped
<1>7. p \in Nat /\ p \notin done /\ heap[p].table = ForeignKey[rel].foreign /\ done \subseteq Objects
  BY <1>1, <1>5, <1>6, Schema, HeapFacts DEF IsA
<1>8. PICK S \in SUBSET Nat : S = heap[p].many[rel] \cup done
  <2>1. heap[p].many[rel] \in SUBSET Nat
    BY <1>1, <1>7, HeapFacts, Schema
  <2> QED
    BY <2>1
<1>9. /\ heap' = [q \in Objects |->
                    IF q \in done THEN [heap[q] EXCEPT !.one[rel] = p]
                    ELSE IF q = p THEN [heap[q] EXCEPT !.many[rel] = S]
                    ELSE heap[q]]
      /\ half' = {h \in half : ~(h[1] \in done /\ h[2] = rel)}
  BY <1>4, <1>5, <1>6, <1>8 DEF AddEnds
<1>10. /\ DOMAIN heap' = Objects /\ heap' = [q \in Objects |-> heap'[q]]
       /\ \A q \in done : heap'[q] = [heap[q] EXCEPT !.one[rel] = p]
       /\ heap'[p] = [heap[p] EXCEPT !.many[rel] = S]
       /\ \A q \in Objects : q \notin done /\ q # p => heap'[q] = heap[q]
  BY <1>7, <1>9
<1>11. ASSUME NEW q \in done
       PROVE  /\ heap'[q] \in ObjectOf(heap[q].table) /\ heap[q].table = ForeignKey[rel].table
              /\ heap'[q].id = heap[q].id /\ heap'[q].cols = heap[q].cols
              /\ heap'[q].seen = heap[q].seen /\ heap'[q].unsaved = heap[q].unsaved
              /\ heap'[q].many = heap[q].many /\ heap'[q].one[rel] = p
              /\ \A r \in ToOne(heap[q].table) : r # rel => heap'[q].one[r] = heap[q].one[r]
  <2>1. heap[q] \in ObjectOf(ForeignKey[rel].table) /\ heap[q].table = ForeignKey[rel].table
    BY <1>1, <1>6, <1>7, HeapFacts DEF IsA
  <2>2. PICK x \in ObjectOf(ForeignKey[rel].table) : x = heap[q]
    BY <2>1
  <2>3. heap'[q] = [x EXCEPT !.one[rel] = p]
    BY <1>10, <2>2
  <2>4. Linked(heap'[q], x, rel, p)
    BY <1>7, <2>3, LinkFacts
  <2> QED
    BY <2>1, <2>2, <2>4 DEF Linked
<1>12. /\ heap'[p] \in ObjectOf(heap[p].table)
       /\ heap'[p].id = heap[p].id /\ heap'[p].cols = heap[p].cols
       /\ heap'[p].seen = heap[p].seen /\ heap'[p].unsaved = heap[p].unsaved
       /\ heap'[p].one = heap[p].one /\ heap'[p].many[rel] = S
       /\ \A r \in ToMany(heap[p].table) : r # rel => heap'[p].many[r] = heap[p].many[r]
  <2>1. PICK y \in ObjectOf(ForeignKey[rel].foreign) : y = heap[p]
    BY <1>1, <1>7, HeapFacts
  <2>2. heap'[p] = [y EXCEPT !.many[rel] = S]
    BY <1>10, <2>1
  <2>3. Listed(heap'[p], y, rel, S)
    BY <2>2, ListFacts
  <2> QED
    BY <1>7, <2>1, <2>3 DEF Listed
<1>13. HeapTyped' /\ Objects' = Objects
  <2>1. \A q \in Objects : heap'[q] \in ObjectOf(heap[q].table)
    BY <1>1, <1>10, <1>11, <1>12, HeapFacts
  <2>2. heap' \in Seq(AnyObject)
    BY <1>1, <1>10, <2>1, ChangeFacts
  <2> QED
    BY <1>10, <2>2 DEF HeapTyped, AnyObject, Objects
<1>14. Grown
  <2>1. \A q \in Objects : heap'[q].table = heap[q].table /\ heap'[q].id = heap[q].id
    <3>1. \A q \in done : heap'[q].table = heap[q].table
      BY <1>11 DEF ObjectOf
    <3>2. heap'[p].table = heap[p].table
      BY <1>12 DEF ObjectOf
    <3> QED
      BY <1>10, <1>11, <1>12, <3>1, <3>2
  <2> QED
    BY <1>13, <2>1 DEF Grown
<1>15. \A q \in Objects : \A r : q \notin done \/ r # rel => (<<q, r>> \notin half' => <<q, r>> \notin half)
  BY <1>9
<1>16. \A q \in Objects : q \notin done /\ q # p => ObjectInv(q)'
  BY <1>1, <1>2, <1>10, <1>14, <1>15, ObjectKept
<1>17. ASSUME NEW q \in done
       PROVE  ObjectInv(q)'
  <2>1. q \in Objects
    BY <1>7
  <2>2. Pointers(q)' /\ Follows(q)'
    <3>1. \A r \in ToOne(heap[q].table) : r # rel =>
             /\ heap'[q].one[r] = heap[q].one[r]
             /\ heap'[q].cols[ForeignKey[r].column] = heap[q].cols[ForeignKey[r].column]
             /\ <<q, r>> \notin half' => <<q, r>> \notin half
      BY <1>11, <1>15, <2>1
    <3>2. /\ heap'[q].one[rel] = p /\ heap'[q].many = heap[q].many
          /\ heap'[q].cols[ForeignKey[rel].column] = heap'[p].id
          /\ heap[q].table = ForeignKey[rel].table
      BY <1>6, <1>11, <1>12
    <3>3. IsA(ForeignKey[rel].foreign, p)'
      BY <1>5, <1>14, IsAKept
    <3> QED
      BY <1>1, <1>14, <2>1, <3>1, <3>2, <3>3, LinkedKept DEF ObjectInv
  <2>3. Copied(q)'
    BY <1>1, <1>2, <1>11, <1>14, <2>1, CopiedKept DEF ObjectInv
  <2> QED
    BY <2>2, <2>3 DEF ObjectInv
<1>18. ObjectInv(p)'
  <2>1. \A c \in heap'[p].many[rel] : IsA(ForeignKey[rel].table, c)'
    <3>1. \A c \in heap[p].many[rel] : IsA(ForeignKey[rel].table, c)
      BY <1>1, <1>5, <1>7, Schema DEF ObjectInv, Pointers
    <3>2. \A c \in S : IsA(ForeignKey[rel].table, c)
      BY <1>6, <1>8, <3>1
    <3> QED
      BY <1>12, <1>14, <3>2, IsAKept
  <2>2. Pointers(p)'
    BY <1>1, <1>7, <1>12, <1>14, <2>1, ListedKept DEF ObjectInv
  <2>3. Follows(p)'
    <3>1. \A r \in ToOne(heap[p].table) : <<p, r>> \notin half' /\ heap[p].one[r] # Nil =>
             /\ <<p, r>> \notin half
             /\ heap'[p].cols[ForeignKey[r].column] = heap[p].cols[ForeignKey[r].column]
      BY <1>7, <1>12, <1>15
    <3> QED
      BY <1>1, <1>12, <1>14, <3>1, FollowsKept DEF ObjectInv
  <2>4. Copied(p)'
    BY <1>1, <1>2, <1>12, <1>14, CopiedKept DEF ObjectInv
  <2> QED
    BY <2>2, <2>3, <2>4 DEF ObjectInv
<1>19. BoundsTyped'
  BY <1>1, <1>2, <1>9, <1>13 DEF BoundsTyped
<1> QED
  BY <1>2, <1>3, <1>13, <1>16, <1>17, <1>18, <1>19, NoCallTyped, InvParts DEF Parts

-----------------------------------------------------------------------------
(* Calls of one statement.                                                 *)

\* A call that begins: none is in progress.
LEMMA BeginFacts ==
    ASSUME BoilerInv, Begin
    PROVE  call = NoCall /\ calls' \in Nat
BY InvParts DEF Begin, Idle, Parts, BoundsTyped

LEMMA InsertStep ==
    ASSUME BoilerInv, NEW t \in Tables, NEW o, Insert(t, o)
    PROVE  BoilerInv'
<1>1. /\ IsA(t, o) /\ InsertRow(t, o, heap[o].cols) /\ WriteRow(t, heap[o].id, Stored(t, heap[o].cols))
      /\ heap' = Stores(t, o) \/ UNCHANGED heap
      /\ UNCHANGED <<call, half, writes>> /\ call' = NoCall /\ calls' \in Nat /\ writes' \in Nat
  BY BeginFacts, InvParts DEF Insert, InsertRow, Parts, BoundsTyped
<1>2. CASE UNCHANGED heap
  BY <1>1, <1>2, OwnColumns, InsertUnanswered, Unanswered
<1>3. CASE heap' = Stores(t, o)
  <2>1. HeapTyped' /\ RowsWell' /\ Grown /\ Objects' = Objects /\ \A q \in Objects : ObjectInv(q)'
    BY <1>1, <1>3, StoresFacts
  <2>2. BoundsTyped'
    BY <1>1, <2>1, InvParts DEF Parts, BoundsTyped
  <2> QED
    BY <1>1, <2>1, <2>2, NoCallTyped, InvParts DEF Parts
<1> QED
  BY <1>1, <1>2, <1>3

LEMMA UpsertStep ==
    ASSUME BoilerInv, NEW t \in Tables, NEW o, NEW updateOnConflict, Upsert(t, o, updateOnConflict)
    PROVE  BoilerInv'
<1>1. /\ IsA(t, o) /\ UNCHANGED <<call, half, writes>>
      /\ call' = NoCall /\ calls' \in Nat /\ writes' \in Nat
  BY BeginFacts, InvParts DEF Upsert, Parts, BoundsTyped
<1>2. CASE UNCHANGED <<db, version, heap>>
  BY <1>1, <1>2, SameRows, RowsOnly, InvParts DEF Parts, BoundsTyped
<1>3. CASE WriteRow(t, heap[o].id, Stored(t, heap[o].cols)) /\ heap' = Stores(t, o)
  <2>1. HeapTyped' /\ RowsWell' /\ Grown /\ Objects' = Objects /\ \A q \in Objects : ObjectInv(q)'
    BY <1>1, <1>3, StoresFacts
  <2>2. BoundsTyped'
    BY <1>1, <2>1, InvParts DEF Parts, BoundsTyped
  <2> QED
    BY <1>1, <2>1, <2>2, NoCallTyped, InvParts DEF Parts
<1>4. CASE WriteRow(t, heap[o].id, Stored(t, heap[o].cols)) /\ UNCHANGED heap
  BY <1>1, <1>4, OwnColumns, StoredFacts, WriteUnanswered, Unanswered
<1> QED
  BY <1>2, <1>3, <1>4 DEF Upsert

LEMMA UpdateStep ==
    ASSUME BoilerInv, NEW t \in Tables, NEW o, Update(t, o)
    PROVE  BoilerInv'
<1>1. /\ IsA(t, o) /\ UNCHANGED <<call, half, writes>>
      /\ call' = NoCall /\ calls' \in Nat /\ writes' \in Nat
  BY BeginFacts, InvParts DEF Update, Parts, BoundsTyped
<1>2. CASE UNCHANGED <<db, version, heap>>
  BY <1>1, <1>2, SameRows, RowsOnly, InvParts DEF Parts, BoundsTyped
<1>3. CASE /\ WriteRow(t, heap[o].id, heap[o].cols)
           /\ heap' = [heap EXCEPT ![o].seen = version[t][heap[o].id] + 1, ![o].unsaved = {}]
  <2>1. o \in Objects /\ heap[o].table = t
    BY <1>1 DEF IsA
  <2>2. PICK cols \in [Columns(t) -> Int] : cols = heap[o].cols
    BY <2>1, HeapFacts, InvParts DEF Parts
  <2>3. heap \in Seq(AnyObject) /\ heap[o] \in ObjectOf(t)
    BY <2>1, HeapFacts, InvParts DEF Parts
  <2>4. heap[o] = [heap[o] EXCEPT !.cols = cols]
    BY <2>2, <2>3 DEF ObjectOf
  <2>5. heap' = Rewritten(o, cols, version[heap[o].table][heap[o].id] + 1, {})
    BY <1>3, <2>1, <2>2, <2>3, <2>4 DEF Rewritten
  <2>6. cols \in [Columns(heap[o].table) -> Int] /\ Storing(o, cols)
    BY <1>1, <1>3, <2>1, <2>2, <2>5 DEF Storing
  <2>7. HeapTyped' /\ RowsWell' /\ Grown /\ Objects' = Objects /\ \A q \in Objects : ObjectInv(q)'
    <3>1. StoredWell(o, cols)
      BY <2>1, <2>6, StoreFacts
    <3> QED
      BY <3>1 DEF StoredWell
  <2>8. BoundsTyped'
    BY <1>1, <2>7, InvParts DEF Parts, BoundsTyped
  <2> QED
    BY <1>1, <2>7, <2>8, NoCallTyped, InvParts DEF Parts
<1>4. CASE WriteRow(t, heap[o].id, heap[o].cols) /\ UNCHANGED heap
  BY <1>1, <1>4, OwnColumns, WriteUnanswered, Unanswered
<1> QED
  BY <1>2, <1>3, <1>4 DEF Update

LEMMA DeleteStep ==
    ASSUME BoilerInv, NEW t \in Tables, NEW ids, RemoveRows(t, ids), UNCHANGED <<heap, call, half>>,
           calls' \in Nat, writes' \in Nat
    PROVE  BoilerInv'
BY RemoveRowsFacts, RowsOnly, InvParts DEF Parts

LEMMA SetColumnStep ==
    ASSUME BoilerInv, NEW t \in Tables, NEW ids, ids \subseteq DOMAIN db[t],
           NEW column \in Columns(t), NEW value \in Int,
           SetColumn(t, ids, column, value), UNCHANGED <<heap, call, half>>,
           calls' \in Nat, writes' \in Nat
    PROVE  BoilerInv'
BY SetColumnFacts, RowsOnly, InvParts DEF Parts

LEMMA ReloadStep ==
    ASSUME BoilerInv, NEW t \in Tables, NEW o, Reload(t, o)
    PROVE  BoilerInv'
<1>1. /\ IsA(t, o) /\ UNCHANGED <<db, version, call, writes>> /\ call' = NoCall /\ calls' \in Nat
      /\ half' = {h \in half : h[1] # o}
  BY BeginFacts DEF Reload
<1>2. /\ HeapTyped /\ RowsWell /\ BoundsTyped /\ RowsWell' /\ \A q \in Objects : ObjectInv(q)
  BY <1>1, SameRows, InvParts DEF Parts
<1>3. o \in Objects /\ heap[o].table = t
  BY <1>1 DEF IsA
<1>4. PICK id \in Keys[t] : id = heap[o].id
  BY <1>2, <1>3, HeapFacts
<1>5. id \in DOMAIN db[t]
  BY <1>4 DEF Reload, Exists
<1>6. PICK cols \in [Columns(t) -> Int], seen \in Nat : cols = db[t][id] /\ seen = version[t][id]
  BY <1>2, <1>4, <1>5 DEF RowsWell
<1>7. PICK x : x = NewObject(t, id, cols, seen)
  OBVIOUS
<1>8. /\ x \in ObjectOf(t) /\ x.id = id /\ x.cols = cols /\ x.seen = seen /\ x.unsaved = {}
      /\ \A r \in ToOne(t) : x.one[r] = Nil
      /\ \A r \in ToMany(t) : x.many[r] = {}
  BY <1>4, <1>7, NewObjectFacts
<1>9. heap' = [heap EXCEPT ![o] = x]
  BY <1>3, <1>4, <1>6, <1>7 DEF Reload, Row
<1>10. /\ HeapTyped' /\ Objects' = Objects /\ Grown /\ heap'[o] = x
       /\ \A p \in Objects : p # o => heap'[p] = heap[p]
  <2>1. x \in ObjectOf(heap[o].table) /\ x.id = heap[o].id
    BY <1>3, <1>4, <1>8
  <2> QED
    BY <1>2, <1>3, <1>9, <2>1, ReplaceFacts
<1>11. \A q \in Objects : q # o => ObjectInv(q)'
  <2>1. \A q \in Objects : q # o => \A r \in ToOne(heap[q].table) : <<q, r>> \notin half' => <<q, r>> \notin half
    BY <1>1
  <2> QED
    BY <1>1, <1>2, <1>10, <2>1, ObjectKept
<1>12. ObjectInv(o)'
  <2>1. heap'[o].table = t /\ heap'[o].id = id
    BY <1>3, <1>4, <1>10 DEF Grown
  <2>2. seen <= seen
    <3>1. \A n \in Nat : n <= n
      OBVIOUS
    <3> QED
      BY <1>6, <3>1
  <2> QED
    BY <1>1, <1>6, <1>8, <1>10, <2>1, <2>2 DEF ObjectInv, Pointers, Copied, Follows, Row
<1>13. BoundsTyped'
  BY <1>1, <1>2, <1>10 DEF BoundsTyped
<1> QED
  BY <1>1, <1>2, <1>10, <1>11, <1>12, <1>13, NoCallTyped, InvParts DEF Parts

\* The call of several statements begins.
\* The record of a Set or an Add that begins.
CallRecord(c, op, rel, p, todo) ==
    /\ c \in [op : {"none", "eager", "set", "add"}, rel : Relations \cup {"none"},
              parent : Nat, insert : BOOLEAN, todo : Seq(Nat), done : SUBSET Nat,
              rels : Seq(Relations), loaded : SUBSET Relations]
    /\ c.op = op /\ c.rel = rel /\ c.parent = p /\ c.todo = todo /\ c.done = {}

LEMMA CallRecordFacts ==
    ASSUME NEW op \in {"set", "add"}, NEW rel \in Relations, NEW p \in Nat, NEW insert \in BOOLEAN,
           NEW todo \in Seq(Nat),
           NEW c, c = [NoCall EXCEPT !.op = op, !.rel = rel, !.parent = p, !.insert = insert, !.todo = todo]
    PROVE  CallRecord(c, op, rel, p, todo)
<1>1. c = [op |-> op, rel |-> rel, parent |-> p, insert |-> insert, todo |-> todo,
           done |-> {}, rels |-> <<>>, loaded |-> {}]
  BY DEF NoCall
<1>2. <<>> \in Seq(Relations) /\ {} \in SUBSET Nat /\ {} \in SUBSET Relations
  OBVIOUS
<1>3. op \in {"none", "eager", "set", "add"} /\ rel \in Relations \cup {"none"}
  OBVIOUS
<1> QED
  BY ONLY op \in {"set", "add"}, p \in Nat, insert \in BOOLEAN, todo \in Seq(Nat), <1>1, <1>2, <1>3 DEF CallRecord

LEMMA CallBegins ==
    ASSUME BoilerInv, NEW rel \in Relations, NEW p, IsA(ForeignKey[rel].foreign, p),
           NEW op \in {"set", "add"}, NEW insert \in BOOLEAN,
           NEW todo \in Seq(Nat), \A i \in 1..Len(todo) : IsA(ForeignKey[rel].table, todo[i]),
           op = "set" => todo # <<>>,
           call' = [NoCall EXCEPT !.op = op, !.rel = rel, !.parent = p, !.insert = insert, !.todo = todo],
           calls' \in Nat, UNCHANGED <<db, version, heap, half, writes>>
    PROVE  BoilerInv'
<1>1. /\ HeapTyped /\ RowsWell /\ BoundsTyped /\ RowsWell' /\ \A q \in Objects : ObjectInv(q)
  BY SameRows, InvParts DEF Parts
<1>2. Grown /\ HeapTyped' /\ Objects' = Objects /\ BoundsTyped'
  BY <1>1 DEF Grown, HeapTyped, Objects, BoundsTyped
<1>3. \A q \in Objects : ObjectInv(q)'
  BY <1>1, <1>2, ObjectKept
<1>4. p \in Nat
  BY <1>1, HeapFacts DEF IsA
<1>5. /\ call' \in [op : {"none", "eager", "set", "add"}, rel : Relations \cup {"none"},
                    parent : Nat, insert : BOOLEAN, todo : Seq(Nat), done : SUBSET Nat,
                    rels : Seq(Relations), loaded : SUBSET Relations]
      /\ call'.op = op /\ call'.rel = rel /\ call'.parent = p /\ call'.todo = todo /\ call'.done = {}
  <2>1. PICK c : c = call'
    OBVIOUS
  <2>2. c = [NoCall EXCEPT !.op = op, !.rel = rel, !.parent = p, !.insert = insert, !.todo = todo]
    BY <2>1
  <2>3. CallRecord(c, op, rel, p, todo)
    BY <1>4, <2>2, CallRecordFacts
  <2> QED
    BY <2>1, <2>3 DEF CallRecord
<1>6. \A u, q : IsA(u, q)' <=> IsA(u, q)
  BY <1>2 DEF IsA
<1>7. CallTyped' /\ EagerLoadComplete'
  BY <1>5, <1>6 DEF CallTyped, EagerLoadComplete
<1> QED
  BY <1>1, <1>2, <1>3, <1>7, InvParts DEF Parts

LEMMA SetStep ==
    ASSUME BoilerInv, NEW rel \in Relations, NEW o, NEW insert \in BOOLEAN, NEW p, Set(rel, o, insert, p)
    PROVE  BoilerInv'
<1>1. /\ IsA(ForeignKey[rel].table, o) /\ IsA(ForeignKey[rel].foreign, p)
      /\ calls' \in Nat /\ UNCHANGED <<db, version, heap, half, writes>>
  BY BeginFacts DEF Set
<1>2. o \in Nat
  BY <1>1, HeapFacts, InvParts DEF Parts, IsA
<1>3. PICK todo \in Seq(Nat) : todo = <<o>>
  <2>1. <<o>> \in Seq(Nat)
    BY <1>2
  <2> QED
    BY <2>1
<1>4. Len(todo) = 1 /\ todo[1] = o /\ todo # <<>>
  BY <1>3
<1>5. call' = [NoCall EXCEPT !.op = "set", !.rel = rel, !.parent = p, !.insert = insert, !.todo = todo]
  BY <1>3 DEF Set
<1>6. \A i \in 1..Len(todo) : IsA(ForeignKey[rel].table, todo[i])
  BY <1>1, <1>4
<1> QED
  BY <1>1, <1>4, <1>5, <1>6, CallBegins

LEMMA AddStep ==
    ASSUME BoilerInv, NEW rel \in Relations, NEW o, NEW insert \in BOOLEAN,
           NEW related \in Seq(Nat), Add(rel, o, insert, related)
    PROVE  BoilerInv'
<1>1. /\ IsA(ForeignKey[rel].foreign, o) /\ \A i \in DOMAIN related : IsA(ForeignKey[rel].table, related[i])
      /\ calls' \in Nat /\ UNCHANGED <<db, version, heap, half, writes>>
      /\ call' = [NoCall EXCEPT !.op = "add", !.rel = rel, !.parent = o, !.insert = insert, !.todo = related]
  BY BeginFacts DEF Add
<1>2. \A i \in 1..Len(related) : IsA(ForeignKey[rel].table, related[i])
  BY <1>1
<1> QED
  BY <1>1, <1>2, CallBegins

-----------------------------------------------------------------------------
(* Queries.                                                                *)

LEMMA LeastNatural ==
    ASSUME NEW S \in SUBSET Nat, S # {}
    PROVE  \E n \in S : \A m \in S : n <= m
<1>1. PICK R : R = OpToRel(<, Nat)
  OBVIOUS
<1>2. IsWellFoundedOn(R, Nat)
  BY <1>1, NatLessThanWellFounded
<1>3. \A m, n \in Nat : m < n => <<m, n>> \in R
  BY <1>1 DEF OpToRel
<1>4. PICK n \in S : \A m \in S : ~(<<m, n>> \in R)
  BY <1>2, WFMin
<1>5. ASSUME NEW m \in S
      PROVE  n <= m
  <2>1. n \in Nat /\ m \in Nat /\ ~(m < n)
    BY <1>3, <1>4
  <2> QED
    BY <2>1
<1> QED
  BY <1>5

\* An ascending order has each row of the result once.
LEMMA AscendingFacts ==
    ASSUME RowsWell, NEW t \in Tables, NEW ids \in SUBSET DOMAIN db[t], NEW order \in Ascending(ids)
    PROVE  /\ Cardinality(ids) \in Nat /\ order \in [1..Cardinality(ids) -> ids]
           /\ \A id \in ids : \E i \in 1..Cardinality(ids) : order[i] = id
<1>1. IsFiniteSet(ids)
  BY FS_Subset DEF RowsWell
<1>2. PICK n \in Nat : n = Cardinality(ids)
  BY <1>1, FS_CardinalityType
<1>3. order \in [1..n -> ids] /\ \A i, j \in 1..n : i < j => order[i] < order[j]
  BY <1>2 DEF Ascending
<1>4. \A i \in 1..n : order[i] \in Int
  BY <1>3, SceneAssumption DEF RowsWell
<1>5. \A i, j \in 1..n : order[i] = order[j] => i = j
  <2> SUFFICES ASSUME NEW i \in 1..n, NEW j \in 1..n, i # j
               PROVE  order[i] # order[j]
    OBVIOUS
  <2>1. i < j \/ j < i
    OBVIOUS
  <2>2. order[i] < order[j] \/ order[j] < order[i]
    BY <1>3, <2>1
  <2> QED
    BY <1>4, <2>2
<1>6. order \in Injection(1..n, ids)
  BY <1>3, <1>5 DEF Injection, IsInjective
<1>7. Cardinality(1..n) = n
  BY FS_Interval
<1>8. order \in Surjection(1..n, ids)
  BY <1>1, <1>2, <1>6, <1>7, FS_Injection
<1> QED
  BY <1>2, <1>3, <1>8 DEF Surjection

(***************************************************************************)
(* New objects behind the heap: the copies of rows, and pointers that go   *)
(* with them.                                                              *)
(***************************************************************************)
Fetched(t, id) == NewObject(t, id, Row(t, id), version[t][id])

LEMMA FetchedFacts ==
    ASSUME RowsWell, NEW t \in Tables, NEW id \in DOMAIN db[t]
    PROVE  /\ Fetched(t, id) \in ObjectOf(t) /\ id \in Keys[t]
           /\ Fetched(t, id).table = t /\ Fetched(t, id).id = id
           /\ Fetched(t, id).cols = db[t][id] /\ Fetched(t, id).seen = version[t][id]
           /\ Fetched(t, id).unsaved = {}
           /\ \A r \in ToOne(t) : Fetched(t, id).one[r] = Nil
           /\ \A r \in ToMany(t) : Fetched(t, id).many[r] = {}
<1>1. PICK cols \in [Columns(t) -> Int], seen \in Nat : cols = db[t][id] /\ seen = version[t][id]
  BY DEF RowsWell
<1>2. id \in Keys[t]
  BY DEF RowsWell
<1>3. Fetched(t, id) = NewObject(t, id, cols, seen)
  BY <1>1 DEF Fetched, Row
<1> QED
  BY <1>1, <1>2, <1>3, NewObjectFacts

\* The heap after a query: the old objects, in kept, and the new ones behind them.
Fetching(kept, new, n) ==
    /\ HeapTyped' /\ Grown
    /\ \A o \in Objects : heap'[o] = kept[o]
    /\ \A i \in 1..n : heap'[Len(heap) + i] = new[i] /\ Len(heap) + i \in Objects'
    /\ \A o \in Objects' : o \in Objects \/ \E i \in 1..n : o = Len(heap) + i

LEMMA AppendFacts ==
    ASSUME HeapTyped, NEW n \in Nat, NEW new, new \in [1..n -> AnyObject],
           NEW kept, DOMAIN kept = Objects, kept = [o \in Objects |-> kept[o]],
           \A o \in Objects : kept[o] \in ObjectOf(heap[o].table) /\ kept[o].id = heap[o].id,
           heap' = kept \o new
    PROVE  Fetching(kept, new, n)
<1>1. kept \in Seq(AnyObject) /\ Len(kept) = Len(heap)
  BY ChangeFacts
<1>2. new \in Seq(AnyObject) /\ Len(new) = n
  OBVIOUS
<1>3. /\ heap' \in Seq(AnyObject)
      /\ \A o \in 1..Len(heap) : heap'[o] = kept[o] /\ o \in 1..Len(heap')
      /\ \A i \in 1..n : heap'[Len(heap) + i] = new[i] /\ Len(heap) + i \in 1..Len(heap')
      /\ \A o \in 1..Len(heap') : o \in 1..Len(heap) \/ \E i \in 1..n : o = Len(heap) + i
  <2>1. PICK m : m = Len(heap)
    OBVIOUS
  <2>2. PICK all : all = heap'
    OBVIOUS
  <2>3. m = Len(kept) /\ n = Len(new) /\ all = kept \o new
    BY <1>1, <1>2, <2>1, <2>2
  <2>4. Appended(all, kept, m, new, n)
    BY <1>1, <1>2, <2>3, AppendedFacts
  <2> QED
    BY <2>1, <2>2, <2>4 DEF Appended
<1>4. Objects = 1..Len(heap) /\ Objects' = 1..Len(heap')
  BY <1>3, HeapFacts DEF Objects
<1>5. \A o \in Objects : kept[o].table = heap[o].table
  BY DEF ObjectOf
<1> QED
  BY <1>3, <1>4, <1>5 DEF HeapTyped, AnyObject, Grown, Fetching

\* A query of rows without a relation to anything.
LEMMA FetchFacts ==
    ASSUME BoilerInv, NEW t \in Tables, NEW ids \in SUBSET DOMAIN db[t], NEW order \in Ascending(ids),
           heap' = Fetch(t, ids, order), UNCHANGED <<db, version, half>>
    PROVE  /\ HeapTyped' /\ RowsWell' /\ Grown /\ \A o \in Objects' : ObjectInv(o)'
           /\ Cardinality(ids) \in Nat /\ Len(heap) \in Nat
           /\ \A o \in Len(heap) + 1 .. Len(heap) + Cardinality(ids) : IsA(t, o)' /\ heap'[o].unsaved = {} /\ o \in Nat
<1>1. HeapTyped /\ RowsWell /\ RowsWell' /\ \A q \in Objects : ObjectInv(q)
  BY SameRows, InvParts DEF Parts
<1>2. PICK n \in Nat : n = Cardinality(ids) /\ order \in [1..n -> ids]
  BY <1>1, AscendingFacts
<1>3. PICK new : new = [i \in 1..n |-> Fetched(t, order[i])]
  OBVIOUS
<1>4. \A i \in 1..n : order[i] \in DOMAIN db[t] /\ new[i] = Fetched(t, order[i]) /\ new[i] \in ObjectOf(t)
  BY <1>1, <1>2, <1>3, FetchedFacts
<1>5. new \in [1..n -> AnyObject]
  BY <1>3, <1>4 DEF AnyObject
<1>6. heap' = heap \o new
  BY <1>2, <1>3 DEF Fetch, Fetched
<1>7. heap = [o \in Objects |-> heap[o]] /\ \A o \in Objects : heap[o] \in ObjectOf(heap[o].table)
  <2>1. heap = [o \in Objects |-> heap[o]]
    BY <1>1, HeapFacts DEF Objects
  <2> QED
    BY <1>1, <2>1, HeapFacts
<1>8. /\ HeapTyped' /\ Grown
      /\ \A o \in Objects : heap'[o] = heap[o]
      /\ \A i \in 1..n : heap'[Len(heap) + i] = new[i] /\ Len(heap) + i \in Objects'
      /\ \A o \in Objects' : o \in Objects \/ \E i \in 1..n : o = Len(heap) + i
  <2>1. DOMAIN heap = Objects /\ \A o \in Objects : heap[o] \in ObjectOf(heap[o].table) /\ heap[o].id = heap[o].id
    BY <1>7 DEF Objects
  <2>2. Fetching(heap, new, n)
    BY <1>1, <1>5, <1>6, <1>7, <2>1, AppendFacts
  <2> QED
    BY <2>2 DEF Fetching
<1>9. \A o \in Objects : ObjectInv(o)'
  BY <1>1, <1>8, ObjectKept
<1>10. ASSUME NEW i \in 1..n
       PROVE  \E o : o = Len(heap) + i /\ ObjectInv(o)' /\ IsA(t, o)' /\ heap'[o].unsaved = {}
  <2>1. PICK o : o = Len(heap) + i
    OBVIOUS
  <2>2. PICK id \in DOMAIN db[t] : id = order[i] /\ heap'[o] = Fetched(t, id) /\ o \in Objects'
    BY <1>4, <1>8, <2>1
  <2>3. /\ heap'[o].table = t /\ heap'[o].id = id
        /\ heap'[o].cols = db[t][id] /\ heap'[o].seen = version[t][id] /\ heap'[o].unsaved = {}
        /\ \A r \in ToOne(t) : heap'[o].one[r] = Nil
        /\ \A r \in ToMany(t) : heap'[o].many[r] = {}
    BY <1>1, <2>2, FetchedFacts
  <2>4. version[t][id] <= version[t][id]
    <3>1. version[t][id] \in Nat
      BY <1>1 DEF RowsWell
    <3>2. \A m \in Nat : m <= m
      OBVIOUS
    <3> QED
      BY <3>1, <3>2
  <2>5. version' = version /\ db' = db
    OBVIOUS
  <2>6. Pointers(o)' /\ Copied(o)' /\ Follows(o)' /\ IsA(t, o)'
    BY <2>2, <2>3, <2>4, <2>5 DEF Pointers, Copied, Follows, Row, IsA
  <2> QED
    BY <2>1, <2>3, <2>6 DEF ObjectInv
<1>11. Len(heap) \in Nat
  BY <1>1, HeapFacts
<1>12. \A o \in Len(heap) + 1 .. Len(heap) + n : o \in Nat /\ \E i \in 1..n : o = Len(heap) + i
  <2>1. ASSUME NEW o \in Len(heap) + 1 .. Len(heap) + n
        PROVE  o \in Nat /\ o - Len(heap) \in 1..n /\ o = Len(heap) + (o - Len(heap))
    BY <1>11
  <2> QED
    BY <2>1
<1>13. \A o \in Objects' : ObjectInv(o)'
  BY <1>8, <1>9, <1>10
<1>14. \A o \in Len(heap) + 1 .. Len(heap) + n : IsA(t, o)' /\ heap'[o].unsaved = {} /\ o \in Nat
  BY <1>10, <1>12
<1> QED
  BY <1>1, <1>2, <1>8, <1>11, <1>13, <1>14

LEMMA QueryStep ==
    ASSUME BoilerInv, NEW t \in Tables, NEW ids, NEW rels \in Seq(ToOne(t)), Query(t, ids, rels)
    PROVE  BoilerInv'
<1>1. /\ call = NoCall /\ calls' \in Nat /\ UNCHANGED <<db, version, half, writes>>
      /\ ids \in SUBSET DOMAIN db[t]
  BY BeginFacts DEF Query
<1>2. PICK order \in Ascending(ids) : heap' = Fetch(t, ids, order)
  BY DEF Query
<1>3. /\ HeapTyped' /\ RowsWell' /\ Grown /\ \A o \in Objects' : ObjectInv(o)'
      /\ Cardinality(ids) \in Nat /\ Len(heap) \in Nat
      /\ \A o \in Len(heap) + 1 .. Len(heap) + Cardinality(ids) : IsA(t, o)' /\ heap'[o].unsaved = {} /\ o \in Nat
  BY <1>1, <1>2, FetchFacts
<1>4. BoundsTyped'
  BY <1>1, <1>3, InvParts DEF Parts, BoundsTyped, Grown
<1>5. CallTyped' /\ EagerLoadComplete'
  <2>1. CASE rels = <<>>
    <3>1. call' = NoCall
      BY <2>1 DEF Query
    <3> QED
      BY <3>1, NoCallTyped
  <2>2. CASE rels # <<>>
    <3>1. PICK done \in SUBSET Nat : done = Len(heap) + 1 .. Len(heap) + Cardinality(ids)
      BY <1>3
    <3>2. call' = [NoCall EXCEPT !.op = "eager", !.rels = rels, !.done = done]
      BY <2>2, <3>1 DEF Query
    <3>3. rels \in Seq(Relations)
      <4>1. ToOne(t) \subseteq Relations
        BY Schema
      <4> QED
        BY <4>1
    <3>4. /\ call' \in [op : {"none", "eager", "set", "add"}, rel : Relations \cup {"none"},
                        parent : Nat, insert : BOOLEAN, todo : Seq(Nat), done : SUBSET Nat,
                        rels : Seq(Relations), loaded : SUBSET Relations]
          /\ call'.op = "eager" /\ call'.done = done /\ call'.rels = rels /\ call'.loaded = {}
      <4>1. PICK all \in Seq(Relations) : all = rels
        BY <3>3
      <4>2. call' = [op |-> "eager", rel |-> "none", parent |-> Nil, insert |-> FALSE, todo |-> <<>>,
                     done |-> done, rels |-> all, loaded |-> {}]
        BY <3>2, <4>1 DEF NoCall
      <4>3. PICK none \in Seq(Nat) : none = <<>>
        <5>1. <<>> \in Seq(Nat)
          OBVIOUS
        <5> QED
          BY <5>1
      <4>4. {} \in SUBSET Relations /\ Nil \in Nat
        BY DEF Nil
      <4> QED
        BY <4>1, <4>2, <4>3, <4>4
    <3>5. \A o \in done : IsA(t, o)' /\ heap'[o].unsaved = {}
      BY <1>3, <3>1
    <3>6. CallTyped'
      <4>1. \A o \in call'.done : IsA(t, o)' /\ heap'[o].unsaved = {}
        BY <3>4, <3>5
      <4> QED
        BY <3>4, <4>1 DEF CallTyped, IsA
    <3>7. EagerLoadComplete'
      BY <3>4 DEF EagerLoadComplete
    <3> QED
      BY <3>6, <3>7
  <2> QED
    BY <2>1, <2>2
<1> QED
  BY <1>3, <1>4, <1>5, InvParts DEF Parts

LEMMA ReloadAllStep ==
    ASSUME BoilerInv, NEW t \in Tables, NEW objs, ReloadAll(t, objs)
    PROVE  BoilerInv'
<1>1. PICK ids : Query(t, ids, <<>>)
  BY DEF ReloadAll
<1>2. <<>> \in Seq(ToOne(t))
  OBVIOUS
<1> QED
  BY <1>1, <1>2, QueryStep

(***************************************************************************)
(* The N-1 side of an eager load: pointers are set and none is taken away, *)
(* and an object level with its row gets the row it refers to.             *)
(***************************************************************************)
LEMMA LoadsFacts ==
    ASSUME BoilerInv, NEW rel \in Relations, NEW objs, \A o \in objs : IsA(ForeignKey[rel].table, o),
           LoadsToOne(rel, objs)
    PROVE  /\ HeapTyped' /\ RowsWell' /\ Grown /\ \A o \in Objects' : ObjectInv(o)'
           /\ half' \subseteq half
           /\ \A o \in Objects : InSync(o)' <=> InSync(o)
           /\ \A o \in Objects : \A r \in ToOne(heap[o].table) : heap'[o].one[r] = Nil => heap[o].one[r] = Nil
           /\ \A o \in Objects : heap'[o].unsaved = heap[o].unsaved
           /\ \A o \in objs : InSync(o) /\ heap[o].unsaved = {} => heap'[o].one[rel] # Nil
<1>1. /\ HeapTyped /\ RowsWell /\ RowsWell' /\ \A q \in Objects : ObjectInv(q)
      /\ UNCHANGED <<db, version, writes>>
  BY SameRows, InvParts DEF Parts, LoadsToOne
<1>2. PICK t \in Tables, u \in Tables : t = ForeignKey[rel].foreign /\ u = ForeignKey[rel].table
  BY Schema
<1>3. PICK column : column = ForeignKey[rel].column
  OBVIOUS
<1>4. PICK found \in SUBSET DOMAIN db[t] : found = KeysOf(rel, objs) \cap DOMAIN db[t]
  OBVIOUS
<1>5. PICK order \in Ascending(found) :
         /\ heap' = Pointed(rel, objs, order) \o
              [i \in DOMAIN order |->
                 [Fetched(t, order[i]) EXCEPT !.many[rel] = {o \in objs : Matches(rel, o, order, i)}]]
         /\ half' = {h \in half : ~(h[1] \in objs /\ h[2] = rel /\ \E i \in DOMAIN order : Matches(rel, h[1], order, i))}
  BY <1>2, <1>4 DEF LoadsToOne, Fetched
<1>6. PICK n \in Nat : /\ n = Cardinality(found) /\ order \in [1..n -> found]
                       /\ \A id \in found : \E i \in 1..n : order[i] = id
  BY <1>1, AscendingFacts
<1>7. objs \subseteq Objects /\ objs \subseteq Nat /\ \A o \in objs : heap[o].table = u
  BY <1>1, <1>2, HeapFacts DEF IsA
<1>8. PICK Hit : Hit = {o \in objs : \E i \in 1..n : heap[o].cols[column] = order[i]}
  OBVIOUS
<1>9. PICK kept : kept = Pointed(rel, objs, order)
  OBVIOUS
<1>10. PICK new : new = [i \in 1..n |->
                           [Fetched(t, order[i]) EXCEPT !.many[rel] = {o \in objs : Matches(rel, o, order, i)}]]
  OBVIOUS
<1>11. heap' = kept \o new
  BY <1>5, <1>6, <1>9, <1>10
<1>12. /\ DOMAIN kept = Objects /\ kept = [o \in Objects |-> kept[o]]
       /\ \A o \in Objects : o \notin Hit => kept[o] = heap[o]
  BY <1>3, <1>6, <1>8, <1>9 DEF Pointed, Matches
<1>13. ASSUME NEW o \in Hit
       PROVE  \E i \in 1..n : /\ heap[o].cols[column] = order[i]
                              /\ kept[o] = [heap[o] EXCEPT !.one[rel] = Len(heap) + i]
  <2>1. PICK i : i = CHOOSE j \in DOMAIN order : Matches(rel, o, order, j)
    OBVIOUS
  <2>2. i \in 1..n /\ heap[o].cols[column] = order[i]
    BY <1>3, <1>6, <1>8, <2>1 DEF Matches
  <2>3. kept[o] = [heap[o] EXCEPT !.one[rel] = Len(heap) + i]
    BY <1>3, <1>6, <1>7, <1>8, <1>9, <2>1, <2>2 DEF Pointed, Matches
  <2> QED
    BY <2>2, <2>3
<1>14. Len(heap) \in Nat
  BY <1>1, HeapFacts
<1>15. ASSUME NEW o \in Hit
       PROVE  /\ kept[o] \in ObjectOf(u) /\ kept[o].id = heap[o].id
              /\ kept[o].cols = heap[o].cols /\ kept[o].seen = heap[o].seen
              /\ kept[o].unsaved = heap[o].unsaved /\ kept[o].many = heap[o].many
              /\ \E i \in 1..n : heap[o].cols[column] = order[i] /\ kept[o].one[rel] = Len(heap) + i
              /\ \A r \in ToOne(u) : r # rel => kept[o].one[r] = heap[o].one[r]
  <2>1. PICK i \in 1..n : /\ heap[o].cols[column] = order[i]
                          /\ kept[o] = [heap[o] EXCEPT !.one[rel] = Len(heap) + i]
    BY <1>13
  <2>2. PICK x \in ObjectOf(ForeignKey[rel].table) : x = heap[o]
    BY <1>1, <1>2, <1>7, <1>8, HeapFacts
  <2>3. PICK p \in Nat : p = Len(heap) + i
    BY <1>14
  <2>4. kept[o] = [x EXCEPT !.one[rel] = p]
    BY <2>1, <2>2, <2>3
  <2>5. Linked(kept[o], x, rel, p)
    BY <2>4, LinkFacts
  <2> QED
    BY <1>2, <2>1, <2>2, <2>3, <2>5 DEF Linked
<1>16. \A o \in Objects : kept[o] \in ObjectOf(heap[o].table) /\ kept[o].id = heap[o].id
  BY <1>1, <1>7, <1>8, <1>12, <1>15, HeapFacts
<1>17. ASSUME NEW i \in 1..n
       PROVE  /\ order[i] \in DOMAIN db[t] /\ new[i] \in ObjectOf(t)
              /\ new[i].table = t /\ new[i].id = order[i]
              /\ new[i].cols = db[t][order[i]] /\ new[i].seen = version[t][order[i]] /\ new[i].unsaved = {}
              /\ \A r \in ToOne(t) : new[i].one[r] = Nil
              /\ new[i].many[rel] \subseteq objs
              /\ \A r \in ToMany(t) : r # rel => new[i].many[r] = {}
  <2>1. PICK id \in DOMAIN db[t] : id = order[i]
    BY <1>6
  <2>2. PICK S \in SUBSET Nat : S = {o \in objs : Matches(rel, o, order, i)} /\ S \subseteq objs
    BY <1>7
  <2>3. PICK x \in ObjectOf(ForeignKey[rel].foreign) : x = Fetched(t, id)
    BY <1>1, <1>2, FetchedFacts
  <2>4. new[i] = [x EXCEPT !.many[rel] = S]
    BY <1>10, <2>1, <2>2, <2>3
  <2>5. /\ new[i] \in ObjectOf(t) /\ new[i].id = x.id /\ new[i].cols = x.cols /\ new[i].seen = x.seen
        /\ new[i].unsaved = x.unsaved /\ new[i].one = x.one /\ new[i].many[rel] = S
        /\ \A r \in ToMany(t) : r # rel => new[i].many[r] = x.many[r]
    <3>1. Listed(new[i], x, rel, S)
      BY <2>4, ListFacts
    <3> QED
      BY <1>2, <3>1 DEF Listed
  <2>6. new[i].table = t
    BY <2>5 DEF ObjectOf
  <2> QED
    BY <1>1, <2>1, <2>2, <2>3, <2>5, <2>6, FetchedFacts
<1>18. new \in [1..n -> AnyObject]
  BY <1>10, <1>17 DEF AnyObject
<1>19. /\ HeapTyped' /\ Grown
       /\ \A o \in Objects : heap'[o] = kept[o]
       /\ \A i \in 1..n : heap'[Len(heap) + i] = new[i] /\ Len(heap) + i \in Objects'
       /\ \A o \in Objects' : o \in Objects \/ \E i \in 1..n : o = Len(heap) + i
  <2>1. Fetching(kept, new, n)
    BY <1>1, <1>11, <1>12, <1>16, <1>18, AppendFacts
  <2> QED
    BY <2>1 DEF Fetching
<1>20. \A o \in Objects : \A r : o \notin Hit \/ r # rel => (<<o, r>> \notin half' => <<o, r>> \notin half)
  BY <1>3, <1>5, <1>6, <1>8 DEF Matches
<1>21. \A o \in Objects : o \notin Hit => ObjectInv(o)'
  BY <1>1, <1>12, <1>19, <1>20, ObjectKept
<1>22. ASSUME NEW o \in Hit
       PROVE  ObjectInv(o)' /\ heap'[o].one[rel] # Nil
  <2>1. o \in Objects /\ heap[o].table = ForeignKey[rel].table /\ heap'[o] = kept[o]
    BY <1>2, <1>7, <1>8, <1>19
  <2>2. PICK i \in 1..n : heap[o].cols[column] = order[i] /\ kept[o].one[rel] = Len(heap) + i
    BY <1>15
  <2>3. PICK p : p = Len(heap) + i
    OBVIOUS
  <2>4. IsA(ForeignKey[rel].foreign, p)' /\ heap'[p].id = order[i]
    BY <1>2, <1>17, <1>19, <2>3 DEF IsA
  <2>5. /\ heap'[o].one[rel] = p /\ heap'[o].many = heap[o].many
        /\ heap'[o].cols[ForeignKey[rel].column] = heap'[p].id
        /\ \A r \in ToOne(heap[o].table) : r # rel =>
              /\ heap'[o].one[r] = heap[o].one[r]
              /\ heap'[o].cols[ForeignKey[r].column] = heap[o].cols[ForeignKey[r].column]
              /\ <<o, r>> \notin half' => <<o, r>> \notin half
    BY <1>2, <1>3, <1>15, <1>20, <2>1, <2>2, <2>3, <2>4
  <2>6. Pointers(o)' /\ Follows(o)'
    BY <1>1, <1>19, <2>1, <2>4, <2>5, LinkedKept DEF ObjectInv
  <2>7. Copied(o)'
    BY <1>1, <1>15, <1>19, <2>1, CopiedKept DEF ObjectInv
  <2>8. heap'[o].one[rel] # Nil
    BY <1>14, <2>3, <2>5 DEF Nil
  <2> QED
    BY <2>6, <2>7, <2>8 DEF ObjectInv
<1>23. ASSUME NEW i \in 1..n
       PROVE  \E o : o = Len(heap) + i /\ ObjectInv(o)'
  <2>1. PICK o : o = Len(heap) + i
    OBVIOUS
  <2>2. PICK id \in DOMAIN db[t] : id = order[i] /\ heap'[o] = new[i]
    BY <1>17, <1>19, <2>1
  <2>3. /\ heap'[o].table = t /\ heap'[o].id = id
        /\ heap'[o].cols = db[t][id] /\ heap'[o].seen = version[t][id] /\ heap'[o].unsaved = {}
        /\ \A r \in ToOne(t) : heap'[o].one[r] = Nil
        /\ heap'[o].many[rel] \subseteq objs
        /\ \A r \in ToMany(t) : r # rel => heap'[o].many[r] = {}
    BY <1>17, <2>2
  <2>4. version[t][id] <= version[t][id]
    <3>1. version[t][id] \in Nat
      BY <1>1 DEF RowsWell
    <3>2. \A m \in Nat : m <= m
      OBVIOUS
    <3> QED
      BY <3>1, <3>2
  <2>5. \A c \in objs : IsA(ForeignKey[rel].table, c)'
    BY <1>19, IsAKept
  <2>6. \A r \in ToMany(t) : \A c \in heap'[o].many[r] : IsA(ForeignKey[r].table, c)'
    BY <2>3, <2>5
  <2>7. Pointers(o)'
    BY <2>3, <2>6 DEF Pointers, IsA
  <2>8. Copied(o)' /\ Follows(o)'
    BY <1>1, <2>3, <2>4 DEF Copied, Follows, Row
  <2> QED
    BY <2>1, <2>7, <2>8 DEF ObjectInv
<1>24. \A o \in Objects : (InSync(o)' <=> InSync(o)) /\ heap'[o].unsaved = heap[o].unsaved
  <2>1. ASSUME NEW o \in Objects
        PROVE  heap'[o].seen = heap[o].seen /\ heap'[o].unsaved = heap[o].unsaved
    <3>1. heap'[o] = kept[o]
      BY <1>19
    <3>2. CASE o \in Hit
      BY <1>15, <3>1, <3>2
    <3>3. CASE o \notin Hit
      BY <1>12, <3>1, <3>3
    <3> QED
      BY <3>2, <3>3
  <2> QED
    BY <1>1, <1>19, <2>1 DEF InSync, Exists, Grown
<1>25. ASSUME NEW o \in Objects, NEW r \in ToOne(heap[o].table), heap'[o].one[r] = Nil
       PROVE  heap[o].one[r] = Nil
  <2>1. CASE o \in Hit
    <3>1. r # rel /\ heap[o].table = u
      BY <1>7, <1>8, <1>22, <1>25, <2>1
    <3> QED
      BY <1>15, <1>19, <1>25, <2>1, <3>1
  <2>2. CASE o \notin Hit
    BY <1>12, <1>19, <1>25, <2>2
  <2> QED
    BY <2>1, <2>2
<1>26. ASSUME NEW o \in objs, InSync(o), heap[o].unsaved = {}
       PROVE  o \in Hit
  <2>1. PICK id \in DOMAIN db[u] : id = heap[o].id /\ heap[o].cols[column] = db[u][id][column]
    <3>1. column \in Columns(u)
      BY <1>2, <1>3, Schema
    <3> QED
      BY <1>1, <1>7, <1>26, <3>1 DEF ObjectInv, Copied, InSync, Exists, Row
  <2>2. db[u][id][column] \in DOMAIN db[t]
    BY <1>1, <1>2, <1>3, Schema DEF RowsWell, RefersWell, Exists, Row
  <2>3. heap[o].cols[column] \in found
    BY <1>3, <1>4, <2>1, <2>2 DEF KeysOf
  <2> QED
    BY <1>6, <1>8, <2>3
<1>27. \A o \in Objects' : ObjectInv(o)'
  BY <1>19, <1>21, <1>22, <1>23
<1>28. half' \subseteq half
  BY <1>5
<1>29. \A o \in objs : InSync(o) /\ heap[o].unsaved = {} => heap'[o].one[rel] # Nil
  BY <1>22, <1>26
<1> QED
  BY <1>1, <1>19, <1>24, <1>25, <1>27, <1>28, <1>29

LEMMA LoadToOneStep ==
    ASSUME BoilerInv, NEW rel \in Relations, NEW objs, LoadToOne(rel, objs)
    PROVE  BoilerInv'
<1>1. /\ call' = NoCall /\ calls' \in Nat /\ writes' \in Nat
      /\ \A o \in objs : IsA(ForeignKey[rel].table, o)
      /\ LoadsToOne(rel, objs)
  BY BeginFacts, InvParts DEF LoadToOne, LoadsToOne, Parts, BoundsTyped
<1>2. /\ HeapTyped' /\ RowsWell' /\ Grown /\ \A o \in Objects' : ObjectInv(o)'
      /\ half' \subseteq half
  BY <1>1, LoadsFacts
<1>3. BoundsTyped'
  BY <1>1, <1>2, InvParts DEF Parts, BoundsTyped, Grown
<1> QED
  BY <1>1, <1>2, <1>3, NoCallTyped, InvParts DEF Parts

LEMMA EagerLoadStep ==
    ASSUME BoilerInv, EagerLoad
    PROVE  BoilerInv'
<1>1. CallTyped /\ BoundsTyped /\ EagerLoadComplete /\ HeapTyped
  BY InvParts DEF Parts
<1>2. /\ call.op = "eager" /\ call.rels # <<>> /\ LoadsToOne(Head(call.rels), call.done)
      /\ call' = [call EXCEPT !.rels = Tail(@), !.loaded = @ \cup {Head(call.rels)}]
      /\ UNCHANGED <<calls, writes>>
  BY DEF EagerLoad, LoadsToOne
<1>3. PICK t \in Tables : /\ \A o \in call.done : IsA(t, o) /\ heap[o].unsaved = {}
                          /\ call.rels \in Seq(ToOne(t)) /\ call.loaded \subseteq ToOne(t)
  BY <1>1, <1>2 DEF CallTyped
<1>4. PICK rel \in ToOne(t) : rel = Head(call.rels)
  BY <1>2, <1>3
<1>5. rel \in Relations /\ ForeignKey[rel].table = t /\ ToOne(t) \subseteq Relations
  BY Schema
<1>6. PICK rest \in Seq(ToOne(t)) : rest = Tail(call.rels)
  <2>1. PICK all \in Seq(ToOne(t)) : all = call.rels /\ all # <<>>
    BY <1>2, <1>3
  <2>2. Tail(all) \in Seq(ToOne(t))
    BY ONLY <2>1
  <2> QED
    BY <2>1, <2>2
<1>7. PICK done : done = call.done
  OBVIOUS
<1>8. /\ HeapTyped' /\ RowsWell' /\ Grown /\ \A o \in Objects' : ObjectInv(o)'
      /\ half' \subseteq half
      /\ \A o \in Objects : InSync(o)' <=> InSync(o)
      /\ \A o \in Objects : \A r \in ToOne(heap[o].table) : heap'[o].one[r] = Nil => heap[o].one[r] = Nil
      /\ \A o \in Objects : heap'[o].unsaved = heap[o].unsaved
      /\ \A o \in done : InSync(o) => heap'[o].one[rel] # Nil
  BY <1>2, <1>3, <1>4, <1>5, <1>7, LoadsFacts
<1>9. PICK loaded \in SUBSET ToOne(t) : loaded = call.loaded \cup {rel}
  BY <1>3
<1>10. rest \in Seq(Relations)
  BY <1>5
<1>11. /\ call' \in [op : {"none", "eager", "set", "add"}, rel : Relations \cup {"none"},
                     parent : Nat, insert : BOOLEAN, todo : Seq(Nat), done : SUBSET Nat,
                     rels : Seq(Relations), loaded : SUBSET Relations]
       /\ call'.op = "eager" /\ call'.done = done /\ call'.rels = rest /\ call'.loaded = loaded
  <2>1. call' = [call EXCEPT !.rels = rest, !.loaded = loaded]
    BY <1>2, <1>4, <1>6, <1>9
  <2> QED
    BY <1>1, <1>2, <1>5, <1>7, <1>9, <1>10, <2>1 DEF CallTyped
<1>12. CallTyped'
  <2>1. \A o \in done : IsA(t, o)' /\ heap'[o].unsaved = {}
    BY <1>3, <1>7, <1>8, IsAKept DEF IsA
  <2> QED
    BY <1>6, <1>9, <1>11, <2>1 DEF CallTyped, IsA
<1>13. EagerLoadComplete'
  <2>1. ASSUME NEW o \in done, NEW r \in loaded, heap'[o].one[r] = Nil
        PROVE  ~InSync(o)'
    <3>1. o \in Objects /\ heap[o].table = t
      BY <1>3, <1>7 DEF IsA
    <3>2. CASE r = rel
      BY <1>8, <2>1, <3>1, <3>2
    <3>3. CASE r # rel
      <4>1. r \in call.loaded /\ r \in ToOne(heap[o].table)
        BY <1>9, <3>1, <3>3
      <4>2. heap[o].one[r] = Nil
        BY <1>8, <2>1, <3>1, <4>1
      <4>3. ~InSync(o)
        BY <1>1, <1>2, <1>7, <4>1, <4>2 DEF EagerLoadComplete
      <4> QED
        BY <1>8, <3>1, <4>3
    <3> QED
      BY <3>2, <3>3
  <2> QED
    BY <1>11, <2>1 DEF EagerLoadComplete
<1>14. BoundsTyped'
  BY <1>1, <1>2, <1>8 DEF BoundsTyped, Grown
<1> QED
  BY <1>8, <1>12, <1>13, <1>14, InvParts DEF Parts

\* The first object of the slice with a row exists if any has it.
LEMMA FirstFacts ==
    ASSUME HeapTyped, NEW objs, objs \subseteq Objects, NEW id, \E o \in objs : heap[o].id = id
    PROVE  First(objs, id) \in objs /\ heap[First(objs, id)].id = id
<1>1. PICK S \in SUBSET Nat : S = {o \in objs : heap[o].id = id} /\ S # {}
  <2>1. objs \subseteq Nat
    BY HeapFacts
  <2>2. {o \in objs : heap[o].id = id} \in SUBSET Nat /\ {o \in objs : heap[o].id = id} # {}
    BY <2>1
  <2> QED
    BY <2>2
<1>2. PICK o \in S : \A p \in S : o <= p
  BY <1>1, LeastNatural
<1>3. \E q \in objs : heap[q].id = id /\ \A p \in objs : heap[p].id = id => q <= p
  BY <1>1, <1>2
<1> QED
  BY <1>3 DEF First

LEMMA LoadToManyStep ==
    ASSUME BoilerInv, NEW rel \in Relations, NEW objs, NEW singular \in BOOLEAN,
           LoadToMany(rel, objs, singular)
    PROVE  BoilerInv'
<1>1. /\ HeapTyped /\ RowsWell /\ RowsWell' /\ BoundsTyped /\ \A q \in Objects : ObjectInv(q)
      /\ UNCHANGED <<db, version, call, half, writes>> /\ call' = NoCall /\ calls' \in Nat
      /\ \A o \in objs : IsA(ForeignKey[rel].foreign, o)
  BY SameRows, BeginFacts, InvParts DEF Parts, LoadToMany
<1> DEFINE t      == ForeignKey[rel].table
           u      == ForeignKey[rel].foreign
           column == ForeignKey[rel].column
           found  == {id \in DOMAIN db[t] : Row(t, id)[column] \in {heap[o].id : o \in objs}}
<1>2. t \in Tables /\ u \in Tables /\ t = ForeignKey[rel].table /\ u = ForeignKey[rel].foreign
  BY Schema
<1>3. column = ForeignKey[rel].column
  OBVIOUS
<1>4. objs \subseteq Objects /\ objs \subseteq Nat /\ \A o \in objs : heap[o].table = u
  BY <1>1, HeapFacts DEF IsA
<1>5. /\ found \in SUBSET DOMAIN db[t]
      /\ found = {id \in DOMAIN db[t] : Row(t, id)[column] \in {heap[o].id : o \in objs}}
  OBVIOUS
<1> DEFINE Owner(order, i)      == First(objs, Row(t, order[i])[column])
           Members(order, o)    == {Len(heap) + i : i \in {j \in DOMAIN order : Owner(order, j) = o}}
           Lists(order)         == [o \in Objects |->
                                      IF o \in objs
                                      THEN [heap[o] EXCEPT !.many[rel] =
                                              IF singular THEN Members(order, o) ELSE @ \cup Members(order, o)]
                                      ELSE heap[o]]
           Loaded(order)        == [i \in DOMAIN order |->
                                      [Fetched(t, order[i]) EXCEPT !.one[rel] = Owner(order, i)]]
<1>6. PICK order \in Ascending(found) : heap' = Lists(order) \o Loaded(order)
  BY DEF LoadToMany, Fetched
<1> HIDE DEF t, u, column, found
<1>7. PICK n \in Nat : /\ n = Cardinality(found) /\ order \in [1..n -> found]
                       /\ \A id \in found : \E i \in 1..n : order[i] = id
  <2>1. RowsWell /\ t \in Tables /\ found \in SUBSET DOMAIN db[t]
    BY <1>1, <1>2, <1>5
  <2>2. /\ Cardinality(found) \in Nat /\ order \in [1..Cardinality(found) -> found]
        /\ \A id \in found : \E i \in 1..Cardinality(found) : order[i] = id
    BY <2>1, AscendingFacts
  <2> QED
    BY <2>2
<1>8. Len(heap) \in Nat
  BY <1>1, HeapFacts
<1>9. PICK owner : owner = [i \in 1..n |-> Owner(order, i)]
  OBVIOUS
<1>10. ASSUME NEW i \in 1..n
       PROVE  /\ order[i] \in DOMAIN db[t] /\ owner[i] \in objs
              /\ heap[owner[i]].id = db[t][order[i]][column]
  <2>1. order[i] \in DOMAIN db[t] /\ \E o \in objs : heap[o].id = db[t][order[i]][column]
    <3>1. PICK id \in found : id = order[i]
      BY <1>7
    <3>2. id \in DOMAIN db[t] /\ db[t][id][column] \in {heap[o].id : o \in objs}
      BY ONLY <1>5, <3>1 DEF Row
    <3> QED
      BY <3>1, <3>2
  <2>2. owner[i] = First(objs, db[t][order[i]][column])
    BY <1>9 DEF Row
  <2>3. PICK key : key = db[t][order[i]][column] /\ \E o \in objs : heap[o].id = key
    BY <2>1
  <2>4. First(objs, key) \in objs /\ heap[First(objs, key)].id = key
    BY <1>1, <1>4, <2>3, FirstFacts
  <2>5. owner[i] = First(objs, key)
    BY <2>2, <2>3
  <2> QED
    BY <2>1, <2>3, <2>4, <2>5
<1>11. PICK news : news = [o \in objs |-> {Len(heap) + i : i \in {j \in 1..n : owner[j] = o}}]
  OBVIOUS
<1>12. \A o \in objs : /\ news[o] = Members(order, o) /\ news[o] \subseteq Nat
                       /\ \A c \in news[o] : \E i \in 1..n : c = Len(heap) + i
  <2>1. \A j \in 1..n : owner[j] = Owner(order, j)
    BY <1>9
  <2> HIDE DEF Owner
  <2>2. ASSUME NEW o \in objs
        PROVE  {j \in DOMAIN order : Owner(order, j) = o} = {j \in 1..n : owner[j] = o}
    BY <1>7, <2>1
  <2>3. \A o \in objs : news[o] = Members(order, o)
    BY <1>11, <2>2
  <2> HIDE DEF Members
  <2>4. \A o \in objs : \A c \in news[o] : \E i \in 1..n : c = Len(heap) + i
    BY <1>11
  <2>5. \A o \in objs : news[o] \subseteq Nat
    BY <1>8, <2>4
  <2> QED
    BY <2>3, <2>4, <2>5
<1>13. PICK kept : kept = Lists(order)
  OBVIOUS
<1>14. PICK new : new = Loaded(order)
  OBVIOUS
<1>15. heap' = kept \o new
  BY <1>6, <1>13, <1>14
<1>16. /\ DOMAIN kept = Objects /\ kept = [o \in Objects |-> kept[o]]
       /\ \A o \in Objects : o \notin objs => kept[o] = heap[o]
  BY <1>13
<1>17. ASSUME NEW o \in objs
       PROVE  kept[o] = [heap[o] EXCEPT !.many[rel] = IF singular THEN news[o] ELSE heap[o].many[rel] \cup news[o]]
  BY <1>4, <1>12, <1>13
<1>18. new = [i \in 1..n |-> [Fetched(t, order[i]) EXCEPT !.one[rel] = owner[i]]]
  BY <1>7, <1>9, <1>14
<1> HIDE DEF Owner, Members, Lists, Loaded
<1>19. ASSUME NEW o \in objs
       PROVE  /\ kept[o] \in ObjectOf(u) /\ kept[o].id = heap[o].id
              /\ kept[o].cols = heap[o].cols /\ kept[o].seen = heap[o].seen
              /\ kept[o].unsaved = heap[o].unsaved /\ kept[o].one = heap[o].one
              /\ kept[o].many[rel] \subseteq heap[o].many[rel] \cup news[o]
              /\ \A r \in ToMany(u) : r # rel => kept[o].many[r] = heap[o].many[r]
  <2>1. PICK x \in ObjectOf(ForeignKey[rel].foreign) : x = heap[o]
    BY <1>1, <1>2, <1>4, HeapFacts
  <2>2. heap[o].many[rel] \in SUBSET Nat
    BY <1>1, <1>2, <1>4, HeapFacts, Schema
  <2>3. PICK S \in SUBSET Nat : S = IF singular THEN news[o] ELSE heap[o].many[rel] \cup news[o]
    BY <1>12, <2>2
  <2>4. kept[o] = [x EXCEPT !.many[rel] = S]
    BY <1>17, <2>1, <2>3
  <2>5. S \subseteq heap[o].many[rel] \cup news[o]
    BY <2>3
  <2>6. Listed(kept[o], x, rel, S)
    BY <2>4, ListFacts
  <2> QED
    BY <1>2, <2>1, <2>5, <2>6 DEF Listed
<1>20. \A o \in Objects : kept[o] \in ObjectOf(heap[o].table) /\ kept[o].id = heap[o].id
  BY <1>1, <1>4, <1>16, <1>19, HeapFacts
<1>21. ASSUME NEW i \in 1..n
       PROVE  /\ new[i] \in ObjectOf(t) /\ new[i].table = t /\ new[i].id = order[i]
              /\ new[i].cols = db[t][order[i]] /\ new[i].seen = version[t][order[i]]
              /\ new[i].unsaved = {} /\ new[i].one[rel] = owner[i]
              /\ \A r \in ToOne(t) : r # rel => new[i].one[r] = Nil
              /\ \A r \in ToMany(t) : new[i].many[r] = {}
  <2>1. PICK id \in DOMAIN db[t] : id = order[i]
    BY <1>10
  <2>2. PICK p \in Nat : p = owner[i]
    BY <1>4, <1>10
  <2>3. PICK x \in ObjectOf(ForeignKey[rel].table) : x = Fetched(t, id)
    BY <1>1, <1>2, FetchedFacts
  <2>4. new[i] = [x EXCEPT !.one[rel] = p]
    BY <1>18, <2>1, <2>2, <2>3
  <2>5. /\ new[i] \in ObjectOf(t) /\ new[i].id = x.id /\ new[i].cols = x.cols /\ new[i].seen = x.seen
        /\ new[i].unsaved = x.unsaved /\ new[i].many = x.many /\ new[i].one[rel] = p
        /\ \A r \in ToOne(t) : r # rel => new[i].one[r] = x.one[r]
    <3>1. Linked(new[i], x, rel, p)
      BY <2>4, LinkFacts
    <3> QED
      BY <1>2, <3>1 DEF Linked
  <2>6. new[i].table = t
    BY <2>5 DEF ObjectOf
  <2> QED
    BY <1>1, <1>2, <2>1, <2>2, <2>3, <2>5, <2>6, FetchedFacts
<1>22. new \in [1..n -> AnyObject]
  <2>1. \A i \in 1..n : new[i] \in AnyObject
    BY <1>2, <1>21 DEF AnyObject
  <2> QED
    BY <1>18, <2>1
<1>23. /\ HeapTyped' /\ Grown
       /\ \A o \in Objects : heap'[o] = kept[o]
       /\ \A i \in 1..n : heap'[Len(heap) + i] = new[i] /\ Len(heap) + i \in Objects'
       /\ \A o \in Objects' : o \in Objects \/ \E i \in 1..n : o = Len(heap) + i
  <2>1. Fetching(kept, new, n)
    BY <1>1, <1>15, <1>16, <1>20, <1>22, AppendFacts
  <2> QED
    BY <2>1 DEF Fetching
<1>24. \A o \in Objects : o \notin objs => ObjectInv(o)'
  BY <1>1, <1>16, <1>23, ObjectKept
<1>25. ASSUME NEW o \in objs
       PROVE  ObjectInv(o)'
  <2>1. o \in Objects /\ heap[o].table = ForeignKey[rel].foreign /\ heap'[o] = kept[o]
    BY <1>2, <1>4, <1>23
  <2>2. \A c \in heap'[o].many[rel] : IsA(ForeignKey[rel].table, c)'
    <3>1. \A c \in heap[o].many[rel] : IsA(ForeignKey[rel].table, c)'
      <4>1. \A c \in heap[o].many[rel] : IsA(ForeignKey[rel].table, c)
        BY <1>1, <2>1, Schema DEF ObjectInv, Pointers
      <4> QED
        BY <1>23, <4>1, IsAKept
    <3>2. \A c \in news[o] : IsA(ForeignKey[rel].table, c)'
      <4>1. ASSUME NEW c \in news[o]
            PROVE  c \in Objects' /\ heap'[c].table = t
        <5>1. PICK i \in 1..n : c = Len(heap) + i
          BY <1>12
        <5>2. heap'[c] = new[i] /\ c \in Objects'
          BY <1>23, <5>1
        <5> QED
          BY <1>21, <5>2
      <4> QED
        BY <1>2, <4>1 DEF IsA
    <3> QED
      BY <1>19, <2>1, <3>1, <3>2
  <2>3. Pointers(o)'
    BY <1>1, <1>2, <1>19, <1>23, <2>1, <2>2, ListedKept DEF ObjectInv
  <2>4. Follows(o)'
    BY <1>1, <1>19, <1>23, <2>1, FollowsKept DEF ObjectInv
  <2>5. Copied(o)'
    BY <1>1, <1>19, <1>23, <2>1, CopiedKept DEF ObjectInv
  <2> QED
    BY <2>3, <2>4, <2>5 DEF ObjectInv
<1>26. ASSUME NEW i \in 1..n
       PROVE  \E o : o = Len(heap) + i /\ ObjectInv(o)'
  <2>1. PICK o : o = Len(heap) + i
    OBVIOUS
  <2>2. PICK id \in DOMAIN db[t] : id = order[i] /\ heap'[o] = new[i]
    BY <1>10, <1>23, <2>1
  <2>3. PICK p : p = owner[i] /\ IsA(ForeignKey[rel].foreign, p)
    BY <1>1, <1>10
  <2>4. IsA(ForeignKey[rel].foreign, p)' /\ heap'[p].id = db[t][id][column]
    BY <1>10, <1>23, <2>2, <2>3, IsAKept DEF IsA, Grown
  <2>5. /\ heap'[o].table = t /\ heap'[o].id = id
        /\ heap'[o].cols = db[t][id] /\ heap'[o].seen = version[t][id] /\ heap'[o].unsaved = {}
        /\ heap'[o].one[rel] = p
        /\ \A r \in ToOne(t) : r # rel => heap'[o].one[r] = Nil
        /\ \A r \in ToMany(t) : heap'[o].many[r] = {}
    BY <1>21, <2>2, <2>3
  <2>6. version[t][id] <= version[t][id]
    <3>1. version[t][id] \in Nat
      BY <1>1, <1>2 DEF RowsWell
    <3>2. \A m \in Nat : m <= m
      OBVIOUS
    <3> QED
      BY <3>1, <3>2
  <2>7. ASSUME NEW r \in ToOne(t), NEW q, q = heap'[o].one[r]
        PROVE  q = Nil \/ IsA(ForeignKey[r].foreign, q)'
    BY <2>4, <2>5, <2>7
  <2>8. Pointers(o)'
    BY <2>5, <2>7 DEF Pointers, IsA
  <2>9. Follows(o)'
    <3>1. \A r \in ToOne(t) : heap'[o].one[r] # Nil =>
             heap'[heap'[o].one[r]].id = heap'[o].cols[ForeignKey[r].column]
      BY <1>3, <2>4, <2>5
    <3> QED
      BY <2>5, <3>1 DEF Follows
  <2>10. Copied(o)'
    BY <1>1, <2>5, <2>6 DEF Copied, Row
  <2> QED
    BY <2>1, <2>8, <2>9, <2>10 DEF ObjectInv
<1>27. BoundsTyped'
  BY <1>1, <1>23 DEF BoundsTyped, Grown
<1>28. \A o \in Objects' : ObjectInv(o)'
  BY <1>23, <1>24, <1>25, <1>26
<1>29. CallTyped' /\ EagerLoadComplete'
  BY <1>1, NoCallTyped
<1> QED
  BY <1>1, <1>23, <1>27, <1>28, <1>29, InvParts DEF Parts

-----------------------------------------------------------------------------
(* The generated functions are these operations.                           *)

\* What sqlboiler generates for every table,
Operation(t) ==
    \/ \E o : Insert(t, o) \/ Update(t, o) \/ Delete(t, o) \/ Reload(t, o)
    \/ \E o, b : Upsert(t, o, b)
    \/ \E objs : SliceDeleteAll(t, objs) \/ ReloadAll(t, objs)
    \/ \E objs : \E column \in Columns(t) : \E value \in Given[column] : SliceUpdateAll(t, objs, column, value)
    \/ \E ids : \E rels \in Seq(ToOne(t)) : Query(t, ids, rels)
    \/ \E ids : QueryDeleteAll(t, ids)
    \/ \E ids : \E column \in Columns(t) : \E value \in Given[column] : QueryUpdateAll(t, ids, column, value)

\* and for every relation.
Relating(rel) ==
    \/ \E objs : LoadToOne(rel, objs)
    \/ \E objs : \E singular \in BOOLEAN : LoadToMany(rel, objs, singular)
    \/ \E o, p : \E insert \in BOOLEAN : Set(rel, o, insert, p)
    \/ \E o : \E insert \in BOOLEAN : \E related \in Seq(Nat) : Add(rel, o, insert, related)

LEMMA OperationStep ==
    ASSUME BoilerInv, NEW t \in Tables, Operation(t)
    PROVE  BoilerInv'
<1>0. BoundsTyped
  BY InvParts DEF Parts
<1>1. CASE \E o : Insert(t, o) \/ Update(t, o) \/ Reload(t, o)
  BY <1>1, InsertStep, UpdateStep, ReloadStep
<1>2. CASE \E o : Delete(t, o)
  <2>1. PICK o : Delete(t, o)
    BY <1>2
  <2>2. PICK ids : RemoveRows(t, ids)
    BY <2>1 DEF Delete
  <2>3. UNCHANGED <<heap, call, half>> /\ calls' \in Nat /\ writes' \in Nat
    BY <1>0, <2>1, BeginFacts DEF Delete, BoundsTyped
  <2> QED
    BY <2>2, <2>3, DeleteStep
<1>3. CASE \E o, b : Upsert(t, o, b)
  BY <1>3, UpsertStep
<1>4. CASE \E objs : SliceDeleteAll(t, objs)
  <2>1. PICK objs : SliceDeleteAll(t, objs)
    BY <1>4
  <2>2. PICK ids : RemoveRows(t, ids)
    BY <2>1 DEF SliceDeleteAll
  <2>3. UNCHANGED <<heap, call, half>> /\ calls' \in Nat /\ writes' \in Nat
    BY <1>0, <2>1, BeginFacts DEF SliceDeleteAll, BoundsTyped
  <2> QED
    BY <2>2, <2>3, DeleteStep
<1>5. CASE \E objs : ReloadAll(t, objs)
  BY <1>5, ReloadAllStep
<1>6. CASE \E objs : \E column \in Columns(t) : \E value \in Given[column] : SliceUpdateAll(t, objs, column, value)
  <2>1. PICK objs : \E column \in Columns(t) : \E value \in Given[column] : SliceUpdateAll(t, objs, column, value)
    BY <1>6
  <2>2. PICK column \in Columns(t) : \E value \in Given[column] : SliceUpdateAll(t, objs, column, value)
    BY <2>1
  <2>3. PICK value \in Given[column] : SliceUpdateAll(t, objs, column, value)
    BY <2>2
  <2>4. value \in Int
    BY CallAssumption
  <2>5. PICK ids : ids \subseteq DOMAIN db[t] /\ SetColumn(t, ids, column, value)
    BY <2>3 DEF SliceUpdateAll
  <2>6. UNCHANGED <<heap, call, half>> /\ calls' \in Nat /\ writes' \in Nat
    BY <1>0, <2>3, BeginFacts DEF SliceUpdateAll, BoundsTyped
  <2> QED
    BY <2>4, <2>5, <2>6, SetColumnStep
<1>7. CASE \E ids : \E rels \in Seq(ToOne(t)) : Query(t, ids, rels)
  BY <1>7, QueryStep
<1>8. CASE \E ids : QueryDeleteAll(t, ids)
  <2>1. PICK ids : QueryDeleteAll(t, ids)
    BY <1>8
  <2>2. RemoveRows(t, ids) /\ UNCHANGED <<heap, call, half>> /\ calls' \in Nat /\ writes' \in Nat
    BY <1>0, <2>1 DEF QueryDeleteAll, OthersWrite, BoundsTyped
  <2> QED
    BY <2>2, DeleteStep
<1>9. CASE \E ids : \E column \in Columns(t) : \E value \in Given[column] : QueryUpdateAll(t, ids, column, value)
  <2>1. PICK ids : \E column \in Columns(t) : \E value \in Given[column] : QueryUpdateAll(t, ids, column, value)
    BY <1>9
  <2>2. PICK column \in Columns(t) : \E value \in Given[column] : QueryUpdateAll(t, ids, column, value)
    BY <2>1
  <2>3. PICK value \in Given[column] : QueryUpdateAll(t, ids, column, value)
    BY <2>2
  <2>4. value \in Int
    BY CallAssumption
  <2>5. /\ ids \subseteq DOMAIN db[t] /\ SetColumn(t, ids, column, value)
        /\ UNCHANGED <<heap, call, half>> /\ calls' \in Nat /\ writes' \in Nat
    BY <1>0, <2>3 DEF QueryUpdateAll, OthersWrite, BoundsTyped
  <2> QED
    BY <2>4, <2>5, SetColumnStep
<1> QED
  BY <1>1, <1>2, <1>3, <1>4, <1>5, <1>6, <1>7, <1>8, <1>9 DEF Operation

LEMMA RelatingStep ==
    ASSUME BoilerInv, NEW rel \in Relations, Relating(rel)
    PROVE  BoilerInv'
<1>1. CASE \E objs : LoadToOne(rel, objs)
  BY <1>1, LoadToOneStep
<1>2. CASE \E objs : \E singular \in BOOLEAN : LoadToMany(rel, objs, singular)
  BY <1>2, LoadToManyStep
<1>3. CASE \E o, p : \E insert \in BOOLEAN : Set(rel, o, insert, p)
  BY <1>3, SetStep
<1>4. CASE \E o : \E insert \in BOOLEAN : \E related \in Seq(Nat) : Add(rel, o, insert, related)
  BY <1>4, AddStep
<1> QED
  BY <1>1, <1>2, <1>3, <1>4 DEF Relating

LEMMA ContinueStep ==
    ASSUME BoilerInv, Continue
    PROVE  BoilerInv'
<1>1. CASE QueryEnds \/ QueryFails
  BY <1>1, SameRows, RowsOnly, InvParts DEF QueryEnds, QueryFails, Parts, BoundsTyped
<1> QED
  BY <1>1, EagerLoadStep, SetInsertsStep, SetUpdatesStep, SetFailsStep, AddInsertsStep, AddUpdatesStep,
     AddFailsStep, AddEndsStep DEF Continue

\* The arguments that Boiler enumerates are among those.
LEMMA ArgumentFacts ==
    ASSUME HeapTyped, NEW t \in Tables
    PROVE  /\ Related(t) \subseteq Seq(Nat) /\ Loads[t] \subseteq Seq(ToOne(t))
           /\ <<>> \in Seq(ToOne(t))
<1>1. Of(t) \subseteq Nat
  BY HeapFacts DEF Of
<1>2. ASSUME NEW s \in Related(t)
      PROVE  s \in Seq(Nat)
  <2>1. PICK n \in 1..2 : s \in [1..n -> Of(t)]
    BY DEF Related
  <2>2. s \in [1..n -> Nat] /\ n \in Nat
    BY <1>1, <2>1
  <2> QED
    BY <2>2
<1> QED
  BY <1>2, CallAssumption

LEMMA AccountStep ==
    ASSUME BoilerInv, AccountCalls
    PROVE  BoilerInv'
<1>0. "accounts" \in Tables /\ "transactions" \in Tables
  BY DEF Tables
<1>1. {"AccountAccountCode", "AccountLedger", "CreditAccount", "DebitAccount"} \subseteq Relations
  BY DEF Relations
<1>2. HeapTyped
  BY InvParts DEF Parts
<1>3. Operation("accounts") \/ \E rel \in Relations : Relating(rel)
  BY <1>0, <1>1, <1>2, ArgumentFacts
  DEF AccountCalls, Operation, Relating, AccountInsert, AccountUpdate, AccountDelete, AccountReload,
      AccountUpsert, AccountSetAccountAccountCode, AccountSetAccountLedger,
      AccountAddCreditAccountTransactions, AccountAddDebitAccountTransactions,
      AccountSliceDeleteAll, AccountSliceReloadAll, AccountSliceUpdateAll,
      AccountLoadAccountAccountCode, AccountLoadAccountLedger,
      AccountLoadCreditAccountTransactions, AccountLoadDebitAccountTransactions,
      FindAccount, AccountQueryOne, AccountQueryAll
<1> QED
  BY <1>0, <1>3, OperationStep, RelatingStep

LEMMA TransactionStep ==
    ASSUME BoilerInv, TransactionCalls
    PROVE  BoilerInv'
<1>0. "transactions" \in Tables
  BY DEF Tables
<1>1. {"CreditAccount", "DebitAccount", "TransactionLedger"} \subseteq Relations
  BY DEF Relations
<1>2. HeapTyped
  BY InvParts DEF Parts
<1>3. Operation("transactions") \/ \E rel \in Relations : Relating(rel)
  BY <1>0, <1>1, <1>2, ArgumentFacts
  DEF TransactionCalls, Operation, Relating, TransactionInsert, TransactionUpdate, TransactionDelete,
      TransactionReload, TransactionUpsert,
      TransactionSetCreditAccount, TransactionSetDebitAccount, TransactionSetTransactionLedger,
      TransactionSliceDeleteAll, TransactionSliceReloadAll, TransactionSliceUpdateAll,
      TransactionLoadCreditAccount, TransactionLoadDebitAccount, TransactionLoadTransactionLedger,
      FindTransaction, TransactionQueryOne, TransactionQueryAll
<1> QED
  BY <1>0, <1>3, OperationStep, RelatingStep

LEMMA LedgerStep ==
    ASSUME BoilerInv, LedgerCalls
    PROVE  BoilerInv'
<1>0. "ledgers" \in Tables /\ "accounts" \in Tables /\ "transactions" \in Tables
  BY DEF Tables
<1>1. {"AccountLedger", "TransactionLedger"} \subseteq Relations
  BY DEF Relations
<1>2. HeapTyped
  BY InvParts DEF Parts
<1>3. Operation("ledgers") \/ \E rel \in Relations : Relating(rel)
  BY <1>0, <1>1, <1>2, ArgumentFacts
  DEF LedgerCalls, Operation, Relating, LedgerInsert, LedgerUpdate, LedgerDelete, LedgerReload,
      LedgerUpsert, LedgerAddAccounts, LedgerAddTransactions,
      LedgerSliceDeleteAll, LedgerSliceReloadAll, LedgerSliceUpdateAll,
      LedgerLoadAccounts, LedgerLoadTransactions, FindLedger, LedgerQueryOne, LedgerQueryAll
<1> QED
  BY <1>0, <1>3, OperationStep, RelatingStep

LEMMA AccountCodeStep ==
    ASSUME BoilerInv, AccountCodeCalls
    PROVE  BoilerInv'
<1>0. "account_codes" \in Tables /\ "accounts" \in Tables
  BY DEF Tables
<1>1. "AccountAccountCode" \in Relations
  BY DEF Relations
<1>2. HeapTyped
  BY InvParts DEF Parts
<1>3. Operation("account_codes") \/ \E rel \in Relations : Relating(rel)
  BY <1>0, <1>1, <1>2, ArgumentFacts
  DEF AccountCodeCalls, Operation, Relating, AccountCodeInsert, AccountCodeUpdate, AccountCodeDelete,
      AccountCodeReload, AccountCodeUpsert, AccountCodeAddAccounts,
      AccountCodeSliceDeleteAll, AccountCodeSliceReloadAll, AccountCodeSliceUpdateAll,
      AccountCodeLoadAccounts, FindAccountCode, AccountCodeQueryOne, AccountCodeQueryAll
<1> QED
  BY <1>0, <1>3, OperationStep, RelatingStep

LEMMA SchemaMigrationStep ==
    ASSUME BoilerInv, SchemaMigrationCalls
    PROVE  BoilerInv'
<1>0. "schema_migrations" \in Tables
  BY DEF Tables
<1>1. HeapTyped
  BY InvParts DEF Parts
<1>2. Operation("schema_migrations")
  BY <1>0, <1>1, ArgumentFacts
  DEF SchemaMigrationCalls, Operation, SchemaMigrationInsert, SchemaMigrationUpdate,
      SchemaMigrationDelete, SchemaMigrationReload, SchemaMigrationUpsert,
      SchemaMigrationSliceDeleteAll, SchemaMigrationSliceReloadAll, SchemaMigrationSliceUpdateAll,
      FindSchemaMigration, SchemaMigrationQueryOne, SchemaMigrationQueryAll
<1> QED
  BY <1>0, <1>2, OperationStep

LEMMA ElsewhereStep ==
    ASSUME BoilerInv, Elsewhere
    PROVE  BoilerInv'
<1>1. \E t \in Tables : Operation(t)
  BY DEF Tables, Elsewhere, Operation,
      AccountQueryDeleteAll, AccountQueryUpdateAll, TransactionQueryDeleteAll, TransactionQueryUpdateAll,
      LedgerQueryDeleteAll, LedgerQueryUpdateAll, AccountCodeQueryDeleteAll, AccountCodeQueryUpdateAll,
      SchemaMigrationQueryDeleteAll, SchemaMigrationQueryUpdateAll
<1> QED
  BY <1>1, OperationStep

LEMMA StutterStep ==
    ASSUME BoilerInv, UNCHANGED vars
    PROVE  BoilerInv'
<1>1. /\ UNCHANGED <<db, version, heap, half>> /\ call' = call
      /\ calls' \in Nat /\ writes' \in Nat
  BY InvParts DEF vars, Parts, BoundsTyped
<1> QED
  BY <1>1, SameRows, RowsOnly

LEMMA InitBoiler ==
    ASSUME Init
    PROVE  BoilerInv
<1>1. PICK scene \in Scenes :
         /\ db = scene.db /\ heap = scene.heap /\ calls = scene.calls /\ writes = scene.writes
         /\ version = [t \in Tables |-> [id \in Keys[t] |-> IF id \in DOMAIN scene.db[t] THEN 1 ELSE 0]]
  BY DEF Init
<1>2. call = NoCall /\ half = {}
  BY DEF Init
<1>3. /\ DOMAIN db = Tables
      /\ \A t \in Tables :
           /\ DOMAIN db[t] \subseteq Keys[t] /\ IsFiniteSet(DOMAIN db[t])
           /\ db[t] \in [DOMAIN db[t] -> [Columns(t) -> Int]]
      /\ \A r \in Relations : \A id \in DOMAIN db[ForeignKey[r].table] :
           db[ForeignKey[r].table][id][ForeignKey[r].column] \in DOMAIN db[ForeignKey[r].foreign]
      /\ heap \in Seq({heap[o] : o \in DOMAIN heap})
      /\ calls \in Nat /\ writes \in Nat
  <2>1. DOMAIN db = Tables
    BY <1>1, SceneAssumption
  <2>2. \A t \in Tables :
           /\ DOMAIN db[t] \subseteq Keys[t] /\ IsFiniteSet(DOMAIN db[t])
           /\ db[t] \in [DOMAIN db[t] -> [Columns(t) -> Int]]
    BY <1>1, SceneAssumption
  <2>3. \A r \in Relations : \A id \in DOMAIN db[ForeignKey[r].table] :
           db[ForeignKey[r].table][id][ForeignKey[r].column] \in DOMAIN db[ForeignKey[r].foreign]
    BY <1>1, SceneAssumption
  <2>4. heap \in Seq({heap[o] : o \in DOMAIN heap})
    BY <1>1, SceneAssumption
  <2>5. calls \in Nat /\ writes \in Nat
    BY <1>1, SceneAssumption
  <2> QED
    BY <2>1, <2>2, <2>3, <2>4, <2>5
<1>4. \A o \in Objects : Begins(scene, heap[o])
  BY <1>1, SceneAssumption DEF Objects
<1>5. RowsWell
  <2>1. /\ DOMAIN version = Tables
        /\ \A t \in Tables : version[t] \in [Keys[t] -> Nat]
        /\ \A t \in Tables : \A id \in DOMAIN db[t] : version[t][id] > 0
    BY <1>1, <1>3
  <2>2. ASSUME NEW t \in Tables, NEW id \in DOMAIN db[t]
        PROVE  RefersWell(t, Row(t, id))
    BY <1>3, Schema DEF RefersWell, Row, Exists
  <2> QED
    BY <1>3, <2>1, <2>2 DEF RowsWell
<1>6. ASSUME NEW o \in Objects
      PROVE  (\E t \in Tables : heap[o] \in ObjectOf(t)) /\ ObjectInv(o)
  <2>1. PICK t \in Tables :
           /\ heap[o].id \in Keys[t] /\ heap[o].cols \in [Columns(t) -> Int]
           /\ \/ heap[o] = NewObject(t, heap[o].id, heap[o].cols, 0)
              \/ /\ heap[o].id \in DOMAIN db[t]
                 /\ heap[o] = NewObject(t, heap[o].id, db[t][heap[o].id], 1)
    BY <1>1, <1>4 DEF Begins
  <2>2. PICK id \in Keys[t] : id = heap[o].id
    BY <2>1
  <2>3. PICK cols \in [Columns(t) -> Int] : cols = heap[o].cols
    BY <2>1
  <2>4. version[t][id] = IF id \in DOMAIN db[t] THEN 1 ELSE 0
    BY <1>1
  <2>5. CASE heap[o] = NewObject(t, id, cols, 0)
    <3>1. /\ heap[o] \in ObjectOf(t) /\ heap[o].table = t /\ heap[o].id = id
          /\ heap[o].cols = cols /\ heap[o].seen = 0
          /\ \A r \in ToOne(t) : heap[o].one[r] = Nil
          /\ \A r \in ToMany(t) : heap[o].many[r] = {}
      BY <2>5, NewObjectFacts
    <3> QED
      BY <2>4, <3>1 DEF ObjectInv, Pointers, Copied, Follows, InSync, Exists
  <2>6. CASE id \in DOMAIN db[t] /\ heap[o] = NewObject(t, id, db[t][id], 1)
    <3>1. db[t][id] \in [Columns(t) -> Int]
      BY <1>3, <2>6
    <3>2. /\ heap[o] \in ObjectOf(t) /\ heap[o].table = t /\ heap[o].id = id
          /\ heap[o].cols = db[t][id] /\ heap[o].seen = 1
          /\ \A r \in ToOne(t) : heap[o].one[r] = Nil
          /\ \A r \in ToMany(t) : heap[o].many[r] = {}
      BY <2>6, <3>1, NewObjectFacts
    <3> QED
      BY <2>4, <2>6, <3>2 DEF ObjectInv, Pointers, Copied, Follows, Row
  <2> QED
    BY <2>1, <2>2, <2>3, <2>5, <2>6
<1>7. HeapTyped
  <2>1. heap = [o \in 1..Len(heap) |-> heap[o]] /\ Len(heap) \in Nat /\ DOMAIN heap = 1..Len(heap)
    BY <1>3
  <2>2. \A o \in 1..Len(heap) : \E t \in Tables : heap[o] \in ObjectOf(t)
    BY <1>6, <2>1 DEF Objects
  <2>3. heap \in Seq(AnyObject)
    BY <2>1, <2>2, IsHeap
  <2> QED
    BY <2>3 DEF HeapTyped, AnyObject
<1>8. CallTyped /\ EagerLoadComplete /\ BoundsTyped
  BY <1>2, <1>3 DEF NoCall, CallTyped, EagerLoadComplete, BoundsTyped, Nil
<1> QED
  BY <1>5, <1>6, <1>7, <1>8, InvParts DEF Parts

-----------------------------------------------------------------------------
(***************************************************************************)
(* Whatever the generated functions (accounts.go, transactions.go,         *)
(* ledgers.go, account_codes.go, schema_migrations.go) are asked, in       *)
(* whatever order and with others writing in between, the invariant holds. *)
(***************************************************************************)
THEOREM BoilerInvariant == Spec => []BoilerInv
<1>1. Init => BoilerInv
  BY InitBoiler
<1>2. BoilerInv /\ [Next]_vars => BoilerInv'
  <2> SUFFICES ASSUME BoilerInv, [Next]_vars PROVE BoilerInv'
    OBVIOUS
  <2>1. CASE AccountCalls
    BY <2>1, AccountStep
  <2>2. CASE TransactionCalls
    BY <2>2, TransactionStep
  <2>3. CASE LedgerCalls
    BY <2>3, LedgerStep
  <2>4. CASE AccountCodeCalls
    BY <2>4, AccountCodeStep
  <2>5. CASE SchemaMigrationCalls
    BY <2>5, SchemaMigrationStep
  <2>6. CASE Elsewhere
    BY <2>6, ElsewhereStep
  <2>7. CASE Continue
    BY <2>7, ContinueStep
  <2>8. CASE Quiescent \/ UNCHANGED vars
    BY <2>8, StutterStep DEF Quiescent
  <2> QED
    BY <2>1, <2>2, <2>3, <2>4, <2>5, <2>6, <2>7, <2>8 DEF Next
<1> QED
  BY <1>1, <1>2, PTL DEF Spec

\* The objects keep their tables and columns, and the pointers their targets.
THEOREM BoilerTypes == Spec => []TypeOK
<1>1. BoilerInv => TypeOK
  <2> SUFFICES ASSUME BoilerInv PROVE TypeOK
    OBVIOUS
  <2>1. HeapTyped /\ RowsWell /\ CallTyped /\ BoundsTyped /\ \A o \in Objects : Pointers(o)
    BY InvParts DEF Parts, ObjectInv
  <2>2. \A o \in Objects :
           /\ heap[o].table \in Tables /\ heap[o].id \in Keys[heap[o].table] /\ heap[o].seen \in Nat
           /\ heap[o].cols \in [Columns(heap[o].table) -> Int]
           /\ heap[o].unsaved \subseteq Columns(heap[o].table)
    BY <2>1, HeapFacts
  <2>3. \A t \in Tables : /\ DOMAIN db[t] \subseteq Keys[t]
                          /\ \A id \in DOMAIN db[t] : db[t][id] \in [Columns(t) -> Int]
    BY <2>1 DEF RowsWell
  <2>4. DOMAIN version = Tables /\ \A t \in Tables : version[t] \in [Keys[t] -> Nat]
    BY <2>1 DEF RowsWell
  <2>5. call.op \in {"none", "eager", "set", "add"}
    BY <2>1 DEF CallTyped
  <2> QED
    BY <2>1, <2>2, <2>3, <2>4, <2>5 DEF TypeOK, Pointers, BoundsTyped
<1> QED
  BY <1>1, BoilerInvariant, PTL

(***************************************************************************)
(* What a call leaves in the object and what is in its row agree, until    *)
(* the row is written by others or by a statement whose answer was lost.   *)
(* The one exception is a foreign key that Add assigns before an INSERT    *)
(* that then fails: the object holds it, and the row does not.             *)
(***************************************************************************)
THEOREM CopiesAgree == Spec => []CopyAgrees
<1>1. BoilerInv => CopyAgrees
  BY DEF BoilerInv
<1> QED
  BY <1>1, BoilerInvariant, PTL

(***************************************************************************)
(* What Load, Set and Add put into o.R is the object of the row that the   *)
(* foreign key of o names, and no Insert, Upsert or Update parts the two:  *)
(* only an Add that has not set its pointers yet, or never will.           *)
(***************************************************************************)
THEOREM RelationsFollow == Spec => []RelationsFollowKeys
<1>1. BoilerInv => RelationsFollowKeys
  BY DEF BoilerInv
<1> QED
  BY <1>1, BoilerInvariant, PTL

(***************************************************************************)
(* The statements of qm.Load, one after the other with others writing in   *)
(* between, find the row each object refers to unless the object's own row *)
(* has been written or deleted since it was read.                          *)
(***************************************************************************)
THEOREM EagerLoads == Spec => []EagerLoadComplete
<1>1. BoilerInv => EagerLoadComplete
  BY DEF BoilerInv
<1> QED
  BY <1>1, BoilerInvariant, PTL
===============================================================================
