---------------------------- MODULE ActiveRecord ----------------------------
(***************************************************************************)
(* What the generated database layer (src/boiler) does, whatever the       *)
(* table: Go objects that are copies of rows, their foreign key columns,   *)
(* the pointers in o.R between objects, and the statements that carry      *)
(* changes between the two.  Module Boiler names the generated functions.  *)
(*                                                                         *)
(* One goroutine holds the objects; others write the same tables between   *)
(* its statements.  A call of one statement is one action, and one whose   *)
(* statement fails returns the error and changes nothing: that is a        *)
(* stuttering step.  Calls of several statements can fail at each of them. *)
(* A statement whose answer is lost has been carried out all the same, and *)
(* its call returns an error as well: the object is not told.              *)
(*                                                                         *)
(* Left out: columns that are neither a key nor compared, hooks (none is   *)
(* registered), and the caches of statement texts.                         *)
(***************************************************************************)
EXTENDS Integers, Sequences, FiniteSets

CONSTANTS Keys,       \* primary keys each table may hold
          Scenes      \* rows and objects a behaviour may start from, and its bounds

Tables == {"accounts", "account_codes", "ledgers", "transactions", "schema_migrations"}

\* The relations, each named as the struct of the referencing table names it.
Relations == {"AccountAccountCode", "AccountLedger",
              "CreditAccount", "DebitAccount", "TransactionLedger"}

FK(table, column, foreign) == [table |-> table, column |-> column, foreign |-> foreign]

ForeignKey ==
    [r \in Relations |->
       CASE r = "AccountAccountCode" -> FK("accounts", "account_code", "account_codes")
         [] r = "AccountLedger"      -> FK("accounts", "ledger", "ledgers")
         [] r = "CreditAccount"      -> FK("transactions", "credit_account_id", "accounts")
         [] r = "DebitAccount"       -> FK("transactions", "debit_account_id", "accounts")
         [] r = "TransactionLedger"  -> FK("transactions", "ledger", "ledgers")]

ToOne(t)  == {r \in Relations : ForeignKey[r].table = t}
ToMany(t) == {r \in Relations : ForeignKey[r].foreign = t}

Columns(t) ==
    CASE t = "accounts"     -> {"account_code", "ledger"}
      [] t = "transactions" -> {"credit_account_id", "debit_account_id", "ledger"}
      [] t = "schema_migrations" -> {"dirty"}
      [] OTHER              -> {"label"}

VARIABLES
    db,       \* the rows of each table
    version,  \* how often each row was written
    heap,     \* the objects
    call,     \* the call of several statements in progress
    half,     \* foreign keys an Add has set without the pointer
    calls,    \* bound on the calls the goroutine may still begin
    writes    \* bound on the writes of others still to come

vars == <<db, version, heap, call, half, calls, writes>>

Objects == DOMAIN heap
Nil     == 0

NoCall == [op |-> "none", rel |-> "none", parent |-> Nil, insert |-> FALSE,
           todo |-> <<>>, done |-> {}, rels |-> <<>>, loaded |-> {}]

(***************************************************************************)
(* An object bound to a row, or written as a literal: o.R is nil.  The     *)
(* number seen is no part of it: it says which version of the row its      *)
(* columns are a copy of, and 0 when they are a copy of none.  Neither is  *)
(* unsaved: columns assigned since that no answered statement has written. *)
(***************************************************************************)
NewObject(t, id, cols, seen) ==
    [table |-> t, id |-> id, cols |-> cols, seen |-> seen, unsaved |-> {},
     one  |-> [r \in ToOne(t) |-> Nil],
     many |-> [r \in ToMany(t) |-> {}]]

(***************************************************************************)
(* Rows have the columns of their table and refer to rows, and an object   *)
(* was just read from its row or is a literal.  The ids of account_codes   *)
(* start at 1 (initial_migration.up.sql), so that the zero boil.Infer      *)
(* replaces by the default refers to none of them.                         *)
(***************************************************************************)
Begins(scene, object) ==
    \E t \in Tables :
        /\ object.id \in Keys[t] /\ object.cols \in [Columns(t) -> Int]
        /\ \/ object = NewObject(t, object.id, object.cols, 0)
           \/ /\ object.id \in DOMAIN scene.db[t]
              /\ object = NewObject(t, object.id, scene.db[t][object.id], 1)

ASSUME SceneAssumption ==
    /\ \A t \in Tables : Keys[t] \subseteq Int
    /\ 0 \notin Keys["account_codes"]
    /\ \A scene \in Scenes :
         /\ DOMAIN scene.db = Tables
         /\ \A t \in Tables :
              /\ DOMAIN scene.db[t] \subseteq Keys[t] /\ IsFiniteSet(DOMAIN scene.db[t])
              /\ scene.db[t] \in [DOMAIN scene.db[t] -> [Columns(t) -> Int]]
         /\ \A r \in Relations : \A id \in DOMAIN scene.db[ForeignKey[r].table] :
              scene.db[ForeignKey[r].table][id][ForeignKey[r].column]
                \in DOMAIN scene.db[ForeignKey[r].foreign]
         /\ scene.heap \in Seq({scene.heap[o] : o \in DOMAIN scene.heap})
         /\ \A o \in DOMAIN scene.heap : Begins(scene, scene.heap[o])
         /\ scene.calls \in Nat /\ scene.writes \in Nat

Init ==
    /\ \E scene \in Scenes :
         /\ db = scene.db
         /\ heap = scene.heap
         /\ calls = scene.calls
         /\ writes = scene.writes
         /\ version = [t \in Tables |-> [id \in Keys[t] |-> IF id \in DOMAIN scene.db[t] THEN 1 ELSE 0]]
    /\ call = NoCall
    /\ half = {}

-----------------------------------------------------------------------------
(* The database.                                                           *)

Row(t, id)    == db[t][id]
Exists(t, id) == id \in DOMAIN db[t]

\* Every foreign key of such a row refers to a row.
RefersWell(t, cols) ==
    \A r \in ToOne(t) : Exists(ForeignKey[r].foreign, cols[ForeignKey[r].column])

Referenced(t, id) ==
    \E r \in ToMany(t) : \E k \in DOMAIN db[ForeignKey[r].table] :
        Row(ForeignKey[r].table, k)[ForeignKey[r].column] = id

Written(t, ids) == version' = [version EXCEPT ![t] = [id \in Keys[t] |->
                                 IF id \in ids THEN @[id] + 1 ELSE @[id]]]

WriteRow(t, id, cols) ==
    /\ RefersWell(t, cols)
    /\ db' = [db EXCEPT ![t] = [k \in DOMAIN @ \cup {id} |-> IF k = id THEN cols ELSE @[k]]]
    /\ Written(t, {id})

SetColumn(t, ids, column, value) ==
    /\ \A id \in ids : RefersWell(t, [Row(t, id) EXCEPT ![column] = value])
    /\ db' = [db EXCEPT ![t] = [k \in DOMAIN @ |->
                                  IF k \in ids THEN [@[k] EXCEPT ![column] = value] ELSE @[k]]]
    /\ Written(t, ids)

RemoveRows(t, ids) ==
    /\ ids \subseteq DOMAIN db[t]
    /\ \A id \in ids : ~Referenced(t, id)
    /\ db' = [db EXCEPT ![t] = [k \in DOMAIN @ \ ids |-> @[k]]]
    /\ Written(t, ids)

(***************************************************************************)
(* boil.Infer leaves a column with a default out of the INSERT when it is  *)
(* zero; the default that is stored comes back through RETURNING.          *)
(***************************************************************************)
Stored(t, cols) ==
    IF t = "accounts" /\ cols["account_code"] = 0
    THEN [cols EXCEPT !["account_code"] = 1]
    ELSE cols

-----------------------------------------------------------------------------
(* Calls of one statement.                                                 *)

Idle  == call = NoCall
Begin == Idle /\ calls > 0 /\ calls' = calls - 1

IsA(t, o) == o \in Objects /\ heap[o].table = t

\* Mutant of Stores: the defaults are not read back.
StoresBlindly(t, o) ==
    [heap EXCEPT ![o].seen = version[t][heap[o].id] + 1,
                 ![o].unsaved = {}]

\* The object after its row was written with its own columns.
Stores(t, o) ==
    [heap EXCEPT ![o].cols = Stored(t, @),
                 ![o].seen = version[t][heap[o].id] + 1,
                 ![o].unsaved = {}]

\* INSERT of the object's row with these columns.
InsertRow(t, o, cols) ==
    /\ ~Exists(t, heap[o].id)
    /\ WriteRow(t, heap[o].id, Stored(t, cols))

Insert(t, o) ==
    /\ Begin /\ IsA(t, o)
    /\ InsertRow(t, o, heap[o].cols)
    /\ heap' = Stores(t, o) \/ UNCHANGED heap
    /\ UNCHANGED <<call, half, writes>>

\* ON CONFLICT DO UPDATE, or DO NOTHING: then the object learns nothing of the row.
Upsert(t, o, updateOnConflict) ==
    /\ Begin /\ IsA(t, o)
    /\ IF Exists(t, heap[o].id) /\ ~updateOnConflict
       THEN UNCHANGED <<db, version, heap>>
       ELSE /\ WriteRow(t, heap[o].id, Stored(t, heap[o].cols))
            /\ heap' = Stores(t, o) \/ UNCHANGED heap
    /\ UNCHANGED <<call, half, writes>>

\* Every column of the object goes into the row, whoever wrote it last.
Update(t, o) ==
    /\ Begin /\ IsA(t, o)
    /\ IF Exists(t, heap[o].id)
       THEN /\ WriteRow(t, heap[o].id, heap[o].cols)
            /\ \/ heap' = [heap EXCEPT ![o].seen = version[t][heap[o].id] + 1, ![o].unsaved = {}]
               \/ UNCHANGED heap
       ELSE UNCHANGED <<db, version, heap>>
    /\ UNCHANGED <<call, half, writes>>

Delete(t, o) ==
    /\ Begin /\ IsA(t, o)
    /\ RemoveRows(t, {heap[o].id} \cap DOMAIN db[t])
    /\ UNCHANGED <<heap, call, half, writes>>

\* The rows of a slice: the objects are not told.
SliceUpdateAll(t, objs, column, value) ==
    /\ Begin /\ objs # {} /\ \A o \in objs : IsA(t, o)
    /\ column \in Columns(t)
    /\ SetColumn(t, {heap[o].id : o \in objs} \cap DOMAIN db[t], column, value)
    /\ UNCHANGED <<heap, call, half, writes>>

SliceDeleteAll(t, objs) ==
    /\ Begin /\ objs # {} /\ \A o \in objs : IsA(t, o)
    /\ RemoveRows(t, {heap[o].id : o \in objs} \cap DOMAIN db[t])
    /\ UNCHANGED <<heap, call, half, writes>>

(***************************************************************************)
(* Queries that hold no object: other goroutines run them at any time.     *)
(* What they write after the last call is seen by no object and left out.  *)
(***************************************************************************)
OthersWrite ==
    /\ writes > 0 /\ writes' = writes - 1
    /\ Idle => calls > 0

QueryUpdateAll(t, ids, column, value) ==
    /\ OthersWrite
    /\ ids # {} /\ ids \subseteq DOMAIN db[t]
    /\ column \in Columns(t)
    /\ SetColumn(t, ids, column, value)
    /\ UNCHANGED <<heap, call, half, calls>>

QueryDeleteAll(t, ids) ==
    /\ OthersWrite
    /\ ids # {}
    /\ RemoveRows(t, ids)
    /\ UNCHANGED <<heap, call, half, calls>>

\* *o = *ret: o.R is nil again.
Reload(t, o) ==
    /\ Begin /\ IsA(t, o)
    /\ Exists(t, heap[o].id)
    /\ heap' = [heap EXCEPT ![o] = NewObject(t, @.id, Row(t, @.id), version[t][@.id])]
    /\ half' = {h \in half : h[1] # o}
    /\ UNCHANGED <<db, version, call, writes>>

-----------------------------------------------------------------------------
(* Queries, with eager loads.                                              *)

Ascending(ids) == {s \in [1..Cardinality(ids) -> ids] : \A i, j \in DOMAIN s : i < j => s[i] < s[j]}

Fetch(t, ids, order) ==
    heap \o [i \in DOMAIN order |-> NewObject(t, order[i], Row(t, order[i]), version[t][order[i]])]

\* The rows become new objects, and the relations named in qm.Load are to follow.
Query(t, ids, rels) ==
    /\ Begin
    /\ ids # {} /\ ids \subseteq DOMAIN db[t] /\ \A i \in DOMAIN rels : rels[i] \in ToOne(t)
    /\ \E order \in Ascending(ids) : heap' = Fetch(t, ids, order)
    /\ call' = IF rels = <<>> THEN NoCall
               ELSE [NoCall EXCEPT !.op = "eager", !.rels = rels,
                                   !.done = Len(heap) + 1 .. Len(heap) + Cardinality(ids)]
    /\ UNCHANGED <<db, version, half, writes>>

\* The slice is exchanged for new objects of the rows that are left.
ReloadAll(t, objs) ==
    /\ objs # {} /\ \A o \in objs : IsA(t, o)
    /\ Query(t, {heap[o].id : o \in objs} \cap DOMAIN db[t], <<>>)

\* Mutant of KeysOf: only the key of the first object is asked for.
KeysOfFirst(rel, objs) ==
    LET first == CHOOSE o \in objs : \A p \in objs : o <= p
    IN  {heap[first].cols[ForeignKey[rel].column]}

\* args of an eager load: the distinct keys.
KeysOf(rel, objs) == {heap[o].cols[ForeignKey[rel].column] : o \in objs}

\* Mutant of Matches: the first row is taken for everybody.
MatchesFirst(rel, o, order, i) == i = 1

\* The row that object o refers to.
Matches(rel, o, order, i) == heap[o].cols[ForeignKey[rel].column] = order[i]

\* Mutant of Pointed: the numbers of the new objects are off by one.
PointedPast(rel, objs, order) ==
    [o \in Objects |->
       IF o \in objs /\ \E i \in DOMAIN order : Matches(rel, o, order, i)
       THEN [heap[o] EXCEPT !.one[rel] = Len(heap) + 1 + CHOOSE i \in DOMAIN order : Matches(rel, o, order, i)]
       ELSE heap[o]]

\* o.R.X of every object that finds its row among the new objects.
Pointed(rel, objs, order) ==
    [o \in Objects |->
       IF o \in objs /\ \E i \in DOMAIN order : Matches(rel, o, order, i)
       THEN [heap[o] EXCEPT !.one[rel] = Len(heap) + CHOOSE i \in DOMAIN order : Matches(rel, o, order, i)]
       ELSE heap[o]]

\* The N-1 side: one statement, one new object per row, both directions of R.
LoadsToOne(rel, objs) ==
    LET t     == ForeignKey[rel].foreign
        found == KeysOf(rel, objs) \cap DOMAIN db[t]
    IN  \E order \in Ascending(found) :
          /\ heap' = Pointed(rel, objs, order) \o
               [i \in DOMAIN order |->
                  [NewObject(t, order[i], Row(t, order[i]), version[t][order[i]])
                     EXCEPT !.many[rel] = {o \in objs : Matches(rel, o, order, i)}]]
          /\ half' = {h \in half : ~(h[1] \in objs /\ h[2] = rel /\ \E i \in DOMAIN order : Matches(rel, h[1], order, i))}
          /\ UNCHANGED <<db, version, writes>>

LoadToOne(rel, objs) ==
    /\ Begin /\ objs # {} /\ \A o \in objs : IsA(ForeignKey[rel].table, o)
    /\ LoadsToOne(rel, objs)
    /\ UNCHANGED call

\* The first object of the slice that has this row.
First(objs, id) == CHOOSE o \in objs : heap[o].id = id /\ \A p \in objs : heap[p].id = id => o <= p

(***************************************************************************)
(* The 1-M side.  On a single object the list is replaced, on a slice it   *)
(* grows.                                                                  *)
(***************************************************************************)
LoadToMany(rel, objs, singular) ==
    LET t      == ForeignKey[rel].table
        column == ForeignKey[rel].column
        ids    == {heap[o].id : o \in objs}
        found  == {id \in DOMAIN db[t] : Row(t, id)[column] \in ids}
    IN  /\ Begin /\ objs # {} /\ \A o \in objs : IsA(ForeignKey[rel].foreign, o)
        /\ singular => Cardinality(objs) = 1
        /\ \E order \in Ascending(found) :
             LET Owner(i)   == First(objs, Row(t, order[i])[column])
                 Members(o) == {Len(heap) + i : i \in {j \in DOMAIN order : Owner(j) = o}}
             IN  heap' = [o \in Objects |->
                            IF o \in objs
                            THEN [heap[o] EXCEPT !.many[rel] =
                                    IF singular THEN Members(o) ELSE @ \cup Members(o)]
                            ELSE heap[o]] \o
                         [i \in DOMAIN order |->
                            [NewObject(t, order[i], Row(t, order[i]), version[t][order[i]])
                               EXCEPT !.one[rel] = Owner(i)]]
        /\ UNCHANGED <<db, version, call, half, writes>>

\* The next relation of qm.Load.
EagerLoad ==
    /\ call.op = "eager" /\ call.rels # <<>>
    /\ LoadsToOne(Head(call.rels), call.done)
    /\ call' = [call EXCEPT !.rels = Tail(@), !.loaded = @ \cup {Head(call.rels)}]
    /\ UNCHANGED calls

\* One or All returns.
QueryEnds ==
    /\ call.op = "eager" /\ call.rels = <<>>
    /\ call' = NoCall
    /\ UNCHANGED <<db, version, heap, half, calls, writes>>

QueryFails ==
    /\ call.op = "eager" /\ call.rels # <<>>
    /\ call' = NoCall
    /\ UNCHANGED <<db, version, heap, half, calls, writes>>

-----------------------------------------------------------------------------
(* Set: the object's foreign key becomes related's key.                    *)

Set(rel, o, insert, related) ==
    /\ Begin
    /\ IsA(ForeignKey[rel].table, o) /\ IsA(ForeignKey[rel].foreign, related)
    /\ call' = [NoCall EXCEPT !.op = "set", !.rel = rel, !.parent = related,
                              !.insert = insert, !.todo = <<o>>]
    /\ UNCHANGED <<db, version, heap, half, writes>>

\* related.Insert.
SetInserts ==
    LET t == ForeignKey[call.rel].foreign
        p == call.parent
    IN  /\ call.op = "set" /\ call.insert
        /\ InsertRow(t, p, heap[p].cols)
        /\ heap' = Stores(t, p)
        /\ call' = [call EXCEPT !.insert = FALSE]
        /\ UNCHANGED <<half, calls, writes>>

\* UPDATE of one column: of no row at all, without an error, when it is gone.
UpdateKey(rel, o, p) ==
    SetColumn(ForeignKey[rel].table, {heap[o].id} \cap DOMAIN db[ForeignKey[rel].table],
              ForeignKey[rel].column, heap[p].id)

\* The object after that: level with its row if it was before.
Rekeyed(rel, o, p) ==
    LET t   == ForeignKey[rel].table
        now == version[t][heap[o].id]
    IN  [heap[o] EXCEPT !.cols[ForeignKey[rel].column] = heap[p].id,
                        !.seen = IF Exists(t, heap[o].id) /\ @ = now THEN now + 1 ELSE @,
                        !.unsaved = @ \ {ForeignKey[rel].column}]

SetUpdates ==
    LET o == Head(call.todo)
        p == call.parent
    IN  /\ call.op = "set" /\ ~call.insert
        /\ UpdateKey(call.rel, o, p)
        /\ heap' = [heap EXCEPT ![o] = [Rekeyed(call.rel, o, p) EXCEPT !.one[call.rel] = p],
                                ![p].many[call.rel] = @ \cup {o}]
        /\ half' = half \ {<<o, call.rel>>}
        /\ call' = NoCall
        /\ UNCHANGED <<calls, writes>>

\* Either statement fails, or its answer is lost: related may have been inserted.
SetFails ==
    LET p == call.parent
    IN  /\ call.op = "set"
        /\ \/ UNCHANGED <<db, version>>
           \/ call.insert /\ InsertRow(ForeignKey[call.rel].foreign, p, heap[p].cols)
           \/ ~call.insert /\ UpdateKey(call.rel, Head(call.todo), p)
        /\ call' = NoCall
        /\ UNCHANGED <<heap, half, calls, writes>>

-----------------------------------------------------------------------------
(* Add: the foreign keys of several objects become o's key.                *)

Add(rel, o, insert, related) ==
    /\ Begin
    /\ IsA(ForeignKey[rel].foreign, o)
    /\ \A i \in DOMAIN related : IsA(ForeignKey[rel].table, related[i])
    /\ call' = [NoCall EXCEPT !.op = "add", !.rel = rel, !.parent = o,
                              !.insert = insert, !.todo = related]
    /\ UNCHANGED <<db, version, heap, half, writes>>

Advance(o) ==
    /\ half' = half \cup {<<o, call.rel>>}
    /\ call' = [call EXCEPT !.todo = Tail(@), !.done = @ \cup {o}]
    /\ UNCHANGED <<calls, writes>>

\* rel.FK = o.ID.
Keyed(o) == [heap[o].cols EXCEPT ![ForeignKey[call.rel].column] = heap[call.parent].id]

\* rel.FK = o.ID, then rel.Insert.
AddInserts ==
    LET o == Head(call.todo)
        t == ForeignKey[call.rel].table
    IN  /\ call.op = "add" /\ call.insert /\ call.todo # <<>>
        /\ InsertRow(t, o, Keyed(o))
        /\ heap' = [heap EXCEPT ![o].cols = Stored(t, Keyed(o)),
                                ![o].seen = version[t][heap[o].id] + 1,
                                ![o].unsaved = {}]
        /\ Advance(o)

\* The UPDATE, then rel.FK = o.ID.
AddUpdates ==
    LET o == Head(call.todo)
    IN  /\ call.op = "add" /\ ~call.insert /\ call.todo # <<>>
        /\ UpdateKey(call.rel, o, call.parent)
        /\ heap' = [heap EXCEPT ![o] = Rekeyed(call.rel, o, call.parent)]
        /\ Advance(o)

(***************************************************************************)
(* A failed Insert leaves the foreign key in the object, a failed UPDATE   *)
(* does not.  Either may have lost only its answer.                        *)
(***************************************************************************)
AddFails ==
    LET o == Head(call.todo)
    IN  /\ call.op = "add" /\ call.todo # <<>>
        /\ IF call.insert
           THEN /\ UNCHANGED <<db, version>> \/ InsertRow(ForeignKey[call.rel].table, o, Keyed(o))
                /\ heap' = [heap EXCEPT ![o].cols = Keyed(o),
                                        ![o].unsaved = @ \cup {ForeignKey[call.rel].column}]
                /\ half' = half \cup {<<o, call.rel>>}
           ELSE /\ UNCHANGED <<db, version>> \/ UpdateKey(call.rel, o, call.parent)
                /\ UNCHANGED <<heap, half>>
        /\ call' = NoCall
        /\ UNCHANGED <<calls, writes>>

\* Only after the last statement are the pointers set.
AddEnds ==
    /\ call.op = "add" /\ call.todo = <<>>
    /\ heap' = [o \in Objects |->
                  IF o \in call.done THEN [heap[o] EXCEPT !.one[call.rel] = call.parent]
                  ELSE IF o = call.parent THEN [heap[o] EXCEPT !.many[call.rel] = @ \cup call.done]
                  ELSE heap[o]]
    /\ half' = {h \in half : ~(h[1] \in call.done /\ h[2] = call.rel)}
    /\ call' = NoCall
    /\ UNCHANGED <<db, version, calls, writes>>

-----------------------------------------------------------------------------
InSync(o) == /\ Exists(heap[o].table, heap[o].id)
             /\ heap[o].seen = version[heap[o].table][heap[o].id]

\* Objects, pointers and rows are of the tables they should be of.
TypeOK ==
    /\ \A t \in Tables : /\ DOMAIN db[t] \subseteq Keys[t]
                         /\ \A id \in DOMAIN db[t] : db[t][id] \in [Columns(t) -> Int]
    /\ DOMAIN version = Tables /\ \A t \in Tables : version[t] \in [Keys[t] -> Nat]
    /\ \A o \in Objects :
         LET t == heap[o].table
         IN  /\ t \in Tables /\ heap[o].id \in Keys[t] /\ heap[o].seen \in Nat
             /\ heap[o].cols \in [Columns(t) -> Int] /\ heap[o].unsaved \subseteq Columns(t)
             /\ \A r \in ToOne(t) : heap[o].one[r] = Nil \/ IsA(ForeignKey[r].foreign, heap[o].one[r])
             /\ \A r \in ToMany(t) : \A c \in heap[o].many[r] : IsA(ForeignKey[r].table, c)
    /\ half \subseteq Objects \X Relations
    /\ call.op \in {"none", "eager", "set", "add"}
    /\ calls \in Nat /\ writes \in Nat

(***************************************************************************)
(* Copies agree: as long as its row has not been written since the object  *)
(* was read from it or told of a write to it, by others or by a statement  *)
(* whose answer was lost, the object's columns are the row's, whatever     *)
(* Set, Add, Upsert and Update have done with either.  Except for a        *)
(* foreign key that Add assigns before its INSERT: when that fails, the    *)
(* object keeps it until it is reloaded or a later statement writes it.    *)
(***************************************************************************)
CopyAgrees ==
    \A o \in Objects : InSync(o) =>
        \A c \in Columns(heap[o].table) \ heap[o].unsaved :
            heap[o].cols[c] = Row(heap[o].table, heap[o].id)[c]

(***************************************************************************)
(* The pointer in o.R and the foreign key of o name the same row, except   *)
(* after an Add has returned an error: it leaves the keys of the objects   *)
(* it has reached, and not their pointers.                                 *)
(***************************************************************************)
RelationsFollowKeys ==
    \A o \in Objects : \A r \in ToOne(heap[o].table) :
        heap[o].one[r] # Nil /\ <<o, r>> \notin half =>
            heap[heap[o].one[r]].id = heap[o].cols[ForeignKey[r].column]

(***************************************************************************)
(* What TransactionGetByID and TransactionsGetByAccountID rely on when     *)
(* they dereference R.CreditAccount and R.DebitAccount: the row an object  *)
(* refers to is found by the later statement of the eager load, unless the *)
(* object's own row has been written or deleted in between.                *)
(***************************************************************************)
EagerLoadComplete ==
    call.op = "eager" =>
        \A o \in call.done : \A r \in call.loaded : heap[o].one[r] = Nil => ~InSync(o)
=============================================================================
