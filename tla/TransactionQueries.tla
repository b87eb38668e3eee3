-------------------------- MODULE TransactionQueries --------------------------
(***************************************************************************)
(* The two reads of transactions (storage/transactions.go) and clients     *)
(* that depend on them while transfers are being posted: one pages through *)
(* the transfers of an account with TransactionsGetByAccountID, others     *)
(* call TransactWithID and, when they have no answer, ask                  *)
(* TransactionGetByID whether to send the transfer again.                  *)
(*                                                                         *)
(* Posting is modelled as far as it decides when a row becomes visible and *)
(* what it looks like; module Transactor has the rest of it.               *)
(***************************************************************************)
EXTENDS Integers, Sequences, FiniteSets

CONSTANTS Ids,           \* transaction ids clients choose
          TransferOf,    \* what each client asks for under its id
          Account,       \* the account whose transfers are listed
          MigratedRows,  \* rows the migrator wrote: created_at in whole seconds
          StartTime,     \* time.Now() when the server starts
          PageSizes,     \* page sizes a client may ask for
          MaxAttempts    \* bound on the calls of TransactWithID

Transfers == [debit : Int, credit : Int, amount : Int]
Rows      == [id : Int, at : Int, debit : Int, credit : Int, amount : Int]

ASSUME QueriesAssumption ==
    /\ Ids \subseteq Int
    /\ TransferOf \in [Ids -> Transfers]
    /\ MigratedRows \subseteq Rows /\ IsFiniteSet(MigratedRows)
    /\ \A r \in MigratedRows : r.id \notin Ids /\ r.at <= StartTime
    /\ StartTime \in Int
    /\ PageSizes \subseteq Nat \ {0}
    /\ MaxAttempts \in Nat

VARIABLES
    rows,      \* table transactions
    clock,     \* time.Now(), in units no two Inserts share
    attempts,  \* the calls of TransactWithID in the order they were queued
    client,    \* what the client of each id is doing, and for which attempt
    excused,   \* ids sent again although an earlier attempt may still be posted
    scan,      \* the client that pages, and the call it is in
    listed,    \* rows in the answers it has got
    twice      \* rows it has got in two answers

postVars == <<rows, clock, attempts>>
scanVars == <<scan, listed, twice>>
vars     == <<postVars, client, excused, scanVars>>

Sorts == [column : {"created_at", "amount"}, desc : BOOLEAN]

\* Default and fallback of TransactionsGetByAccountID.
NewestFirst == [column |-> "created_at", desc |-> TRUE]

ScanNew == [pc |-> "new", sort |-> NewestFirst, size |-> 0, byTotal |-> FALSE,
            offset |-> 0, total |-> 0, page |-> {}, raced |-> FALSE, start |-> {}]

Init ==
    /\ rows = MigratedRows
    /\ clock = StartTime
    /\ attempts = <<>>
    /\ client = [i \in Ids |-> [pc |-> "new", attempt |-> 0]]
    /\ excused = {}
    /\ scan = ScanNew
    /\ listed = {}
    /\ twice = {}

-----------------------------------------------------------------------------
(* Posting: TransactWithID, the runner's queue and Insert.                 *)

\* The client sends its transfer, for the first time or again.
Submit(i) ==
    /\ client[i].pc \in {"new", "again"}
    /\ Len(attempts) < MaxAttempts
    /\ attempts' = Append(attempts, [id |-> i, state |-> "queued", at |-> clock])
    /\ client' = [client EXCEPT ![i] = [pc |-> "waiting", attempt |-> Len(attempts) + 1]]
    /\ UNCHANGED <<rows, clock, excused, scanVars>>

States(k) == attempts[k].state

\* The runner takes the next closure; Insert sets CreatedAt and sends the row.
Run(k) ==
    /\ States(k) = "queued"
    /\ \A j \in DOMAIN attempts : States(j) # "running" /\ (j < k => States(j) # "queued")
    /\ clock' = clock + 1
    /\ attempts' = [attempts EXCEPT ![k] = [@ EXCEPT !.state = "running", !.at = clock + 1]]
    /\ UNCHANGED <<rows, client, excused, scanVars>>

RowOf(k) ==
    LET t == TransferOf[attempts[k].id]
    IN  [id |-> attempts[k].id, at |-> attempts[k].at,
         debit |-> t.debit, credit |-> t.credit, amount |-> t.amount]

Settle(k, state) == attempts' = [attempts EXCEPT ![k].state = state]

\* The answer of attempt k reaches its client, if it still waits for it.
Answer(k, pc) ==
    LET i == attempts[k].id
    IN  client' = IF client[i] = [pc |-> "waiting", attempt |-> k]
                  THEN [client EXCEPT ![i].pc = pc]
                  ELSE client

Commit(k) ==
    /\ States(k) = "running"
    /\ rows' = rows \cup {RowOf(k)}
    /\ Settle(k, "posted")
    /\ Answer(k, "done")
    /\ UNCHANGED <<clock, excused, scanVars>>

\* The row is refused.  Every error is CodeInternal: the client cannot tell.
Refuse(k) ==
    /\ States(k) = "running"
    /\ Settle(k, "dead")
    /\ Answer(k, "unsure")
    /\ UNCHANGED <<rows, clock, excused, scanVars>>

\* Mutant of Break: the statement is sent again on another connection.
BreakAndResend(k) ==
    /\ States(k) = "running"
    /\ Settle(k, "queued")
    /\ rows' = rows \cup {RowOf(k)}
    /\ UNCHANGED <<clock, client, excused, scanVars>>

\* The connection breaks: Insert returns an error, its statement may still run.
Break(k) ==
    /\ States(k) = "running"
    /\ Settle(k, "orphaned")
    /\ Answer(k, "unsure")
    /\ UNCHANGED <<rows, clock, excused, scanVars>>

OrphanCommits(k) ==
    /\ States(k) = "orphaned"
    /\ rows' = rows \cup {RowOf(k)}
    /\ Settle(k, "posted")
    /\ UNCHANGED <<clock, client, excused, scanVars>>

OrphanDies(k) ==
    /\ States(k) = "orphaned"
    /\ Settle(k, "dead")
    /\ UNCHANGED <<rows, clock, client, excused, scanVars>>

\* The process dies: the queue is lost, a statement may still run.
Crash ==
    /\ \E k \in DOMAIN attempts : States(k) \in {"queued", "running"}
    /\ attempts' = [k \in DOMAIN attempts |->
                      [attempts[k] EXCEPT !.state = CASE @ = "queued"  -> "dead"
                                                      [] @ = "running" -> "orphaned"
                                                      [] OTHER         -> @]]
    /\ client' = [i \in Ids |-> IF client[i].pc = "waiting"
                                THEN [client[i] EXCEPT !.pc = "unsure"]
                                ELSE client[i]]
    /\ UNCHANGED <<rows, clock, excused, scanVars>>

\* The client's own deadline passes, or the answer is lost.
GiveUp(i) ==
    /\ client[i].pc = "waiting"
    /\ client' = [client EXCEPT ![i].pc = "unsure"]
    /\ UNCHANGED <<postVars, excused, scanVars>>

-----------------------------------------------------------------------------
(* TransactionGetByID.                                                     *)

Unsettled(i) ==
    \E k \in DOMAIN attempts : attempts[k].id = i /\ States(k) \in {"queued", "running", "orphaned"}

\* One returns a row with that id, whichever of several comes first.
Found(i) ==
    /\ client[i].pc = "unsure"
    /\ \E r \in rows : r.id = i
    /\ client' = [client EXCEPT ![i].pc = "done"]
    /\ UNCHANGED <<postVars, excused, scanVars>>

\* sql.ErrNoRows, which the handler answers as CodeInternal.
NotFound(i) ==
    /\ client[i].pc = "unsure"
    /\ ~ \E r \in rows : r.id = i
    /\ client' = [client EXCEPT ![i].pc = "again"]
    /\ excused' = IF Unsettled(i) THEN excused \cup {i} ELSE excused
    /\ UNCHANGED <<postVars, scanVars>>

\* The read fails, with the same code.
LookupFails(i) ==
    /\ client[i].pc = "unsure"
    /\ client' = [client EXCEPT ![i].pc = "again"]
    /\ excused' = excused \cup {i}
    /\ UNCHANGED <<postVars, scanVars>>

-----------------------------------------------------------------------------
(* TransactionsGetByAccountID.                                             *)

Matching == {r \in rows : r.debit = Account \/ r.credit = Account}

\* ValidTransactionColumn; sort_dir counts only when it is exactly "desc".
Effective(sortBy, sortDir) ==
    IF sortBy \in {"created_at", "amount"}
    THEN [column |-> sortBy, desc |-> sortDir = "desc"]
    ELSE NewestFirst

Key(sort, r) == IF sort.column = "amount" THEN r.amount ELSE r.at

\* r comes before s in every order the statement may return.
Precedes(sort, r, s) ==
    IF sort.desc THEN Key(sort, s) < Key(sort, r) ELSE Key(sort, r) < Key(sort, s)

SmallerOf(m, n) == IF m < n THEN m ELSE n

\* Mutant of IsPage: one row too many is left out.
IsPageOffByOne(page, skipped, table, sort, offset, size) ==
    /\ skipped \subseteq table /\ page \subseteq table \ skipped
    /\ Cardinality(skipped) = SmallerOf(IF offset > 0 THEN offset + 1 ELSE 0, Cardinality(table))
    /\ Cardinality(page) = SmallerOf(size, Cardinality(table) - Cardinality(skipped))
    /\ \A s \in skipped : \A r \in table \ skipped : ~Precedes(sort, r, s)
    /\ \A p \in page : \A r \in table \ (skipped \cup page) : ~Precedes(sort, r, p)

\* Mutant of IsPage: OFFSET is never added.
IsPageNoOffset(page, skipped, table, sort, offset, size) ==
    /\ skipped = {} /\ page \subseteq table
    /\ Cardinality(page) = SmallerOf(size, Cardinality(table))
    /\ \A p \in page : \A r \in table \ page : ~Precedes(sort, r, p)

\* Mutant of IsPage: LIMIT is never added.
IsPageNoLimit(page, skipped, table, sort, offset, size) ==
    /\ skipped \subseteq table /\ page = table \ skipped
    /\ Cardinality(skipped) = SmallerOf(offset, Cardinality(table))
    /\ \A s \in skipped : \A r \in page : ~Precedes(sort, r, s)

(***************************************************************************)
(* What LIMIT size OFFSET offset may return of a table: rows with the same *)
(* key come in any order, another one in every statement.                  *)
(***************************************************************************)
IsPage(page, skipped, table, sort, offset, size) ==
    /\ skipped \subseteq table /\ page \subseteq table \ skipped
    /\ Cardinality(skipped) = SmallerOf(offset, Cardinality(table))
    /\ Cardinality(page) = SmallerOf(size, Cardinality(table) - Cardinality(skipped))
    /\ \A s \in skipped : \A r \in table \ skipped : ~Precedes(sort, r, s)
    /\ \A p \in page : \A r \in table \ (skipped \cup page) : ~Precedes(sort, r, p)

\* A client starts to page.  It stops at a short page, or trusts the total.
StartScan ==
    /\ scan.pc = "new"
    /\ \E sortBy \in {"created_at", "amount", "other"}, sortDir \in {"desc", "other"},
          size \in PageSizes, byTotal \in BOOLEAN :
         scan' = [ScanNew EXCEPT !.pc = "count", !.sort = Effective(sortBy, sortDir),
                                 !.size = size, !.byTotal = byTotal, !.start = Matching]
    /\ UNCHANGED <<postVars, client, excused, listed, twice>>

\* The first statement; without rows the second is not sent.
CountRows ==
    /\ scan.pc = "count"
    /\ scan' = [scan EXCEPT !.pc = IF Matching = {} THEN "answered" ELSE "page",
                            !.total = Cardinality(Matching), !.page = {}, !.raced = FALSE]
    /\ UNCHANGED <<postVars, client, excused, listed, twice>>

\* The second one, in a snapshot of its own.
ReadPage ==
    /\ scan.pc = "page"
    /\ \E page \in SUBSET Matching, skipped \in SUBSET Matching :
         /\ IsPage(page, skipped, Matching, scan.sort, scan.offset, scan.size)
         /\ scan' = [scan EXCEPT !.pc = "load", !.page = page,
                                 !.raced = Cardinality(Matching) # scan.total]
    /\ UNCHANGED <<postVars, client, excused, listed, twice>>

\* Both accounts of every row are loaded, and the client gets the answer.
LoadAccounts ==
    /\ scan.pc = "load"
    /\ scan' = [scan EXCEPT !.pc = "answered"]
    /\ listed' = listed \cup scan.page
    /\ twice' = twice \cup (listed \cap scan.page)
    /\ UNCHANGED <<postVars, client, excused>>

\* A statement fails or the answer is lost: the client asks again.
ListFails ==
    /\ scan.pc \in {"count", "page", "load"}
    /\ scan' = [scan EXCEPT !.pc = "count"]
    /\ UNCHANGED <<postVars, client, excused, listed, twice>>

ShortPage == Cardinality(scan.page) < scan.size

TotalReached == scan.byTotal /\ scan.offset + scan.size >= scan.total

NextPage ==
    /\ scan.pc = "answered"
    /\ ~ShortPage /\ ~TotalReached
    /\ scan' = [scan EXCEPT !.pc = "count", !.offset = @ + scan.size]
    /\ UNCHANGED <<postVars, client, excused, listed, twice>>

StopScan ==
    /\ scan.pc = "answered"
    /\ ShortPage \/ TotalReached
    /\ scan' = [scan EXCEPT !.pc = "done"]
    /\ UNCHANGED <<postVars, client, excused, listed, twice>>

\* Nothing is left to do, or the bound on attempts is reached.
Quiescent ==
    /\ scan.pc = "done"
    /\ \A k \in DOMAIN attempts : States(k) \in {"posted", "dead"}
    /\ \A i \in Ids : \/ client[i].pc = "done"
                      \/ client[i].pc \in {"new", "again"} /\ Len(attempts) = MaxAttempts
    /\ UNCHANGED vars

-----------------------------------------------------------------------------
Attempt(k) == Run(k) \/ Commit(k) \/ Refuse(k) \/ Break(k) \/ OrphanCommits(k) \/ OrphanDies(k)

Client(i) == Submit(i) \/ GiveUp(i) \/ Found(i) \/ NotFound(i) \/ LookupFails(i)

Listing == StartScan \/ CountRows \/ ReadPage \/ LoadAccounts \/ ListFails \/ NextPage \/ StopScan

Next ==
    \/ \E k \in DOMAIN attempts : Attempt(k)
    \/ \E i \in Ids : Client(i)
    \/ Crash \/ Listing \/ Quiescent

Spec == Init /\ [][Next]_vars

-----------------------------------------------------------------------------
\* Every variable has its type; answers hold rows of the account, at most the page size.
TypeOK ==
    /\ rows \subseteq Rows /\ IsFiniteSet(rows)
    /\ clock \in Int
    /\ attempts \in Seq([id : Ids, at : Int,
                         state : {"queued", "running", "orphaned", "posted", "dead"}])
    /\ client \in [Ids -> [pc : {"new", "waiting", "unsure", "again", "done"}, attempt : Nat]]
    /\ excused \subseteq Ids
    /\ scan \in [pc : {"new", "count", "page", "load", "answered", "done"},
                 sort : Sorts, size : Nat, byTotal : BOOLEAN, offset : Nat, total : Nat,
                 page : SUBSET rows, raced : BOOLEAN, start : SUBSET rows]
    /\ scan.page \subseteq Matching /\ Cardinality(scan.page) <= scan.size
    /\ scan.start \subseteq Matching
    /\ listed \subseteq Matching /\ twice \subseteq listed

\* No other row sorts level with r.
OwnKey(r) == \A s \in Matching \ {r} : Key(scan.sort, s) # Key(scan.sort, r)

(***************************************************************************)
(* Paging by offset while rows are inserted at any place of the order: a   *)
(* client that reads on until a page is short has every row that was there *)
(* when it started and that no other row sorts level with.  A client that  *)
(* stops at the total has them too, unless a transfer was posted between   *)
(* the two statements of its last answer.                                  *)
(***************************************************************************)
NoneSkipped ==
    scan.pc = "done" /\ (ShortPage \/ ~scan.raced) =>
        \A r \in scan.start : OwnKey(r) => r \in listed

(***************************************************************************)
(* A row is listed in two pages only if another sorts level with it or a   *)
(* row that sorts before it was posted since the scan began.               *)
(***************************************************************************)
RepeatsExplained ==
    \A r \in twice :
        \/ ~OwnKey(r)
        \/ \E s \in Matching \ scan.start : Precedes(scan.sort, s, r)

(***************************************************************************)
(* A client that sends a transfer again only when TransactionGetByID knows *)
(* none under its id has it posted twice only if an earlier attempt was    *)
(* still queued, running or orphaned at that time, or the lookup failed:   *)
(* PRIMARY KEY (id, created_at) does not prevent it.                       *)
(***************************************************************************)
TwiceMeansUnsettled ==
    \A r, s \in rows : r # s /\ r.id = s.id /\ r.id \in Ids => r.id \in excused
=============================================================================
