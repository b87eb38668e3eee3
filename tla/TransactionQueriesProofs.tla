----------------------- MODULE TransactionQueriesProofs -----------------------
(***************************************************************************)
(* What TLAPS proves of TransactionQueries, for every value of its         *)
(* constants: any transfers, page sizes and number of attempts.            *)
(***************************************************************************)
EXTENDS TransactionQueries, SequenceTheorems, FiniteSetTheorems, TLAPS

-----------------------------------------------------------------------------
(* Types.                                                                  *)

AttemptStates == {"queued", "running", "orphaned", "posted", "dead"}
ClientPCs     == {"new", "waiting", "unsure", "again", "done"}
Attempts      == [id : Ids, at : Int, state : AttemptStates]
Clients       == [pc : ClientPCs, attempt : Nat]

Scans(R) ==
    [pc : {"new", "count", "page", "load", "answered", "done"},
     sort : Sorts, size : Nat, byTotal : BOOLEAN, offset : Nat, total : Nat,
     page : SUBSET R, raced : BOOLEAN, start : SUBSET R]

PostTypes ==
    /\ rows \subseteq Rows /\ IsFiniteSet(rows)
    /\ clock \in Int
    /\ attempts \in Seq(Attempts)
    /\ client \in [Ids -> Clients]
    /\ excused \subseteq Ids

ScanTypes ==
    /\ scan \in Scans(rows)
    /\ scan.page \subseteq Matching /\ Cardinality(scan.page) <= scan.size
    /\ scan.start \subseteq Matching
    /\ listed \subseteq Matching /\ twice \subseteq listed

LEMMA TypeParts ==
    /\ TypeOK <=> PostTypes /\ ScanTypes
    /\ TypeOK' <=> PostTypes' /\ ScanTypes'
BY DEF TypeOK, PostTypes, ScanTypes, Scans, Attempts, AttemptStates, Clients, ClientPCs

LEMMA MatchingFinite ==
    ASSUME PostTypes
    PROVE  /\ Matching \subseteq rows /\ IsFiniteSet(Matching)
           /\ Cardinality(Matching) \in Nat
<1>1. Matching \in SUBSET rows /\ IsFiniteSet(rows)
  BY DEF Matching, PostTypes
<1>2. IsFiniteSet(Matching)
  BY <1>1, FS_Subset
<1> QED
  BY <1>1, <1>2, FS_CardinalityType

LEMMA InitTypes == Init => TypeOK
<1> SUFFICES ASSUME Init PROVE TypeOK
  OBVIOUS
<1>1. PostTypes
  <2>1. attempts \in Seq(Attempts)
    BY EmptySeq DEF Init
  <2>2. client \in [Ids -> Clients]
    BY DEF Init, Clients, ClientPCs
  <2> QED
    BY <2>1, <2>2, QueriesAssumption DEF Init, PostTypes
<1>2. Cardinality({}) = 0
  BY FS_EmptySet
<1>3. ScanTypes
  <2>1. NewestFirst \in Sorts
    BY DEF NewestFirst, Sorts
  <2>2. scan \in Scans(rows)
    BY <2>1 DEF Init, ScanNew, Scans
  <2>3. scan.pc = "new" /\ scan.page = {} /\ scan.size = 0 /\ scan.start = {} /\ listed = {} /\ twice = {}
    BY DEF Init, ScanNew
  <2> QED
    BY <1>2, <2>2, <2>3 DEF ScanTypes
<1> QED
  BY <1>1, <1>3, TypeParts

\* A row that attempt k would add.
LEMMA RowTyped ==
    ASSUME PostTypes, NEW k \in DOMAIN attempts
    PROVE  /\ RowOf(k) \in Rows /\ attempts[k] \in Attempts
           /\ attempts[k].id \in Ids /\ RowOf(k).id = attempts[k].id
<1>1. attempts[k] \in Attempts
  BY ElementOfSeq DEF PostTypes
<1>2. attempts[k].id \in Ids /\ attempts[k].at \in Int
  BY <1>1 DEF Attempts
<1>3. attempts[k].id \in Int /\ TransferOf[attempts[k].id] \in Transfers
  BY <1>2, QueriesAssumption
<1> QED
  BY <1>1, <1>2, <1>3 DEF RowOf, Rows, Transfers

\* What an attempt does to the attempts and to the rows.
Moved(k, state) ==
    /\ k \in DOMAIN attempts
    /\ DOMAIN attempts' = DOMAIN attempts
    /\ \A j \in DOMAIN attempts : j # k => attempts'[j] = attempts[j]
    /\ attempts'[k].id = attempts[k].id
    /\ attempts'[k].state = state
    /\ state # "running" => attempts'[k].at = attempts[k].at

LEMMA SettleFacts ==
    ASSUME PostTypes, NEW k \in DOMAIN attempts, NEW state \in AttemptStates, Settle(k, state)
    PROVE  attempts' \in Seq(Attempts) /\ Moved(k, state)
<1>1. attempts[k] \in Attempts
  BY RowTyped
<1>2. [attempts[k] EXCEPT !.state = state] \in Attempts
  BY <1>1 DEF Attempts
<1>3. attempts' = [attempts EXCEPT ![k] = [attempts[k] EXCEPT !.state = state]]
  BY DEF Settle
<1>4. attempts \in Seq(Attempts)
  BY DEF PostTypes
<1>5. attempts' \in Seq(Attempts)
  BY <1>2, <1>3, <1>4, ExceptSeq
<1>6. DOMAIN attempts' = DOMAIN attempts /\ attempts'[k] = [attempts[k] EXCEPT !.state = state]
  BY <1>3
<1>7. attempts'[k].id = attempts[k].id /\ attempts'[k].state = state /\ attempts'[k].at = attempts[k].at
  BY <1>1, <1>6 DEF Attempts
<1> QED
  BY <1>3, <1>5, <1>6, <1>7 DEF Moved

LEMMA AnswerTyped ==
    ASSUME PostTypes, NEW k \in DOMAIN attempts, NEW p \in ClientPCs, Answer(k, p)
    PROVE  /\ client' \in [Ids -> Clients]
           /\ \A i \in Ids : client'[i] = client[i] \/ client'[i].pc = p
<1>1. attempts[k].id \in Ids
  BY RowTyped
<1>2. client \in [Ids -> Clients]
  BY DEF PostTypes
<1> QED
  BY <1>1, <1>2 DEF Answer, Clients

LEMMA RunFacts ==
    ASSUME PostTypes, NEW k \in DOMAIN attempts, Run(k)
    PROVE  /\ attempts' \in Seq(Attempts) /\ Moved(k, "running")
           /\ attempts[k].state = "queued"
<1>1. attempts[k] \in Attempts
  BY RowTyped
<1>2. clock + 1 \in Int
  BY DEF PostTypes
<1>3. [attempts[k] EXCEPT !.state = "running", !.at = clock + 1] \in Attempts
  BY <1>1, <1>2 DEF Attempts, AttemptStates
<1>4. attempts' = [attempts EXCEPT ![k] = [attempts[k] EXCEPT !.state = "running", !.at = clock + 1]]
  BY DEF Run
<1>5. attempts \in Seq(Attempts)
  BY DEF PostTypes
<1>6. attempts' \in Seq(Attempts)
  BY <1>3, <1>4, <1>5, ExceptSeq
<1>7. DOMAIN attempts' = DOMAIN attempts
      /\ attempts'[k] = [attempts[k] EXCEPT !.state = "running", !.at = clock + 1]
  BY <1>4
<1>8. attempts'[k].id = attempts[k].id /\ attempts'[k].state = "running"
  BY <1>1, <1>7 DEF Attempts
<1> QED
  BY <1>4, <1>6, <1>7, <1>8 DEF Moved, Run, States

(***************************************************************************)
(* All that the steps of an attempt have in common: it was not settled,    *)
(* its row is added when it becomes posted and only then, and a client     *)
(* that hears of it does not send its transfer again at once.              *)
(***************************************************************************)
AttemptMoves(k, state) ==
    /\ attempts' \in Seq(Attempts) /\ Moved(k, state)
    /\ attempts[k].state \notin {"posted", "dead"}
    /\ rows' = (IF state = "posted" THEN rows \cup {RowOf(k)} ELSE rows)
    /\ client' \in [Ids -> Clients]
    /\ \A i \in Ids : client'[i] = client[i] \/ client'[i].pc \in {"done", "unsure"}
    /\ clock' \in Int
    /\ UNCHANGED <<excused, scanVars>>

LEMMA AttemptFacts ==
    ASSUME PostTypes, NEW k \in DOMAIN attempts, Attempt(k)
    PROVE  \E state \in AttemptStates : AttemptMoves(k, state)
<1>t. client \in [Ids -> Clients] /\ clock \in Int
  BY DEF PostTypes
<1>1. CASE Run(k)
  <2>1. attempts' \in Seq(Attempts) /\ Moved(k, "running") /\ attempts[k].state = "queued"
    BY <1>1, RunFacts
  <2>2. AttemptMoves(k, "running")
    BY <1>1, <1>t, <2>1 DEF Run, AttemptMoves
  <2> QED
    BY <2>2 DEF AttemptStates
<1>2. CASE Commit(k)
  <2>1. attempts' \in Seq(Attempts) /\ Moved(k, "posted")
    BY <1>2, SettleFacts DEF Commit, AttemptStates
  <2>2. client' \in [Ids -> Clients] /\ \A i \in Ids : client'[i] = client[i] \/ client'[i].pc = "done"
    BY <1>2, AnswerTyped DEF Commit, ClientPCs
  <2>3. AttemptMoves(k, "posted")
    BY <1>2, <1>t, <2>1, <2>2 DEF Commit, States, AttemptMoves
  <2> QED
    BY <2>3 DEF AttemptStates
<1>3. CASE Refuse(k)
  <2>1. attempts' \in Seq(Attempts) /\ Moved(k, "dead")
    BY <1>3, SettleFacts DEF Refuse, AttemptStates
  <2>2. client' \in [Ids -> Clients] /\ \A i \in Ids : client'[i] = client[i] \/ client'[i].pc = "unsure"
    BY <1>3, AnswerTyped DEF Refuse, ClientPCs
  <2>3. AttemptMoves(k, "dead")
    BY <1>3, <1>t, <2>1, <2>2 DEF Refuse, States, AttemptMoves
  <2> QED
    BY <2>3 DEF AttemptStates
<1>4. CASE Break(k)
  <2>1. attempts' \in Seq(Attempts) /\ Moved(k, "orphaned")
    BY <1>4, SettleFacts DEF Break, AttemptStates
  <2>2. client' \in [Ids -> Clients] /\ \A i \in Ids : client'[i] = client[i] \/ client'[i].pc = "unsure"
    BY <1>4, AnswerTyped DEF Break, ClientPCs
  <2>3. AttemptMoves(k, "orphaned")
    BY <1>4, <1>t, <2>1, <2>2 DEF Break, States, AttemptMoves
  <2> QED
    BY <2>3 DEF AttemptStates
<1>5. CASE OrphanCommits(k)
  <2>1. attempts' \in Seq(Attempts) /\ Moved(k, "posted")
    BY <1>5, SettleFacts DEF OrphanCommits, AttemptStates
  <2>2. AttemptMoves(k, "posted")
    BY <1>5, <1>t, <2>1 DEF OrphanCommits, States, AttemptMoves
  <2> QED
    BY <2>2 DEF AttemptStates
<1>6. CASE OrphanDies(k)
  <2>1. attempts' \in Seq(Attempts) /\ Moved(k, "dead")
    BY <1>6, SettleFacts DEF OrphanDies, AttemptStates
  <2>2. AttemptMoves(k, "dead")
    BY <1>6, <1>t, <2>1 DEF OrphanDies, States, AttemptMoves
  <2> QED
    BY <2>2 DEF AttemptStates
<1> QED
  BY <1>1, <1>2, <1>3, <1>4, <1>5, <1>6 DEF Attempt

\* A crash ends the queue and leaves a running statement to the database.
LEMMA CrashFacts ==
    ASSUME PostTypes, Crash
    PROVE  /\ attempts' \in Seq(Attempts) /\ DOMAIN attempts' = DOMAIN attempts
           /\ \A k \in DOMAIN attempts :
                /\ attempts'[k].id = attempts[k].id /\ attempts'[k].at = attempts[k].at
                /\ attempts'[k].state = "posted" <=> attempts[k].state = "posted"
                /\ attempts[k].state = "dead" => attempts'[k].state = "dead"
           /\ client' \in [Ids -> Clients]
           /\ \A i \in Ids : client'[i] = client[i] \/ client'[i].pc = "unsure"
<1>1. attempts \in Seq(Attempts) /\ client \in [Ids -> Clients]
  BY DEF PostTypes
<1> DEFINE New(k) == [attempts[k] EXCEPT !.state = CASE @ = "queued"  -> "dead"
                                                     [] @ = "running" -> "orphaned"
                                                     [] OTHER         -> @]
<1>2. attempts' = [k \in DOMAIN attempts |-> New(k)]
  BY DEF Crash
<1>3. ASSUME NEW k \in DOMAIN attempts
      PROVE  /\ New(k) \in Attempts
             /\ New(k).id = attempts[k].id /\ New(k).at = attempts[k].at
             /\ New(k).state = "posted" <=> attempts[k].state = "posted"
             /\ attempts[k].state = "dead" => New(k).state = "dead"
  BY RowTyped DEF Attempts, AttemptStates
<1>4. DOMAIN attempts = 1..Len(attempts) /\ Len(attempts) \in Nat
  BY <1>1
<1>5. attempts' \in [1..Len(attempts) -> Attempts]
  BY <1>2, <1>3, <1>4
<1>6. attempts' \in Seq(Attempts)
  BY <1>4, <1>5, SeqDef
<1>7. /\ client' \in [Ids -> Clients]
      /\ \A i \in Ids : client'[i] = client[i] \/ client'[i].pc = "unsure"
  BY <1>1 DEF Crash, Clients, ClientPCs
<1> HIDE DEF New
<1> QED
  BY <1>2, <1>3, <1>6, <1>7

LEMMA SubmitFacts ==
    ASSUME PostTypes, NEW i \in Ids, Submit(i)
    PROVE  /\ attempts' \in Seq(Attempts)
           /\ DOMAIN attempts' = DOMAIN attempts \cup {Len(attempts) + 1}
           /\ Len(attempts) + 1 \notin DOMAIN attempts
           /\ \A k \in DOMAIN attempts : attempts'[k] = attempts[k]
           /\ attempts'[Len(attempts) + 1].id = i
           /\ attempts'[Len(attempts) + 1].state = "queued"
           /\ client' \in [Ids -> Clients]
           /\ client'[i].pc = "waiting" /\ \A j \in Ids : j # i => client'[j] = client[j]
<1>1. attempts \in Seq(Attempts) /\ client \in [Ids -> Clients] /\ clock \in Int
  BY DEF PostTypes
<1> DEFINE new == [id |-> i, state |-> "queued", at |-> clock]
           n == Len(attempts)
<1>2. new \in Attempts /\ n \in Nat
  BY <1>1 DEF Attempts, AttemptStates
<1>3. attempts' = Append(attempts, new)
  BY DEF Submit
<1>4. /\ attempts' \in Seq(Attempts) /\ Len(attempts') = n + 1
      /\ attempts'[n + 1] = new /\ \A k \in 1..n : attempts'[k] = attempts[k]
  BY <1>1, <1>2, <1>3, AppendProperties
<1>5. DOMAIN attempts = 1..n /\ DOMAIN attempts' = 1..n + 1
  BY <1>1, <1>4
<1>6. 1..n + 1 = 1..n \cup {n + 1} /\ n + 1 \notin 1..n
  BY <1>2
<1>7. /\ client' \in [Ids -> Clients]
      /\ client'[i].pc = "waiting" /\ \A j \in Ids : j # i => client'[j] = client[j]
  BY <1>1, <1>2 DEF Submit, Clients, ClientPCs
<1> QED
  BY <1>4, <1>5, <1>6, <1>7

PostAction ==
    \/ \E k \in DOMAIN attempts : Attempt(k)
    \/ \E i \in Ids : Client(i)
    \/ Crash

LEMMA PostStep ==
    ASSUME PostTypes, PostAction
    PROVE  PostTypes' /\ rows \subseteq rows' /\ UNCHANGED scanVars
<1>t. /\ rows \subseteq Rows /\ IsFiniteSet(rows) /\ clock \in Int
      /\ attempts \in Seq(Attempts) /\ client \in [Ids -> Clients] /\ excused \subseteq Ids
  BY DEF PostTypes
<1>1. ASSUME NEW k \in DOMAIN attempts, Attempt(k)
      PROVE  PostTypes' /\ rows \subseteq rows' /\ UNCHANGED scanVars
  <2>1. PICK state \in AttemptStates : AttemptMoves(k, state)
    BY <1>1, AttemptFacts
  <2>2. RowOf(k) \in Rows /\ IsFiniteSet(rows \cup {RowOf(k)})
    BY <1>t, RowTyped, FS_AddElement
  <2>3. rows' \subseteq Rows /\ IsFiniteSet(rows') /\ rows \subseteq rows'
    BY <1>t, <2>1, <2>2 DEF AttemptMoves
  <2> QED
    BY <1>t, <2>1, <2>3 DEF AttemptMoves, PostTypes
<1>2. ASSUME NEW i \in Ids, Submit(i)
      PROVE  PostTypes' /\ rows \subseteq rows' /\ UNCHANGED scanVars
  <2>1. attempts' \in Seq(Attempts) /\ client' \in [Ids -> Clients]
    BY <1>2, SubmitFacts
  <2> QED
    BY <1>2, <1>t, <2>1 DEF Submit, PostTypes
<1>3. ASSUME NEW i \in Ids, GiveUp(i) \/ Found(i) \/ NotFound(i) \/ LookupFails(i)
      PROVE  PostTypes' /\ rows \subseteq rows' /\ UNCHANGED scanVars
  <2>1. client' \in [Ids -> Clients] /\ excused' \subseteq Ids
    BY <1>3, <1>t DEF GiveUp, Found, NotFound, LookupFails, Clients, ClientPCs
  <2>2. UNCHANGED <<postVars, scanVars>>
    BY <1>3 DEF GiveUp, Found, NotFound, LookupFails
  <2> QED
    BY <1>t, <2>1, <2>2 DEF PostTypes, postVars
<1>4. CASE Crash
  <2>1. attempts' \in Seq(Attempts) /\ client' \in [Ids -> Clients]
    BY <1>4, CrashFacts
  <2> QED
    BY <1>4, <1>t, <2>1 DEF Crash, PostTypes
<1> QED
  BY <1>1, <1>2, <1>3, <1>4 DEF PostAction, Client

LEMMA GrowTypes ==
    ASSUME PostTypes, ScanTypes, rows \subseteq rows', UNCHANGED scanVars
    PROVE  ScanTypes' /\ Matching \subseteq Matching'
<1>1. Matching \subseteq Matching'
  BY DEF Matching
<1>2. scan \in Scans(rows')
  BY DEF ScanTypes, Scans
<1> QED
  BY <1>1, <1>2 DEF ScanTypes, scanVars

LEMMA SmallerFacts ==
    ASSUME NEW m \in Nat, NEW n \in Nat
    PROVE  /\ SmallerOf(m, n) \in Nat /\ SmallerOf(m, n) <= m /\ SmallerOf(m, n) <= n
           /\ SmallerOf(m, n) = m \/ SmallerOf(m, n) = n
BY DEF SmallerOf

\* A step of the client that pages leaves the rows alone.
LEMMA ListingStep ==
    ASSUME PostTypes, ScanTypes, Listing
    PROVE  ScanTypes' /\ UNCHANGED <<postVars, client, excused>> /\ Matching' = Matching
<1>t. /\ scan \in Scans(rows)
      /\ scan.page \subseteq Matching /\ Cardinality(scan.page) <= scan.size
      /\ scan.start \subseteq Matching
      /\ listed \subseteq Matching /\ twice \subseteq listed
  BY DEF ScanTypes
<1>m. Matching \subseteq rows /\ IsFiniteSet(Matching) /\ Cardinality(Matching) \in Nat
  BY MatchingFinite
<1>u. UNCHANGED <<postVars, client, excused>>
  BY DEF Listing, StartScan, CountRows, ReadPage, LoadAccounts, ListFails, NextPage, StopScan
<1>v. rows' = rows /\ Matching' = Matching
  BY <1>u DEF postVars, Matching
<1>0. Cardinality({}) = 0
  BY FS_EmptySet
<1>1. CASE StartScan
  <2>1. PICK sortBy \in {"created_at", "amount", "other"}, sortDir \in {"desc", "other"},
             size \in PageSizes, byTotal \in BOOLEAN :
               scan' = [ScanNew EXCEPT !.pc = "count", !.sort = Effective(sortBy, sortDir),
                                       !.size = size, !.byTotal = byTotal, !.start = Matching]
    BY <1>1 DEF StartScan
  <2>2. Effective(sortBy, sortDir) \in Sorts /\ size \in Nat
    BY QueriesAssumption DEF Effective, Sorts, NewestFirst
  <2>3. /\ scan' = [pc |-> "count", sort |-> Effective(sortBy, sortDir), size |-> size,
                    byTotal |-> byTotal, offset |-> 0, total |-> 0, page |-> {},
                    raced |-> FALSE, start |-> Matching]
        /\ UNCHANGED <<listed, twice>>
    BY <1>1, <2>1 DEF StartScan, ScanNew
  <2>4. scan' \in Scans(rows)
    BY <1>m, <2>2, <2>3 DEF Scans
  <2>5. scan'.page = {} /\ scan'.start = Matching /\ scan'.size = size
    BY <2>3
  <2> QED
    BY <1>0, <1>t, <1>u, <1>v, <2>2, <2>3, <2>4, <2>5 DEF ScanTypes
<1>2. CASE CountRows
  <2>1. /\ scan' \in Scans(rows) /\ scan'.page = {}
        /\ scan'.size = scan.size /\ scan'.start = scan.start /\ UNCHANGED <<listed, twice>>
        /\ scan.size \in Nat
    BY <1>2, <1>t, <1>m DEF CountRows, Scans
  <2> QED
    BY <1>0, <1>t, <1>u, <1>v, <2>1 DEF ScanTypes
<1>3. CASE ReadPage
  <2>1. PICK page \in SUBSET Matching, skipped \in SUBSET Matching :
               /\ IsPage(page, skipped, Matching, scan.sort, scan.offset, scan.size)
               /\ scan' = [scan EXCEPT !.pc = "load", !.page = page,
                                       !.raced = Cardinality(Matching) # scan.total]
    BY <1>3 DEF ReadPage
  <2>2. scan.size \in Nat /\ page \in SUBSET rows
    BY <1>t, <1>m DEF Scans
  <2>3. /\ scan' \in Scans(rows) /\ scan'.page = page
        /\ scan'.size = scan.size /\ scan'.start = scan.start /\ UNCHANGED <<listed, twice>>
    BY <1>3, <1>t, <2>1, <2>2 DEF ReadPage, Scans
  <2>4. Cardinality(page) <= scan.size
    <3>1. IsFiniteSet(skipped) /\ Cardinality(skipped) <= Cardinality(Matching)
      BY <1>m, FS_Subset
    <3>2. Cardinality(skipped) \in Nat
      BY <3>1, FS_CardinalityType
    <3>3. Cardinality(Matching) - Cardinality(skipped) \in Nat
      BY <1>m, <3>1, <3>2
    <3>4. Cardinality(page) = SmallerOf(scan.size, Cardinality(Matching) - Cardinality(skipped))
      BY <2>1 DEF IsPage
    <3> QED
      BY <2>2, <3>3, <3>4, SmallerFacts
  <2> QED
    BY <1>t, <1>u, <1>v, <2>3, <2>4 DEF ScanTypes
<1>4. CASE LoadAccounts
  <2>1. /\ scan' \in Scans(rows) /\ scan'.page = scan.page
        /\ scan'.size = scan.size /\ scan'.start = scan.start
        /\ listed' = listed \cup scan.page /\ twice' = twice \cup (listed \cap scan.page)
    BY <1>4, <1>t DEF LoadAccounts, Scans
  <2> QED
    BY <1>t, <1>u, <1>v, <2>1 DEF ScanTypes
<1>5. CASE ListFails \/ NextPage \/ StopScan
  <2>1. /\ scan' \in Scans(rows) /\ scan'.page = scan.page
        /\ scan'.size = scan.size /\ scan'.start = scan.start /\ UNCHANGED <<listed, twice>>
    <3>1. CASE ListFails
      BY <1>t, <3>1 DEF ListFails, Scans
    <3>2. CASE NextPage
      <4>1. scan.offset + scan.size \in Nat
        BY <1>t DEF Scans
      <4> QED
        BY <1>t, <3>2, <4>1 DEF NextPage, Scans
    <3>3. CASE StopScan
      BY <1>t, <3>3 DEF StopScan, Scans
    <3> QED
      BY <1>5, <3>1, <3>2, <3>3
  <2> QED
    BY <1>t, <1>u, <1>v, <2>1 DEF ScanTypes
<1> QED
  BY <1>1, <1>2, <1>3, <1>4, <1>5 DEF Listing

LEMMA TypeStep == TypeOK /\ [Next]_vars => TypeOK'
<1> SUFFICES ASSUME PostTypes, ScanTypes, [Next]_vars PROVE PostTypes' /\ ScanTypes'
  BY TypeParts
<1>1. CASE PostAction
  BY <1>1, PostStep, GrowTypes
<1>2. CASE Listing
  <2>1. ScanTypes' /\ UNCHANGED <<postVars, client, excused>>
    BY <1>2, ListingStep
  <2> QED
    BY <2>1 DEF PostTypes, postVars
<1>3. CASE UNCHANGED vars
  <2>1. UNCHANGED <<postVars, client, excused, scanVars>>
    BY <1>3 DEF vars
  <2>2. rows' = rows
    BY <2>1 DEF postVars
  <2>3. PostTypes' /\ ScanTypes'
    BY <2>1, <2>2, GrowTypes DEF PostTypes, postVars
  <2> QED
    BY <2>3
<1> QED
  BY <1>1, <1>2, <1>3 DEF Next, PostAction, Quiescent

(***************************************************************************)
(* Every variable keeps its type: an answer holds rows of the account and  *)
(* no more of them than the page size (storage/transactions.go:49-114).    *)
(***************************************************************************)
THEOREM QueryTypes == Spec => []TypeOK
BY InitTypes, TypeStep, PTL DEF Spec

-----------------------------------------------------------------------------
(* Retrying by transaction id.                                             *)

Posted(k) == attempts[k].state = "posted"
Dead(k)   == attempts[k].state = "dead"

\* The row of an id a client chose is that of a posted attempt, and the reverse.
RowsPosted ==
    /\ \A r \in rows : r.id \in Ids => \E k \in DOMAIN attempts : Posted(k) /\ r = RowOf(k)
    /\ \A k \in DOMAIN attempts : Posted(k) => RowOf(k) \in rows

\* A client that sent its transfer again on what it knew has one attempt that counts.
OneCounts ==
    \A i \in Ids \ excused : \A j, k \in DOMAIN attempts :
        attempts[j].id = i /\ attempts[k].id = i /\ ~Dead(j) /\ ~Dead(k) => j = k

\* It sends none before the others are out of the way.
RestDead ==
    \A i \in Ids \ excused : client[i].pc \in {"new", "again"} =>
        \A k \in DOMAIN attempts : attempts[k].id = i => Dead(k)

Retries == RowsPosted /\ OneCounts /\ RestDead

LEMMA InitRetries == Init => Retries
<1> SUFFICES ASSUME Init PROVE Retries
  OBVIOUS
<1>1. DOMAIN attempts = {}
  BY EmptySeq DEF Init
<1>2. \A r \in rows : r.id \notin Ids
  BY QueriesAssumption DEF Init
<1> QED
  BY <1>1, <1>2 DEF Retries, RowsPosted, OneCounts, RestDead

LEMMA RetriesStep == TypeOK /\ Retries /\ [Next]_vars => Retries'
<1> SUFFICES ASSUME PostTypes, ScanTypes, Retries, [Next]_vars PROVE Retries'
  BY TypeParts
<1>f. RowsPosted /\ OneCounts /\ RestDead
  BY DEF Retries
<1>s. \A k \in DOMAIN attempts : attempts[k].id \in Ids /\ attempts[k].state \in AttemptStates
                                 /\ RowOf(k).id = attempts[k].id
  BY RowTyped DEF Attempts
<1>t. client \in [Ids -> Clients]
  BY DEF PostTypes
<1>1. ASSUME NEW k \in DOMAIN attempts, Attempt(k) PROVE Retries'
  <2>1. PICK state \in AttemptStates : AttemptMoves(k, state)
    BY <1>1, AttemptFacts
  <2>2. /\ DOMAIN attempts' = DOMAIN attempts
        /\ \A j \in DOMAIN attempts : j # k => attempts'[j] = attempts[j]
        /\ attempts'[k].id = attempts[k].id /\ attempts'[k].state = state
        /\ state # "running" => attempts'[k].at = attempts[k].at
        /\ ~Posted(k) /\ ~Dead(k)
    BY <2>1 DEF AttemptMoves, Moved, Posted, Dead
  <2>3. \A j \in DOMAIN attempts : Posted(j)' => RowOf(j)' = RowOf(j)
    BY <2>2 DEF Posted, RowOf
  <2>4. rows' = (IF state = "posted" THEN rows \cup {RowOf(k)} ELSE rows) /\ excused' = excused
    BY <2>1 DEF AttemptMoves
  <2>5. \A j \in DOMAIN attempts : Posted(j)' <=> Posted(j) \/ (j = k /\ state = "posted")
    BY <2>2 DEF Posted
  <2>6. RowsPosted'
    <3>1. ASSUME NEW r \in rows', r.id \in Ids
          PROVE  \E j \in DOMAIN attempts' : Posted(j)' /\ r = RowOf(j)'
      <4>1. CASE r \in rows
        <5>1. PICK j \in DOMAIN attempts : Posted(j) /\ r = RowOf(j)
          BY <1>f, <3>1, <4>1 DEF RowsPosted
        <5> QED
          BY <2>2, <2>3, <2>5, <5>1
      <4>2. CASE r \notin rows
        <5>1. state = "posted" /\ r = RowOf(k)
          BY <2>4, <3>1, <4>2
        <5> QED
          BY <2>2, <2>3, <2>5, <5>1
      <4> QED
        BY <4>1, <4>2
    <3>2. ASSUME NEW j \in DOMAIN attempts', Posted(j)' PROVE RowOf(j)' \in rows'
      BY <1>f, <2>2, <2>3, <2>4, <2>5, <3>2 DEF RowsPosted
    <3> QED
      BY <3>1, <3>2 DEF RowsPosted
  <2>7. \A j \in DOMAIN attempts : attempts'[j].id = attempts[j].id /\ (Dead(j) => Dead(j)')
    BY <2>2 DEF Dead
  <2>8. OneCounts'
    BY <1>f, <2>2, <2>4, <2>7 DEF OneCounts
  <2>9. RestDead'
    <3>1. \A i \in Ids : client'[i].pc \in {"new", "again"} => client[i].pc \in {"new", "again"}
      BY <2>1 DEF AttemptMoves
    <3> QED
      BY <1>f, <2>2, <2>4, <2>7, <3>1 DEF RestDead
  <2> QED
    BY <2>6, <2>8, <2>9 DEF Retries
<1>2. ASSUME NEW i \in Ids, Submit(i) PROVE Retries'
  <2>1. PICK n :
        /\ DOMAIN attempts' = DOMAIN attempts \cup {n} /\ n \notin DOMAIN attempts
        /\ \A k \in DOMAIN attempts : attempts'[k] = attempts[k]
        /\ attempts'[n].id = i /\ attempts'[n].state = "queued"
        /\ client'[i].pc = "waiting" /\ \A j \in Ids : j # i => client'[j] = client[j]
    BY <1>2, SubmitFacts
  <2>2. rows' = rows /\ excused' = excused /\ client[i].pc \in {"new", "again"}
    BY <1>2 DEF Submit
  <2>3. \A k \in DOMAIN attempts : RowOf(k)' = RowOf(k) /\ (Posted(k)' <=> Posted(k)) /\ (Dead(k)' <=> Dead(k))
    BY <2>1 DEF RowOf, Posted, Dead
  <2>4. ~Posted(n)' /\ ~Dead(n)'
    BY <2>1 DEF Posted, Dead
  <2>5. RowsPosted'
    <3>1. \A r \in rows : r.id \in Ids => \E k \in DOMAIN attempts : Posted(k)' /\ r = RowOf(k)'
      BY <1>f, <2>3 DEF RowsPosted
    <3>2. \A k \in DOMAIN attempts' : Posted(k)' => RowOf(k)' \in rows
      BY <1>f, <2>1, <2>3, <2>4 DEF RowsPosted
    <3> QED
      BY <2>1, <2>2, <3>1, <3>2 DEF RowsPosted
  <2>6. OneCounts'
    <3> SUFFICES ASSUME NEW d \in Ids \ excused, NEW j \in DOMAIN attempts', NEW k \in DOMAIN attempts',
                        attempts'[j].id = d, attempts'[k].id = d, ~Dead(j)', ~Dead(k)'
                 PROVE  j = k
      BY <2>2 DEF OneCounts
    <3>1. CASE d = i
      <4>1. \A m \in DOMAIN attempts : attempts[m].id = d => Dead(m)
        BY <1>f, <2>2, <3>1 DEF RestDead
      <4> QED
        BY <2>1, <2>3, <4>1
    <3>2. CASE d # i
      BY <1>f, <2>1, <2>3, <3>2 DEF OneCounts
    <3> QED
      BY <3>1, <3>2
  <2>7. RestDead'
    <3> SUFFICES ASSUME NEW d \in Ids \ excused, client'[d].pc \in {"new", "again"},
                        NEW k \in DOMAIN attempts', attempts'[k].id = d
                 PROVE  Dead(k)'
      BY <2>2 DEF RestDead
    <3>1. d # i /\ k # n
      BY <2>1
    <3> QED
      BY <1>f, <2>1, <2>3, <3>1 DEF RestDead
  <2> QED
    BY <2>5, <2>6, <2>7 DEF Retries
<1>3. ASSUME NEW i \in Ids, GiveUp(i) \/ Found(i) \/ NotFound(i) \/ LookupFails(i) PROVE Retries'
  <2>1. UNCHANGED <<rows, attempts>> /\ excused \subseteq excused'
    BY <1>3 DEF GiveUp, Found, NotFound, LookupFails, postVars
  <2>2. RowsPosted' /\ OneCounts'
    BY <1>f, <2>1 DEF RowsPosted, OneCounts, Posted, Dead, RowOf
  <2>3. /\ \A j \in Ids : j # i => client'[j] = client[j]
        /\ client'[i].pc \in {"new", "again"} => NotFound(i) \/ LookupFails(i)
    BY <1>3, <1>t DEF GiveUp, Found, NotFound, LookupFails, Clients
  <2>4. ASSUME NotFound(i), i \notin excused', NEW k \in DOMAIN attempts, attempts[k].id = i
        PROVE  Dead(k)
    <3>1. ~Unsettled(i) /\ ~ \E r \in rows : r.id = i
      BY <2>4 DEF NotFound
    <3>2. ~Posted(k)
      BY <1>f, <1>s, <2>4, <3>1 DEF RowsPosted
    <3> QED
      BY <1>s, <2>4, <3>1, <3>2 DEF Unsettled, States, Posted, Dead, AttemptStates
  <2>5. LookupFails(i) => i \in excused'
    BY DEF LookupFails
  <2>6. RestDead'
    BY <1>f, <2>1, <2>3, <2>4, <2>5 DEF RestDead, Dead
  <2> QED
    BY <2>2, <2>6 DEF Retries
<1>4. CASE Crash
  <2>1. /\ DOMAIN attempts' = DOMAIN attempts
        /\ \A k \in DOMAIN attempts :
             /\ attempts'[k].id = attempts[k].id /\ attempts'[k].at = attempts[k].at
             /\ Posted(k)' <=> Posted(k)
             /\ Dead(k) => Dead(k)'
        /\ \A i \in Ids : client'[i] = client[i] \/ client'[i].pc = "unsure"
    BY <1>4, CrashFacts DEF Posted, Dead
  <2>2. rows' = rows /\ excused' = excused
    BY <1>4 DEF Crash
  <2>3. \A k \in DOMAIN attempts : RowOf(k)' = RowOf(k)
    BY <2>1 DEF RowOf
  <2>4. RowsPosted'
    BY <1>f, <2>1, <2>2, <2>3 DEF RowsPosted
  <2>5. OneCounts'
    BY <1>f, <2>1, <2>2 DEF OneCounts
  <2>6. RestDead'
    BY <1>f, <2>1, <2>2 DEF RestDead
  <2> QED
    BY <2>4, <2>5, <2>6 DEF Retries
<1>5. CASE Listing \/ UNCHANGED vars
  <2>1. UNCHANGED <<rows, attempts, client, excused>>
    BY <1>5, ListingStep DEF vars, postVars
  <2> QED
    BY <1>f, <2>1 DEF Retries, RowsPosted, OneCounts, RestDead, Posted, Dead, RowOf
<1> QED
  BY <1>1, <1>2, <1>3, <1>4, <1>5 DEF Next, Client, Quiescent

(***************************************************************************)
(* A client that sends a transfer again only when TransactionGetByID knows *)
(* none under its id has it posted twice only if an earlier attempt was    *)
(* still unsettled then or the lookup itself had failed                    *)
(* (storage/transactions.go:10-32, transactor/transactions.go:59-165).     *)
(***************************************************************************)
THEOREM RetryOnceSettled == Spec => []TwiceMeansUnsettled
<1>1. TypeOK /\ Retries => TwiceMeansUnsettled
  <2> SUFFICES ASSUME PostTypes, Retries,
                      NEW r \in rows, NEW s \in rows, r # s, r.id = s.id, r.id \in Ids, r.id \notin excused
               PROVE  FALSE
    BY TypeParts DEF TwiceMeansUnsettled
  <2>1. PICK j \in DOMAIN attempts : Posted(j) /\ r = RowOf(j)
    BY DEF Retries, RowsPosted
  <2>2. PICK k \in DOMAIN attempts : Posted(k) /\ s = RowOf(k)
    BY DEF Retries, RowsPosted
  <2>3. attempts[j].id = r.id /\ attempts[k].id = r.id
    BY <2>1, <2>2, RowTyped
  <2>4. j = k
    BY <2>1, <2>2, <2>3 DEF Retries, OneCounts, Posted, Dead
  <2> QED
    BY <2>1, <2>2, <2>4
<1> QED
  BY <1>1, InitTypes, TypeStep, InitRetries, RetriesStep, PTL DEF Spec

-----------------------------------------------------------------------------
(* Paging by offset.                                                       *)

Before(r) == {s \in Matching : Precedes(scan.sort, s, r)}
Rank(r)   == Cardinality(Before(r))

LEMMA RankFacts ==
    ASSUME PostTypes, NEW r
    PROVE  IsFiniteSet(Before(r)) /\ Rank(r) \in Nat
<1>1. Before(r) \in SUBSET Matching /\ IsFiniteSet(Matching)
  BY MatchingFinite DEF Before
<1>2. IsFiniteSet(Before(r))
  BY <1>1, FS_Subset
<1> QED
  BY <1>2, FS_CardinalityType DEF Rank

\* No row of M sorts level with r.
Apart(M, sort, r) == \A s \in M \ {r} : Precedes(sort, s, r) \/ Precedes(sort, r, s)

LEMMA Disjoint ==
    ASSUME NEW S, NEW T, IsFiniteSet(S), IsFiniteSet(T), S \cap T = {}
    PROVE  /\ IsFiniteSet(S \cup T) /\ Cardinality(S) \in Nat /\ Cardinality(T) \in Nat
           /\ Cardinality(S \cup T) = Cardinality(S) + Cardinality(T)
<1>1. Cardinality(S) \in Nat /\ Cardinality(T) \in Nat
  BY FS_CardinalityType
<1>2. IsFiniteSet(S \cup T)
      /\ Cardinality(S \cup T) = Cardinality(S) + Cardinality(T) - Cardinality(S \cap T)
  BY FS_Union
<1>3. Cardinality(S \cap T) = 0
  BY FS_EmptySet
<1> QED
  BY <1>1, <1>2, <1>3

LEMMA ProperSubset ==
    ASSUME NEW T, IsFiniteSet(T), NEW S \in SUBSET T, NEW r \in T, r \notin S
    PROVE  Cardinality(S) < Cardinality(T) /\ Cardinality(S) \in Nat /\ Cardinality(T) \in Nat
<1>1. IsFiniteSet(S) /\ Cardinality(S) <= Cardinality(T) /\ (Cardinality(T) = Cardinality(S) => T = S)
  BY FS_Subset
<1>2. Cardinality(S) \in Nat /\ Cardinality(T) \in Nat
  BY <1>1, FS_CardinalityType
<1> QED
  BY <1>1, <1>2

(***************************************************************************)
(* What a page tells of a row r of the table M, B being the rows before    *)
(* it: a row of the page has fewer than offset + size before it, and, if   *)
(* no other row sorts level with it, at least offset; one that the offset  *)
(* did not skip and the page has not got lies behind a full page.          *)
(***************************************************************************)
LEMMA PageFacts ==
    ASSUME NEW M, IsFiniteSet(M), NEW sort, NEW offset \in Nat, NEW size \in Nat,
           NEW page, NEW skipped, IsPage(page, skipped, M, sort, offset, size),
           NEW r \in M, ~Precedes(sort, r, r),
           NEW B, B = {s \in M : Precedes(sort, s, r)}
    PROVE  /\ r \in page => Cardinality(B) < offset + size
           /\ Apart(M, sort, r) /\ r \in page => Cardinality(B) >= offset
           /\ Apart(M, sort, r) /\ r \notin page /\ Cardinality(B) >= offset =>
                /\ Cardinality(page) = size
                /\ Cardinality(B) >= offset + size
                /\ Cardinality(M) > offset + size
<1>1. skipped \subseteq M /\ page \subseteq M \ skipped
  BY DEF IsPage
<1>2. /\ \A s \in skipped : \A t \in M \ skipped : ~Precedes(sort, t, s)
      /\ \A p \in page : \A t \in M \ (skipped \cup page) : ~Precedes(sort, t, p)
  BY DEF IsPage
<1>3. IsFiniteSet(skipped) /\ IsFiniteSet(page) /\ IsFiniteSet(B) /\ skipped \cap page = {}
  <2>1. skipped \in SUBSET M /\ page \in SUBSET M /\ B \in SUBSET M
    BY <1>1
  <2>2. IsFiniteSet(skipped)
    BY <2>1, FS_Subset
  <2>3. IsFiniteSet(page)
    BY <2>1, FS_Subset
  <2>4. IsFiniteSet(B)
    BY <2>1, FS_Subset
  <2> QED
    BY <1>1, <2>2, <2>3, <2>4
<1> DEFINE S == Cardinality(skipped)
           P == Cardinality(page)
           U == skipped \cup page
           N == Cardinality(M)
<1>4. S \in Nat /\ P \in Nat /\ N \in Nat /\ Cardinality(B) \in Nat
      /\ IsFiniteSet(U) /\ Cardinality(U) = S + P
  <2>1. IsFiniteSet(U) /\ S \in Nat /\ P \in Nat /\ Cardinality(U) = S + P
    BY <1>3, Disjoint
  <2> QED
    BY <1>3, <2>1, FS_CardinalityType
<1>5. S <= N /\ S + P <= N
  <2>1. skipped \in SUBSET M /\ U \in SUBSET M
    BY <1>1
  <2> QED
    BY <1>4, <2>1, FS_Subset
<1>6. S = SmallerOf(offset, N) /\ P = SmallerOf(size, N - S)
  BY DEF IsPage
<1>7. N - S \in Nat
  BY <1>4, <1>5
<1>8. S <= offset /\ P <= size /\ (S = offset \/ S = N) /\ (P = size \/ P = N - S)
  <2>1. S <= offset /\ (S = offset \/ S = N)
    BY <1>4, <1>6, SmallerFacts
  <2>2. P <= size /\ (P = size \/ P = N - S)
    <3>1. SmallerOf(size, N - S) <= size /\ (SmallerOf(size, N - S) = size \/ SmallerOf(size, N - S) = N - S)
      BY <1>7, SmallerFacts
    <3> QED
      BY <1>6, <3>1
  <2> QED
    BY <2>1, <2>2
<1>9. r \notin B
  OBVIOUS
<1>10. ASSUME r \in page PROVE Cardinality(B) < offset + size
  <2>1. B \subseteq U
    BY <1>1, <1>2, <1>10
  <2>2. r \in U
    BY <1>10
  <2>3. Cardinality(B) < Cardinality(U)
    BY <1>4, <1>9, <2>1, <2>2, ProperSubset
  <2> QED
    BY <1>4, <1>8, <2>3
<1>11. ASSUME r \notin skipped PROVE S = offset
  <2>1. S < N
    BY <1>1, <1>11, ProperSubset
  <2> QED
    BY <1>4, <1>8, <2>1
<1>12. ASSUME Apart(M, sort, r), r \in page PROVE Cardinality(B) >= offset
  <2>1. r \notin skipped /\ r \in M \ skipped
    BY <1>1, <1>12
  <2>2. skipped \subseteq B
    <3>1. \A s \in skipped : s # r /\ s \in M /\ ~Precedes(sort, r, s)
      BY <1>1, <1>2, <2>1
    <3> QED
      BY <1>12, <3>1 DEF Apart
  <2>3. S <= Cardinality(B)
    BY <1>3, <2>2, FS_Subset
  <2> QED
    BY <1>4, <1>11, <2>1, <2>3
<1>13. ASSUME Apart(M, sort, r), r \notin page, Cardinality(B) >= offset
       PROVE  P = size /\ Cardinality(B) >= offset + size /\ N > offset + size
  <2>1. r \notin skipped
    <3> SUFFICES ASSUME r \in skipped PROVE FALSE
      OBVIOUS
    <3>1. B \in SUBSET skipped
      BY <1>2
    <3>2. Cardinality(B) < S
      BY <1>3, <1>9, <3>1, ProperSubset
    <3> QED
      BY <1>4, <1>8, <1>13, <3>2
  <2>2. r \in M \ U /\ r \in M \ skipped
    BY <1>13, <2>1
  <2>3. U \subseteq B
    <3>1. \A s \in U : s # r /\ s \in M /\ ~Precedes(sort, r, s)
      BY <1>1, <1>2, <2>2
    <3> QED
      BY <1>13, <3>1 DEF Apart
  <2>4. S + P <= Cardinality(B)
    BY <1>3, <1>4, <2>3, FS_Subset
  <2>5. S + P < N
    <3>1. U \in SUBSET M /\ r \in M /\ r \notin U
      BY <1>1, <2>2
    <3>2. Cardinality(U) < Cardinality(M)
      BY <3>1, ProperSubset
    <3> QED
      BY <1>4, <3>2
  <2>6. S = offset
    BY <1>11, <2>1
  <2>7. P = size
    BY <1>4, <1>8, <2>5
  <2> QED
    BY <1>4, <2>4, <2>5, <2>6, <2>7
<1> QED
  BY <1>10, <1>12, <1>13

LEMMA KeyFacts ==
    ASSUME PostTypes, ScanTypes, NEW r \in Matching
    PROVE  /\ ~Precedes(scan.sort, r, r)
           /\ OwnKey(r) => Apart(Matching, scan.sort, r)
<1>1. \A s \in Matching : Key(scan.sort, s) \in Int
  BY DEF Matching, PostTypes, Rows, Key
<1> QED
  BY <1>1 DEF Precedes, OwnKey, Apart

Late(r) == \E s \in Matching \ scan.start : Precedes(scan.sort, s, r)

Unlisted(r) == r \in scan.start /\ OwnKey(r) /\ r \notin listed

\* Row r lies behind the page that was read last, and the total tells.
Passed(r) ==
    /\ Cardinality(scan.page) = scan.size
    /\ Rank(r) >= scan.offset + scan.size
    /\ ~scan.raced => scan.total > scan.offset + scan.size

Working == {"count", "page", "load"}
Over    == {"answered", "done"}

\* What the client has not got is still ahead of it.
AheadOf(r) ==
    /\ scan.pc \in Working => Rank(r) >= scan.offset
    /\ scan.pc = "load" /\ r \notin scan.page => Passed(r)
    /\ scan.pc \in Over => Passed(r)

Ahead == \A r \in Matching : Unlisted(r) => AheadOf(r)

\* What it has got is behind it, unless rows came before.
BehindOf(r) ==
    /\ r \in listed /\ scan.pc \in Working => Rank(r) < scan.offset
    /\ r \in listed /\ scan.pc \in Over => Rank(r) < scan.offset + scan.size
    /\ r \in scan.page /\ scan.pc = "load" => Rank(r) < scan.offset + scan.size

Behind == \A r \in Matching : OwnKey(r) /\ ~Late(r) => BehindOf(r)

OnPage == scan.pc = "load" => \A r \in scan.page : OwnKey(r) => Rank(r) >= scan.offset

Ends ==
    /\ scan.pc = "new" => listed = {} /\ twice = {}
    /\ scan.pc = "done" => ShortPage \/ TotalReached

RepeatOf(r) == ~OwnKey(r) \/ Late(r)

Scanned == Ahead /\ Behind /\ OnPage /\ Ends /\ (\A r \in twice : RepeatOf(r))

LEMMA InitScanned == Init => Scanned
BY DEF Init, ScanNew, Scanned, Ahead, Unlisted, AheadOf, Behind, BehindOf, OnPage, Ends, Working, Over

\* Rows are only added.
LEMMA GrowScanned ==
    ASSUME PostTypes, PostTypes', ScanTypes, Scanned, Matching \subseteq Matching', UNCHANGED scanVars
    PROVE  Scanned'
<1>1. scan' = scan /\ listed' = listed /\ twice' = twice
  BY DEF scanVars
<1>2. /\ scan.offset \in Nat /\ scan.size \in Nat
      /\ scan.page \subseteq Matching /\ scan.start \subseteq Matching
      /\ listed \subseteq Matching /\ twice \subseteq Matching
  BY DEF ScanTypes, Scans
<1>3. ASSUME NEW r
      PROVE  /\ OwnKey(r)' => OwnKey(r)
             /\ Rank(r) \in Nat /\ Rank(r)' \in Nat /\ Rank(r) <= Rank(r)'
             /\ Late(r) => Late(r)'
             /\ ~Late(r)' => Rank(r)' = Rank(r)
  <2>1. OwnKey(r)' => OwnKey(r)
    BY <1>1 DEF OwnKey
  <2>2. Before(r) \subseteq Before(r)'
    BY <1>1 DEF Before
  <2>3. IsFiniteSet(Before(r)') /\ Rank(r)' \in Nat
    <3>1. Matching' \in SUBSET rows' /\ IsFiniteSet(rows')
      BY DEF Matching, PostTypes
    <3>2. IsFiniteSet(Matching')
      BY <3>1, FS_Subset
    <3>3. Before(r)' \in SUBSET Matching'
      BY DEF Before
    <3>4. IsFiniteSet(Before(r)')
      BY <3>2, <3>3, FS_Subset
    <3> QED
      BY <3>4, FS_CardinalityType DEF Rank
  <2>4. Rank(r) <= Rank(r)'
    BY <2>2, <2>3, FS_Subset DEF Rank
  <2>5. Late(r) => Late(r)'
    BY <1>1 DEF Late
  <2>6. ASSUME ~Late(r)' PROVE Rank(r)' = Rank(r)
    <3>1. Before(r)' = Before(r)
      BY <1>1, <1>2, <2>6 DEF Before, Late
    <3> QED
      BY <3>1 DEF Rank
  <2> QED
    BY <2>1, <2>3, <2>4, <2>5, <2>6, RankFacts
<1>4. Ahead'
  <2> SUFFICES ASSUME NEW r \in Matching', Unlisted(r)' PROVE AheadOf(r)'
    BY DEF Ahead
  <2>1. r \in Matching /\ Unlisted(r)
    BY <1>1, <1>2, <1>3 DEF Unlisted
  <2>2. AheadOf(r)
    BY <2>1 DEF Scanned, Ahead
  <2>3. Rank(r) \in Nat /\ Rank(r)' \in Nat /\ Rank(r) <= Rank(r)'
    BY <1>3
  <2>4. Passed(r) => Passed(r)'
    BY <1>1, <1>2, <2>3 DEF Passed
  <2>5. Rank(r) >= scan.offset => Rank(r)' >= scan.offset
    BY <1>2, <2>3
  <2> QED
    BY <1>1, <2>2, <2>4, <2>5 DEF AheadOf
<1>5. Behind'
  <2> SUFFICES ASSUME NEW r \in Matching', OwnKey(r)', ~Late(r)' PROVE BehindOf(r)'
    BY DEF Behind
  <2>1. OwnKey(r) /\ ~Late(r) /\ Rank(r)' = Rank(r)
    BY <1>3
  <2>2. r \in Matching => BehindOf(r)
    BY <2>1 DEF Scanned, Behind
  <2> QED
    BY <1>1, <1>2, <2>1, <2>2 DEF BehindOf
<1>6. OnPage'
  <2> SUFFICES ASSUME scan.pc = "load", NEW r \in scan.page, OwnKey(r)' PROVE Rank(r)' >= scan.offset
    BY <1>1 DEF OnPage
  <2>1. Rank(r) \in Nat /\ Rank(r)' \in Nat /\ Rank(r) <= Rank(r)' /\ OwnKey(r)
    BY <1>3
  <2>2. Rank(r) >= scan.offset
    BY <2>1 DEF Scanned, OnPage
  <2> QED
    BY <1>2, <2>1, <2>2
<1>7. Ends'
  BY <1>1 DEF Scanned, Ends, ShortPage, TotalReached
<1>8. \A r \in twice' : RepeatOf(r)'
  BY <1>1, <1>3 DEF Scanned, RepeatOf
<1> QED
  BY <1>4, <1>5, <1>6, <1>7, <1>8 DEF Scanned

LEMMA ScannedStep ==
    ASSUME PostTypes, ScanTypes, Scanned, Listing
    PROVE  Scanned'
<1>m. Matching' = Matching
  BY ListingStep
<1>t. /\ scan \in Scans(rows)
      /\ scan.page \subseteq Matching /\ scan.start \subseteq Matching
      /\ listed \subseteq Matching /\ twice \subseteq Matching
  BY DEF ScanTypes
<1>n. scan.offset \in Nat /\ scan.size \in Nat /\ scan.total \in Nat
  BY <1>t DEF Scans
<1>r. \A r : Rank(r) \in Nat
  BY RankFacts
<1>f. /\ Ahead /\ Behind /\ OnPage /\ Ends /\ \A r \in twice : RepeatOf(r)
  BY DEF Scanned
<1>s. ASSUME scan'.sort = scan.sort, scan'.start = scan.start, NEW r
      PROVE  /\ Rank(r)' = Rank(r) /\ (OwnKey(r)' <=> OwnKey(r)) /\ (Late(r)' <=> Late(r))
             /\ RepeatOf(r)' <=> RepeatOf(r)
  BY <1>m, <1>s DEF Rank, Before, OwnKey, Late, RepeatOf
<1>1. CASE StartScan
  <2>1. /\ scan'.pc = "count" /\ scan'.offset = 0 /\ scan'.page = {}
        /\ listed' = {} /\ twice' = {}
    BY <1>1, <1>f DEF StartScan, ScanNew, Ends
  <2>2. \A r : Rank(r)' \in Nat
    <3>1. PostTypes'
      BY ListingStep DEF PostTypes, postVars
    <3>2. Matching' \in SUBSET rows' /\ IsFiniteSet(rows')
      BY <3>1 DEF Matching, PostTypes
    <3>3. IsFiniteSet(Matching')
      BY <3>2, FS_Subset
    <3>4. ASSUME NEW r PROVE Rank(r)' \in Nat
      <4>1. Before(r)' \in SUBSET Matching'
        BY DEF Before
      <4>2. IsFiniteSet(Before(r)')
        BY <3>3, <4>1, FS_Subset
      <4> QED
        BY <4>2, FS_CardinalityType DEF Rank
    <3> QED
      BY <3>4
  <2>3. Ahead'
    <3>1. \A r : Rank(r)' >= scan'.offset
      BY <2>1, <2>2
    <3> QED
      BY <2>1, <3>1 DEF Ahead, AheadOf, Over
  <2> QED
    BY <2>1, <2>3 DEF Scanned, Behind, BehindOf, OnPage, Ends
<1>2. CASE CountRows
  <2>1. /\ scan'.sort = scan.sort /\ scan'.start = scan.start
        /\ scan'.offset = scan.offset /\ scan'.size = scan.size /\ scan'.page = {}
        /\ scan.pc = "count" /\ listed' = listed /\ twice' = twice
        /\ scan'.pc = IF Matching = {} THEN "answered" ELSE "page"
    BY <1>2, <1>t DEF CountRows, Scans
  <2>2. CASE Matching = {}
    BY <1>m, <1>t, <2>1, <2>2 DEF Scanned, Ahead, Behind, OnPage, Ends
  <2>3. CASE Matching # {}
    <3>1. \A r : (Unlisted(r)' <=> Unlisted(r))
      BY <1>s, <2>1 DEF Unlisted
    <3>2. Ahead'
      BY <1>f, <1>m, <1>s, <2>1, <2>3, <3>1 DEF Ahead, AheadOf, Working, Over
    <3>3. Behind'
      BY <1>f, <1>m, <1>s, <2>1, <2>3 DEF Behind, BehindOf, Working, Over
    <3>4. OnPage' /\ Ends' /\ \A r \in twice' : RepeatOf(r)'
      BY <1>f, <1>s, <2>1, <2>3 DEF OnPage, Ends
    <3> QED
      BY <3>2, <3>3, <3>4 DEF Scanned
  <2> QED
    BY <2>2, <2>3
<1>3. CASE ReadPage
  <2>1. PICK page \in SUBSET Matching, skipped \in SUBSET Matching :
               /\ IsPage(page, skipped, Matching, scan.sort, scan.offset, scan.size)
               /\ scan' = [scan EXCEPT !.pc = "load", !.page = page,
                                       !.raced = Cardinality(Matching) # scan.total]
    BY <1>3 DEF ReadPage
  <2>2. /\ scan'.sort = scan.sort /\ scan'.start = scan.start
        /\ scan'.offset = scan.offset /\ scan'.size = scan.size /\ scan'.total = scan.total
        /\ scan'.page = page /\ scan'.pc = "load" /\ scan.pc = "page"
        /\ scan'.raced = (Cardinality(Matching) # scan.total)
        /\ listed' = listed /\ twice' = twice
    BY <1>3, <1>t, <2>1 DEF ReadPage, Scans
  <2>3. ASSUME NEW r \in Matching
        PROVE  /\ r \in page => Rank(r) < scan.offset + scan.size
               /\ OwnKey(r) /\ r \in page => Rank(r) >= scan.offset
               /\ OwnKey(r) /\ r \notin page /\ Rank(r) >= scan.offset =>
                    /\ Cardinality(page) = scan.size
                    /\ Rank(r) >= scan.offset + scan.size
                    /\ Cardinality(Matching) > scan.offset + scan.size
    <3>1. IsFiniteSet(Matching)
      BY MatchingFinite
    <3>2. ~Precedes(scan.sort, r, r) /\ (OwnKey(r) => Apart(Matching, scan.sort, r))
      BY KeyFacts
    <3>3. Before(r) = {s \in Matching : Precedes(scan.sort, s, r)}
      BY DEF Before
    <3>4. /\ r \in page => Cardinality(Before(r)) < scan.offset + scan.size
          /\ Apart(Matching, scan.sort, r) /\ r \in page => Cardinality(Before(r)) >= scan.offset
          /\ Apart(Matching, scan.sort, r) /\ r \notin page /\ Cardinality(Before(r)) >= scan.offset =>
               /\ Cardinality(page) = scan.size
               /\ Cardinality(Before(r)) >= scan.offset + scan.size
               /\ Cardinality(Matching) > scan.offset + scan.size
      BY <1>n, <2>1, <3>1, <3>2, <3>3, PageFacts
    <3> QED
      BY <3>2, <3>4 DEF Rank
  <2>4. Ahead'
    <3> SUFFICES ASSUME NEW r \in Matching, Unlisted(r)' PROVE AheadOf(r)'
      BY <1>m DEF Ahead
    <3>1. Unlisted(r) /\ OwnKey(r)
      BY <1>s, <2>2 DEF Unlisted
    <3>2. Rank(r) >= scan.offset
      BY <1>f, <2>2, <3>1 DEF Ahead, AheadOf, Working
    <3>3. Rank(r)' = Rank(r)
      BY <1>s, <2>2
    <3>4. r \notin page => Passed(r)'
      BY <2>2, <2>3, <3>1, <3>2, <3>3 DEF Passed
    <3> QED
      BY <2>2, <3>2, <3>3, <3>4 DEF AheadOf, Over
  <2>5. Behind'
    <3> SUFFICES ASSUME NEW r \in Matching, OwnKey(r)', ~Late(r)' PROVE BehindOf(r)'
      BY <1>m DEF Behind
    <3>1. OwnKey(r) /\ ~Late(r) /\ Rank(r)' = Rank(r)
      BY <1>s, <2>2
    <3>2. BehindOf(r)
      BY <1>f, <3>1 DEF Behind
    <3> QED
      BY <2>2, <2>3, <3>1, <3>2 DEF BehindOf, Working, Over
  <2>6. OnPage'
    BY <1>s, <2>2, <2>3 DEF OnPage
  <2>7. Ends' /\ \A r \in twice' : RepeatOf(r)'
    BY <1>f, <1>s, <2>2 DEF Ends
  <2> QED
    BY <2>4, <2>5, <2>6, <2>7 DEF Scanned
<1>4. CASE LoadAccounts
  <2>1. /\ scan'.sort = scan.sort /\ scan'.start = scan.start /\ scan'.raced = scan.raced
        /\ scan'.offset = scan.offset /\ scan'.size = scan.size /\ scan'.total = scan.total
        /\ scan'.page = scan.page /\ scan'.pc = "answered" /\ scan.pc = "load"
        /\ listed' = listed \cup scan.page /\ twice' = twice \cup (listed \cap scan.page)
    BY <1>4, <1>t DEF LoadAccounts, Scans
  <2>2. \A r : Passed(r) => Passed(r)'
    BY <1>s, <2>1 DEF Passed
  <2>3. Ahead'
    <3> SUFFICES ASSUME NEW r \in Matching, Unlisted(r)' PROVE AheadOf(r)'
      BY <1>m DEF Ahead
    <3>1. Unlisted(r) /\ r \notin scan.page
      BY <1>s, <2>1 DEF Unlisted
    <3>2. Passed(r)
      BY <1>f, <2>1, <3>1 DEF Ahead, AheadOf
    <3> QED
      BY <2>1, <2>2, <3>2 DEF AheadOf, Working
  <2>4. Behind'
    <3> SUFFICES ASSUME NEW r \in Matching, OwnKey(r)', ~Late(r)' PROVE BehindOf(r)'
      BY <1>m DEF Behind
    <3>1. OwnKey(r) /\ ~Late(r) /\ Rank(r)' = Rank(r)
      BY <1>s, <2>1
    <3>2. BehindOf(r)
      BY <1>f, <3>1 DEF Behind
    <3>3. r \in listed => Rank(r) < scan.offset + scan.size
      BY <1>n, <1>r, <2>1, <3>2 DEF BehindOf, Working
    <3> QED
      BY <2>1, <3>1, <3>2, <3>3 DEF BehindOf, Working
  <2>5. ASSUME NEW r \in listed \cap scan.page PROVE RepeatOf(r)
    <3> SUFFICES ASSUME OwnKey(r), ~Late(r) PROVE FALSE
      BY DEF RepeatOf
    <3>1. Rank(r) < scan.offset
      BY <1>f, <1>t, <2>1 DEF Behind, BehindOf, Working
    <3>2. Rank(r) >= scan.offset
      BY <1>f, <2>1 DEF OnPage
    <3> QED
      BY <1>n, <1>r, <3>1, <3>2
  <2>6. \A r \in twice' : RepeatOf(r)'
    BY <1>f, <1>s, <2>1, <2>5
  <2>7. OnPage' /\ Ends'
    BY <2>1 DEF OnPage, Ends
  <2> QED
    BY <2>3, <2>4, <2>6, <2>7 DEF Scanned
<1>5. CASE ListFails
  <2>1. /\ scan'.sort = scan.sort /\ scan'.start = scan.start
        /\ scan'.offset = scan.offset /\ scan'.size = scan.size
        /\ scan'.page = scan.page /\ scan'.pc = "count" /\ scan.pc \in Working
        /\ listed' = listed /\ twice' = twice
    BY <1>5, <1>t DEF ListFails, Scans, Working
  <2>2. \A r : Unlisted(r)' <=> Unlisted(r)
    BY <1>s, <2>1 DEF Unlisted
  <2>3. Ahead'
    BY <1>f, <1>m, <1>s, <2>1, <2>2 DEF Ahead, AheadOf, Over
  <2>4. Behind'
    BY <1>f, <1>m, <1>s, <2>1 DEF Behind, BehindOf, Working, Over
  <2>5. OnPage' /\ Ends' /\ \A r \in twice' : RepeatOf(r)'
    BY <1>f, <1>s, <2>1 DEF OnPage, Ends
  <2> QED
    BY <2>3, <2>4, <2>5 DEF Scanned
<1>6. CASE NextPage
  <2>1. /\ scan'.sort = scan.sort /\ scan'.start = scan.start
        /\ scan'.offset = scan.offset + scan.size
        /\ scan'.pc = "count" /\ scan.pc = "answered"
        /\ listed' = listed /\ twice' = twice
    BY <1>6, <1>t DEF NextPage, Scans
  <2>2. \A r : Unlisted(r)' <=> Unlisted(r)
    BY <1>s, <2>1 DEF Unlisted
  <2>3. Ahead'
    BY <1>f, <1>m, <1>s, <2>1, <2>2 DEF Ahead, AheadOf, Over, Passed
  <2>4. Behind'
    BY <1>f, <1>m, <1>s, <2>1 DEF Behind, BehindOf, Working, Over
  <2>5. OnPage' /\ Ends' /\ \A r \in twice' : RepeatOf(r)'
    BY <1>f, <1>s, <2>1 DEF OnPage, Ends
  <2> QED
    BY <2>3, <2>4, <2>5 DEF Scanned
<1>7. CASE StopScan
  <2>1. /\ scan'.sort = scan.sort /\ scan'.start = scan.start /\ scan'.raced = scan.raced
        /\ scan'.offset = scan.offset /\ scan'.size = scan.size /\ scan'.total = scan.total
        /\ scan'.page = scan.page /\ scan'.byTotal = scan.byTotal
        /\ scan'.pc = "done" /\ scan.pc = "answered"
        /\ listed' = listed /\ twice' = twice
        /\ ShortPage \/ TotalReached
    BY <1>7, <1>t DEF StopScan, Scans
  <2>2. \A r : (Unlisted(r)' <=> Unlisted(r)) /\ (Passed(r) => Passed(r)')
    BY <1>s, <2>1 DEF Unlisted, Passed
  <2>3. Ahead'
    BY <1>f, <1>m, <2>1, <2>2 DEF Ahead, AheadOf, Working, Over
  <2>4. Behind'
    BY <1>f, <1>m, <1>s, <2>1 DEF Behind, BehindOf, Working, Over
  <2>5. OnPage' /\ Ends' /\ \A r \in twice' : RepeatOf(r)'
    BY <1>f, <1>s, <2>1 DEF OnPage, Ends, ShortPage, TotalReached
  <2> QED
    BY <2>3, <2>4, <2>5 DEF Scanned
<1> QED
  BY <1>1, <1>2, <1>3, <1>4, <1>5, <1>6, <1>7 DEF Listing

LEMMA ScannedHolds == Spec => [](TypeOK /\ Scanned)
<1>1. TypeOK /\ Scanned /\ [Next]_vars => Scanned'
  <2> SUFFICES ASSUME PostTypes, ScanTypes, Scanned, [Next]_vars PROVE Scanned'
    BY TypeParts
  <2>1. CASE PostAction
    <3>1. PostTypes' /\ rows \subseteq rows' /\ UNCHANGED scanVars
      BY <2>1, PostStep
    <3> QED
      BY <3>1, GrowTypes, GrowScanned
  <2>2. CASE Listing
    BY <2>2, ScannedStep
  <2>3. CASE UNCHANGED vars
    <3>1. UNCHANGED <<postVars, client, excused, scanVars>>
      BY <2>3 DEF vars
    <3>2. PostTypes' /\ Matching' = Matching
      BY <3>1 DEF PostTypes, postVars, Matching
    <3> QED
      BY <3>1, <3>2, GrowScanned
  <2> QED
    BY <2>1, <2>2, <2>3 DEF Next, PostAction, Quiescent
<1> QED
  BY <1>1, InitTypes, TypeStep, InitScanned, PTL DEF Spec

(***************************************************************************)
(* Offset paging while transfers are posted anywhere in the order: a       *)
(* client that reads until a page is short, or until a total that no       *)
(* transfer overtook, has every row that was there when it started and     *)
(* sorts level with no other (storage/transactions.go:49-114).             *)
(***************************************************************************)
THEOREM PagingSkipsNone == Spec => []NoneSkipped
<1>1. TypeOK /\ Scanned => NoneSkipped
  <2> SUFFICES ASSUME PostTypes, ScanTypes, Scanned, scan.pc = "done", ShortPage \/ ~scan.raced,
                      NEW r \in scan.start, OwnKey(r), r \notin listed
               PROVE  FALSE
    BY TypeParts DEF NoneSkipped
  <2>1. r \in Matching
    BY DEF ScanTypes
  <2>2. Passed(r)
    BY <2>1 DEF Scanned, Ahead, Unlisted, AheadOf, Over
  <2>3. scan.size \in Nat /\ scan.offset \in Nat /\ scan.total \in Nat
    BY DEF ScanTypes, Scans
  <2>4. ~ShortPage
    BY <2>2, <2>3 DEF Passed, ShortPage
  <2>5. TotalReached /\ ~scan.raced
    BY <2>4 DEF Scanned, Ends
  <2> QED
    BY <2>2, <2>3, <2>5 DEF Passed, TotalReached
<1> QED
  BY <1>1, ScannedHolds, PTL

(***************************************************************************)
(* A row comes in two pages only if another sorts level with it or one     *)
(* that sorts before it was posted since (storage/transactions.go:49-114). *)
(***************************************************************************)
THEOREM RepeatsHaveCauses == Spec => []RepeatsExplained
<1>1. Scanned => RepeatsExplained
  BY DEF Scanned, RepeatOf, Late, RepeatsExplained
<1> QED
  BY <1>1, ScannedHolds, PTL
====
