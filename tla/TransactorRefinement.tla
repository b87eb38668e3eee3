------------------------- MODULE TransactorRefinement -------------------------
(***************************************************************************)
(* Transactor implements Bank, for every value of its constants: every     *)
(* step of the goroutines, the database and the process is a step of the   *)
(* bank or changes nothing a client can see.                               *)
(***************************************************************************)
EXTENDS TransactorProofs

Inv == TypeOK /\ Lifecycle /\ PointersValid /\ FundsReserved

\* What the bank's answer is to a transfer, and when it may not change.
LEMMA ToldFacts ==
    /\ ToldAs("none") = "none" /\ ToldAs("ok") = "ok"
    /\ \A o \in {"notfound", "badamount", "full", "rejected"} : ToldAs(o) = "refused"
    /\ \A o \in {"error", "lost"} : ToldAs(o) = "unknown"
BY DEF ToldAs

LEMMA ViewTypes ==
    ASSUME TypeOK
    PROVE  BankView!BankTypeOK
<1>1. Balances \in [Keys -> Int]
  BY DEF Balances, Balance, TypeOK
<1>2. \A c \in Calls : AmountOf(req[c]) \in Int
  <2>1. \A c \in Calls : req[c].amount \in Int \cup {Unparsable}
    BY TransactorAssumption DEF TypeOK, Request
  <2> QED
    BY <2>1, NumericType DEF AmountOf
<1>3. Orders \in [Calls -> [from : Keys, to : Keys, amount : Int]]
  BY <1>2, RequestKeys DEF Orders
<1>4. Told \in [Calls -> {"none", "ok", "refused", "unknown"}]
  <2>1. \A c \in Calls : ToldAs(out[c]) \in {"none", "ok", "refused", "unknown"}
    BY ToldFacts DEF TypeOK, Outs
  <2> QED
    BY <2>1 DEF Told
<1> QED
  BY <1>1, <1>3, <1>4 DEF BankView!BankTypeOK, BankView!Answers, TypeOK

LEMMA InitView ==
    ASSUME Init
    PROVE  BankView!BankInit
<1>1. BankView!BankTypeOK
  BY InitCore, ViewTypes
<1>2. Told = [c \in Calls |-> "none"]
  BY ToldFacts DEF Init, Told
<1>3. \A k \in Keys \ {j \in Keys : UserOf(j) = OnChain} : Balances[k] >= 0
  BY TransactorAssumption DEF Init, Balances, Balance
<1> QED
  BY <1>1, <1>2, <1>3 DEF Init, BankView!BankInit

-----------------------------------------------------------------------------
(* Steps the bank does not see.                                            *)

LEMMA Unseen ==
    ASSUME UNCHANGED <<accounts, debits, credits, posted, req>>,
           Told' = Told
    PROVE  UNCHANGED BankView!bankVars
BY DEF BankView!bankVars, Balances, Balance, Orders, AmountOf, DebitKey, CreditKey

LEMMA UnseenWhenSilent ==
    ASSUME UNCHANGED <<accounts, debits, credits, posted, req, out>>
    PROVE  UNCHANGED BankView!bankVars
BY Unseen DEF Told, IsTransfer

(***************************************************************************)
(* Answering one call: the bank tells its client, or does not see it.      *)
(***************************************************************************)
LEMMA AnswerIsTell ==
    ASSUME TypeOK, Lifecycle, NEW c \in Calls, NEW o \in Outs,
           UNCHANGED <<accounts, debits, credits, posted, req>>,
           out' = [out EXCEPT ![c] = o], pc[c] # "done",
           IsTransfer(req[c]) /\ o = "ok" => c \in posted,
           o \in {"notfound", "badamount", "full", "rejected"} => c \notin posted
    PROVE  [BankView!BankNext]_BankView!bankVars
<1>1. out[c] = "none"
  BY DEF Lifecycle, AnswersTrue
<1>2. /\ out'[c] = o /\ \A d \in Calls : d # c => out'[d] = out[d]
  BY DEF TypeOK
<1>3. \A d \in Calls : d # c => Told'[d] = Told[d]
  BY <1>2 DEF Told, IsTransfer
<1>4. CASE ~IsTransfer(req[c]) \/ o = "none"
  <2>1. Told'[c] = Told[c]
    BY <1>1, <1>2, <1>4 DEF Told, IsTransfer
  <2>2. Told' = Told
    BY <1>3, <2>1 DEF Told
  <2> QED
    BY <2>2, Unseen
<1>5. CASE IsTransfer(req[c]) /\ o # "none"
  <2>1. Told[c] = "none" /\ Told'[c] = ToldAs(o)
    BY <1>1, <1>2, <1>5, ToldFacts DEF Told, IsTransfer
  <2>2. Told' = [Told EXCEPT ![c] = ToldAs(o)]
    BY <1>3, <2>1 DEF Told
  <2>3. \/ ToldAs(o) = "ok" /\ c \in posted
        \/ ToldAs(o) = "refused" /\ c \notin posted
        \/ ToldAs(o) = "unknown"
    BY <1>5, ToldFacts DEF Outs
  <2>4. UNCHANGED <<accounts, Balances, Orders, posted>>
    BY DEF Balances, Balance, Orders, AmountOf, DebitKey, CreditKey
  <2>5. BankView!Tell(c, ToldAs(o))
    BY <2>1, <2>2, <2>3, <2>4 DEF BankView!Tell
  <2>6. ToldAs(o) \in BankView!Answers
    BY <2>3 DEF BankView!Answers
  <2> QED
    BY <2>5, <2>6 DEF BankView!BankNext
<1> QED
  BY <1>4, <1>5

-----------------------------------------------------------------------------
(* Steps the bank sees.                                                    *)

\* A new row of table accounts.
LEMMA CreateRowIsOpen ==
    ASSUME TypeOK, NEW c \in Calls, CreateRow(c)
    PROVE  [BankView!BankNext]_BankView!bankVars
<1>1. key[c] \in Keys \ accounts /\ accounts' = accounts \cup {key[c]}
  BY DEF CreateRow, TypeOK
<1>2. UNCHANGED <<Balances, Orders, posted, Told>>
  BY DEF CreateRow, Balances, Balance, Orders, AmountOf, DebitKey, CreditKey, Told, IsTransfer
<1>3. BankView!Open(key[c])
  BY <1>1, <1>2 DEF BankView!Open
<1> QED
  BY <1>1, <1>3 DEF BankView!BankNext

\* A committed row is a settled transfer, within the funds or excused.
LEMMA PostRowIsSettle ==
    ASSUME Inv, AmountsNotNegative, NEW c \in Calls, PostRow(c)
    PROVE  [BankView!BankNext]_BankView!bankVars
<1> DEFINE d == DebitKey(req[c])
           e == CreditKey(req[c])
           n == Numeric(req[c].amount)
<1>1. /\ c \in inflight /\ c \in checked /\ posted' = posted \cup {c}
      /\ UNCHANGED <<accounts, pc, out, req>>
  BY DEF Inv, PostRow, TypeOK, callVars
<1>2. /\ IsTransfer(req[c]) /\ req[c].amount \in Int /\ c \notin posted
      /\ Awaited(c) \/ Orphaned(c)
      /\ d # e /\ d \in accounts /\ e \in accounts
  BY <1>1 DEF Inv, Lifecycle, StatementsAccounted, CheckedRowsRefer
<1>3. n \in Int /\ d \in Keys /\ e \in Keys
  BY <1>2, NumericType, RequestKeys DEF Inv
<1>4. Orders[c] = [from |-> d, to |-> e, amount |-> n]
  BY <1>2, TransactorAssumption DEF Orders, AmountOf
<1>5. Told' = Told /\ Orders' = Orders
  BY <1>1 DEF Told, IsTransfer, Orders, AmountOf, DebitKey, CreditKey
<1>6. Balances \in [Keys -> Int]
  BY DEF Inv, Balances, Balance, TypeOK
<1>7. Balances' = [Balances EXCEPT ![d] = Balances[d] - n, ![e] = Balances[e] + n]
  <2>1. debits' = [debits EXCEPT ![d] = debits[d] + n]
    BY DEF PostRow, DebitsAfter, TxOf
  <2>2. credits' = [credits EXCEPT ![e] = credits[e] + n]
    BY DEF PostRow, CreditsAfter, TxOf
  <2>3. debits \in [Keys -> Int] /\ credits \in [Keys -> Int]
    BY DEF Inv, TypeOK
  <2> HIDE DEF d, e, n
  <2>4. \A k \in Keys : /\ debits'[k] = IF k = d THEN debits[k] + n ELSE debits[k]
                        /\ credits'[k] = IF k = e THEN credits[k] + n ELSE credits[k]
                        /\ debits[k] \in Int /\ credits[k] \in Int
    BY <1>3, <2>1, <2>2, <2>3
  <2>5. \A k \in Keys : Balances'[k] = IF k = d THEN Balances[k] - n
                                       ELSE IF k = e THEN Balances[k] + n ELSE Balances[k]
    BY <1>2, <1>3, <2>4 DEF Balances, Balance
  <2>6. Balances' \in [Keys -> Int]
    BY <1>3, <1>6, <2>5 DEF Balances
  <2> QED
    BY <1>2, <1>3, <1>6, <2>5, <2>6
<1>8. Told[c] \in {"none", "unknown"}
  <2>1. CASE Awaited(c)
    <3>1. pc[c] = "wait" /\ out[c] = "none"
      BY <2>1 DEF Inv, Lifecycle, RunnerServesWaiter, AnswersTrue, Awaited
    <3> QED
      BY <1>2, <3>1, ToldFacts DEF Told
  <2>2. CASE Orphaned(c)
    BY <1>2, <2>2, ToldFacts DEF Told, Orphaned
  <2> QED
    BY <1>2, <2>1, <2>2
<1>9. \/ d \in {k \in Keys : UserOf(k) = OnChain}
      \/ Balances[d] >= n
      \/ \E b \in posted' : Told[b] = "unknown" /\ Orders[b].from = d
  <2>1. \A b \in posted : /\ b \in Calls
                          /\ Orphaned(b) => Told[b] = "unknown"
                          /\ Orders[b].from = DebitKey(req[b])
    BY ToldFacts DEF Inv, TypeOK, Lifecycle, AnswersTrue, Told, Orphaned, Orders
  <2>2. CASE Orphaned(c)
    <3>1. Told[c] = "unknown"
      BY <1>2, <2>2, ToldFacts DEF Told, Orphaned
    <3> QED
      BY <1>1, <1>4, <3>1
  <2>3. CASE Awaited(c) /\ UserOf(d) # OnChain /\ Undisturbed(d)
    <3>1. Balance(d) >= n
      BY <1>1, <1>3, <2>3 DEF Inv, FundsReserved, Undisturbed
    <3> QED
      BY <1>3, <3>1 DEF Balances
  <2>4. CASE ~Undisturbed(d)
    BY <1>1, <2>1, <2>4 DEF Undisturbed
  <2> QED
    BY <1>2, <1>3, <2>2, <2>3, <2>4
<1>10. BankView!Settle(c)
  <2> HIDE DEF d, e, n
  <2> QED
    BY <1>1, <1>2, <1>4, <1>5, <1>7, <1>8, <1>9 DEF BankView!Settle
<1> QED
  BY <1>10 DEF BankView!BankNext

\* A crash hangs up on the clients of transfers.
LEMMA CrashIsHangup ==
    ASSUME TypeOK, Lifecycle, Crash
    PROVE  [BankView!BankNext]_BankView!bankVars
<1> DEFINE gone == {c \in Calls : pc[c] \notin {"idle", "done"} /\ IsTransfer(req[c])}
<1>1. UNCHANGED <<accounts, debits, credits, posted, req>>
  BY DEF Crash, dbVars
<1>2. UNCHANGED <<accounts, Balances, Orders, posted>>
  BY <1>1 DEF Balances, Balance, Orders, AmountOf, DebitKey, CreditKey
<1>3. \A c \in Calls : out'[c] = IF pc[c] \notin {"idle", "done"} THEN "lost" ELSE out[c]
  BY DEF Crash
<1>4. \A c \in gone : Told[c] = "none"
  BY ToldFacts DEF Lifecycle, AnswersTrue, Told
<1>5. Told' = [c \in Calls |-> IF c \in gone THEN "unknown" ELSE Told[c]]
  <2>1. \A c \in Calls : Told'[c] = IF c \in gone THEN "unknown" ELSE Told[c]
    BY <1>1, <1>3, ToldFacts DEF Told, IsTransfer
  <2> QED
    BY <2>1 DEF Told
<1>6. BankView!Hangup(gone)
  <2> HIDE DEF gone
  <2> QED
    BY <1>2, <1>4, <1>5 DEF BankView!Hangup
<1>7. gone \in SUBSET Calls
  OBVIOUS
<1> QED
  BY <1>6, <1>7 DEF BankView!BankNext

LEMMA StepView ==
    ASSUME Inv, AmountsNotNegative, [Next]_vars
    PROVE  [BankView!BankNext]_BankView!bankVars
<1> USE DEF Inv
<1>1. ASSUME NEW c \in Calls, CreateRow(c)
      PROVE  [BankView!BankNext]_BankView!bankVars
  BY <1>1, CreateRowIsOpen
<1>2. ASSUME NEW c \in Calls, HandlerButEnqueue(c), ~CreateRow(c)
      PROVE  [BankView!BankNext]_BankView!bankVars
  <2>1. PICK p \in PCs, o \in Outs :
           /\ pc[c] \in Busy
           /\ IsTransfer(req[c]) => o # "ok"
           /\ out' = [out EXCEPT ![c] = o]
           /\ UNCHANGED <<debits, credits, posted, req>>
    BY <1>2, HandlerMoves DEF Moves, Lifecycle
  <2>2. pc[c] # "done" /\ c \notin posted
    BY <2>1 DEF Busy, Lifecycle, AnswersTrue, RunnerServesWaiter, Settling
  <2>3. accounts' = accounts
    BY <1>2 DEF HandlerButEnqueue, Start, GetHit, GetMiss, Load, LoadFails, Fill, CreateReturns,
                CreateFails, ParseFails, QueueFull, dbVars
  <2> QED
    BY <2>1, <2>2, <2>3, AnswerIsTell
<1>3. ASSUME NEW c \in Calls, Enqueue(c)
      PROVE  [BankView!BankNext]_BankView!bankVars
  BY <1>3, UnseenWhenSilent DEF Enqueue, dbVars
<1>4. ASSUME NEW c \in Calls, PostRow(c)
      PROVE  [BankView!BankNext]_BankView!bankVars
  BY <1>4, PostRowIsSettle
<1>5. ASSUME NEW c \in Calls, CheckRow(c)
      PROVE  [BankView!BankNext]_BankView!bankVars
  BY <1>5, UnseenWhenSilent DEF CheckRow, callVars
<1>6. ASSUME NEW c \in Calls, RejectRow(c)
      PROVE  [BankView!BankNext]_BankView!bankVars
  <2>1. UNCHANGED <<accounts, debits, credits, posted, req>>
    BY <1>6 DEF RejectRow
  <2>2. CASE Awaited(c)
    <3>1. /\ out' = [out EXCEPT ![c] = "rejected"] /\ "rejected" \in Outs
          /\ c \in inflight
      BY <1>6, <2>2 DEF RejectRow, Return, Outs
    <3>2. pc[c] # "done" /\ c \notin posted
      BY <2>2, <3>1 DEF Awaited, Lifecycle, RunnerServesWaiter, StatementsAccounted
    <3> QED
      BY <2>1, <3>1, <3>2, AnswerIsTell
  <2>3. CASE ~Awaited(c)
    BY <1>6, <2>1, <2>3, UnseenWhenSilent DEF RejectRow
  <2> QED
    BY <2>2, <2>3
<1>7. CASE Take
  <2>1. UNCHANGED <<accounts, debits, credits, posted, req>>
    BY <1>7 DEF Take
  <2>2. CASE out' = out
    BY <2>1, <2>2, UnseenWhenSilent
  <2>3. CASE ~IsTransfer(req[Head(queue)]) /\ Return(Head(queue), "ok")
    <3>1. Head(queue) \in Calls /\ Head(queue) = queue[1] /\ 1 \in 1..Len(queue)
      BY <1>7, TailFacts DEF Take, TypeOK
    <3>2. pc[Head(queue)] = "wait" /\ "ok" \in Outs
      BY <3>1 DEF Lifecycle, QueuedCallsWait, Outs
    <3>3. out' = [out EXCEPT ![Head(queue)] = "ok"]
      BY <2>3 DEF Return
    <3> QED
      BY <2>1, <2>3, <3>1, <3>2, <3>3, AnswerIsTell
  <2> QED
    BY <1>7, <2>2, <2>3 DEF Take
<1>8. CASE Apply \/ AnnounceWriter \/ Put \/ Broadcast \/ Restart \/ UNCHANGED vars
  BY <1>8, UnseenWhenSilent
     DEF Apply, AnnounceWriter, Put, Broadcast, Restart, vars, dbVars, callVars
<1>9. CASE Emit
  <2>1. UNCHANGED <<accounts, debits, credits, posted, req>>
    BY <1>9 DEF Emit, dbVars
  <2>2. CASE out' = out
    BY <2>1, <2>2, UnseenWhenSilent
  <2>3. CASE Return(runner.call, "ok")
    <3>1. /\ runner.call \in posted /\ runner.call \in Calls
          /\ pc[runner.call] = "wait" /\ "ok" \in Outs
      BY <1>9 DEF Emit, TypeOK, Lifecycle, RunnerServesWaiter, Outs
    <3>2. out' = [out EXCEPT ![runner.call] = "ok"]
      BY <2>3 DEF Return
    <3> QED
      BY <2>1, <3>1, <3>2, AnswerIsTell
  <2> QED
    BY <1>9, <2>2, <2>3 DEF Emit
<1>10. CASE ConnectionLost
  <2>1. UNCHANGED <<accounts, debits, credits, posted, req>>
    BY <1>10 DEF ConnectionLost, dbVars
  <2>2. runner.call \in Calls /\ pc[runner.call] = "wait" /\ "error" \in Outs
    BY <1>10 DEF ConnectionLost, TypeOK, Lifecycle, RunnerServesWaiter, Outs
  <2>3. out' = [out EXCEPT ![runner.call] = "error"]
    BY <1>10 DEF ConnectionLost, Return
  <2> QED
    BY <2>1, <2>2, <2>3, AnswerIsTell
<1>11. CASE Crash
  BY <1>11, CrashIsHangup
<1> QED
  BY <1>1, <1>2, <1>3, <1>4, <1>5, <1>6, <1>7, <1>8, <1>9, <1>10, <1>11
     DEF Next, Handler, HandlerButEnqueue, Statement, Runner, Quiescent

(***************************************************************************)
(* The service keeps the bank's promise: a transfer settles at most once,  *)
(* whole and within the funds or with an excuse, and no client is told     *)
(* of a success that did not settle or of a refusal that did or will.      *)
(***************************************************************************)
THEOREM Refinement ==
    ASSUME AmountsNotNegative
    PROVE  Spec => ImplementsBank
<1>1. Init => BankView!BankInit
  BY InitView
<1>2. Inv /\ [Next]_vars => [BankView!BankNext]_BankView!bankVars
  BY StepView
<1>3. Init => FundsReserved
  BY TransactorAssumption DEF Init, FundsReserved, Balance
<1>4. TypeOK /\ Lifecycle /\ FundsReserved /\ [Next]_vars => FundsReserved'
  BY FundsStep
<1>5. TypeOK /\ Lifecycle /\ PointersValid /\ FundsReserved => Inv
  BY DEF Inv
<1> QED
  BY <1>1, <1>2, <1>3, <1>4, <1>5, Correctness, PTL DEF Spec, ImplementsBank, BankView!BankSpec
=============================================================================
