--------------------------- MODULE TransactorProofs ---------------------------
(***************************************************************************)
(* What TLAPS proves of Transactor, for every value of its constants.      *)
(*                                                                         *)
(* The invariant is proved in layers: the types with the life of a call    *)
(* and the cache's pointers, then the lookups of transfers, then the funds *)
(* a checked statement may count on.                                       *)
(***************************************************************************)
EXTENDS Transactor, TLAPS

Core == TypeOK /\ Lifecycle /\ PointersValid

-----------------------------------------------------------------------------
(* Arithmetic of NUMERIC(28).                                              *)

\* Rounding yields an integer, and never turns an amount negative.
LEMMA NumericType ==
    ASSUME NEW a \in Int
    PROVE  /\ Numeric(a) \in Int
           /\ a >= 0 => Numeric(a) >= 0
<1> DEFINE size == IF a < 0 THEN -a ELSE a
           tokens == (2 * size + Scale) \div (2 * Scale)
<1>1. Scale \in Nat /\ Scale > 0
  BY SchemaAssumption
<1>2. 2 * size + Scale \in Nat /\ 2 * Scale \in Nat /\ 2 * Scale > 0
  BY <1>1
<1>3. tokens \in Nat
  <2> HIDE DEF size
  <2>1. \A m, n \in Nat : n > 0 => m \div n \in Nat
    OBVIOUS
  <2> QED
    BY <1>2, <2>1
<1>4. Scale * tokens \in Nat
  <2> HIDE DEF tokens
  <2> QED
    BY <1>1, <1>3
<1> HIDE DEF tokens
<1>5. Numeric(a) = IF a < 0 THEN -(Scale * tokens) ELSE Scale * tokens
  BY DEF Numeric, tokens
<1> QED
  BY <1>4, <1>5

-----------------------------------------------------------------------------
(* Channels.                                                               *)

\* What sending to a channel and receiving from it leave in it.
LEMMA AppendFacts ==
    ASSUME NEW S, NEW s \in Seq(S), NEW e \in S
    PROVE  /\ Append(s, e) \in Seq(S)
           /\ Len(Append(s, e)) = Len(s) + 1
           /\ Append(s, e)[Len(s) + 1] = e
           /\ \A i \in 1..Len(s) : Append(s, e)[i] = s[i] /\ s[i] \in S
           /\ \A i \in 1..Len(Append(s, e)) : i = Len(s) + 1 \/ i \in 1..Len(s)
<1>1. Len(s) \in Nat
  OBVIOUS
<1>2. Append(s, e) \in Seq(S) /\ Len(Append(s, e)) = Len(s) + 1
  OBVIOUS
<1>3. \A i \in 1..(Len(s) + 1) : i = Len(s) + 1 \/ i \in 1..Len(s)
  BY <1>1
<1> QED
  BY <1>1, <1>2, <1>3

LEMMA TailFacts ==
    ASSUME NEW S, NEW s \in Seq(S), s # <<>>
    PROVE  /\ Head(s) \in S /\ Head(s) = s[1]
           /\ Tail(s) \in Seq(S)
           /\ Len(Tail(s)) = Len(s) - 1
           /\ 1 \in 1..Len(s)
           /\ \A i \in 1..Len(Tail(s)) : Tail(s)[i] = s[i + 1] /\ i + 1 \in 1..Len(s)
OBVIOUS

-----------------------------------------------------------------------------
(* Steps of a handler that is neither queued nor answered: it may move on, *)
(* give up or answer a lookup, and touches nothing the runner works on.    *)

Busy == {"idle", "get", "load", "fill", "create", "created", "send"}

Moves(c) ==
    \E p \in PCs, o \in Outs :
        /\ pc[c] \in Busy
        /\ pc[c] = "idle" => up
        /\ p \notin {"idle", "wait"}
        /\ p = "done" <=> o # "none"
        /\ IsTransfer(req[c]) => o # "ok"
        /\ pc' = [pc EXCEPT ![c] = p]
        /\ out' = [out EXCEPT ![c] = o]
        /\ UNCHANGED <<debits, credits, posted, inflight, checked, procVars,
                       queue, runner, feed, req>>

HandlerButEnqueue(c) ==
    \/ Start(c)
    \/ \E k \in Keys : GetHit(c, k) \/ GetMiss(c, k)
    \/ Load(c) \/ LoadFails(c) \/ Fill(c) \/ CreateRow(c) \/ CreateReturns(c)
    \/ CreateFails(c) \/ ParseFails(c) \/ QueueFull(c)

LEMMA AdvanceMoves ==
    ASSUME TypeOK, AnswersTrue, NEW c \in Calls, NEW k, pc[c] \in Busy, Advance(c, k)
    PROVE  \E p \in PCs, o \in Outs :
              /\ p \notin {"idle", "wait"}
              /\ p = "done" <=> o # "none"
              /\ IsTransfer(req[c]) => o # "ok"
              /\ pc' = [pc EXCEPT ![c] = p]
              /\ out' = [out EXCEPT ![c] = o]
<1>1. out[c] = "none" /\ out = [out EXCEPT ![c] = "none"]
  BY DEF TypeOK, AnswersTrue, Busy
<1> QED
  BY <1>1 DEF Advance, Return, PCs, Outs

LEMMA HandlerMoves ==
    ASSUME TypeOK, AnswersTrue, NEW c \in Calls, HandlerButEnqueue(c)
    PROVE  Moves(c)
<1>1. pc[c] \in Busy => out = [out EXCEPT ![c] = "none"]
  BY DEF TypeOK, AnswersTrue, Busy
<1>2. CASE Start(c)
  BY <1>1, <1>2 DEF Start, Moves, Busy, PCs, Outs, cacheVars, dbVars, procVars
<1>3. ASSUME NEW k \in Keys, GetHit(c, k)
      PROVE  Moves(c)
  <2>1. pc[c] \in Busy /\ Advance(c, k)
    BY <1>3 DEF GetHit, Busy
  <2> QED
    BY <1>3, <2>1, AdvanceMoves DEF GetHit, Moves, dbVars, procVars
<1>4. ASSUME NEW k \in Keys, GetMiss(c, k)
      PROVE  Moves(c)
  BY <1>1, <1>4 DEF GetMiss, Moves, Busy, PCs, Outs, dbVars, procVars
<1>5. CASE Load(c)
  BY <1>1, <1>5 DEF Load, Moves, Busy, PCs, Outs, dbVars, procVars
<1>6. CASE LoadFails(c)
  BY <1>6 DEF LoadFails, Return, Moves, Busy, PCs, Outs, dbVars, procVars
<1>7. CASE Fill(c)
  <2>1. pc[c] \in Busy
    BY <1>7 DEF Fill, Busy
  <2>2. CASE Advance(c, key[c])
    BY <1>7, <2>1, <2>2, AdvanceMoves DEF Fill, Moves, dbVars, procVars
  <2>3. CASE NotFound(c, key[c])
    <3>1. CASE Advance(c, key[c])
      BY <2>2, <3>1
    <3>2. CASE pc' = [pc EXCEPT ![c] = "create"] /\ out' = out
      BY <1>1, <1>7, <2>1, <3>2 DEF Fill, Moves, PCs, Outs, dbVars, procVars
    <3>3. CASE Return(c, "notfound") \/ Return(c, "error")
      BY <1>7, <2>1, <3>3 DEF Fill, Moves, Return, PCs, Outs, dbVars, procVars
    <3> QED
      BY <2>3, <3>1, <3>2, <3>3 DEF NotFound
  <2> QED
    BY <1>7, <2>2, <2>3 DEF Fill
<1>8. CASE CreateRow(c)
  BY <1>1, <1>8 DEF CreateRow, Moves, Busy, PCs, Outs, procVars
<1>9. CASE CreateReturns(c)
  BY <1>1, <1>9 DEF CreateReturns, Moves, Busy, PCs, Outs, dbVars, procVars
<1>10. CASE CreateFails(c)
  BY <1>10 DEF CreateFails, Return, Moves, Busy, PCs, Outs, dbVars, procVars
<1>11. CASE ParseFails(c)
  BY <1>11 DEF ParseFails, Return, Moves, Busy, PCs, Outs, dbVars, procVars
<1>12. CASE QueueFull(c)
  BY <1>12 DEF QueueFull, Return, Moves, Busy, PCs, Outs, dbVars, procVars
<1> QED
  BY <1>2, <1>3, <1>4, <1>5, <1>6, <1>7, <1>8, <1>9, <1>10, <1>11, <1>12
     DEF HandlerButEnqueue
-----------------------------------------------------------------------------
(* The life of a call.                                                     *)

\* The parts of Lifecycle that are proved together.
CallParts == QueuedCallsWait /\ RunnerServesWaiter /\ StatementsAccounted /\ AnswersTrue

LEMMA MovesKeepsLifecycle ==
    ASSUME TypeOK, Lifecycle, NEW c \in Calls, Moves(c)
    PROVE  CallParts'
<1>1. PICK p \in PCs, o \in Outs :
          /\ pc[c] \in Busy
          /\ pc[c] = "idle" => up
          /\ p \notin {"idle", "wait"}
          /\ p = "done" <=> o # "none"
          /\ IsTransfer(req[c]) => o # "ok"
          /\ pc' = [pc EXCEPT ![c] = p]
          /\ out' = [out EXCEPT ![c] = o]
          /\ UNCHANGED <<debits, credits, posted, inflight, checked, procVars,
                         queue, runner, feed, req>>
  BY DEF Moves
<1>2. pc[c] # "wait" /\ pc[c] # "done"
  BY <1>1 DEF Busy
<1>3. /\ \A d \in Calls : d # c => pc'[d] = pc[d] /\ out'[d] = out[d]
      /\ pc'[c] = p /\ out'[c] = o
  BY <1>1 DEF TypeOK
<1>4. QueuedCallsWait'
  <2>0. queue \in Seq(Calls)
    BY DEF TypeOK
  <2>1. \A i \in 1..Len(queue) : queue[i] \in Calls /\ queue[i] # c
    <3>1. \A i \in 1..Len(queue) : queue[i] \in Calls
      BY <2>0
    <3>2. \A i \in 1..Len(queue) : pc[queue[i]] = "wait"
      BY DEF Lifecycle, QueuedCallsWait
    <3> QED
      BY <1>2, <3>1, <3>2
  <2> QED
    BY <1>1, <1>3, <2>1 DEF Lifecycle, QueuedCallsWait, IsTransfer
<1>5. RunnerServesWaiter'
  BY <1>1, <1>2, <1>3 DEF Lifecycle, RunnerServesWaiter, TypeOK, IsTransfer, Settling
<1>6. StatementsAccounted'
  <2>1. \A d \in inflight : d # c
    BY <1>2 DEF Lifecycle, StatementsAccounted, RunnerServesWaiter, Awaited, Orphaned
  <2> QED
    BY <1>1, <1>3, <2>1 DEF Lifecycle, StatementsAccounted, TypeOK, IsTransfer,
                            Awaited, Orphaned, DebitKey, CreditKey
<1>7. AnswersTrue'
  <2>1. \A d \in posted : d # c
    BY <1>2 DEF Lifecycle, AnswersTrue, RunnerServesWaiter, Settling
  <2> QED
    BY <1>1, <1>3, <2>1 DEF Lifecycle, AnswersTrue, TypeOK, IsTransfer, Settling
<1> QED
  BY <1>4, <1>5, <1>6, <1>7 DEF CallParts

LEMMA EnqueueKeepsLifecycle ==
    ASSUME TypeOK, Lifecycle, NEW c \in Calls, Enqueue(c)
    PROVE  CallParts'
<1>1. /\ pc[c] = "send"
      /\ IsTransfer(req[c]) => req[c].amount \in Int
  BY TransactorAssumption DEF Enqueue, TypeOK, Request
<1>2. /\ \A d \in Calls : d # c => pc'[d] = pc[d]
      /\ pc'[c] = "wait"
      /\ queue' = Append(queue, c)
      /\ UNCHANGED <<posted, inflight, checked, runner, req, out>>
  BY DEF Enqueue, TypeOK, dbVars
<1>3. c \notin posted /\ c \notin inflight /\ c # runner.call
  BY <1>1, TransactorAssumption
     DEF TypeOK, Lifecycle, StatementsAccounted, AnswersTrue, RunnerServesWaiter,
         Awaited, Orphaned, Settling
<1>4. QueuedCallsWait'
  <2>0. queue \in Seq(Calls)
    BY DEF TypeOK
  <2>1. \A i \in 1..Len(queue) : queue[i] \in Calls /\ queue[i] # c
    <3>1. \A i \in 1..Len(queue) : queue[i] \in Calls
      BY <2>0
    <3>2. \A i \in 1..Len(queue) : pc[queue[i]] = "wait"
      BY DEF Lifecycle, QueuedCallsWait
    <3> QED
      BY <1>1, <3>1, <3>2
  <2>2. /\ Len(queue') = Len(queue) + 1
        /\ queue'[Len(queue) + 1] = c
        /\ \A i \in 1..Len(queue) : queue'[i] = queue[i]
        /\ \A i \in 1..Len(queue') : i = Len(queue) + 1 \/ i \in 1..Len(queue)
    BY <1>2, <2>0, AppendFacts
  <2> QED
    BY <1>1, <1>2, <1>3, <2>1, <2>2 DEF Lifecycle, QueuedCallsWait, IsTransfer
<1>5. RunnerServesWaiter'
  BY <1>1, <1>2 DEF Lifecycle, RunnerServesWaiter, TypeOK, IsTransfer, Settling
<1>6. StatementsAccounted'
  BY <1>2, <1>3 DEF Lifecycle, StatementsAccounted, TypeOK, IsTransfer,
                    Awaited, Orphaned, DebitKey, CreditKey
<1>7. AnswersTrue'
  BY <1>1, <1>2, <1>3 DEF Lifecycle, AnswersTrue, TypeOK, IsTransfer, Settling
<1> QED
  BY <1>4, <1>5, <1>6, <1>7 DEF CallParts

\* A closure or Close's own leaves the queue.
LEMMA TakeKeepsLifecycle ==
    ASSUME TypeOK, Lifecycle, Take
    PROVE  CallParts'
<1> DEFINE c == Head(queue)
<1>1. /\ queue \in Seq(Calls) /\ queue # <<>> /\ queue' = Tail(queue)
      /\ runner.pc = "idle" /\ runner.call = NoCall
  BY DEF Take, TypeOK, Lifecycle, RunnerServesWaiter, Settling
<1>2. /\ c \in Calls /\ c = queue[1] /\ 1 \in 1..Len(queue)
      /\ \A i \in 1..Len(queue') : queue'[i] = queue[i + 1] /\ i + 1 \in 1..Len(queue)
      /\ \A i \in 1..Len(queue') : i \in Int /\ i + 1 # 1
  BY <1>1, TailFacts
<1>3. /\ pc[c] = "wait" /\ c \notin posted /\ c \notin inflight
      /\ IsTransfer(req[c]) => req[c].amount \in Int
  BY <1>2 DEF Lifecycle, QueuedCallsWait
<1>4. \A i \in 1..Len(queue') : queue'[i] # c
  BY <1>2 DEF Lifecycle, QueuedCallsWait
<1>5. UNCHANGED <<posted, checked, req>>
  BY DEF Take
<1> HIDE DEF c
<1>6. CASE /\ IsTransfer(req[c])
           /\ runner' = [RunnerIdle EXCEPT !.pc = "insert", !.call = c]
           /\ inflight' = inflight \cup {c}
           /\ UNCHANGED <<pc, out>>
  <2>1. runner'.pc = "insert" /\ runner'.call = c
    BY <1>6 DEF RunnerIdle
  <2>2. QueuedCallsWait'
    <3>1. \A i, j \in 1..Len(queue') : queue'[i] = queue'[j] => i = j
      BY <1>2 DEF Lifecycle, QueuedCallsWait
    <3> QED
      BY <1>2, <1>4, <1>5, <1>6, <2>1, <3>1 DEF Lifecycle, QueuedCallsWait, IsTransfer
  <2>3. RunnerServesWaiter'
    BY <1>3, <1>5, <1>6, <2>1 DEF RunnerServesWaiter, IsTransfer
  <2>4. StatementsAccounted'
    BY <1>1, <1>3, <1>5, <1>6, <2>1
       DEF Lifecycle, StatementsAccounted, Awaited, Orphaned, IsTransfer, DebitKey, CreditKey
  <2>5. AnswersTrue'
    BY <1>1, <1>5, <1>6 DEF Lifecycle, AnswersTrue, Settling, IsTransfer
  <2> QED
    BY <2>2, <2>3, <2>4, <2>5 DEF CallParts
<1>7. CASE /\ ~IsTransfer(req[c])
           /\ runner' = [RunnerIdle EXCEPT !.pc = "stopped"]
           /\ Return(c, "ok")
           /\ UNCHANGED inflight
  <2>1. runner'.pc = "stopped" /\ runner'.call = NoCall
    BY <1>7 DEF RunnerIdle
  <2>2. /\ \A d \in Calls : d # c => pc'[d] = pc[d] /\ out'[d] = out[d]
        /\ pc'[c] = "done" /\ out'[c] = "ok"
    BY <1>2, <1>7 DEF Return, TypeOK
  <2>3. QueuedCallsWait'
    <3>1. \A i, j \in 1..Len(queue') : queue'[i] = queue'[j] => i = j
      BY <1>2 DEF Lifecycle, QueuedCallsWait
    <3>2. \A i \in 1..Len(queue') : queue'[i] \in Calls /\ queue'[i] # NoCall
      BY <1>1, <1>2, TransactorAssumption
    <3> QED
      BY <1>2, <1>4, <1>5, <1>7, <2>1, <2>2, <3>1, <3>2
         DEF Lifecycle, QueuedCallsWait, IsTransfer
  <2>4. RunnerServesWaiter'
    BY <2>1 DEF RunnerServesWaiter
  <2>5. StatementsAccounted'
    BY <1>1, <1>3, <1>5, <1>7, <2>1, <2>2
       DEF Lifecycle, StatementsAccounted, Awaited, Orphaned, IsTransfer, DebitKey, CreditKey,
           TypeOK
  <2>6. AnswersTrue'
    BY <1>1, <1>3, <1>5, <1>7, <2>2 DEF Lifecycle, AnswersTrue, Settling, IsTransfer, TypeOK
  <2> QED
    BY <2>3, <2>4, <2>5, <2>6 DEF CallParts
<1> QED
  BY <1>6, <1>7 DEF Take, c

\* balanceUpdate moves on within one closure.
LEMMA UpdatingKeepsLifecycle ==
    ASSUME TypeOK, Lifecycle, Settling, Settling', runner'.call = runner.call,
           UNCHANGED <<posted, inflight, checked, queue, pc, out, req>>
    PROVE  CallParts'
<1>1. runner.pc \notin {"idle", "stopped", "insert"}
      /\ runner'.pc \notin {"idle", "stopped", "insert"}
  BY DEF Settling
<1>2. QueuedCallsWait'
  BY DEF Lifecycle, QueuedCallsWait, IsTransfer
<1>3. RunnerServesWaiter'
  BY <1>1 DEF Lifecycle, RunnerServesWaiter, IsTransfer
<1>4. StatementsAccounted'
  BY <1>1 DEF Lifecycle, StatementsAccounted, Awaited, Orphaned, IsTransfer, DebitKey, CreditKey
<1>5. AnswersTrue'
  BY DEF Lifecycle, AnswersTrue, IsTransfer
<1> QED
  BY <1>2, <1>3, <1>4, <1>5 DEF CallParts

\* Steps that touch nothing a call's life depends on.
LEMMA FrameKeepsLifecycle ==
    ASSUME Lifecycle,
           UNCHANGED <<posted, inflight, queue, runner, pc, out, req>>,
           \A c \in checked' : c \in checked \/ DebitKey(req[c]) # CreditKey(req[c])
    PROVE  CallParts'
<1>1. QueuedCallsWait'
  BY DEF Lifecycle, QueuedCallsWait, IsTransfer
<1>2. RunnerServesWaiter'
  BY DEF Lifecycle, RunnerServesWaiter, IsTransfer, Settling
<1>3. StatementsAccounted'
  BY DEF Lifecycle, StatementsAccounted, Awaited, Orphaned, IsTransfer, DebitKey, CreditKey
<1>4. AnswersTrue'
  BY DEF Lifecycle, AnswersTrue, IsTransfer, Settling
<1> QED
  BY <1>1, <1>2, <1>3, <1>4 DEF CallParts

\* The closure reports to its caller and the runner is free again.
LEMMA ClosureEndKeepsLifecycle ==
    ASSUME TypeOK, Lifecycle, NEW answer \in Outs \ {"none"},
           runner.pc \notin {"idle", "stopped"},
           runner' = RunnerIdle, Return(runner.call, answer),
           inflight' \subseteq inflight, checked' \subseteq checked,
           UNCHANGED <<posted, queue, req>>,
           answer = "ok" => runner.call \in posted,
           runner.call \in posted => answer \in {"ok", "error", "lost"},
           runner.call \in inflight' => answer \in {"error", "lost"}
    PROVE  CallParts'
<1> DEFINE c == runner.call
<1>1. /\ c \in Calls /\ c # NoCall
      /\ IsTransfer(req[c]) /\ req[c].amount \in Int
      /\ pc[c] = "wait"
      /\ c \in posted \cup inflight
  BY TransactorAssumption DEF TypeOK, Lifecycle, RunnerServesWaiter
<1>2. /\ \A d \in Calls : d # c => pc'[d] = pc[d] /\ out'[d] = out[d]
      /\ pc'[c] = "done" /\ out'[c] = answer
  BY <1>1 DEF Return, TypeOK
<1>3. runner'.pc = "idle" /\ runner'.call = NoCall
  BY DEF RunnerIdle
<1>4. QueuedCallsWait'
  <2>1. \A i \in 1..Len(queue) : queue[i] \in Calls
    BY DEF TypeOK
  <2>2. \A i \in 1..Len(queue) : queue[i] # c /\ queue[i] # NoCall
    BY <2>1, TransactorAssumption DEF Lifecycle, QueuedCallsWait
  <2> QED
    BY <1>2, <1>3, <2>1, <2>2 DEF Lifecycle, QueuedCallsWait, IsTransfer
<1>5. RunnerServesWaiter'
  BY <1>3 DEF RunnerServesWaiter
<1>6. StatementsAccounted'
  BY <1>2, <1>3 DEF Lifecycle, StatementsAccounted, Awaited, Orphaned, IsTransfer,
                    DebitKey, CreditKey, TypeOK
<1>7. AnswersTrue'
  <2>1. \A d \in posted : d \in Calls
    BY DEF TypeOK
  <2>2. \A d \in posted : /\ IsTransfer(req[d]) /\ req[d].amount \in Int
                          /\ pc'[d] = "done" /\ out'[d] \in {"ok", "error", "lost"}
    BY <1>1, <1>2, <2>1 DEF Lifecycle, AnswersTrue
  <2>3. \A d \in Calls : pc'[d] = "done" <=> out'[d] # "none"
    BY <1>2 DEF Lifecycle, AnswersTrue
  <2>4. \A d \in Calls : IsTransfer(req[d]) /\ out'[d] = "ok" => d \in posted
    BY <1>2 DEF Lifecycle, AnswersTrue
  <2> QED
    BY <2>2, <2>3, <2>4 DEF AnswersTrue, IsTransfer
<1> QED
  BY <1>4, <1>5, <1>6, <1>7 DEF CallParts

LEMMA PostRowKeepsLifecycle ==
    ASSUME TypeOK, Lifecycle, NEW c \in Calls, PostRow(c)
    PROVE  CallParts'
<1>1. /\ c \in inflight /\ c \in Calls
      /\ posted' = posted \cup {c}
      /\ inflight' = inflight \ {c} /\ checked' = checked \ {c}
      /\ UNCHANGED <<queue, pc, out, req>>
  BY DEF PostRow, TypeOK, callVars
<1>2. /\ IsTransfer(req[c]) /\ req[c].amount \in Int
      /\ Awaited(c) \/ Orphaned(c)
  BY <1>1 DEF Lifecycle, StatementsAccounted
<1>3. \A i \in 1..Len(queue) : queue[i] # c
  BY <1>1 DEF Lifecycle, QueuedCallsWait
<1>4. CASE Awaited(c)
  <2>1. runner.pc = "insert" /\ runner.call = c
    BY <1>4 DEF Awaited
  <2>2. runner'.pc = "apply" /\ runner'.call = c
    BY <1>4, <2>1 DEF PostRow, TypeOK
  <2>3. QueuedCallsWait'
    BY <1>1, <1>3, <2>1, <2>2 DEF Lifecycle, QueuedCallsWait, IsTransfer
  <2>4. RunnerServesWaiter'
    BY <1>1, <1>2, <2>1, <2>2 DEF Lifecycle, RunnerServesWaiter, IsTransfer, Settling
  <2>5. StatementsAccounted'
    BY <1>1, <2>1, <2>2 DEF Lifecycle, StatementsAccounted, Awaited, Orphaned, IsTransfer,
                            DebitKey, CreditKey
  <2>6. AnswersTrue'
    BY <1>1, <1>2, <2>1, <2>2 DEF Lifecycle, AnswersTrue, IsTransfer, Settling
  <2> QED
    BY <2>3, <2>4, <2>5, <2>6 DEF CallParts
<1>5. CASE ~Awaited(c)
  <2>1. runner' = runner /\ Orphaned(c)
    BY <1>2, <1>5 DEF PostRow
  <2>2. QueuedCallsWait'
    BY <1>1, <1>3, <2>1 DEF Lifecycle, QueuedCallsWait, IsTransfer
  <2>3. RunnerServesWaiter'
    BY <1>1, <1>5, <2>1 DEF Lifecycle, RunnerServesWaiter, IsTransfer, Settling, Awaited
  <2>4. StatementsAccounted'
    BY <1>1, <2>1 DEF Lifecycle, StatementsAccounted, Awaited, Orphaned, IsTransfer,
                      DebitKey, CreditKey
  <2>5. AnswersTrue'
    BY <1>1, <1>2, <2>1 DEF Lifecycle, AnswersTrue, IsTransfer, Settling, Orphaned
  <2> QED
    BY <2>2, <2>3, <2>4, <2>5 DEF CallParts
<1> QED
  BY <1>4, <1>5

LEMMA RejectRowKeepsLifecycle ==
    ASSUME TypeOK, Lifecycle, NEW c \in Calls, RejectRow(c)
    PROVE  CallParts'
<1>1. /\ c \in inflight /\ c \notin posted
      /\ inflight' = inflight \ {c} /\ checked' = checked \ {c}
      /\ UNCHANGED <<posted, queue, req>>
  BY DEF RejectRow, Lifecycle, StatementsAccounted
<1>2. CASE Awaited(c)
  <2>1. /\ runner.pc = "insert" /\ runner.call = c
        /\ runner' = RunnerIdle /\ Return(c, "rejected")
    BY <1>2 DEF RejectRow, Awaited
  <2>2. "rejected" \in Outs \ {"none"}
    BY DEF Outs
  <2> QED
    BY <1>1, <2>1, <2>2, ClosureEndKeepsLifecycle
<1>3. CASE ~Awaited(c)
  <2>1. UNCHANGED <<runner, pc, out>>
    BY <1>3 DEF RejectRow
  <2>2. QueuedCallsWait'
    BY <1>1, <2>1 DEF Lifecycle, QueuedCallsWait, IsTransfer
  <2>3. RunnerServesWaiter'
    BY <1>1, <1>3, <2>1 DEF Lifecycle, RunnerServesWaiter, IsTransfer, Settling, Awaited
  <2>4. StatementsAccounted'
    BY <1>1, <2>1 DEF Lifecycle, StatementsAccounted, Awaited, Orphaned, IsTransfer,
                      DebitKey, CreditKey
  <2>5. AnswersTrue'
    BY <1>1, <2>1 DEF Lifecycle, AnswersTrue, IsTransfer, Settling
  <2> QED
    BY <2>2, <2>3, <2>4, <2>5 DEF CallParts
<1> QED
  BY <1>2, <1>3

\* The callers of a dead process lose their connections; its statements become orphans.
LEMMA CrashKeepsLifecycle ==
    ASSUME TypeOK, Lifecycle, Crash
    PROVE  CallParts'
<1>1. /\ queue' = <<>>
      /\ runner'.pc = "idle" /\ runner'.call = NoCall
      /\ UNCHANGED <<posted, inflight, checked, req>>
  BY DEF Crash, RunnerIdle, dbVars
<1>2. \A c \in Calls :
         /\ pc[c] \in {"idle", "done"} => pc'[c] = pc[c] /\ out'[c] = out[c]
         /\ pc[c] \notin {"idle", "done"} => pc'[c] = "done" /\ out'[c] = "lost"
  BY DEF Crash
<1>3. QueuedCallsWait'
  BY <1>1 DEF QueuedCallsWait
<1>4. RunnerServesWaiter'
  BY <1>1 DEF RunnerServesWaiter
<1>5. StatementsAccounted'
  <2>1. \A c \in inflight : pc[c] = "wait" \/ Orphaned(c)
    BY DEF Lifecycle, StatementsAccounted, RunnerServesWaiter, Awaited, Settling
  <2> QED
    BY <1>1, <1>2, <2>1 DEF Lifecycle, StatementsAccounted, Orphaned, IsTransfer,
                            DebitKey, CreditKey, TypeOK
<1>6. AnswersTrue'
  <2>1. \A c \in posted : c \in Calls
    BY DEF TypeOK
  <2>2. Settling => pc[runner.call] = "wait"
    BY DEF Lifecycle, RunnerServesWaiter, Settling
  <2>3. \A c \in posted : /\ IsTransfer(req[c]) /\ req[c].amount \in Int
                          /\ \/ pc[c] = "wait"
                             \/ pc[c] = "done" /\ out[c] \in {"ok", "error", "lost"}
    BY <2>2 DEF Lifecycle, AnswersTrue
  <2>4. \A c \in posted : pc'[c] = "done" /\ out'[c] \in {"ok", "error", "lost"}
    BY <1>2, <2>1, <2>3
  <2>5. \A c \in Calls : pc'[c] = "done" <=> out'[c] # "none"
    BY <1>2 DEF Lifecycle, AnswersTrue
  <2>6. \A c \in Calls : IsTransfer(req[c]) /\ out'[c] = "ok" => c \in posted
    BY <1>2 DEF Lifecycle, AnswersTrue
  <2> QED
    BY <1>1, <2>3, <2>4, <2>5, <2>6 DEF AnswersTrue, IsTransfer
<1> QED
  BY <1>3, <1>4, <1>5, <1>6 DEF CallParts

LEMMA CallPartsStep ==
    ASSUME TypeOK, Lifecycle, [Next]_vars
    PROVE  CallParts'
<1>1. ASSUME NEW c \in Calls, Start(c) \/ Handler(c)
      PROVE  CallParts'
  <2>1. CASE Enqueue(c)
    BY <2>1, EnqueueKeepsLifecycle
  <2>2. CASE HandlerButEnqueue(c)
    <3>1. Moves(c)
      BY <2>2, HandlerMoves DEF Lifecycle
    <3> QED
      BY <3>1, MovesKeepsLifecycle
  <2> QED
    BY <1>1, <2>1, <2>2 DEF Handler, HandlerButEnqueue
<1>2. ASSUME NEW c \in Calls, CheckRow(c)
      PROVE  CallParts'
  <2>1. DebitKey(req[c]) # CreditKey(req[c])
    BY <1>2 DEF CheckRow, TriggerAllows, TxOf
  <2> QED
    BY <1>2, <2>1, FrameKeepsLifecycle DEF CheckRow, callVars
<1>3. ASSUME NEW c \in Calls, PostRow(c)
      PROVE  CallParts'
  BY <1>3, PostRowKeepsLifecycle
<1>4. ASSUME NEW c \in Calls, RejectRow(c)
      PROVE  CallParts'
  BY <1>4, RejectRowKeepsLifecycle
<1>5. CASE Take
  BY <1>5, TakeKeepsLifecycle
<1>6. CASE Apply
  <2>1. Settling /\ Settling' /\ runner'.call = runner.call
    BY <1>6 DEF Apply, Settling, TypeOK
  <2> QED
    BY <1>6, <2>1, UpdatingKeepsLifecycle DEF Apply, dbVars, callVars
<1>7. CASE AnnounceWriter
  <2>1. Settling /\ Settling' /\ runner'.call = runner.call
    BY <1>7 DEF AnnounceWriter, Settling, TypeOK
  <2> QED
    BY <1>7, <2>1, UpdatingKeepsLifecycle DEF AnnounceWriter, dbVars, callVars
<1>8. CASE Put
  <2>1. Settling /\ Settling' /\ runner'.call = runner.call
    BY <1>8 DEF Put, Settling, TypeOK
  <2> QED
    BY <1>8, <2>1, UpdatingKeepsLifecycle DEF Put, dbVars, callVars
<1>9. CASE Emit
  <2>1. CASE runner.side = "debit"
    <3>1. Settling /\ Settling' /\ runner'.call = runner.call
      BY <1>9, <2>1 DEF Emit, Settling, TypeOK
    <3>2. UNCHANGED <<pc, out>>
      BY <1>9, <2>1 DEF Emit
    <3> QED
      BY <1>9, <3>1, <3>2, UpdatingKeepsLifecycle DEF Emit, dbVars
  <2>2. CASE runner.side = "credit"
    <3>1. runner' = RunnerIdle /\ Return(runner.call, "ok") /\ runner.pc = "emit"
      BY <1>9, <2>2 DEF Emit
    <3>2. runner.call \in posted /\ runner.call \notin inflight
      BY <3>1 DEF Lifecycle, RunnerServesWaiter, StatementsAccounted
    <3>3. "ok" \in Outs \ {"none"}
      BY DEF Outs
    <3> QED
      BY <1>9, <3>1, <3>2, <3>3, ClosureEndKeepsLifecycle DEF Emit, dbVars
  <2> QED
    BY <1>9, <2>1, <2>2 DEF Emit
<1>10. CASE ConnectionLost
  <2>1. /\ runner.pc = "insert" /\ runner' = RunnerIdle /\ Return(runner.call, "error")
        /\ UNCHANGED <<posted, inflight, checked, queue, req>>
    BY <1>10 DEF ConnectionLost, dbVars
  <2>2. "error" \in Outs \ {"none"}
    BY DEF Outs
  <2> QED
    BY <2>1, <2>2, ClosureEndKeepsLifecycle
<1>11. CASE Broadcast
  BY <1>11, FrameKeepsLifecycle DEF Broadcast, dbVars, callVars
<1>12. CASE Crash
  BY <1>12, CrashKeepsLifecycle
<1>13. CASE Restart
  BY <1>13, FrameKeepsLifecycle DEF Restart, dbVars, callVars
<1>14. CASE UNCHANGED vars
  BY <1>14, FrameKeepsLifecycle DEF vars, dbVars, callVars
<1> QED
  BY <1>1, <1>2, <1>3, <1>4, <1>5, <1>6, <1>7, <1>8, <1>9, <1>10, <1>11, <1>12, <1>13, <1>14
     DEF Next, Statement, Runner, Quiescent

LEMMA DeadIsSilentStep ==
    ASSUME TypeOK, Lifecycle, [Next]_vars
    PROVE  DeadIsSilent'
<1>1. ASSUME NEW c \in Calls, Start(c) \/ Handler(c)
      PROVE  DeadIsSilent'
  <2>1. pc[c] # "done" /\ (pc[c] = "idle" => up) /\ up' = up
    BY <1>1 DEF Handler, Start, GetHit, GetMiss, Load, LoadFails, Fill, CreateRow,
                CreateReturns, CreateFails, ParseFails, Enqueue, QueueFull, procVars
  <2>2. up'
    BY <2>1 DEF Lifecycle, DeadIsSilent, TypeOK
  <2> QED
    BY <2>2 DEF DeadIsSilent
<1>2. ASSUME NEW c \in Calls, Statement(c), ~up
      PROVE  DeadIsSilent'
  <2>1. queue = <<>> /\ runner.pc = "idle" /\ \A d \in Calls : pc[d] \in {"idle", "done"}
    BY <1>2 DEF Lifecycle, DeadIsSilent
  <2>2. UNCHANGED <<up, queue, runner, pc>>
    BY <1>2, <2>1 DEF Statement, CheckRow, PostRow, RejectRow, Awaited, procVars, callVars
  <2> QED
    BY <2>1, <2>2 DEF DeadIsSilent
<1>3. CASE Runner \/ ConnectionLost
  <2>1. up' = up /\ (queue # <<>> \/ runner.pc # "idle")
    BY <1>3 DEF Runner, Take, Apply, AnnounceWriter, Put, Emit, ConnectionLost, procVars
  <2> QED
    BY <2>1 DEF Lifecycle, DeadIsSilent
<1>4. CASE Broadcast \/ UNCHANGED vars
  BY <1>4 DEF Broadcast, Lifecycle, DeadIsSilent, vars, procVars, callVars
<1>5. CASE Crash
  <2>1. queue' = <<>> /\ runner'.pc = "idle" /\ \A c \in Calls : pc'[c] \in {"idle", "done"}
    BY <1>5 DEF Crash, RunnerIdle
  <2> QED
    BY <2>1 DEF DeadIsSilent
<1>6. CASE Restart
  BY <1>6 DEF Restart, DeadIsSilent
<1>7. ASSUME NEW c \in Calls, Statement(c), up
      PROVE  DeadIsSilent'
  BY <1>7 DEF Statement, CheckRow, PostRow, RejectRow, DeadIsSilent, procVars
<1> QED
  BY <1>1, <1>2, <1>3, <1>4, <1>5, <1>6, <1>7 DEF Next, Quiescent

LEMMA CheckedRowsReferStep ==
    ASSUME TypeOK, Lifecycle, [Next]_vars
    PROVE  CheckedRowsRefer'
<1>1. req' = req /\ accounts \subseteq accounts'
  BY DEF Next, Handler, Statement, Runner, Quiescent, Start, GetHit, GetMiss, Load, LoadFails,
         Fill, CreateRow, CreateReturns, CreateFails, ParseFails, Enqueue, QueueFull,
         CheckRow, PostRow, RejectRow, Take, Apply, AnnounceWriter, Put, Emit, ConnectionLost,
         Broadcast, Crash, Restart, vars, dbVars, callVars
<1>2. ASSUME NEW c \in checked', c \notin checked
      PROVE  DebitKey(req[c]) \in accounts /\ CreditKey(req[c]) \in accounts
  <2>1. CheckRow(c)
    BY <1>2 DEF Next, Handler, Statement, Runner, Quiescent, Start, GetHit, GetMiss, Load,
         LoadFails, Fill, CreateRow, CreateReturns, CreateFails, ParseFails, Enqueue, QueueFull,
         CheckRow, PostRow, RejectRow, Take, Apply, AnnounceWriter, Put, Emit, ConnectionLost,
         Broadcast, Crash, Restart, vars, dbVars
  <2> QED
    BY <2>1 DEF CheckRow, TriggerAllows, TxOf
<1> QED
  BY <1>1, <1>2 DEF Lifecycle, CheckedRowsRefer, DebitKey, CreditKey

LEMMA LifecycleStep ==
    ASSUME TypeOK, Lifecycle, [Next]_vars
    PROVE  Lifecycle'
BY CallPartsStep, CheckedRowsReferStep, DeadIsSilentStep DEF CallParts, Lifecycle

-----------------------------------------------------------------------------
(* Types and pointers.                                                     *)

\* A request names accounts of the schema.
LEMMA RequestKeys ==
    ASSUME TypeOK, NEW c \in Calls
    PROVE  /\ CreditKey(req[c]) \in Keys /\ DebitKey(req[c]) \in Keys
           /\ Lookups(req[c]) \subseteq Keys
<1>1. req[c] \in Request
  BY TransactorAssumption DEF TypeOK
<1>2. req[c].user \in Users /\ req[c].debtor \in Users /\ req[c].ledger \in Ledgers
  BY <1>1 DEF Request
<1>3. CreditKey(req[c]) \in Keys /\ DebitKey(req[c]) \in Keys
  BY <1>2 DEF CreditKey, DebitKey, Keys
<1>4. \A l \in Ledgers : <<req[c].user, l>> \in Keys
  BY <1>2 DEF Keys
<1> QED
  BY <1>2, <1>3, <1>4 DEF Lookups

LEMMA AdvanceTypes ==
    ASSUME TypeOK, NEW c \in Calls, NEW k, Advance(c, k)
    PROVE  /\ todo' \in [Calls -> SUBSET Keys]
           /\ made' \in [Calls -> BOOLEAN]
           /\ pc' \in [Calls -> PCs]
           /\ out' \in [Calls -> Outs]
BY DEF TypeOK, Advance, Return, PCs, Outs

LEMMA NotFoundTypes ==
    ASSUME TypeOK, NEW c \in Calls, NEW k, NotFound(c, k)
    PROVE  /\ todo' \in [Calls -> SUBSET Keys]
           /\ made' \in [Calls -> BOOLEAN]
           /\ pc' \in [Calls -> PCs]
           /\ out' \in [Calls -> Outs]
<1>1. CASE Advance(c, k)
  BY <1>1, AdvanceTypes
<1>2. CASE ~Advance(c, k)
  BY <1>2 DEF TypeOK, NotFound, Return, PCs, Outs
<1> QED
  BY <1>1, <1>2

LEMMA FillTypes ==
    ASSUME TypeOK, PointersValid, NEW c \in Calls, Fill(c)
    PROVE  /\ userMap' \in [Keys -> Nat]
           /\ heap' \in [Keys -> Seq(Int)]
           /\ \A k \in Keys : userMap'[k] <= Len(heap'[k])
           /\ \A k \in Keys : Len(heap[k]) <= Len(heap'[k])
           /\ snap' \in [Calls -> [keys : SUBSET Keys, bal : [Keys -> Int]]]
<1>1. snap[c].bal \in [Keys -> Int]
  BY DEF TypeOK
<1>2. \A k \in Keys : /\ userMap[k] \in Nat /\ heap[k] \in Seq(Int)
                      /\ userMap[k] <= Len(heap[k]) /\ Len(heap[k]) \in Nat
                      /\ Append(heap[k], snap[c].bal[k]) \in Seq(Int)
                      /\ Len(Append(heap[k], snap[c].bal[k])) = Len(heap[k]) + 1
  BY <1>1 DEF TypeOK, PointersValid
<1>3. /\ userMap' = [k \in Keys |-> IF k \in snap[c].keys THEN Len(heap[k]) + 1
                                                        ELSE userMap[k]]
      /\ heap' = [k \in Keys |-> IF k \in snap[c].keys THEN Append(heap[k], snap[c].bal[k])
                                                       ELSE heap[k]]
      /\ snap' = [snap EXCEPT ![c] = NoSnap]
  BY DEF Fill
<1>4. NoSnap \in [keys : SUBSET Keys, bal : [Keys -> Int]]
  BY DEF NoSnap
<1>5. /\ userMap' \in [Keys -> Nat]
      /\ heap' \in [Keys -> Seq(Int)]
  BY <1>2, <1>3
<1>6. \A k \in Keys : userMap'[k] <= Len(heap'[k]) /\ Len(heap[k]) <= Len(heap'[k])
  <2> SUFFICES ASSUME NEW k \in Keys
               PROVE  userMap'[k] <= Len(heap'[k]) /\ Len(heap[k]) <= Len(heap'[k])
    OBVIOUS
  <2>1. CASE k \in snap[c].keys
    <3>1. userMap'[k] = Len(heap[k]) + 1 /\ heap'[k] = Append(heap[k], snap[c].bal[k])
      BY <1>3, <2>1
    <3> QED
      BY <1>2, <3>1
  <2>2. CASE k \notin snap[c].keys
    <3>1. userMap'[k] = userMap[k] /\ heap'[k] = heap[k]
      BY <1>3, <2>2
    <3> QED
      BY <1>2, <3>1
  <2> QED
    BY <2>1, <2>2
<1>7. snap' \in [Calls -> [keys : SUBSET Keys, bal : [Keys -> Int]]]
  BY <1>3, <1>4 DEF TypeOK
<1> QED
  BY <1>5, <1>6, <1>7

LEMMA TypeStep ==
    ASSUME TypeOK, Lifecycle, PointersValid, [Next]_vars
    PROVE  TypeOK'
<1>1. ASSUME NEW c \in Calls, Start(c)
      PROVE  TypeOK'
  <2>1. Lookups(req[c]) \subseteq Keys
    BY RequestKeys
  <2> QED
    BY <1>1, <2>1 DEF Start, TypeOK, PCs, dbVars, procVars, cacheVars
<1>2. ASSUME NEW c \in Calls, NEW k \in Keys, GetHit(c, k)
      PROVE  TypeOK'
  <2>1. Advance(c, k)
    BY <1>2 DEF GetHit
  <2> QED
    BY <1>2, <2>1, AdvanceTypes DEF GetHit, TypeOK, dbVars, procVars, cacheVars
<1>3. ASSUME NEW c \in Calls, NEW k \in Keys, GetMiss(c, k)
      PROVE  TypeOK'
  BY <1>3 DEF GetMiss, TypeOK, PCs, dbVars, procVars
<1>4. ASSUME NEW c \in Calls, Load(c)
      PROVE  TypeOK'
  <2>1. \A k \in Keys : Balance(k) \in Int
    BY DEF Balance, TypeOK
  <2> DEFINE rows == {k \in accounts : UserOf(k) = UserOf(key[c])}
             bal == [k \in Keys |-> IF k \in rows THEN Balance(k) ELSE 0]
  <2>2. snap' \in [Calls -> [keys : SUBSET Keys, bal : [Keys -> Int]]]
    <3>1. rows \in SUBSET Keys
      BY DEF TypeOK
    <3>2. bal \in [Keys -> Int]
      BY <2>1
    <3>3. snap' = [snap EXCEPT ![c] = [keys |-> rows, bal |-> bal]]
      BY <1>4 DEF Load
    <3> HIDE DEF rows, bal
    <3> QED
      BY <3>1, <3>2, <3>3 DEF TypeOK
  <2>3. pc' \in [Calls -> PCs]
    BY <1>4 DEF Load, TypeOK, PCs
  <2> QED
    BY <1>4, <2>2, <2>3 DEF Load, TypeOK, dbVars, procVars, cacheVars
<1>5. ASSUME NEW c \in Calls, LoadFails(c)
      PROVE  TypeOK'
  BY <1>5 DEF LoadFails, Return, TypeOK, PCs, Outs, dbVars, procVars
<1>6. ASSUME NEW c \in Calls, Fill(c)
      PROVE  TypeOK'
  <2>1. Advance(c, key[c]) \/ NotFound(c, key[c])
    BY <1>6 DEF Fill
  <2>2. /\ todo' \in [Calls -> SUBSET Keys]
        /\ made' \in [Calls -> BOOLEAN]
        /\ pc' \in [Calls -> PCs]
        /\ out' \in [Calls -> Outs]
    BY <2>1, AdvanceTypes, NotFoundTypes
  <2>3. readers' \in SUBSET Calls
    BY <1>6 DEF Fill, TypeOK
  <2>4. UNCHANGED <<dbVars, procVars, queue, runner, feed, req, key>>
    BY <1>6 DEF Fill
  <2> QED
    BY <1>6, <2>2, <2>3, <2>4, FillTypes DEF TypeOK, dbVars, procVars
<1>7. ASSUME NEW c \in Calls, CreateRow(c)
      PROVE  TypeOK'
  BY <1>7 DEF CreateRow, TypeOK, PCs, procVars, cacheVars
<1>8. ASSUME NEW c \in Calls, CreateReturns(c)
      PROVE  TypeOK'
  BY <1>8 DEF CreateReturns, TypeOK, PCs, dbVars, procVars, cacheVars
<1>9. ASSUME NEW c \in Calls, CreateFails(c) \/ ParseFails(c) \/ QueueFull(c)
      PROVE  TypeOK'
  BY <1>9 DEF CreateFails, ParseFails, QueueFull, Return, TypeOK, PCs, Outs,
              dbVars, procVars, cacheVars
<1>10. ASSUME NEW c \in Calls, Enqueue(c)
       PROVE  TypeOK'
  <2>1. queue' \in Seq(Calls) /\ Len(queue') <= QueueCap
    <3>1. queue \in Seq(Calls) /\ Len(queue) \in Nat /\ Len(queue) < QueueCap
      BY <1>10 DEF Enqueue, TypeOK
    <3>2. Len(queue') = Len(queue) + 1 /\ queue' \in Seq(Calls)
      BY <1>10, <3>1, AppendFacts DEF Enqueue
    <3> QED
      BY <3>1, <3>2, TransactorAssumption
  <2> QED
    BY <1>10, <2>1 DEF Enqueue, TypeOK, PCs, dbVars, procVars, cacheVars
<1>11. ASSUME NEW c \in Calls, CheckRow(c)
       PROVE  TypeOK'
  BY <1>11 DEF CheckRow, TypeOK, procVars, cacheVars, callVars
<1>12. ASSUME NEW c \in Calls, PostRow(c)
       PROVE  TypeOK'
  <2>1. /\ c \in inflight /\ req[c].amount \in Int
        /\ Numeric(req[c].amount) \in Int
    BY <1>12, NumericType DEF PostRow, TypeOK, Lifecycle, StatementsAccounted
  <2>2. TxOf(c).debit \in Keys /\ TxOf(c).credit \in Keys
    BY RequestKeys DEF TxOf
  <2>3. debits' \in [Keys -> Int] /\ credits' \in [Keys -> Int]
    <3>1. TxOf(c).amount = req[c].amount
      BY DEF TxOf
    <3>2. debits' = [debits EXCEPT ![TxOf(c).debit] = @ + Numeric(req[c].amount)]
      BY <1>12, <3>1 DEF PostRow, DebitsAfter
    <3>3. credits' = [credits EXCEPT ![TxOf(c).credit] = @ + Numeric(req[c].amount)]
      BY <1>12, <3>1 DEF PostRow, CreditsAfter
    <3>4. debits \in [Keys -> Int] /\ credits \in [Keys -> Int]
      BY DEF TypeOK
    <3> DEFINE d == TxOf(c).debit
               e == TxOf(c).credit
               n == Numeric(req[c].amount)
    <3>5. /\ d \in Keys /\ e \in Keys /\ n \in Int
          /\ debits' = [debits EXCEPT ![d] = debits[d] + n]
          /\ credits' = [credits EXCEPT ![e] = credits[e] + n]
      BY <2>1, <2>2, <3>2, <3>3
    <3> HIDE DEF d, e, n
    <3> QED
      BY <3>4, <3>5
  <2>4. runner' \in [pc : RunnerPCs, call : Calls \cup {NoCall}, side : Sides, ptr : Nat]
    BY <1>12 DEF PostRow, TypeOK, RunnerPCs
  <2> QED
    BY <1>12, <2>1, <2>3, <2>4 DEF PostRow, TypeOK, procVars, cacheVars, callVars
<1>13. RunnerIdle \in [pc : RunnerPCs, call : Calls \cup {NoCall}, side : Sides, ptr : Nat]
  BY DEF RunnerIdle, RunnerPCs, Sides
<1>14. ASSUME NEW c \in Calls, RejectRow(c)
       PROVE  TypeOK'
  <2>1. /\ inflight' \in SUBSET Calls /\ checked' \in SUBSET inflight'
    BY <1>14 DEF RejectRow, TypeOK
  <2>2. runner' \in [pc : RunnerPCs, call : Calls \cup {NoCall}, side : Sides, ptr : Nat]
    BY <1>13, <1>14 DEF RejectRow, TypeOK
  <2>3. pc' \in [Calls -> PCs] /\ out' \in [Calls -> Outs]
    BY <1>14 DEF RejectRow, Return, TypeOK, PCs, Outs
  <2> QED
    BY <1>14, <2>1, <2>2, <2>3 DEF RejectRow, TypeOK, procVars, cacheVars
<1>15. CASE Take
  <2>1. /\ queue \in Seq(Calls) /\ queue # <<>> /\ queue' = Tail(queue)
        /\ Head(queue) \in Calls /\ queue' \in Seq(Calls)
        /\ Len(queue') = Len(queue) - 1 /\ Len(queue) \in Nat
    BY <1>15, TailFacts DEF Take, TypeOK
  <2>2. Len(queue') <= QueueCap
    BY <2>1, TransactorAssumption DEF TypeOK
  <2>3. runner' \in [pc : RunnerPCs, call : Calls \cup {NoCall}, side : Sides, ptr : Nat]
    BY <1>13, <1>15, <2>1 DEF Take, RunnerIdle, RunnerPCs, Sides
  <2>4. /\ inflight' \in SUBSET Calls /\ checked' \in SUBSET inflight'
        /\ pc' \in [Calls -> PCs] /\ out' \in [Calls -> Outs]
    BY <1>15, <2>1 DEF Take, Return, TypeOK, PCs, Outs
  <2> QED
    BY <1>15, <2>1, <2>2, <2>3, <2>4 DEF Take, TypeOK, procVars, cacheVars
<1>16. CASE ConnectionLost
  <2>1. runner.call \in Calls
    BY <1>16 DEF ConnectionLost, Lifecycle, RunnerServesWaiter, TypeOK
  <2> QED
    BY <1>13, <1>16, <2>1 DEF ConnectionLost, Return, TypeOK, PCs, Outs, dbVars, procVars, cacheVars
<1>17. CASE Apply
  <2> DEFINE c == runner.call
             k == SideKey(c, runner.side)
  <2>1. c \in Calls /\ req[c].amount \in Int /\ runner.side \in Sides
    BY <1>17, TransactorAssumption DEF Apply, Lifecycle, RunnerServesWaiter, TypeOK
  <2>2. k \in Keys /\ Change(c, runner.side) \in Int
    BY <2>1, RequestKeys DEF SideKey, Change
  <2> HIDE DEF c, k
  <2>3. userMap[k] \in 1..Len(heap[k]) /\ heap[k] \in Seq(Int)
    BY <1>17, <2>2 DEF Apply, PointersValid, TypeOK, c, k
  <2>4. heap' \in [Keys -> Seq(Int)]
    <3>1. heap[k][userMap[k]] + Change(c, runner.side) \in Int
      BY <2>2, <2>3
    <3>2. heap' = [heap EXCEPT ![k] = [heap[k] EXCEPT
                      ![userMap[k]] = heap[k][userMap[k]] + Change(c, runner.side)]]
      BY <1>17 DEF Apply, c, k
    <3>3. [heap[k] EXCEPT ![userMap[k]] = heap[k][userMap[k]] + Change(c, runner.side)]
             \in Seq(Int)
      BY <2>3, <3>1
    <3> QED
      BY <2>2, <3>2, <3>3 DEF TypeOK
  <2>5. runner' \in [pc : RunnerPCs, call : Calls \cup {NoCall}, side : Sides, ptr : Nat]
    BY <1>17, <2>2 DEF Apply, TypeOK, RunnerPCs, c, k
  <2> QED
    BY <1>17, <2>4, <2>5 DEF Apply, TypeOK, dbVars, procVars, callVars
<1>18. CASE AnnounceWriter
  BY <1>18 DEF AnnounceWriter, TypeOK, RunnerPCs, dbVars, procVars, cacheVars, callVars
<1>19. CASE Put
  <2>1. userMap' \in [Keys -> Nat]
    BY <1>19 DEF Put, TypeOK
  <2>2. runner' \in [pc : RunnerPCs, call : Calls \cup {NoCall}, side : Sides, ptr : Nat]
    BY <1>19 DEF Put, TypeOK, RunnerPCs
  <2> QED
    BY <1>19, <2>1, <2>2 DEF Put, TypeOK, dbVars, procVars, callVars
<1>20. CASE Emit
  <2> DEFINE e == [call |-> runner.call, side |-> runner.side]
  <2>1. runner.call \in Calls /\ e \in [call : Calls, side : Sides]
    BY <1>20 DEF Emit, Lifecycle, RunnerServesWaiter, TypeOK
  <2>2. feed' \in Seq([call : Calls, side : Sides]) /\ Len(feed') <= FeedCap
    <3>1. /\ feed \in Seq([call : Calls, side : Sides])
          /\ Len(feed) \in Nat /\ Len(feed) < FeedCap /\ feed' = Append(feed, e)
      BY <1>20 DEF Emit, TypeOK
    <3>2. Len(feed') = Len(feed) + 1 /\ feed' \in Seq([call : Calls, side : Sides])
      BY <2>1, <3>1, AppendFacts
    <3> QED
      BY <3>1, <3>2, TransactorAssumption
  <2>3. runner' \in [pc : RunnerPCs, call : Calls \cup {NoCall}, side : Sides, ptr : Nat]
    <3>1. CASE runner' = [runner EXCEPT !.pc = "apply", !.side = "credit", !.ptr = 0]
      BY <3>1 DEF TypeOK, RunnerPCs, Sides
    <3>2. CASE runner' = RunnerIdle
      BY <1>13, <3>2
    <3> QED
      BY <1>20, <3>1, <3>2 DEF Emit
  <2>4. pc' \in [Calls -> PCs] /\ out' \in [Calls -> Outs]
    BY <1>20 DEF Emit, Return, TypeOK, PCs, Outs
  <2> QED
    BY <1>20, <2>2, <2>3, <2>4 DEF Emit, TypeOK, dbVars, procVars, cacheVars
<1>21. CASE Broadcast
  <2>1. /\ feed \in Seq([call : Calls, side : Sides]) /\ feed # <<>> /\ feed' = Tail(feed)
        /\ Len(feed) \in Nat /\ Len(feed) <= FeedCap
    BY <1>21 DEF Broadcast, TypeOK
  <2>2. feed' \in Seq([call : Calls, side : Sides]) /\ Len(feed') = Len(feed) - 1
    BY <2>1, TailFacts
  <2>3. Len(feed') <= FeedCap
    BY <2>1, <2>2, TransactorAssumption
  <2> QED
    BY <1>21, <2>2, <2>3 DEF Broadcast, TypeOK, dbVars, procVars, cacheVars, callVars
<1>22. \A k \in Keys : Balance(k) \in Int
  BY DEF Balance, TypeOK
<1>23. CASE Crash
  <2>1. NoSnap \in [keys : SUBSET Keys, bal : [Keys -> Int]]
    BY DEF NoSnap
  <2>2. crashes' \in 0..MaxCrashes
    BY <1>23, TransactorAssumption DEF Crash, TypeOK
  <2>3. /\ pc' \in [Calls -> PCs] /\ out' \in [Calls -> Outs]
        /\ snap' \in [Calls -> [keys : SUBSET Keys, bal : [Keys -> Int]]]
    BY <1>23, <2>1 DEF Crash, TypeOK, PCs, Outs
  <2>4. /\ queue' \in Seq(Calls) /\ Len(queue') <= QueueCap
        /\ feed' \in Seq([call : Calls, side : Sides]) /\ Len(feed') <= FeedCap
    BY <1>23, TransactorAssumption DEF Crash
  <2>5. userMap' \in [Keys -> Nat] /\ heap' \in [Keys -> Seq(Int)] /\ readers' \in SUBSET Calls
    BY <1>23 DEF Crash
  <2>6. runner' \in [pc : RunnerPCs, call : Calls \cup {NoCall}, side : Sides, ptr : Nat]
    BY <1>13, <1>23 DEF Crash
  <2>7. up' \in BOOLEAN /\ UNCHANGED <<dbVars, req, todo, key, made>>
    BY <1>23 DEF Crash
  <2> QED
    BY <2>2, <2>3, <2>4, <2>5, <2>6, <2>7 DEF TypeOK, dbVars
<1>24. CASE Restart
  <2>1. userMap' \in [Keys -> Nat] /\ heap' \in [Keys -> Seq(Int)] /\ up' \in BOOLEAN
    BY <1>22, <1>24 DEF Restart
  <2> QED
    BY <1>24, <2>1 DEF Restart, TypeOK, dbVars, callVars
<1>25. CASE UNCHANGED vars
  BY <1>25 DEF TypeOK, vars, dbVars, procVars, cacheVars, callVars
<1> QED
  BY <1>1, <1>2, <1>3, <1>4, <1>5, <1>6, <1>7, <1>8, <1>9, <1>10, <1>11, <1>12, <1>14, <1>15,
     <1>16, <1>17, <1>18, <1>19, <1>20, <1>21, <1>23, <1>24, <1>25
     DEF Next, Handler, Statement, Runner, Quiescent

\* Steps that leave the cache alone and do not start balanceUpdate.
LEMMA FrameKeepsPointers ==
    ASSUME PointersValid, UNCHANGED <<userMap, heap, req>>,
           runner' = runner \/ runner'.pc \notin {"applied", "locking"}
    PROVE  PointersValid'
BY DEF PointersValid, SideKey, DebitKey, CreditKey

LEMMA PointersStep ==
    ASSUME TypeOK, Lifecycle, PointersValid, [Next]_vars
    PROVE  PointersValid'
<1>1. \A side \in Sides : runner.call \in Calls => SideKey(runner.call, side) \in Keys
  BY RequestKeys DEF SideKey
<1>2. ASSUME NEW c \in Calls, Start(c) \/ Handler(c), ~Fill(c)
      PROVE  PointersValid'
  <2>1. UNCHANGED <<userMap, heap, req, runner>>
    BY <1>2 DEF Handler, Start, GetHit, GetMiss, Load, LoadFails, CreateRow, CreateReturns,
                CreateFails, ParseFails, Enqueue, QueueFull, cacheVars
  <2> QED
    BY <2>1, FrameKeepsPointers
<1>3. ASSUME NEW c \in Calls, Fill(c)
      PROVE  PointersValid'
  <2>1. UNCHANGED <<runner, req>>
    BY <1>3 DEF Fill
  <2>2. /\ \A k \in Keys : userMap'[k] <= Len(heap'[k])
        /\ \A k \in Keys : Len(heap[k]) <= Len(heap'[k])
        /\ \A k \in Keys : Len(heap[k]) \in Nat /\ Len(heap'[k]) \in Nat
    <3>1. /\ heap \in [Keys -> Seq(Int)] /\ heap' \in [Keys -> Seq(Int)]
      BY <1>3, FillTypes DEF TypeOK
    <3> QED
      BY <1>3, <3>1, FillTypes
  <2>3. ASSUME runner.pc \in {"applied", "locking"}
        PROVE  runner.ptr \in 1..Len(heap'[SideKey(runner.call, runner.side)])
    <3>1. runner.call \in Calls /\ runner.side \in Sides /\ runner.ptr \in Nat
      BY <2>3, TransactorAssumption DEF Lifecycle, RunnerServesWaiter, TypeOK
    <3>2. SideKey(runner.call, runner.side) \in Keys
      BY <1>1, <3>1
    <3>3. runner.ptr \in 1..Len(heap[SideKey(runner.call, runner.side)])
      BY <2>3 DEF PointersValid
    <3> QED
      BY <2>2, <3>1, <3>2, <3>3
  <2> QED
    BY <2>1, <2>2, <2>3 DEF PointersValid, SideKey, DebitKey, CreditKey
<1>4. ASSUME NEW c \in Calls, Statement(c)
      PROVE  PointersValid'
  <2>1. runner' = runner \/ runner'.pc \in {"idle", "apply"}
    BY <1>4 DEF Statement, CheckRow, PostRow, RejectRow, RunnerIdle, Awaited, TypeOK
  <2> QED
    BY <1>4, <2>1, FrameKeepsPointers
       DEF Statement, CheckRow, PostRow, RejectRow, cacheVars, callVars
<1>5. CASE Take
  <2>1. runner'.pc \in {"insert", "stopped"}
    BY <1>5 DEF Take, RunnerIdle
  <2> QED
    BY <1>5, <2>1, FrameKeepsPointers DEF Take, cacheVars
<1>6. CASE Apply
  <2> DEFINE k == SideKey(runner.call, runner.side)
             n == heap[k][userMap[k]] + Change(runner.call, runner.side)
  <2>1. runner.call \in Calls /\ runner.side \in Sides
    BY <1>6, TransactorAssumption DEF Apply, Lifecycle, RunnerServesWaiter, TypeOK
  <2>2. k \in Keys
    BY <1>1, <2>1
  <2>3. /\ heap' = [heap EXCEPT ![k] = [heap[k] EXCEPT ![userMap[k]] = n]]
        /\ userMap' = userMap /\ userMap[k] # 0
        /\ runner'.call = runner.call /\ runner'.side = runner.side /\ runner'.ptr = userMap[k]
        /\ req' = req
    BY <1>6 DEF Apply, TypeOK, callVars
  <2>4. SideKey(runner.call, runner.side)' = k
    BY <2>3 DEF SideKey, DebitKey, CreditKey
  <2> HIDE DEF k, n
  <2>5. /\ \A j \in Keys : heap[j] \in Seq(Int) /\ userMap[j] \in Nat
        /\ \A j \in Keys : userMap[j] <= Len(heap[j])
    BY DEF TypeOK, PointersValid
  <2>6. Len(heap'[k]) = Len(heap[k]) /\ \A j \in Keys : j # k => heap'[j] = heap[j]
    BY <2>2, <2>3, <2>5 DEF TypeOK
  <2>7. \A j \in Keys : userMap'[j] <= Len(heap'[j])
    BY <2>3, <2>5, <2>6
  <2>8. runner'.ptr \in 1..Len(heap'[k])
    BY <2>2, <2>3, <2>5, <2>6
  <2> QED
    BY <2>4, <2>7, <2>8 DEF PointersValid
<1>7. CASE AnnounceWriter
  <2>1. /\ runner.pc = "applied"
        /\ runner'.call = runner.call /\ runner'.side = runner.side /\ runner'.ptr = runner.ptr
        /\ UNCHANGED <<userMap, heap, req>>
    BY <1>7 DEF AnnounceWriter, TypeOK, cacheVars, callVars
  <2> QED
    BY <2>1 DEF PointersValid, SideKey, DebitKey, CreditKey
<1>8. CASE Put
  <2> DEFINE k == SideKey(runner.call, runner.side)
  <2>1. runner.ptr \in 1..Len(heap[k])
    BY <1>8 DEF Put, PointersValid
  <2>2. /\ userMap' = [userMap EXCEPT ![k] = runner.ptr] /\ heap' = heap
        /\ runner'.pc = "emit"
    BY <1>8 DEF Put, TypeOK
  <2> HIDE DEF k
  <2>3. \A j \in Keys : userMap'[j] <= Len(heap'[j])
    <3>1. /\ userMap \in [Keys -> Nat]
          /\ \A j \in Keys : userMap[j] <= Len(heap[j])
          /\ runner.ptr <= Len(heap[k])
      BY <2>1 DEF TypeOK, PointersValid
    <3> QED
      BY <2>2, <3>1
  <2> QED
    BY <2>2, <2>3 DEF PointersValid
<1>9. CASE Emit
  <2>1. runner'.pc \in {"apply", "idle"}
    <3>1. runner \in [pc : RunnerPCs, call : Calls \cup {NoCall}, side : Sides, ptr : Nat]
      BY DEF TypeOK
    <3>2. [runner EXCEPT !.pc = "apply", !.side = "credit", !.ptr = 0].pc = "apply"
      BY <3>1
    <3>3. RunnerIdle.pc = "idle"
      BY DEF RunnerIdle
    <3> QED
      BY <1>9, <3>2, <3>3 DEF Emit
  <2> QED
    BY <1>9, <2>1, FrameKeepsPointers DEF Emit, cacheVars
<1>10. CASE ConnectionLost \/ Broadcast \/ UNCHANGED vars
  BY <1>10, FrameKeepsPointers
     DEF ConnectionLost, Broadcast, RunnerIdle, cacheVars, callVars, vars
<1>11. CASE Crash
  <2>1. \A k \in Keys : userMap'[k] = 0 /\ heap'[k] = <<>>
    BY <1>11 DEF Crash
  <2>2. runner'.pc = "idle"
    BY <1>11 DEF Crash, RunnerIdle
  <2> QED
    BY <2>1, <2>2 DEF PointersValid
<1>12. CASE Restart
  <2>1. \A k \in Keys : \/ userMap'[k] = 1 /\ heap'[k] = <<Balance(k)>>
                        \/ userMap'[k] = 0 /\ heap'[k] = <<>>
    BY <1>12 DEF Restart
  <2>2. ASSUME NEW k \in Keys
        PROVE  userMap'[k] <= Len(heap'[k])
    <3>1. CASE userMap'[k] = 1 /\ heap'[k] = <<Balance(k)>>
      <4>1. Len(heap'[k]) = 1
        BY <3>1
      <4> QED
        BY <3>1, <4>1
    <3>2. CASE userMap'[k] = 0 /\ heap'[k] = <<>>
      BY <3>2
    <3> QED
      BY <2>1, <3>1, <3>2
  <2>3. runner'.pc \notin {"applied", "locking"}
    BY <1>12 DEF Restart, Lifecycle, DeadIsSilent
  <2> QED
    BY <2>2, <2>3 DEF PointersValid
<1> QED
  BY <1>2, <1>3, <1>4, <1>5, <1>6, <1>7, <1>8, <1>9, <1>10, <1>11, <1>12
     DEF Next, Runner, Quiescent

-----------------------------------------------------------------------------
(* The invariant, from the initial states on.                              *)

LEMMA InitCore ==
    ASSUME Init
    PROVE  TypeOK /\ Lifecycle /\ PointersValid /\ LookupsCached
<1>1. \A k \in Keys : Balance(k) \in Int
  BY TransactorAssumption DEF Init, Balance
<1>2. /\ userMap \in [Keys -> Nat] /\ heap \in [Keys -> Seq(Int)]
  BY <1>1 DEF Init
<1>3. (CHOOSE k \in Keys : TRUE) \in Keys
  BY TransactorAssumption
<1>4. TypeOK
  <2>1. /\ queue \in Seq(Calls) /\ Len(queue) <= QueueCap
        /\ feed \in Seq([call : Calls, side : Sides]) /\ Len(feed) <= FeedCap
    BY TransactorAssumption DEF Init
  <2>2. runner \in [pc : RunnerPCs, call : Calls \cup {NoCall}, side : Sides, ptr : Nat]
    BY DEF Init, RunnerIdle, RunnerPCs, Sides
  <2>3. snap \in [Calls -> [keys : SUBSET Keys, bal : [Keys -> Int]]]
    BY DEF Init, NoSnap
  <2>4. /\ pc \in [Calls -> PCs] /\ out \in [Calls -> Outs] /\ key \in [Calls -> Keys]
        /\ todo \in [Calls -> SUBSET Keys] /\ made \in [Calls -> BOOLEAN]
        /\ req \in [Calls -> Requests]
    BY <1>3 DEF Init, PCs, Outs
  <2>5. /\ accounts \in SUBSET Keys /\ debits \in [Keys -> Int] /\ credits \in [Keys -> Int]
        /\ posted \in SUBSET Calls /\ inflight \in SUBSET Calls /\ checked \in SUBSET inflight
        /\ up \in BOOLEAN /\ crashes \in 0..MaxCrashes /\ readers \in SUBSET Calls
    BY TransactorAssumption DEF Init
  <2> QED
    BY <1>2, <2>1, <2>2, <2>3, <2>4, <2>5 DEF TypeOK
<1>5. Lifecycle
  BY DEF Init, Lifecycle, QueuedCallsWait, RunnerServesWaiter, StatementsAccounted,
         AnswersTrue, CheckedRowsRefer, DeadIsSilent, RunnerIdle
<1>6. PointersValid
  <2>1. ASSUME NEW k \in Keys
        PROVE  userMap[k] <= Len(heap[k])
    <3>1. CASE k \in accounts
      <4>1. userMap[k] = 1 /\ heap[k] = <<Balance(k)>>
        BY <3>1 DEF Init
      <4>2. Len(heap[k]) = 1
        BY <4>1
      <4> QED
        BY <4>1, <4>2
    <3>2. CASE k \notin accounts
      BY <3>2 DEF Init
    <3> QED
      BY <3>1, <3>2
  <2> QED
    BY <2>1 DEF Init, RunnerIdle, PointersValid
<1>7. LookupsCached
  BY DEF Init, LookupsCached
<1> QED
  BY <1>4, <1>5, <1>6, <1>7

-----------------------------------------------------------------------------
(* Lookups.                                                                *)

\* A step that drops no cached account and looks nothing more up.
LEMMA FrameKeepsLookups ==
    ASSUME TypeOK, LookupsCached,
           \A k \in Keys : userMap[k] # 0 => userMap'[k] # 0,
           UNCHANGED <<todo, req>>,
           \A c \in Calls : \/ pc'[c] \in {"idle", "done"}
                            \/ pc'[c] = pc[c]
                            \/ pc[c] \notin {"idle", "done"} /\ pc'[c] \notin {"send", "wait"}
    PROVE  LookupsCached'
<1> SUFFICES ASSUME NEW c \in Calls, IsTransfer(req[c]), pc'[c] \notin {"idle", "done"}
             PROVE  /\ \A k \in Lookups(req[c]) \ todo[c] : userMap'[k] # 0
                    /\ pc'[c] \in {"send", "wait"} => todo[c] = {}
  BY DEF LookupsCached, IsTransfer, Lookups, CreditKey, DebitKey
<1>1. pc[c] \notin {"idle", "done"}
  OBVIOUS
<1>2. /\ \A k \in Lookups(req[c]) \ todo[c] : userMap[k] # 0
      /\ pc[c] \in {"send", "wait"} => todo[c] = {}
  BY <1>1 DEF LookupsCached
<1> QED
  BY <1>2, RequestKeys

\* A handler has found the account of k.
LEMMA AdvanceKeepsLookups ==
    ASSUME TypeOK, LookupsCached, NEW c \in Calls, NEW k \in Keys,
           pc[c] \in {"get", "fill"}, Advance(c, k),
           \A j \in Keys : userMap[j] # 0 => userMap'[j] # 0,
           IsTransfer(req[c]) => userMap'[k] # 0,
           UNCHANGED req
    PROVE  LookupsCached'
<1>1. /\ todo' = [todo EXCEPT ![c] = todo[c] \ {k}]
      /\ \A d \in Calls : d # c => pc'[d] = pc[d] /\ todo'[d] = todo[d]
      /\ todo'[c] = todo[c] \ {k}
  BY DEF Advance, Return, TypeOK
<1>2. IsTransfer(req[c]) => pc'[c] = IF todo[c] \ {k} = {} THEN "send" ELSE "get"
  BY DEF Advance, TypeOK
<1> SUFFICES ASSUME NEW d \in Calls, IsTransfer(req[d]), pc'[d] \notin {"idle", "done"}
             PROVE  /\ \A j \in Lookups(req[d]) \ todo'[d] : userMap'[j] # 0
                    /\ pc'[d] \in {"send", "wait"} => todo'[d] = {}
  BY DEF LookupsCached, IsTransfer, Lookups, CreditKey, DebitKey
<1>3. CASE d # c
  BY <1>1, <1>3, RequestKeys DEF LookupsCached
<1>4. CASE d = c
  <2>1. \A j \in Lookups(req[c]) \ todo[c] : userMap[j] # 0
    BY <1>4 DEF LookupsCached
  <2>2. \A j \in Lookups(req[c]) \ todo'[c] : j = k \/ j \in Lookups(req[c]) \ todo[c]
    BY <1>1
  <2> QED
    BY <1>1, <1>2, <1>4, <2>1, <2>2, RequestKeys
<1> QED
  BY <1>3, <1>4

LEMMA LookupsStep ==
    ASSUME TypeOK, Lifecycle, PointersValid, LookupsCached, [Next]_vars
    PROVE  LookupsCached'
<1>1. ASSUME NEW c \in Calls, Start(c)
      PROVE  LookupsCached'
  <2>1. /\ todo'[c] = Lookups(req[c])
        /\ IsTransfer(req[c]) => pc'[c] = "get"
        /\ \A d \in Calls : d # c => pc'[d] = pc[d] /\ todo'[d] = todo[d]
        /\ UNCHANGED <<userMap, req>>
    BY <1>1 DEF Start, TypeOK, IsTransfer, TransferOps, cacheVars
  <2> SUFFICES ASSUME NEW d \in Calls, IsTransfer(req[d]), pc'[d] \notin {"idle", "done"}
               PROVE  /\ \A k \in Lookups(req[d]) \ todo'[d] : userMap'[k] # 0
                      /\ pc'[d] \in {"send", "wait"} => todo'[d] = {}
    BY <2>1 DEF LookupsCached, IsTransfer, Lookups, CreditKey, DebitKey
  <2>2. CASE d = c
    BY <2>1, <2>2
  <2>3. CASE d # c
    BY <2>1, <2>3 DEF LookupsCached
  <2> QED
    BY <2>2, <2>3
<1>2. ASSUME NEW c \in Calls, NEW k \in Keys, GetHit(c, k)
      PROVE  LookupsCached'
  <2>1. /\ pc[c] = "get" /\ Advance(c, k) /\ userMap[k] # 0
        /\ UNCHANGED <<userMap, req>>
    BY <1>2 DEF GetHit, cacheVars
  <2> QED
    BY <2>1, AdvanceKeepsLookups
<1>3. ASSUME NEW c \in Calls, Fill(c)
      PROVE  LookupsCached'
  <2>1. /\ pc[c] = "fill" /\ key[c] \in Keys /\ UNCHANGED req
        /\ \/ userMap'[key[c]] # 0 /\ Advance(c, key[c])
           \/ userMap'[key[c]] = 0 /\ NotFound(c, key[c])
    BY <1>3 DEF Fill, TypeOK
  <2>2. \A k \in Keys : userMap[k] # 0 => userMap'[k] # 0
    <3>1. \A k \in Keys : Len(heap[k]) + 1 # 0
      BY DEF TypeOK
    <3> QED
      BY <1>3, <3>1 DEF Fill
  <2>3. CASE Advance(c, key[c]) /\ (IsTransfer(req[c]) => userMap'[key[c]] # 0)
    BY <2>1, <2>2, <2>3, AdvanceKeepsLookups
  <2>4. CASE NotFound(c, key[c]) /\ Advance(c, key[c]) /\ ~IsTransfer(req[c])
    BY <2>1, <2>2, <2>4, AdvanceKeepsLookups
  <2>5. CASE UNCHANGED todo /\ pc' \in {[pc EXCEPT ![c] = "create"], [pc EXCEPT ![c] = "done"]}
    BY <2>1, <2>2, <2>5, FrameKeepsLookups DEF TypeOK
  <2>6. NotFound(c, key[c]) =>
           \/ Advance(c, key[c]) /\ ~IsTransfer(req[c])
           \/ UNCHANGED todo /\ pc' \in {[pc EXCEPT ![c] = "create"], [pc EXCEPT ![c] = "done"]}
    BY DEF NotFound, Return, IsTransfer, TransferOps
  <2> QED
    BY <2>1, <2>3, <2>4, <2>5, <2>6
<1>4. ASSUME NEW c \in Calls, Handler(c), ~Fill(c), \A k \in Keys : ~GetHit(c, k), ~Enqueue(c)
      PROVE  LookupsCached'
  <2>1. /\ UNCHANGED <<userMap, todo, req>>
        /\ pc[c] \notin {"idle", "done"}
        /\ \E p \in PCs \ {"send", "wait"} : pc' = [pc EXCEPT ![c] = p]
    BY <1>4 DEF Handler, GetMiss, Load, LoadFails, CreateRow, CreateReturns, CreateFails,
                ParseFails, QueueFull, Return, PCs, cacheVars
  <2> QED
    BY <2>1, FrameKeepsLookups DEF TypeOK
<1>5. ASSUME NEW c \in Calls, Enqueue(c)
      PROVE  LookupsCached'
  <2>1. /\ UNCHANGED <<userMap, todo, req>>
        /\ pc[c] = "send" /\ pc'[c] = "wait"
        /\ \A d \in Calls : d # c => pc'[d] = pc[d]
    BY <1>5 DEF Enqueue, TypeOK, cacheVars
  <2> QED
    BY <2>1 DEF LookupsCached, IsTransfer, Lookups, CreditKey, DebitKey
<1>6. ASSUME NEW c \in Calls, CheckRow(c) \/ PostRow(c)
      PROVE  LookupsCached'
  BY <1>6, FrameKeepsLookups DEF CheckRow, PostRow, cacheVars, callVars
<1>7. ASSUME NEW c \in Calls, RejectRow(c)
      PROVE  LookupsCached'
  <2>1. pc' = pc \/ pc' = [pc EXCEPT ![c] = "done"]
    BY <1>7 DEF RejectRow, Return
  <2> QED
    BY <1>7, <2>1, FrameKeepsLookups DEF RejectRow, TypeOK, cacheVars
<1>8. CASE Take
  <2>1. pc' = pc \/ pc' = [pc EXCEPT ![Head(queue)] = "done"]
    BY <1>8 DEF Take, Return
  <2> QED
    BY <1>8, <2>1, FrameKeepsLookups DEF Take, TypeOK, cacheVars
<1>9. CASE Emit \/ ConnectionLost
  <2>1. pc' = pc \/ pc' = [pc EXCEPT ![runner.call] = "done"]
    BY <1>9 DEF Emit, ConnectionLost, Return
  <2> QED
    BY <1>9, <2>1, FrameKeepsLookups DEF Emit, ConnectionLost, TypeOK, cacheVars
<1>10. CASE Put
  <2>1. runner.ptr # 0
    BY <1>10 DEF Put, PointersValid
  <2>2. \A k \in Keys : userMap[k] # 0 => userMap'[k] # 0
    BY <1>10, <2>1 DEF Put, TypeOK
  <2> QED
    BY <1>10, <2>2, FrameKeepsLookups DEF Put, callVars
<1>11. CASE Apply \/ AnnounceWriter \/ Broadcast \/ UNCHANGED vars
  BY <1>11, FrameKeepsLookups
     DEF Apply, AnnounceWriter, Broadcast, vars, cacheVars, callVars
<1>12. CASE Crash
  <2>1. \A c \in Calls : pc'[c] \in {"idle", "done"}
    BY <1>12 DEF Crash
  <2> QED
    BY <2>1 DEF LookupsCached
<1>13. CASE Restart
  <2>1. \A c \in Calls : pc'[c] \in {"idle", "done"}
    BY <1>13 DEF Restart, Lifecycle, DeadIsSilent, callVars
  <2> QED
    BY <2>1 DEF LookupsCached
<1> QED
  BY <1>1, <1>2, <1>3, <1>4, <1>5, <1>6, <1>7, <1>8, <1>9, <1>10, <1>11, <1>12, <1>13
     DEF Next, Handler, Statement, Runner, Quiescent

-----------------------------------------------------------------------------
(* Theorems.                                                               *)

(***************************************************************************)
(* The channels keep their capacities and the life of a call is as told:   *)
(* whatever the interleaving, no call is both queued and running, no       *)
(* caller is told of a success that is not posted or of a refusal that is. *)
(***************************************************************************)
THEOREM Correctness ==
    Spec => [](TypeOK /\ Lifecycle /\ PointersValid /\ LookupsCached)
<1>1. Init => TypeOK /\ Lifecycle /\ PointersValid /\ LookupsCached
  BY InitCore
<1>2. TypeOK /\ Lifecycle /\ PointersValid /\ LookupsCached /\ [Next]_vars
         => (TypeOK /\ Lifecycle /\ PointersValid /\ LookupsCached)'
  BY TypeStep, LifecycleStep, PointersStep, LookupsStep
<1> QED
  BY <1>1, <1>2, PTL DEF Spec

(***************************************************************************)
(* Every variable keeps its type; the runner's queue and the feed keep     *)
(* within their capacities (transactor/transactor.go:41-42).               *)
(***************************************************************************)
THEOREM TypeCorrectness == Spec => []TypeOK
BY Correctness, PTL

(***************************************************************************)
(* The runner never misses: both accounts of a queued or running transfer  *)
(* are cached.                                                             *)
(***************************************************************************)
THEOREM RunnerNeverMisses == Spec => []RunnerFindsAccounts
<1>1. TypeOK /\ LookupsCached => RunnerFindsAccounts
  BY DEF LookupsCached, RunnerFindsAccounts, Lookups
<1> QED
  BY <1>1, Correctness, PTL

-----------------------------------------------------------------------------
(* Funds.                                                                  *)

\* Transfers out of k were answered truly so far.
Undisturbed(k) == \A c \in posted : Orphaned(c) => DebitKey(req[c]) # k

\* An answer stands.
LEMMA OrphansStay ==
    ASSUME TypeOK, Lifecycle, [Next]_vars
    PROVE  /\ \A c \in Calls : Orphaned(c) => Orphaned(c)'
           /\ posted \subseteq posted'
           /\ req' = req
<1>1. ASSUME NEW c \in Calls, Start(c) \/ Handler(c)
      PROVE  /\ UNCHANGED <<posted, req>> /\ \A d \in Calls : Orphaned(d) => Orphaned(d)'
  <2>1. CASE Enqueue(c)
    BY <2>1 DEF Enqueue, Orphaned, dbVars, TypeOK
  <2>2. CASE HandlerButEnqueue(c)
    <3>1. PICK p \in PCs, o \in Outs :
             /\ pc[c] \in Busy
             /\ pc' = [pc EXCEPT ![c] = p]
             /\ out' = [out EXCEPT ![c] = o]
             /\ UNCHANGED <<posted, req>>
      BY <2>2, HandlerMoves DEF Lifecycle, Moves
    <3> QED
      BY <3>1 DEF Orphaned, TypeOK, Busy
  <2> QED
    BY <1>1, <2>1, <2>2 DEF Handler, HandlerButEnqueue
<1>2. ASSUME NEW c \in Calls, Statement(c)
      PROVE  /\ UNCHANGED req /\ posted \subseteq posted'
             /\ \A d \in Calls : Orphaned(d) => Orphaned(d)'
  <2>1. CASE CheckRow(c) \/ PostRow(c)
    BY <2>1 DEF CheckRow, PostRow, Orphaned, callVars
  <2>2. CASE RejectRow(c)
    <3>1. Awaited(c) => pc[c] = "wait"
      BY DEF Lifecycle, RunnerServesWaiter, Awaited
    <3> QED
      BY <2>2, <3>1 DEF RejectRow, Return, Orphaned, TypeOK
  <2> QED
    BY <1>2, <2>1, <2>2 DEF Statement
<1>3. CASE Take
  <2>1. pc[Head(queue)] = "wait"
    BY <1>3, TailFacts DEF Take, TypeOK, Lifecycle, QueuedCallsWait
  <2> QED
    BY <1>3, <2>1 DEF Take, Return, Orphaned, TypeOK
<1>4. CASE Emit \/ ConnectionLost
  <2>1. pc[runner.call] = "wait"
    BY <1>4 DEF Emit, ConnectionLost, Lifecycle, RunnerServesWaiter
  <2> QED
    BY <1>4, <2>1 DEF Emit, ConnectionLost, Return, Orphaned, TypeOK, dbVars
<1>5. CASE Crash
  BY <1>5 DEF Crash, Orphaned, dbVars
<1>6. CASE Apply \/ AnnounceWriter \/ Put \/ Broadcast \/ Restart \/ UNCHANGED vars
  BY <1>6 DEF Apply, AnnounceWriter, Put, Broadcast, Restart, Orphaned, vars, dbVars, callVars
<1> QED
  BY <1>1, <1>2, <1>3, <1>4, <1>5, <1>6 DEF Next, Runner, Quiescent

\* Steps that move no money and start no transfer.
LEMMA FrameKeepsFunds ==
    ASSUME TypeOK, Lifecycle, FundsReserved, [Next]_vars,
           UNCHANGED <<debits, credits>>, checked' \subseteq checked,
           \A c \in checked' : Awaited(c)' => Awaited(c)
    PROVE  FundsReserved'
<1>1. \A k : Undisturbed(k)' => Undisturbed(k)
  BY OrphansStay DEF Undisturbed, DebitKey, TypeOK
<1>2. req' = req
  BY OrphansStay
<1> SUFFICES ASSUME NEW k \in Keys, UserOf(k) # OnChain, Undisturbed(k)'
             PROVE  /\ Balance(k)' >= 0
                    /\ \A c \in checked' : Awaited(c)' /\ DebitKey(req[c]) = k =>
                                           Balance(k)' >= Numeric(req[c].amount)
  BY <1>2 DEF FundsReserved, Undisturbed, DebitKey
<1>3. /\ Balance(k) >= 0
      /\ \A c \in checked : Awaited(c) /\ DebitKey(req[c]) = k =>
                            Balance(k) >= Numeric(req[c].amount)
  BY <1>1 DEF FundsReserved, Undisturbed
<1> QED
  BY <1>3 DEF Balance

LEMMA PostRowKeepsFunds ==
    ASSUME TypeOK, Lifecycle, FundsReserved, AmountsNotNegative,
           NEW c \in Calls, PostRow(c)
    PROVE  FundsReserved'
<1> DEFINE d == DebitKey(req[c])
           e == CreditKey(req[c])
           n == Numeric(req[c].amount)
<1>1. PostRow(c) => [Next]_vars
  BY DEF Next, Statement
<1>2. \A k : Undisturbed(k)' => Undisturbed(k)
  BY <1>1, OrphansStay DEF Undisturbed, DebitKey, TypeOK
<1>3. /\ c \in inflight /\ c \in checked /\ posted' = posted \cup {c} /\ checked' = checked \ {c}
      /\ UNCHANGED <<pc, out, req>>
  BY DEF PostRow, TypeOK, callVars
<1>4. d # e /\ req[c].amount \in Int /\ (Awaited(c) \/ Orphaned(c))
  BY <1>3 DEF Lifecycle, StatementsAccounted
<1>5. n \in Int /\ n >= 0
  BY <1>4, NumericType, TransactorAssumption DEF AmountsNotNegative, TypeOK
<1>6. d \in Keys /\ e \in Keys
  BY RequestKeys
<1>7. \A k \in Keys : Balance(k)' = IF k = d THEN Balance(k) - n
                                    ELSE IF k = e THEN Balance(k) + n ELSE Balance(k)
  <2>1. debits' = [debits EXCEPT ![d] = debits[d] + n]
    BY DEF PostRow, DebitsAfter, TxOf
  <2>2. credits' = [credits EXCEPT ![e] = credits[e] + n]
    BY DEF PostRow, CreditsAfter, TxOf
  <2>3. debits \in [Keys -> Int] /\ credits \in [Keys -> Int]
    BY DEF TypeOK
  <2> HIDE DEF d, e, n
  <2>4. \A k \in Keys : /\ debits'[k] = IF k = d THEN debits[k] + n ELSE debits[k]
                        /\ credits'[k] = IF k = e THEN credits[k] + n ELSE credits[k]
                        /\ debits[k] \in Int /\ credits[k] \in Int
    BY <1>6, <2>1, <2>2, <2>3
  <2> QED
    BY <1>4, <1>5, <2>4 DEF Balance
<1>8. \A k \in Keys : Balance(k) \in Int
  BY DEF Balance, TypeOK
<1> SUFFICES ASSUME NEW k \in Keys, UserOf(k) # OnChain, Undisturbed(k)'
             PROVE  /\ Balance(k)' >= 0
                    /\ \A b \in checked' : Awaited(b)' /\ DebitKey(req[b]) = k =>
                                           Balance(k)' >= Numeric(req[b].amount)
  BY <1>3 DEF FundsReserved, Undisturbed, DebitKey
<1>9. /\ Balance(k) >= 0
      /\ \A b \in checked : Awaited(b) /\ DebitKey(req[b]) = k =>
                            Balance(k) >= Numeric(req[b].amount)
  BY <1>2 DEF FundsReserved, Undisturbed
<1>10. CASE Awaited(c)
  <2>1. \A b \in checked' : ~Awaited(b)'
    BY <1>10 DEF PostRow, Awaited, TypeOK
  <2>2. d = k => Balance(k) >= n
    BY <1>3, <1>9, <1>10
  <2> HIDE DEF d, e, n
  <2>3. Balance(k)' >= 0
    BY <1>5, <1>7, <1>8, <1>9, <2>2
  <2> QED
    BY <2>1, <2>3
<1>11. CASE Orphaned(c)
  <2>1. ~Awaited(c)
    BY <1>11 DEF Awaited, Orphaned, Lifecycle, RunnerServesWaiter
  <2>2. \A b : Awaited(b)' => Awaited(b)
    BY <2>1 DEF PostRow, Awaited
  <2>3. d # k
    BY <1>3, <1>11 DEF Undisturbed, Orphaned, DebitKey
  <2>4. Balance(k)' >= Balance(k)
    <3> HIDE DEF d, e, n
    <3> QED
      BY <1>5, <1>7, <1>8, <2>3
  <2>5. ASSUME NEW b \in checked', Awaited(b)', DebitKey(req[b]) = k
        PROVE  Balance(k)' >= Numeric(req[b].amount)
    <3>1. b \in inflight /\ b \in checked
      BY <1>3, <2>5 DEF TypeOK
    <3>2. Numeric(req[b].amount) \in Int
      BY <3>1, NumericType DEF Lifecycle, StatementsAccounted
    <3>3. Balance(k) >= Numeric(req[b].amount)
      BY <1>9, <2>2, <2>5, <3>1
    <3>4. Balance(k)' \in Int
      <4> HIDE DEF d, e, n
      <4> QED
        BY <1>5, <1>7, <1>8
    <3> QED
      BY <1>8, <2>4, <3>2, <3>3, <3>4
  <2>6. Balance(k)' >= 0
    <3>1. Balance(k)' \in Int
      <4> HIDE DEF d, e, n
      <4> QED
        BY <1>5, <1>7, <1>8
    <3> QED
      BY <1>8, <1>9, <2>4, <3>1
  <2> QED
    BY <2>5, <2>6
<1> QED
  BY <1>4, <1>10, <1>11

LEMMA CheckRowKeepsFunds ==
    ASSUME TypeOK, Lifecycle, FundsReserved, NEW c \in Calls, CheckRow(c)
    PROVE  FundsReserved'
<1>1. /\ c \in inflight /\ checked' = checked \cup {c}
      /\ UNCHANGED <<debits, credits, posted, runner, pc, out, req>>
      /\ UserOf(DebitKey(req[c])) # OnChain =>
           credits[DebitKey(req[c])] - debits[DebitKey(req[c])] - Numeric(req[c].amount) >= 0
  BY DEF CheckRow, TriggerAllows, TxOf, callVars
<1>2. /\ \A k \in Keys : Balance(k) \in Int
      /\ Numeric(req[c].amount) \in Int
  <2>1. req[c].amount \in Int
    BY <1>1 DEF Lifecycle, StatementsAccounted
  <2>2. \A k \in Keys : Balance(k) \in Int
    BY DEF Balance, TypeOK
  <2> QED
    BY <2>1, <2>2, NumericType
<1> SUFFICES ASSUME NEW k \in Keys, UserOf(k) # OnChain, Undisturbed(k)
             PROVE  /\ Balance(k) >= 0
                    /\ \A b \in checked' : Awaited(b) /\ DebitKey(req[b]) = k =>
                                           Balance(k) >= Numeric(req[b].amount)
  BY <1>1 DEF FundsReserved, Undisturbed, DebitKey, Balance, Awaited, Orphaned
<1>3. /\ Balance(k) >= 0
      /\ \A b \in checked : Awaited(b) /\ DebitKey(req[b]) = k =>
                            Balance(k) >= Numeric(req[b].amount)
  BY DEF FundsReserved, Undisturbed
<1>4. DebitKey(req[c]) = k => Balance(k) >= Numeric(req[c].amount)
  <2>1. DebitKey(req[c]) = k => Balance(k) - Numeric(req[c].amount) >= 0
    BY <1>1 DEF Balance
  <2> QED
    BY <1>2, <2>1
<1> QED
  BY <1>1, <1>3, <1>4

LEMMA FundsStep ==
    ASSUME TypeOK, Lifecycle, FundsReserved, AmountsNotNegative, [Next]_vars
    PROVE  FundsReserved'
<1>1. ASSUME NEW c \in Calls, Start(c) \/ Handler(c)
      PROVE  UNCHANGED <<debits, credits, checked, runner>>
  BY <1>1 DEF Handler, Start, GetHit, GetMiss, Load, LoadFails, Fill, CreateRow,
              CreateReturns, CreateFails, ParseFails, Enqueue, QueueFull, dbVars
<1>2. ASSUME NEW c \in Calls, PostRow(c)
      PROVE  FundsReserved'
  BY <1>2, PostRowKeepsFunds
<1>3. ASSUME NEW c \in Calls, CheckRow(c)
      PROVE  FundsReserved'
  BY <1>3, CheckRowKeepsFunds
<1>4. ASSUME NEW c \in Calls, RejectRow(c)
      PROVE  FundsReserved'
  <2>1. /\ UNCHANGED <<debits, credits>> /\ checked' \subseteq checked
        /\ runner' = runner \/ runner' = RunnerIdle
    BY <1>4 DEF RejectRow
  <2> QED
    BY <2>1, FrameKeepsFunds DEF Awaited, RunnerIdle
<1>5. CASE Take
  <2>1. /\ UNCHANGED <<debits, credits, checked>>
        /\ runner'.pc # "insert" \/ runner'.call = Head(queue)
    BY <1>5 DEF Take, RunnerIdle
  <2>2. Head(queue) \notin inflight
    <3>1. Head(queue) = queue[1] /\ 1 \in 1..Len(queue)
      BY <1>5, TailFacts DEF Take, TypeOK
    <3> QED
      BY <3>1 DEF Lifecycle, QueuedCallsWait
  <2>3. \A c \in checked' : ~Awaited(c)'
    BY <2>1, <2>2 DEF Awaited, TypeOK
  <2> QED
    BY <2>1, <2>3, FrameKeepsFunds
<1>6. CASE Apply \/ AnnounceWriter \/ Put \/ Emit \/ ConnectionLost \/ Crash
  <2>1. runner \in [pc : RunnerPCs, call : Calls \cup {NoCall}, side : Sides, ptr : Nat]
    BY DEF TypeOK
  <2>2. runner'.pc # "insert"
    <3>1. RunnerIdle.pc = "idle"
      BY DEF RunnerIdle
    <3>2. CASE Apply
      BY <2>1, <3>2 DEF Apply
    <3>3. CASE AnnounceWriter
      BY <2>1, <3>3 DEF AnnounceWriter
    <3>4. CASE Put
      BY <2>1, <3>4 DEF Put
    <3>5. CASE Emit
      <4>1. [runner EXCEPT !.pc = "apply", !.side = "credit", !.ptr = 0].pc = "apply"
        BY <2>1
      <4> QED
        BY <3>1, <3>5, <4>1 DEF Emit
    <3>6. CASE ConnectionLost \/ Crash
      BY <3>1, <3>6 DEF ConnectionLost, Crash
    <3> QED
      BY <1>6, <3>2, <3>3, <3>4, <3>5, <3>6
  <2>3. UNCHANGED <<debits, credits, checked>>
    BY <1>6 DEF Apply, AnnounceWriter, Put, Emit, ConnectionLost, Crash, dbVars
  <2> QED
    BY <2>2, <2>3, FrameKeepsFunds DEF Awaited
<1>7. CASE Broadcast \/ Restart \/ UNCHANGED vars
  BY <1>7, FrameKeepsFunds DEF Broadcast, Restart, Awaited, vars, dbVars
<1>8. ASSUME NEW c \in Calls, Start(c) \/ Handler(c)
      PROVE  FundsReserved'
  BY <1>1, <1>8, FrameKeepsFunds DEF Awaited
<1> QED
  BY <1>2, <1>3, <1>4, <1>5, <1>6, <1>7, <1>8 DEF Next, Statement, Runner, Quiescent

(***************************************************************************)
(* When no request carries a negative amount, an account other than the    *)
(* on chain user's is in debt only after a transfer out of it was posted   *)
(* whose caller was told of a failure.                                     *)
(***************************************************************************)
THEOREM OverdraftExplained ==
    ASSUME AmountsNotNegative
    PROVE  Spec => []OverdraftNeedsOrphan
<1>1. Init => FundsReserved
  BY TransactorAssumption DEF Init, FundsReserved, Balance
<1>2. TypeOK /\ Lifecycle /\ FundsReserved /\ [Next]_vars => FundsReserved'
  BY FundsStep
<1>3. TypeOK /\ FundsReserved => OverdraftNeedsOrphan
  <2>1. TypeOK => \A k \in Keys : Balance(k) \in Int
    BY DEF TypeOK, Balance
  <2>2. TypeOK => \A k \in Keys : Balance(k) >= 0 => ~(Balance(k) < 0)
    BY <2>1
  <2> QED
    BY <2>2 DEF FundsReserved, OverdraftNeedsOrphan
<1> QED
  BY <1>1, <1>2, <1>3, Correctness, PTL DEF Spec

-----------------------------------------------------------------------------
(* Close.                                                                  *)

IsClose(c) == req[c].op = "Close"

\* A Close gets no account, and its success stops the runner of its process.
ClosesOnce ==
    \A c \in Calls : IsClose(c) =>
        /\ pc[c] \in {"idle", "send", "wait", "done"}
        /\ crashes = 0 /\ out[c] = "ok" => runner.pc = "stopped"

LEMMA HandlerKeepsCloses ==
    ASSUME TypeOK, Lifecycle, ClosesOnce, NEW c \in Calls, HandlerButEnqueue(c)
    PROVE  ClosesOnce'
<1>1. Moves(c)
  BY HandlerMoves DEF Lifecycle
<1>2. UNCHANGED <<crashes, runner, req>> /\ \A d \in Calls : d # c => pc'[d] = pc[d] /\ out'[d] = out[d]
  BY <1>1 DEF Moves, procVars
<1>3. CASE ~IsClose(c)
  BY <1>2, <1>3 DEF ClosesOnce, IsClose
<1>4. CASE IsClose(c)
  <2>1. pc[c] \in {"idle", "send", "wait", "done"} /\ ~IsTransfer(req[c])
    BY <1>4 DEF ClosesOnce, IsClose, IsTransfer, TransferOps
  <2>2. Start(c) \/ QueueFull(c)
    BY <2>1 DEF HandlerButEnqueue, GetHit, GetMiss, Load, LoadFails, Fill, CreateRow,
                CreateReturns, CreateFails, ParseFails
  <2>3. pc'[c] \in {"send", "done"} /\ (out'[c] = out[c] \/ out'[c] = "full")
    BY <1>4, <2>2 DEF Start, QueueFull, Return, IsClose, TypeOK
  <2> QED
    BY <1>2, <1>4, <2>3 DEF ClosesOnce, IsClose
<1> QED
  BY <1>3, <1>4

\* Answers of the runner other than Close's own go to transfers.
LEMMA RunnerKeepsCloses ==
    ASSUME TypeOK, ClosesOnce, UNCHANGED <<crashes, req>>,
           NEW d \in Calls, ~IsClose(d), runner.pc # "stopped",
           \A c \in Calls : c # d => pc'[c] = pc[c] /\ out'[c] = out[c]
    PROVE  ClosesOnce'
BY DEF ClosesOnce, IsClose

LEMMA FrameKeepsCloses ==
    ASSUME ClosesOnce, UNCHANGED <<pc, out, crashes, req>>,
           runner.pc = "stopped" => runner'.pc = "stopped"
    PROVE  ClosesOnce'
BY DEF ClosesOnce, IsClose

LEMMA ClosesStep == TypeOK /\ Lifecycle /\ ClosesOnce /\ [Next]_vars => ClosesOnce'
<1> SUFFICES ASSUME TypeOK, Lifecycle, ClosesOnce, [Next]_vars PROVE ClosesOnce'
  OBVIOUS
<1>0. \A d \in Calls : runner.pc \notin {"idle", "stopped"} /\ runner.call = d => ~IsClose(d)
  BY DEF Lifecycle, RunnerServesWaiter, IsTransfer, TransferOps, IsClose
<1>c. runner.pc \notin {"idle", "stopped"} => runner.call \in Calls
  BY DEF Lifecycle, RunnerServesWaiter, Settling, TypeOK
<1>1. ASSUME NEW c \in Calls, HandlerButEnqueue(c) PROVE ClosesOnce'
  BY <1>1, HandlerKeepsCloses
<1>2. ASSUME NEW c \in Calls, Enqueue(c) PROVE ClosesOnce'
  BY <1>2 DEF Enqueue, ClosesOnce, IsClose, TypeOK, procVars
<1>3. CASE Take
  <2> DEFINE c == Head(queue)
  <2>1. c \in Calls
    BY <1>3, TailFacts DEF Take, TypeOK
  <2>2. runner.pc = "idle" /\ UNCHANGED <<crashes, req>>
    BY <1>3 DEF Take, procVars
  <2>3. CASE IsTransfer(req[c])
    <3>1. UNCHANGED <<pc, out>>
      BY <1>3, <2>3 DEF Take
    <3> QED
      BY <2>2, <3>1, FrameKeepsCloses
  <2>4. CASE ~IsTransfer(req[c])
    <3>1. runner'.pc = "stopped"
      BY <1>3, <2>4 DEF Take, RunnerIdle
    <3>2. \A d \in Calls : pc'[d] = pc[d] \/ pc'[d] = "done"
      BY <1>3, <2>1, <2>4 DEF Take, Return, TypeOK
    <3> QED
      BY <2>2, <3>1, <3>2 DEF ClosesOnce, IsClose
  <2> QED
    BY <2>3, <2>4
<1>4. ASSUME NEW c \in Calls, CheckRow(c) \/ PostRow(c) PROVE ClosesOnce'
  <2>1. UNCHANGED <<pc, out, crashes, req>> /\ (runner.pc = "stopped" => runner'.pc = "stopped")
    BY <1>4 DEF CheckRow, PostRow, Awaited, callVars, procVars
  <2> QED
    BY <2>1, FrameKeepsCloses
<1>5. ASSUME NEW c \in Calls, RejectRow(c) PROVE ClosesOnce'
  <2>1. UNCHANGED <<crashes, req>>
    BY <1>5 DEF RejectRow, procVars
  <2>2. CASE Awaited(c)
    <3>1. ~IsClose(c) /\ runner.pc = "insert"
      BY <1>0, <2>2 DEF Awaited
    <3>2. \A d \in Calls : d # c => pc'[d] = pc[d] /\ out'[d] = out[d]
      BY <1>5, <2>2 DEF RejectRow, Return, TypeOK
    <3> QED
      BY <2>1, <3>1, <3>2, RunnerKeepsCloses
  <2>3. CASE ~Awaited(c)
    <3>1. UNCHANGED <<pc, out, runner>>
      BY <1>5, <2>3 DEF RejectRow
    <3> QED
      BY <2>1, <3>1, FrameKeepsCloses
  <2> QED
    BY <2>2, <2>3
<1>6. CASE ConnectionLost
  <2>1. runner.pc = "insert" /\ UNCHANGED <<crashes, req>>
    BY <1>6 DEF ConnectionLost, procVars
  <2>2. \A d \in Calls : d # runner.call => pc'[d] = pc[d] /\ out'[d] = out[d]
    BY <1>6 DEF ConnectionLost, Return, TypeOK
  <2> QED
    BY <1>0, <1>c, <2>1, <2>2, RunnerKeepsCloses
<1>7. CASE Apply \/ AnnounceWriter \/ Put
  <2>1. UNCHANGED <<pc, out, crashes, req>> /\ runner.pc # "stopped"
    BY <1>7 DEF Apply, AnnounceWriter, Put, callVars, procVars
  <2> QED
    BY <2>1, FrameKeepsCloses
<1>8. CASE Emit
  <2>1. runner.pc = "emit" /\ UNCHANGED <<crashes, req>>
    BY <1>8 DEF Emit, procVars
  <2>2. \A d \in Calls : d # runner.call => pc'[d] = pc[d] /\ out'[d] = out[d]
    BY <1>8 DEF Emit, Return, TypeOK
  <2> QED
    BY <1>0, <1>c, <2>1, <2>2, RunnerKeepsCloses
<1>9. CASE Crash
  <2>1. crashes' # 0 /\ UNCHANGED req /\ \A d \in Calls : pc'[d] = pc[d] \/ pc'[d] = "done"
    BY <1>9 DEF Crash, TypeOK
  <2> QED
    BY <2>1 DEF ClosesOnce, IsClose
<1>10. CASE Broadcast \/ Restart \/ UNCHANGED vars
  <2>1. UNCHANGED <<pc, out, crashes, req, runner>>
    BY <1>10 DEF Broadcast, Restart, vars, callVars, procVars
  <2> QED
    BY <2>1, FrameKeepsCloses
<1> QED
  BY <1>1, <1>2, <1>3, <1>4, <1>5, <1>6, <1>7, <1>8, <1>9, <1>10
     DEF Next, Handler, HandlerButEnqueue, Statement, Runner, Quiescent

(***************************************************************************)
(* After Close has reported success the runner of its process serves       *)
(* nobody: a statement still in the database belongs to a caller that was  *)
(* told of a failure (transactor/transactions.go:147-185).                 *)
(***************************************************************************)
THEOREM CloseLeavesNobody == Spec => []ClosedMeansQuiet
<1>1. Init => ClosesOnce
  BY DEF Init, ClosesOnce, IsClose
<1>2. TypeOK /\ Lifecycle /\ ClosesOnce /\ [Next]_vars => ClosesOnce'
  BY ClosesStep
<1>3. TypeOK /\ Lifecycle /\ ClosesOnce => ClosedMeansQuiet
  BY DEF TypeOK, Lifecycle, StatementsAccounted, Orphaned, Awaited, ClosesOnce, IsClose, ClosedMeansQuiet
<1> QED
  BY <1>1, <1>2, <1>3, Correctness, PTL DEF Spec
-----------------------------------------------------------------------------
(* Nobody is forgotten.                                                    *)

Queued(c) == \E i \in 1..Len(queue) : queue[i] = c

WaitersServed == \A c \in Calls : pc[c] = "wait" => runner.call = c \/ Queued(c)

ReadersBusy == \A c \in readers : pc[c] \in {"load", "fill"}

\* A handler that moves holds the read lock from its miss to the end of getAndSet.
LEMMA HandlerKeepsReaders ==
    ASSUME TypeOK, Lifecycle, ReadersBusy, NEW c \in Calls, HandlerButEnqueue(c)
    PROVE  ReadersBusy'
<1>1. \A d \in Calls : d # c => pc'[d] = pc[d]
  <2>1. Moves(c)
    BY HandlerMoves DEF Lifecycle
  <2> QED
    BY <2>1 DEF Moves
<1>2. readers \subseteq Calls
  BY DEF TypeOK
<1>3. CASE \E k \in Keys : GetMiss(c, k)
  BY <1>1, <1>2, <1>3 DEF GetMiss, ReadersBusy, TypeOK
<1>4. CASE Load(c)
  BY <1>1, <1>2, <1>4 DEF Load, ReadersBusy, TypeOK, cacheVars
<1>5. CASE LoadFails(c) \/ Fill(c)
  BY <1>1, <1>2, <1>5 DEF LoadFails, Fill, ReadersBusy
<1>6. CASE \/ Start(c) \/ (\E k \in Keys : GetHit(c, k)) \/ CreateRow(c) \/ CreateReturns(c)
           \/ CreateFails(c) \/ ParseFails(c) \/ QueueFull(c)
  <2>1. pc[c] \notin {"load", "fill"} /\ readers' = readers
    BY <1>6 DEF Start, GetHit, CreateRow, CreateReturns, CreateFails, ParseFails, QueueFull, cacheVars
  <2> QED
    BY <1>1, <1>2, <2>1 DEF ReadersBusy
<1> QED
  BY <1>3, <1>4, <1>5, <1>6 DEF HandlerButEnqueue

\* Steps that leave the read lock alone, and every handler that holds it.
LEMMA FrameKeepsReaders ==
    ASSUME TypeOK, ReadersBusy, readers' = readers,
           \A d \in Calls : pc[d] # "wait" => pc'[d] = pc[d]
    PROVE  ReadersBusy'
BY DEF ReadersBusy, TypeOK

\* Steps after which a caller waits only for a closure it waited for before.
LEMMA FrameKeepsWaiters ==
    ASSUME WaitersServed, queue' = queue,
           \A d \in Calls : pc'[d] = "wait" => pc[d] = "wait" /\ (runner.call = d => runner'.call = d)
    PROVE  WaitersServed'
BY DEF WaitersServed, Queued

LEMMA NobodyForgottenStep ==
    TypeOK /\ Lifecycle /\ WaitersServed /\ ReadersBusy /\ [Next]_vars
      => WaitersServed' /\ ReadersBusy'
<1> SUFFICES ASSUME TypeOK, Lifecycle, WaitersServed, ReadersBusy, [Next]_vars
             PROVE  WaitersServed' /\ ReadersBusy'
  OBVIOUS
<1>0. /\ runner.pc \in {"idle", "stopped"} => runner.call = NoCall
      /\ runner.pc \notin {"idle", "stopped"} => runner.call \in Calls /\ pc[runner.call] = "wait"
      /\ NoCall \notin Calls
  BY TransactorAssumption DEF Lifecycle, RunnerServesWaiter, Settling, TypeOK
<1>1. ASSUME NEW c \in Calls, HandlerButEnqueue(c) PROVE WaitersServed' /\ ReadersBusy'
  <2>1. /\ UNCHANGED <<queue, runner>> /\ pc'[c] # "wait"
        /\ \A d \in Calls : d # c => pc'[d] = pc[d]
    BY <1>1, HandlerMoves DEF Lifecycle, Moves, TypeOK
  <2> QED
    BY <1>1, <2>1, HandlerKeepsReaders, FrameKeepsWaiters
<1>2. ASSUME NEW c \in Calls, Enqueue(c) PROVE WaitersServed' /\ ReadersBusy'
  <2>1. /\ queue' = Append(queue, c) /\ UNCHANGED <<runner, readers>> /\ pc[c] = "send"
        /\ pc'[c] = "wait" /\ \A d \in Calls : d # c => pc'[d] = pc[d]
    BY <1>2 DEF Enqueue, TypeOK, cacheVars
  <2>2. Queued(c)' /\ \A d \in Calls : Queued(d) => Queued(d)'
    <3>1. /\ Len(queue') = Len(queue) + 1 /\ queue'[Len(queue) + 1] = c /\ Len(queue) \in Nat
          /\ \A i \in 1..Len(queue) : queue'[i] = queue[i]
      BY <2>1, AppendFacts DEF TypeOK
    <3> QED
      BY <3>1 DEF Queued
  <2>3. WaitersServed'
    BY <2>1, <2>2 DEF WaitersServed
  <2>4. ReadersBusy'
    BY <2>1 DEF ReadersBusy, TypeOK
  <2> QED
    BY <2>3, <2>4
<1>3. CASE Take
  <2> DEFINE c == Head(queue)
  <2>1. /\ queue # <<>> /\ queue' = Tail(queue) /\ readers' = readers
        /\ runner.pc = "idle"
    BY <1>3 DEF Take, cacheVars
  <2>2. c \in Calls /\ pc[c] = "wait"
    BY <2>1, TailFacts DEF TypeOK, Lifecycle, QueuedCallsWait
  <2>3. /\ \A d \in Calls : d # c => pc'[d] = pc[d]
        /\ runner'.call = c \/ pc'[c] = "done"
    BY <1>3, <2>2 DEF Take, Return, RunnerIdle, TypeOK
  <2>4. ASSUME NEW d \in Calls, d # c, Queued(d) PROVE Queued(d)'
    <3>1. PICK i \in 1..Len(queue) : queue[i] = d
      BY <2>4 DEF Queued
    <3>2. i # 1
      BY <2>1, <2>4, <3>1, TailFacts DEF TypeOK
    <3>3. i - 1 \in 1..Len(Tail(queue)) /\ (i - 1) + 1 = i
      BY <2>1, <3>2, TailFacts DEF TypeOK
    <3>4. Tail(queue)[i - 1] = d
      BY <2>1, <3>1, <3>3, TailFacts DEF TypeOK
    <3> QED
      BY <2>1, <3>3, <3>4 DEF Queued
  <2>5. WaitersServed'
    BY <1>0, <2>1, <2>3, <2>4 DEF WaitersServed
  <2>6. ReadersBusy'
    BY <2>1, <2>2, <2>3, FrameKeepsReaders
  <2> QED
    BY <2>5, <2>6
<1>4. ASSUME NEW c \in Calls, CheckRow(c) \/ PostRow(c) PROVE WaitersServed' /\ ReadersBusy'
  <2>1. UNCHANGED <<pc, queue, readers>> /\ runner'.call = runner.call
    BY <1>4 DEF CheckRow, PostRow, callVars, cacheVars, TypeOK
  <2> QED
    BY <2>1, FrameKeepsWaiters, FrameKeepsReaders
<1>5. ASSUME NEW c \in Calls, RejectRow(c) PROVE WaitersServed' /\ ReadersBusy'
  <2>1. UNCHANGED <<queue, readers>>
    BY <1>5 DEF RejectRow, cacheVars
  <2>2. CASE Awaited(c)
    <3>1. /\ runner.call = c /\ pc[c] = "wait" /\ pc'[c] = "done"
          /\ \A d \in Calls : d # c => pc'[d] = pc[d]
      BY <1>0, <1>5, <2>2 DEF RejectRow, Return, Awaited, TypeOK
    <3> QED
      BY <2>1, <3>1, FrameKeepsWaiters, FrameKeepsReaders
  <2>3. CASE ~Awaited(c)
    <3>1. UNCHANGED <<pc, runner>>
      BY <1>5, <2>3 DEF RejectRow
    <3> QED
      BY <2>1, <3>1, FrameKeepsWaiters, FrameKeepsReaders
  <2> QED
    BY <2>2, <2>3
<1>6. CASE ConnectionLost
  <2>1. /\ UNCHANGED <<queue, readers>> /\ runner.call \in Calls
        /\ pc[runner.call] = "wait" /\ pc'[runner.call] = "done"
        /\ \A d \in Calls : d # runner.call => pc'[d] = pc[d]
    BY <1>0, <1>6 DEF ConnectionLost, Return, TypeOK, cacheVars
  <2> QED
    BY <2>1, FrameKeepsWaiters, FrameKeepsReaders
<1>7. CASE Apply \/ AnnounceWriter \/ Put
  <2>1. UNCHANGED <<pc, queue, readers>> /\ runner'.call = runner.call
    BY <1>7 DEF Apply, AnnounceWriter, Put, callVars, cacheVars, TypeOK
  <2> QED
    BY <2>1, FrameKeepsWaiters, FrameKeepsReaders
<1>8. CASE Emit
  <2>1. UNCHANGED <<queue, readers>> /\ runner.call \in Calls /\ pc[runner.call] = "wait"
    BY <1>0, <1>8 DEF Emit, cacheVars
  <2>2. /\ \A d \in Calls : d # runner.call => pc'[d] = pc[d]
        /\ pc'[runner.call] = "done" \/ (pc' = pc /\ runner'.call = runner.call)
    BY <1>8, <2>1 DEF Emit, Return, TypeOK
  <2> QED
    BY <2>1, <2>2, FrameKeepsWaiters, FrameKeepsReaders
<1>9. CASE Crash
  <2>1. readers' = {} /\ \A d \in Calls : pc'[d] # "wait"
    BY <1>9 DEF Crash
  <2> QED
    BY <2>1 DEF WaitersServed, ReadersBusy
<1>10. CASE Broadcast \/ Restart \/ UNCHANGED vars
  <2>1. UNCHANGED <<pc, queue, readers, runner>>
    BY <1>10 DEF Broadcast, Restart, vars, callVars, cacheVars
  <2> QED
    BY <2>1, FrameKeepsWaiters, FrameKeepsReaders
<1> QED
  BY <1>1, <1>2, <1>3, <1>4, <1>5, <1>6, <1>7, <1>8, <1>9, <1>10
     DEF Next, Handler, HandlerButEnqueue, Statement, Runner, Quiescent

(***************************************************************************)
(* What CallsAnswered rests on, for any number of calls, queue lengths and *)
(* deaths: every path of the closure reaches wg.Done or leaves the closure *)
(* where the runner has it, and no path through get leaves its read lock   *)
(* behind (transactor/transactions.go:106-178, account_controller.go:74).  *)
(***************************************************************************)
THEOREM NobodyWaitsInVain == Spec => []NobodyForgotten
<1>1. Init => WaitersServed /\ ReadersBusy
  BY DEF Init, WaitersServed, ReadersBusy
<1>2. TypeOK /\ Lifecycle /\ WaitersServed /\ ReadersBusy /\ [Next]_vars
        => WaitersServed' /\ ReadersBusy'
  BY NobodyForgottenStep
<1>3. WaitersServed /\ ReadersBusy => NobodyForgotten
  BY DEF WaitersServed, ReadersBusy, Queued, NobodyForgotten
<1> QED
  BY <1>1, <1>2, <1>3, Correctness, PTL DEF Spec
=============================================================================
