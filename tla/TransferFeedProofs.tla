-------------------------- MODULE TransferFeedProofs --------------------------
(***************************************************************************)
(* What TLAPS proves of TransferFeed, for every value of its constants.    *)
(***************************************************************************)
EXTENDS TransferFeed, SequenceTheorems, FiniteSetTheorems, TLAPS

Receipts(n) == [number : 1..n, balance : Balances \cup {Torn}]

-----------------------------------------------------------------------------
(* Types.                                                                  *)

LEMMA AppendFacts ==
    ASSUME NEW S, NEW s \in Seq(S), NEW e \in S
    PROVE  /\ Append(s, e) \in Seq(S)
           /\ Len(Append(s, e)) = Len(s) + 1
           /\ Append(s, e)[Len(s) + 1] = e
           /\ \A i \in 1..Len(s) : Append(s, e)[i] = s[i] /\ s[i] \in S
           /\ \A i \in 1..Len(Append(s, e)) : i = Len(s) + 1 \/ i \in 1..Len(s)
<1>1. Len(s) \in Nat
  OBVIOUS
<1>2. Append(s, e) \in Seq(S) /\ Len(Append(s, e)) = Len(s) + 1
  OBVIOUS
<1>3. \A i \in 1..(Len(s) + 1) : i = Len(s) + 1 \/ i \in 1..Len(s)
  BY <1>1
<1> QED
  BY <1>1, <1>2, <1>3

LEMMA IdleTyped ==
    ASSUME NEW n \in Nat
    PROVE  SenderIdle \in [pc     : {"idle", "range", "delete"}, number : 0..n,
                           left   : SUBSET Ids, batch  : SUBSET (Ids \X Streams), key    : Ids]
BY FeedAssumption DEF SenderIdle

LEMMA InitTypes == Init => TypeOK
<1> SUFFICES ASSUME Init PROVE TypeOK
  OBVIOUS
<1>1. Len(events) = 0 /\ events \in Seq(Events) /\ feed \in Seq(1..Len(events)) /\ Len(feed) = 0
  BY EmptySeq DEF Init
<1>2. sender \in [pc : {"idle", "range", "delete"}, number : 0..Len(events),
                  left : SUBSET Ids, batch : SUBSET (Ids \X Streams), key : Ids]
  BY <1>1, IdleTyped DEF Init
<1>3. got \in [Streams -> Seq(Receipts(Len(events)))]
  BY EmptySeq DEF Init
<1>4. /\ rows \in 0..MaxRows /\ todo \in Seq(Sides)
    BY EmptySeq, FeedAssumption DEF Init
<1>5. /\ objects \in [Accounts -> Seq(Balances)]
      /\ \A a \in Accounts : cached[a] \in 1..Len(objects[a])
      /\ cached \in [Accounts -> Nat]
  <2> DEFINE b == [rows |-> 0, applied |-> {}]
  <2>1. b \in Balances
    BY DEF Balances
  <2>2. <<b>> \in Seq(Balances) /\ Len(<<b>>) = 1
    BY <2>1
  <2> HIDE DEF b
  <2>3. objects = [a \in Accounts |-> <<b>>] /\ cached = [a \in Accounts |-> 1]
    BY DEF Init, b
  <2> QED
    BY <2>2, <2>3
<1>6. lookup \in [Lookups -> [pc : {"idle", "read"}, account : Accounts, rows : Nat]]
  BY FeedAssumption DEF Init, NotReading
<1>7. /\ clients \in [Ids -> Streams \cup {NoStream}]
      /\ newest \in [Ids -> Streams \cup {NoStream}]
      /\ stream \in [Streams -> {"new", "open", "cancelled", "returned"}]
      /\ since \in [Streams -> 0..Len(events)]
      /\ stalled \in SUBSET Streams /\ runner = "idle"
  BY <1>1 DEF Init
<1> QED
  BY <1>1, <1>2, <1>3, <1>4, <1>5, <1>6, <1>7, FeedAssumption DEF TypeOK, Receipts

\* More events make more numbers legal.
LEMMA TypesGrow ==
    ASSUME NEW m \in Nat, NEW n \in Nat, m <= n
    PROVE  /\ Seq(1..m) \subseteq Seq(1..n)
           /\ Seq(Receipts(m)) \subseteq Seq(Receipts(n))
           /\ 0..m \subseteq 0..n
<1>1. 1..m \subseteq 1..n /\ 0..m \subseteq 0..n /\ Receipts(m) \subseteq Receipts(n)
  BY DEF Receipts
<1>2. \A s \in Seq(1..m) : s \in Seq(1..n)
  BY <1>1, SeqMonotonic
<1>3. \A s \in Seq(Receipts(m)) : s \in Seq(Receipts(n))
  BY <1>1, SeqMonotonic
<1> QED
  BY <1>1, <1>2, <1>3

LEMMA TakenTyped == TypeOK => Taken \in 0..Len(events)
<1> SUFFICES ASSUME TypeOK PROVE Taken \in 0..Len(events)
  OBVIOUS
<1>1. Len(events) \in Nat /\ (runner # "idle" => Len(events) > 0)
  BY EmptySeq DEF TypeOK
<1>2. feed # <<>> => Head(feed) \in 1..Len(events)
  BY HeadTailProperties DEF TypeOK
<1> QED
  BY <1>1, <1>2 DEF Taken

\* Only Range has a number.
SenderBusy == sender.pc # "idle" => sender.number > 0

LedgerTyped ==
    /\ rows \in 0..MaxRows
    /\ todo \in Seq(Sides)
    /\ events \in Seq(Events)
    /\ runner \in {"idle", "writing", "put", "push"}
    /\ runner # "idle" => events # <<>>
    /\ objects \in [Accounts -> Seq(Balances)]
    /\ cached \in [Accounts -> Nat]
    /\ \A a \in Accounts : cached[a] \in 1..Len(objects[a])
    /\ \A m \in 1..Len(events) : events[m].object \in 1..Len(objects[events[m].account])
    /\ lookup \in [Lookups -> [pc : {"idle", "read"}, account : Accounts, rows : Nat]]

StreamsTyped ==
    /\ feed \in Seq(1..Len(events)) /\ Len(feed) <= FeedCap
    /\ clients \in [Ids -> Streams \cup {NoStream}]
    /\ sender \in [pc : {"idle", "range", "delete"}, number : 0..Len(events),
                   left : SUBSET Ids, batch : SUBSET (Ids \X Streams), key : Ids]
    /\ stream \in [Streams -> {"new", "open", "cancelled", "returned"}]
    /\ stalled \in SUBSET Streams
    /\ got \in [Streams -> Seq(Receipts(Len(events)))]
    /\ since \in [Streams -> 0..Len(events)]
    /\ newest \in [Ids -> Streams \cup {NoStream}]

LEMMA TypedParts == TypeOK <=> LedgerTyped /\ StreamsTyped
BY DEF TypeOK, LedgerTyped, StreamsTyped, Receipts

LEMMA StreamsStand == StreamsTyped /\ UNCHANGED <<events, feedVars>> => StreamsTyped'
BY DEF StreamsTyped, feedVars, streamVars

\* Event n and its object, where it is typed.
LEMMA EventTyped ==
    ASSUME LedgerTyped, NEW n \in 1..Len(events)
    PROVE  /\ events[n] \in Events /\ events[n].account \in Accounts
           /\ events[n].transfer \in Nat /\ events[n].object \in Nat
           /\ events[n].object \in 1..Len(objects[events[n].account])
           /\ Object(n) \in Balances
<1>1. events[n] \in Events
  BY ElementOfSeq DEF LedgerTyped
<1>2. events[n].account \in Accounts /\ events[n].transfer \in Nat /\ events[n].object \in Nat
  BY <1>1 DEF Events
<1>3. events[n].object \in 1..Len(objects[events[n].account])
  BY DEF LedgerTyped
<1>4. objects[events[n].account] \in Seq(Balances)
  BY <1>2 DEF LedgerTyped
<1>5. Object(n) \in Balances
  BY <1>3, <1>4, ElementOfSeq DEF Object
<1> QED
  BY <1>1, <1>2, <1>3, <1>5

\* While the runner is at an event it is the last one.
LEMMA CurrentTyped ==
    LedgerTyped /\ runner # "idle" => Len(events) \in 1..Len(events) /\ Len(events) \in Nat \ {0}
<1> SUFFICES ASSUME LedgerTyped, runner # "idle" PROVE Len(events) > 0 /\ Len(events) \in Nat
  OBVIOUS
<1>1. events \in Seq(Events) /\ events # <<>>
  BY DEF LedgerTyped
<1> QED
  BY <1>1, EmptySeq

LEMMA RunnerTypes ==
    ASSUME TypeOK, Runner \/ OrphanRow \/ Refill
    PROVE  TypeOK'
<1>p. LedgerTyped' /\ StreamsTyped' => TypeOK'
  BY TypedParts DEF TypeOK, LedgerTyped, StreamsTyped, Receipts
<1> SUFFICES LedgerTyped' /\ StreamsTyped'
  BY <1>p
<1>l. LedgerTyped /\ StreamsTyped
  BY TypedParts
<1>0. Len(events) \in Nat /\ events \in Seq(Events) /\ MaxRows \in Nat /\ rows \in Nat
  BY <1>l, FeedAssumption DEF LedgerTyped
<1>1. ASSUME NEW d \in Accounts, NEW c \in Accounts, PostRow(d, c) PROVE LedgerTyped' /\ StreamsTyped'
  <2>1. Side(d, rows + 1) \in Sides /\ Side(c, rows + 1) \in Sides
    BY <1>0 DEF Side, Sides
  <2>2. todo' \in Seq(Sides)
    BY <1>1, <2>1 DEF PostRow
  <2>3. rows' \in 0..MaxRows
    BY <1>0, <1>1 DEF PostRow
  <2>4. UNCHANGED <<events, runner, objects, cached, lookup, feedVars>>
    BY <1>1 DEF PostRow
  <2> QED
    BY <1>l, <2>2, <2>3, <2>4, StreamsStand DEF LedgerTyped
<1>2. CASE OrphanRow
  <2>1. rows' \in 0..MaxRows
    BY <1>0, <1>2 DEF OrphanRow
  <2>2. UNCHANGED <<todo, events, runner, objects, cached, lookup, feedVars>>
    BY <1>2 DEF OrphanRow
  <2> QED
    BY <1>l, <2>1, <2>2, StreamsStand DEF LedgerTyped
<1>3. CASE AssignBegins
  <2> DEFINE side == Head(todo)
             e == [account |-> side.account, transfer |-> side.transfer, object |-> cached[side.account]]
  <2>1. todo \in Seq(Sides) /\ todo # <<>>
    BY <1>l, <1>3 DEF AssignBegins, LedgerTyped
  <2>2. side \in Sides /\ todo' \in Seq(Sides)
    BY <1>3, <2>1, HeadTailProperties DEF AssignBegins
  <2>3. side.account \in Accounts /\ side.transfer \in Nat
    BY <2>2 DEF Sides
  <2>4. cached[side.account] \in Nat /\ cached[side.account] \in 1..Len(objects[side.account])
    BY <1>l, <2>3 DEF LedgerTyped
  <2>5. e \in Events
    BY <2>3, <2>4 DEF Events
  <2>6. events' = Append(events, e) /\ UNCHANGED <<rows, objects, cached, lookup, feedVars>> /\ runner' = "writing"
    BY <1>3 DEF AssignBegins
  <2>e. e.account = side.account /\ e.object = cached[side.account]
    OBVIOUS
  <2> HIDE DEF e, side
  <2>7. /\ events' \in Seq(Events) /\ Len(events') = Len(events) + 1
        /\ events'[Len(events) + 1] = e
        /\ \A m \in 1..Len(events) : events'[m] = events[m]
        /\ \A m \in 1..Len(events') : m = Len(events) + 1 \/ m \in 1..Len(events)
    BY <1>0, <2>5, <2>6, AppendFacts
  <2>8. events' # <<>>
    BY <1>0, <2>7, EmptySeq
  <2>9. \A m \in 1..Len(events') : events'[m].object \in 1..Len(objects[events'[m].account])
    BY <1>l, <2>4, <2>e, <2>7 DEF LedgerTyped
  <2>10. LedgerTyped'
    BY <1>l, <2>2, <2>6, <2>7, <2>8, <2>9 DEF LedgerTyped
  <2>11. /\ Seq(1..Len(events)) \subseteq Seq(1..Len(events'))
         /\ Seq(Receipts(Len(events))) \subseteq Seq(Receipts(Len(events')))
         /\ 0..Len(events) \subseteq 0..Len(events')
    BY <1>0, <2>7, TypesGrow
  <2>12. UNCHANGED <<feed, clients, sender, stream, stalled, since, newest, got>>
    BY <2>6 DEF feedVars, streamVars
  <2>13. sender' \in [pc : {"idle", "range", "delete"}, number : 0..Len(events'),
                      left : SUBSET Ids, batch : SUBSET (Ids \X Streams), key : Ids]
    BY <1>l, <2>11, <2>12 DEF StreamsTyped
  <2>14. got' \in [Streams -> Seq(Receipts(Len(events')))] /\ since' \in [Streams -> 0..Len(events')]
    BY <1>l, <2>11, <2>12 DEF StreamsTyped
  <2>15. feed' \in Seq(1..Len(events')) /\ Len(feed') <= FeedCap
    BY <1>l, <2>11, <2>12 DEF StreamsTyped
  <2>16. StreamsTyped'
    BY <1>l, <2>12, <2>13, <2>14, <2>15 DEF StreamsTyped
  <2> QED
    BY <2>10, <2>16
<1>4. CASE AssignEnds
  <2>1. Len(events) \in 1..Len(events) /\ Len(events) \in Nat
    BY <1>l, <1>4, CurrentTyped DEF AssignEnds
  <2>2. /\ Current.account \in Accounts /\ Object(Len(events)) \in Balances
        /\ Current.object \in 1..Len(objects[Current.account])
    BY <1>l, <2>1, EventTyped DEF Current
  <2> DEFINE q == objects[Current.account]
             b == [q[Current.object] EXCEPT !.applied = @ \cup {Len(events)}]
  <2>3. q \in Seq(Balances) /\ q[Current.object] \in Balances /\ Current.object \in 1..Len(q)
    BY <1>l, <2>2 DEF LedgerTyped, Object, Current
  <2>4. b \in Balances
    BY <2>1, <2>3 DEF Balances
  <2>5. objects' = [objects EXCEPT ![Current.account] = [q EXCEPT ![Current.object] = b]]
    BY <1>4 DEF AssignEnds
  <2> HIDE DEF b, q
  <2>6. [q EXCEPT ![Current.object] = b] \in Seq(Balances) /\ Len([q EXCEPT ![Current.object] = b]) = Len(q)
    BY <2>3, <2>4, ExceptSeq
  <2>7. objects' \in [Accounts -> Seq(Balances)]
    BY <1>l, <2>2, <2>5, <2>6 DEF LedgerTyped
  <2>8. \A a \in Accounts : Len(objects'[a]) = Len(objects[a])
    BY <1>l, <2>2, <2>5, <2>6 DEF LedgerTyped, q
  <2>9. UNCHANGED <<rows, todo, events, cached, lookup, feedVars>> /\ runner' = "put" /\ runner = "writing"
    BY <1>4 DEF AssignEnds
  <2>10. \A m \in 1..Len(events) : events[m].account \in Accounts
    BY <1>l, EventTyped
  <2>11. LedgerTyped'
    BY <1>l, <2>7, <2>8, <2>9, <2>10 DEF LedgerTyped
  <2> QED
    BY <1>l, <2>9, <2>11, StreamsStand
<1>5. CASE Put
  <2>1. Len(events) \in 1..Len(events)
    BY <1>l, <1>5, CurrentTyped DEF Put
  <2>2. /\ Current.account \in Accounts /\ Current.object \in Nat
        /\ Current.object \in 1..Len(objects[Current.account])
    BY <1>l, <2>1, EventTyped DEF Current
  <2>3. /\ cached' = [cached EXCEPT ![Current.account] = Current.object]
        /\ UNCHANGED <<rows, todo, events, objects, lookup, feedVars>> /\ runner' = "push" /\ runner = "put"
    BY <1>5 DEF Put
  <2>4. LedgerTyped'
    BY <1>l, <2>2, <2>3 DEF LedgerTyped
  <2> QED
    BY <1>l, <2>3, <2>4, StreamsStand
<1>6. CASE Push
  <2>1. Len(events) \in 1..Len(events)
    BY <1>l, <1>6, CurrentTyped DEF Push
  <2>2. feed' \in Seq(1..Len(events)) /\ Len(feed') = Len(feed) + 1
    <3>1. feed \in Seq(1..Len(events)) /\ feed' = Append(feed, Len(events))
      BY <1>l, <1>6 DEF Push, StreamsTyped
    <3> QED
      BY <2>1, <3>1, AppendFacts
  <2>3. Len(feed) \in Nat /\ Len(feed') <= FeedCap
    BY <1>l, <1>6, <2>2, FeedAssumption DEF Push, StreamsTyped
  <2>4. UNCHANGED <<rows, todo, events, objects, cached, lookup, clients, sender, streamVars, got>> /\ runner' = "idle"
    BY <1>6 DEF Push
  <2> QED
    BY <1>l, <2>2, <2>3, <2>4 DEF LedgerTyped, StreamsTyped, streamVars
<1>7. ASSUME NEW f \in Lookups, NEW a \in Accounts, FillReads(f, a) PROVE LedgerTyped' /\ StreamsTyped'
  <2>1. lookup' \in [Lookups -> [pc : {"idle", "read"}, account : Accounts, rows : Nat]]
    BY <1>0, <1>l, <1>7 DEF FillReads, LedgerTyped
  <2>2. UNCHANGED <<rows, todo, events, runner, objects, cached, feedVars>>
    BY <1>7 DEF FillReads
  <2> QED
    BY <1>l, <2>1, <2>2, StreamsStand DEF LedgerTyped
<1>8. ASSUME NEW f \in Lookups, FillStores(f) PROVE LedgerTyped' /\ StreamsTyped'
  <2> DEFINE a == lookup[f].account
             b == [rows |-> lookup[f].rows, applied |-> {}]
  <2>1. a \in Accounts /\ lookup[f].rows \in Nat
    BY <1>l DEF LedgerTyped
  <2>2. b \in Balances
    BY <2>1 DEF Balances
  <2>3. /\ objects' = [objects EXCEPT ![a] = Append(@, b)] /\ cached' = [cached EXCEPT ![a] = Len(objects[a]) + 1]
        /\ UNCHANGED <<rows, todo, events, runner, feedVars>>
        /\ lookup' = [lookup EXCEPT ![f] = NotReading]
    BY <1>8 DEF FillStores
  <2> HIDE DEF a, b
  <2>4. objects[a] \in Seq(Balances) /\ Len(objects[a]) \in Nat
    BY <1>l, <2>1 DEF LedgerTyped
  <2>5. Append(objects[a], b) \in Seq(Balances) /\ Len(Append(objects[a], b)) = Len(objects[a]) + 1
    BY <2>2, <2>4, AppendFacts
  <2>6. /\ objects' \in [Accounts -> Seq(Balances)] /\ cached' \in [Accounts -> Nat]
        /\ \A c \in Accounts : Len(objects'[c]) = IF c = a THEN Len(objects[c]) + 1 ELSE Len(objects[c])
        /\ \A c \in Accounts : cached'[c] = IF c = a THEN Len(objects[c]) + 1 ELSE cached[c]
    BY <1>l, <2>1, <2>3, <2>4, <2>5 DEF LedgerTyped
  <2>7. \A c \in Accounts : Len(objects[c]) \in Nat
    BY <1>l DEF LedgerTyped
  <2>8. \A c \in Accounts : cached'[c] \in 1..Len(objects'[c])
    BY <1>l, <2>6, <2>7 DEF LedgerTyped
  <2>9. ASSUME NEW m \in 1..Len(events) PROVE events[m].object \in 1..Len(objects'[events[m].account])
    <3>1. /\ events[m].object \in 1..Len(objects[events[m].account]) /\ events[m].account \in Accounts
      BY <1>l, EventTyped
    <3> QED
      BY <2>6, <2>7, <3>1
  <2>10. lookup' \in [Lookups -> [pc : {"idle", "read"}, account : Accounts, rows : Nat]]
    BY <1>l, <2>3, FeedAssumption DEF LedgerTyped, NotReading
  <2>11. LedgerTyped'
    BY <1>l, <2>3, <2>6, <2>8, <2>9, <2>10 DEF LedgerTyped
  <2> QED
    BY <1>l, <2>3, <2>11, StreamsStand
<1> QED
  BY <1>1, <1>2, <1>3, <1>4, <1>5, <1>6, <1>7, <1>8 DEF Runner, Refill

LEMMA TypeStep == TypeOK /\ SenderBusy /\ [Next]_vars => TypeOK'
<1> SUFFICES ASSUME TypeOK, SenderBusy, [Next]_vars PROVE TypeOK'
  OBVIOUS
<1>0. Len(events) \in Nat
  BY DEF TypeOK
<1>l. LedgerTyped
  BY TypedParts
<1>s. sender \in [pc : {"idle", "range", "delete"}, number : 0..Len(events),
                  left : SUBSET Ids, batch : SUBSET (Ids \X Streams), key : Ids]
  BY DEF TypeOK
<1>1. CASE Runner \/ OrphanRow \/ Refill
  BY <1>1, RunnerTypes
<1>4. CASE TakeEvent
  <2>1. /\ feed' \in Seq(1..Len(events)) /\ Len(feed') = Len(feed) - 1
        /\ Head(feed) \in 1..Len(events)
    <3>1. feed \in Seq(1..Len(events)) /\ feed # <<>> /\ feed' = Tail(feed)
      BY <1>4 DEF TakeEvent, TypeOK
    <3> QED
      BY <3>1, HeadTailProperties
  <2>2. Len(feed) \in Nat /\ Len(feed') <= FeedCap
    BY <2>1, FeedAssumption DEF TypeOK
  <2>3. sender' \in [pc : {"idle", "range", "delete"}, number : 0..Len(events),
                     left : SUBSET Ids, batch : SUBSET (Ids \X Streams), key : Ids]
    <3> DEFINE T == [pc : {"idle", "range", "delete"}, number : 0..Len(events),
                     left : SUBSET Ids, batch : SUBSET (Ids \X Streams), key : Ids]
    <3>1. SenderIdle \in T
      BY <1>0, IdleTyped
    <3>2. Head(feed) \in 0..Len(events)
      BY <1>0, <2>1
    <3>3. \A t \in T : \A n \in 0..Len(events) :
            [t EXCEPT !.pc = "range", !.number = n, !.left = Ids] \in T
      OBVIOUS
    <3> QED
      BY <1>4, <3>1, <3>2, <3>3 DEF TakeEvent
  <2> QED
    BY <1>4, <2>1, <2>2, <2>3 DEF TakeEvent, TypeOK, streamVars, runnerVars
<1>5. ASSUME NEW ids \in SUBSET Ids, CopyEntries(ids) PROVE TypeOK'
  <2>1. Entries(ids) \in SUBSET (Ids \X Streams)
    BY DEF Entries
  <2> QED
    BY <1>5, <2>1 DEF CopyEntries, TypeOK, streamVars, runnerVars
<1>6. ASSUME NEW i \in Ids, NEW s \in Streams, SendDelivers(i, s) PROVE TypeOK'
  <2>1. PICK v \in Carried(sender.number) :
              got' = [got EXCEPT ![s] = Append(@, [number |-> sender.number, balance |-> v])]
    BY <1>6 DEF SendDelivers
  <2>2. sender.number \in 1..Len(events)
    <3>1. sender.number \in 0..Len(events)
      BY <1>s
    <3>2. sender.number > 0
      BY <1>6 DEF SendDelivers, SenderBusy
    <3> QED
      BY <1>0, <3>1, <3>2
  <2>3. Object(sender.number) \in Balances
    BY <1>l, <2>2, EventTyped
  <2>4. v \in Balances \cup {Torn}
    BY <2>1, <2>3 DEF Carried
  <2>5. [number |-> sender.number, balance |-> v] \in Receipts(Len(events))
    BY <2>2, <2>4 DEF Receipts
  <2>6. got[s] \in Seq(Receipts(Len(events)))
    BY DEF TypeOK, Receipts
  <2>7. Append(got[s], [number |-> sender.number, balance |-> v]) \in Seq(Receipts(Len(events)))
    BY <2>5, <2>6, AppendFacts
  <2>8. got' \in [Streams -> Seq(Receipts(Len(events)))]
    BY <2>1, <2>7 DEF TypeOK, Receipts
  <2>9. sender' \in [pc : {"idle", "range", "delete"}, number : 0..Len(events),
                     left : SUBSET Ids, batch : SUBSET (Ids \X Streams), key : Ids]
    BY <1>6, <1>s DEF SendDelivers
  <2>10. UNCHANGED <<runnerVars, feed, clients, stream, stalled, since, newest>>
    BY <1>6 DEF SendDelivers, streamVars
  <2> QED
    BY <2>8, <2>9, <2>10 DEF TypeOK, Receipts, runnerVars
<1>7. ASSUME NEW i \in Ids, NEW s \in Streams, SendVanishes(i, s) \/ SendFails(i, s) PROVE TypeOK'
  <2>1. sender' \in [pc : {"idle", "range", "delete"}, number : 0..Len(events),
                     left : SUBSET Ids, batch : SUBSET (Ids \X Streams), key : Ids]
    BY <1>7, <1>s DEF SendVanishes, SendFails
  <2> QED
    BY <1>7, <2>1 DEF SendVanishes, SendFails, TypeOK, streamVars, runnerVars
<1>8. CASE DeleteFailed
  BY <1>8 DEF DeleteFailed, TypeOK, streamVars, runnerVars
<1>9. CASE RangeEnds
  <2>1. sender' \in [pc : {"idle", "range", "delete"}, number : 0..Len(events),
                     left : SUBSET Ids, batch : SUBSET (Ids \X Streams), key : Ids]
    BY <1>0, <1>9, IdleTyped DEF RangeEnds
  <2> QED
    BY <1>9, <2>1 DEF RangeEnds, TypeOK, streamVars, runnerVars
<1>10. ASSUME NEW s \in Streams, Subscribe(s) PROVE TypeOK'
  <2>1. since' \in [Streams -> 0..Len(events)]
    BY <1>10, TakenTyped DEF Subscribe, TypeOK
  <2>2. IdOf[s] \in Ids
    BY FeedAssumption
  <2>3. /\ stream' \in [Streams -> {"new", "open", "cancelled", "returned"}]
        /\ clients' \in [Ids -> Streams \cup {NoStream}] /\ newest' \in [Ids -> Streams \cup {NoStream}]
    BY <1>10, <2>2 DEF Subscribe, TypeOK
  <2>4. UNCHANGED <<runnerVars, feed, sender, stalled, got>>
    BY <1>10 DEF Subscribe
  <2> QED
    BY <2>1, <2>3, <2>4 DEF TypeOK, runnerVars
<1>11. ASSUME NEW s \in Streams, HangUp(s) \/ Unsubscribe(s) \/ Stall(s) \/ Resume(s) PROVE TypeOK'
  BY <1>11, FeedAssumption DEF HangUp, Unsubscribe, Stall, Resume, TypeOK, runnerVars
<1>12. CASE UNCHANGED vars
  BY <1>12 DEF TypeOK, vars, runnerVars, feedVars, streamVars
<1>13. CASE \E s \in Streams : Client(s)
  BY <1>10, <1>11, <1>13 DEF Client
<1>14. CASE Ranging
  <2>1. CASE Send
    BY <1>6, <1>7, <2>1 DEF Send
  <2> QED
    BY <1>5, <1>8, <1>9, <1>14, <2>1 DEF Ranging
<1> QED
  BY <1>1, <1>4, <1>12, <1>13, <1>14 DEF Next, Quiescent

-----------------------------------------------------------------------------
(* The order of events.                                                    *)

\* Events that were sent into the channel, and taken from it.
Pushed == IF runner = "idle" THEN Len(events) ELSE Len(events) - 1
Done   == Pushed - Len(feed)

FeedInOrder == \A i \in 1..Len(feed) : feed[i] = Done + i

SenderInOrder ==
    /\ sender.pc = "idle" => sender.left = {} /\ sender.batch = {}
    /\ sender.pc # "idle" => sender.number = Done /\ sender.number > 0

ClientsOwn == \A i \in Ids : clients[i] # NoStream => IdOf[clients[i]] = i

BatchOwn == \A e \in sender.batch : e[1] = IdOf[e[2]] /\ e[1] \notin sender.left

NewUntouched ==
    \A s \in Streams : stream[s] = "new" =>
        got[s] = <<>> /\ clients[IdOf[s]] # s /\ <<IdOf[s], s>> \notin sender.batch

\* Range will come to s, or has been there.
Waiting(s) == <<IdOf[s], s>> \in sender.batch \/ (clients[IdOf[s]] = s /\ IdOf[s] \in sender.left)
Served(s)  == clients[IdOf[s]] = s /\ ~Waiting(s)

UpTo(s, n) == got[s] = <<>> \/ got[s][Len(got[s])].number = n

(***************************************************************************)
(* The strengthening: a stream that Range has still to serve has the       *)
(* events up to the one before, a stream that it has served has this one.  *)
(***************************************************************************)
Position ==
    \A s \in Streams : stream[s] = "open" =>
        /\ Waiting(s) => UpTo(s, Done - 1)
        /\ Served(s) => UpTo(s, Done)

Order == FeedInOrder /\ SenderInOrder /\ ClientsOwn /\ BatchOwn /\ NewUntouched

LEMMA TakenIsDone == TypeOK /\ FeedInOrder => Taken = Done
<1> SUFFICES ASSUME TypeOK, FeedInOrder PROVE Taken = Done
  OBVIOUS
<1>1. Len(events) \in Nat /\ Len(feed) \in Nat
  BY DEF TypeOK
<1>2. CASE feed = <<>>
  BY <1>1, <1>2, EmptySeq DEF Taken, Done, Pushed
<1>3. CASE feed # <<>>
  <2>1. Len(feed) > 0 /\ Head(feed) = feed[1]
    BY <1>3, EmptySeq DEF TypeOK
  <2>2. feed[1] = Done + 1
    BY <1>1, <2>1 DEF FeedInOrder
  <2> QED
    BY <1>1, <1>3, <2>1, <2>2 DEF Taken, Done, Pushed
<1> QED
  BY <1>2, <1>3

LEMMA DoneStands ==
    TypeOK => /\ Done \in Int
              /\ feed' = feed /\ UNCHANGED runnerVars
                   => Done' = Done /\ (FeedInOrder => FeedInOrder')
<1> SUFFICES ASSUME TypeOK
             PROVE  /\ Done \in Int
                    /\ feed' = feed /\ UNCHANGED runnerVars
                         => Done' = Done /\ (FeedInOrder => FeedInOrder')
  OBVIOUS
<1>1. Len(events) \in Nat /\ Len(feed) \in Nat
  BY DEF TypeOK
<1>2. Pushed \in Int
  BY <1>1 DEF Pushed
<1>3. Done \in Int
  BY <1>1, <1>2 DEF Done
<1>4. ASSUME feed' = feed, UNCHANGED runnerVars
      PROVE  Done' = Done /\ (FeedInOrder => FeedInOrder')
  <2>1. events' = events /\ runner' = runner
    BY <1>4 DEF runnerVars
  <2>2. Done' = Done
    BY <1>4, <2>1 DEF Done, Pushed
  <2> QED
    BY <1>4, <2>2 DEF FeedInOrder
<1> QED
  BY <1>3, <1>4

LEMMA InitOrder == Init => Order /\ Position /\ ReceivedInOrder
<1> SUFFICES ASSUME Init PROVE Order /\ Position /\ ReceivedInOrder
  OBVIOUS
<1>1. sender.pc = "idle" /\ sender.left = {} /\ sender.batch = {}
  BY DEF Init, SenderIdle
<1>2. FeedInOrder
  BY EmptySeq DEF Init, FeedInOrder
<1>3. SenderInOrder /\ BatchOwn
  BY <1>1 DEF SenderInOrder, BatchOwn
<1>4. ClientsOwn
  BY DEF Init, ClientsOwn
<1>5. NewUntouched
  BY <1>1, FeedAssumption DEF Init, NewUntouched
<1>6. Position
  BY DEF Init, Position
<1>7. ReceivedInOrder
  BY EmptySeq DEF Init, ReceivedInOrder
<1> QED
  BY <1>2, <1>3, <1>4, <1>5, <1>6, <1>7 DEF Order

\* The runner adds events behind those that are in the channel.
LEMMA RunnerOrder ==
    ASSUME TypeOK, Order, Runner \/ OrphanRow \/ Refill
    PROVE  FeedInOrder' /\ Done' = Done
<1>0. Len(events) \in Nat /\ Len(feed) \in Nat /\ events \in Seq(Events) /\ feed \in Seq(1..Len(events))
  BY DEF TypeOK
<1>1. CASE AssignBegins
  <2>1. PICK e \in Events : events' = Append(events, e)
    <3>1. todo \in Seq(Sides) /\ todo # <<>> /\ cached \in [Accounts -> Nat]
      BY <1>1 DEF AssignBegins, TypeOK
    <3>2. Head(todo) \in Sides
      BY <3>1, HeadTailProperties
    <3>3. Head(todo).account \in Accounts /\ Head(todo).transfer \in Nat
      BY <3>2 DEF Sides
    <3>4. cached[Head(todo).account] \in Nat
      BY <3>1, <3>3
    <3>5. [account |-> Head(todo).account, transfer |-> Head(todo).transfer,
           object |-> cached[Head(todo).account]] \in Events
      BY <3>3, <3>4 DEF Events
    <3> QED
      BY <1>1, <3>5 DEF AssignBegins
  <2>2. Len(events') = Len(events) + 1
    BY <1>0, <2>1, AppendFacts
  <2>3. feed' = feed /\ runner = "idle" /\ runner' = "writing"
    BY <1>1 DEF AssignBegins, feedVars
  <2>4. Done' = Done
    BY <1>0, <2>2, <2>3 DEF Done, Pushed
  <2> QED
    BY <2>3, <2>4 DEF Order, FeedInOrder
<1>2. CASE (\E d, c \in Accounts : PostRow(d, c)) \/ OrphanRow \/ AssignEnds \/ Put \/ Refill
  <2>1. UNCHANGED <<events, feed>> /\ (runner' = "idle" <=> runner = "idle")
    BY <1>2 DEF PostRow, OrphanRow, AssignEnds, Put, Refill, FillReads, FillStores, feedVars
  <2>2. Done' = Done
    BY <2>1 DEF Done, Pushed
  <2> QED
    BY <2>1, <2>2 DEF Order, FeedInOrder
<1>3. CASE Push
  <2>1. Len(events) \in 1..Len(events)
    BY <1>0, <1>3, EmptySeq DEF Push, TypeOK
  <2>2. /\ Len(feed') = Len(feed) + 1 /\ feed'[Len(feed) + 1] = Len(events)
        /\ \A i \in 1..Len(feed) : feed'[i] = feed[i]
    BY <1>0, <1>3, <2>1, AppendFacts DEF Push
  <2>3. Done' = Done /\ Done + (Len(feed) + 1) = Len(events)
    BY <1>0, <1>3, <2>2 DEF Push, Done, Pushed
  <2>4. ASSUME NEW i \in 1..Len(feed') PROVE feed'[i] = Done + i
    <3>1. CASE i = Len(feed) + 1
      BY <1>0, <2>2, <2>3, <3>1
    <3>2. CASE i # Len(feed) + 1
      <4>1. i \in 1..Len(feed)
        BY <1>0, <2>2, <3>2
      <4> QED
        BY <2>2, <4>1 DEF Order, FeedInOrder
    <3> QED
      BY <3>1, <3>2
  <2> QED
    BY <2>3, <2>4 DEF FeedInOrder
<1> QED
  BY <1>1, <1>2, <1>3 DEF Runner

\* broadcast takes them one by one.
LEMMA TakeOrder ==
    ASSUME TypeOK, Order, TakeEvent
    PROVE  /\ FeedInOrder' /\ Done' = Done + 1
           /\ sender' = [SenderIdle EXCEPT !.pc = "range", !.number = Done + 1, !.left = Ids]
           /\ Done + 1 > 0
<1>0. Len(events) \in Nat /\ Len(feed) \in Nat /\ feed \in Seq(1..Len(events)) /\ feed # <<>>
  BY DEF TypeOK, TakeEvent
<1>1. /\ Len(feed') = Len(feed) - 1 /\ Head(feed) = feed[1] /\ Len(feed) > 0
      /\ \A i \in 1..Len(feed') : feed'[i] = feed[i + 1]
      /\ feed[1] \in 1..Len(events)
  BY <1>0, HeadTailProperties DEF TakeEvent
<1>2. Done' = Done + 1 /\ Done \in Int
  BY <1>0, <1>1 DEF TakeEvent, runnerVars, Done, Pushed
<1>3. Head(feed) = Done + 1
  BY <1>0, <1>1 DEF Order, FeedInOrder
<1>4. FeedInOrder'
  <2>1. \A i \in 1..Len(feed') : feed'[i] = Done + (i + 1)
    BY <1>0, <1>1 DEF Order, FeedInOrder
  <2> QED
    BY <1>0, <1>1, <1>2, <2>1 DEF FeedInOrder
<1>5. Done + 1 > 0
  BY <1>0, <1>1, <1>2, <1>3
<1>6. sender' = [SenderIdle EXCEPT !.pc = "range", !.number = Done + 1, !.left = Ids]
  BY <1>3 DEF TakeEvent
<1> QED
  BY <1>2, <1>4, <1>5, <1>6

LEMMA OrderStep ==
    TypeOK /\ Order /\ Position /\ ReceivedInOrder /\ [Next]_vars
        => Order' /\ Position' /\ ReceivedInOrder'
<1> SUFFICES ASSUME TypeOK, Order, Position, ReceivedInOrder, [Next]_vars
             PROVE  Order' /\ Position' /\ ReceivedInOrder'
  OBVIOUS
<1>f. FeedInOrder /\ SenderInOrder /\ ClientsOwn /\ BatchOwn /\ NewUntouched
  BY DEF Order
<1>t. /\ sender \in [pc : {"idle", "range", "delete"}, number : 0..Len(events),
                     left : SUBSET Ids, batch : SUBSET (Ids \X Streams), key : Ids]
      /\ clients \in [Ids -> Streams \cup {NoStream}]
      /\ stream \in [Streams -> {"new", "open", "cancelled", "returned"}]
      /\ DOMAIN got = Streams
      /\ Len(events) \in Nat /\ Len(feed) \in Nat
  BY DEF TypeOK
<1>i. \A s \in Streams : IdOf[s] \in Ids /\ s # NoStream
  BY FeedAssumption
<1>d. Done \in Int /\ (feed' = feed /\ UNCHANGED runnerVars => Done' = Done /\ FeedInOrder')
  BY <1>f, DoneStands
<1>1. CASE Runner \/ OrphanRow \/ Refill
  <2>1. FeedInOrder' /\ Done' = Done
    BY <1>1, RunnerOrder
  <2>2. UNCHANGED <<clients, sender, stream, got>>
    BY <1>1 DEF Runner, PostRow, OrphanRow, AssignBegins, AssignEnds, Put, Push, Refill, FillReads,
                FillStores, feedVars, streamVars
  <2>3. SenderInOrder' /\ ClientsOwn' /\ BatchOwn' /\ NewUntouched'
    BY <1>f, <2>1, <2>2 DEF SenderInOrder, ClientsOwn, BatchOwn, NewUntouched
  <2>4. Position'
    BY <2>1, <2>2 DEF Position, Waiting, Served, UpTo
  <2>5. ReceivedInOrder'
    BY <2>2 DEF ReceivedInOrder
  <2> QED
    BY <2>1, <2>3, <2>4, <2>5 DEF Order
<1>2. CASE TakeEvent
  <2>1. /\ FeedInOrder' /\ Done' = Done + 1 /\ Done + 1 > 0
        /\ sender' = [SenderIdle EXCEPT !.pc = "range", !.number = Done + 1, !.left = Ids]
    BY <1>2, TakeOrder
  <2>2. sender'.pc = "range" /\ sender'.number = Done + 1 /\ sender'.left = Ids /\ sender'.batch = {}
    BY <2>1 DEF SenderIdle
  <2>3. UNCHANGED <<clients, stream, got>> /\ sender.pc = "idle"
    BY <1>2 DEF TakeEvent, streamVars
  <2>4. SenderInOrder' /\ BatchOwn'
    BY <2>1, <2>2 DEF SenderInOrder, BatchOwn
  <2>5. ClientsOwn' /\ NewUntouched'
    BY <1>f, <2>2, <2>3 DEF ClientsOwn, NewUntouched
  <2>6. ASSUME NEW s \in Streams, stream'[s] = "open"
        PROVE  (Waiting(s)' => UpTo(s, Done - 1)') /\ ~Served(s)'
    <3>1. Waiting(s)' => Served(s)
      BY <1>f, <2>2, <2>3 DEF Waiting, Served, SenderInOrder
    <3>2. ~Served(s)'
      BY <1>i, <2>2 DEF Waiting, Served
    <3>3. Served(s) => UpTo(s, Done)
      BY <2>3, <2>6 DEF Position
    <3>4. UpTo(s, Done) => UpTo(s, Done - 1)'
      BY <1>d, <2>1, <2>3 DEF UpTo
    <3> QED
      BY <3>1, <3>2, <3>3, <3>4
  <2>7. Position'
    BY <2>6 DEF Position
  <2>8. ReceivedInOrder'
    BY <2>3 DEF ReceivedInOrder
  <2> QED
    BY <2>1, <2>4, <2>5, <2>7, <2>8 DEF Order
<1>3. ASSUME NEW ids \in SUBSET Ids, CopyEntries(ids) PROVE Order' /\ Position' /\ ReceivedInOrder'
  <2>1. /\ sender'.pc = sender.pc /\ sender'.number = sender.number
        /\ sender'.left = sender.left \ ids /\ sender'.batch = Entries(ids)
        /\ sender.batch = {} /\ ids \subseteq sender.left /\ sender.pc = "range"
    BY <1>3, <1>t DEF CopyEntries
  <2>2. UNCHANGED <<clients, stream, got>> /\ Done' = Done /\ FeedInOrder'
    BY <1>3, <1>d DEF CopyEntries, streamVars
  <2>3. SenderInOrder' /\ ClientsOwn'
    BY <1>f, <2>1, <2>2 DEF SenderInOrder, ClientsOwn
  <2>4. BatchOwn'
    <3>1. \A e \in Entries(ids) : e[1] \in ids /\ clients[e[1]] = e[2] /\ e[2] \in Streams
      BY DEF Entries
    <3> QED
      BY <1>f, <1>i, <2>1, <3>1 DEF BatchOwn, ClientsOwn
  <2>5. ASSUME NEW s \in Streams PROVE Waiting(s)' <=> Waiting(s)
    <3>1. <<IdOf[s], s>> \in Entries(ids) <=> IdOf[s] \in ids /\ clients[IdOf[s]] = s
      BY DEF Entries
    <3> QED
      BY <2>1, <2>2, <3>1 DEF Waiting
  <2>6. NewUntouched'
    <3>1. \A s \in Streams : <<IdOf[s], s>> \in Entries(ids) => clients[IdOf[s]] = s
      BY DEF Entries
    <3> QED
      BY <1>f, <2>1, <2>2, <3>1 DEF NewUntouched
  <2>7. Position'
    BY <2>2, <2>5 DEF Position, Served, UpTo
  <2>8. ReceivedInOrder'
    BY <2>2 DEF ReceivedInOrder
  <2> QED
    BY <2>2, <2>3, <2>4, <2>6, <2>7, <2>8 DEF Order
<1>4. ASSUME NEW i \in Ids, NEW s \in Streams, SendDelivers(i, s)
      PROVE  Order' /\ Position' /\ ReceivedInOrder'
  <2>1. /\ sender'.pc = sender.pc /\ sender'.number = sender.number /\ sender'.left = sender.left
        /\ sender'.batch = sender.batch \ {<<i, s>>}
        /\ <<i, s>> \in sender.batch /\ sender.pc = "range" /\ stream[s] = "open"
    BY <1>4, <1>t DEF SendDelivers
  <2>2. UNCHANGED <<clients, stream>> /\ Done' = Done /\ FeedInOrder'
    BY <1>4, <1>d DEF SendDelivers, streamVars
  <2>3. i = IdOf[s] /\ i \notin sender.left
    BY <1>f, <2>1 DEF BatchOwn
  <2>4. sender.number = Done
    BY <1>f, <2>1 DEF SenderInOrder
  <2>5. PICK v : got' = [got EXCEPT ![s] = Append(@, [number |-> Done, balance |-> v])]
    BY <1>4, <2>4 DEF SendDelivers
  <2>6. got[s] \in Seq(Receipts(Len(events)))
    BY DEF TypeOK, Receipts
  <2>7. /\ Len(got'[s]) = Len(got[s]) + 1 /\ got'[s][Len(got[s]) + 1].number = Done
        /\ \A k \in 1..Len(got[s]) : got'[s][k] = got[s][k]
        /\ Len(got[s]) \in Nat
    <3> DEFINE r == [number |-> Done, balance |-> v]
               S == Receipts(Len(events)) \cup {r}
    <3>1. got[s] \in Seq(S) /\ r \in S
      BY <2>6, SeqMonotonic
    <3>2. got'[s] = Append(got[s], r)
      BY <1>t, <2>5
    <3>3. /\ Len(Append(got[s], r)) = Len(got[s]) + 1 /\ Append(got[s], r)[Len(got[s]) + 1] = r
          /\ \A k \in 1..Len(got[s]) : Append(got[s], r)[k] = got[s][k]
      BY <3>1, AppendFacts
    <3> QED
      BY <2>6, <3>2, <3>3
  <2>8. \A t \in Streams : t # s => got'[t] = got[t]
    BY <1>t, <2>5
  <2>9. SenderInOrder' /\ ClientsOwn' /\ BatchOwn'
    BY <1>f, <2>1, <2>2 DEF SenderInOrder, ClientsOwn, BatchOwn
  <2>10. NewUntouched'
    BY <1>f, <2>1, <2>2, <2>8 DEF NewUntouched
  <2>11. Waiting(s) /\ UpTo(s, Done - 1)
    BY <2>1, <2>3 DEF Waiting, Position
  <2>12. Position'
    <3>1. ~Waiting(s)' /\ UpTo(s, Done)'
      BY <2>1, <2>2, <2>3, <2>7 DEF Waiting, UpTo
    <3>2. ASSUME NEW t \in Streams, t # s, stream'[t] = "open"
          PROVE  (Waiting(t)' => UpTo(t, Done - 1)') /\ (Served(t)' => UpTo(t, Done)')
      <4>1. Waiting(t)' <=> Waiting(t)
        BY <2>1, <2>2, <3>2 DEF Waiting
      <4>2. got'[t] = got[t]
        BY <2>8, <3>2
      <4> QED
        BY <2>2, <3>2, <4>1, <4>2 DEF Position, Served, UpTo
    <3> QED
      BY <3>1, <3>2 DEF Position
  <2>13. ReceivedInOrder'
    <3>1. ASSUME NEW k \in 1..Len(got'[s]) - 1
          PROVE  got'[s][k + 1].number = got'[s][k].number + 1
      <4>1. k \in 1..Len(got[s])
        BY <2>7
      <4>2. CASE k = Len(got[s])
        <5>1. got[s] # <<>>
          BY <4>1, <4>2
        <5>2. got[s][k].number = Done - 1
          BY <2>11, <4>2, <5>1 DEF UpTo
        <5> QED
          BY <1>d, <2>7, <4>1, <4>2, <5>2
      <4>3. CASE k # Len(got[s])
        <5>1. k \in 1..Len(got[s]) - 1 /\ k + 1 \in 1..Len(got[s])
          BY <2>7, <4>1, <4>3
        <5> QED
          BY <2>7, <4>1, <5>1 DEF ReceivedInOrder
      <4> QED
        BY <4>2, <4>3
    <3> QED
      BY <2>8, <3>1 DEF ReceivedInOrder
  <2> QED
    BY <2>2, <2>9, <2>10, <2>12, <2>13 DEF Order
<1>5. ASSUME NEW i \in Ids, NEW s \in Streams, SendVanishes(i, s) \/ SendFails(i, s)
      PROVE  Order' /\ Position' /\ ReceivedInOrder'
  <2>1. /\ sender'.pc \in {"range", "delete"} /\ sender'.number = sender.number
        /\ sender'.left = sender.left /\ sender'.batch = sender.batch \ {<<i, s>>}
        /\ sender.pc = "range" /\ stream[s] # "open"
    BY <1>5, <1>t DEF SendVanishes, SendFails
  <2>2. UNCHANGED <<clients, stream, got>> /\ Done' = Done /\ FeedInOrder'
    BY <1>5, <1>d DEF SendVanishes, SendFails, streamVars
  <2>3. SenderInOrder' /\ ClientsOwn' /\ BatchOwn' /\ NewUntouched'
    BY <1>f, <2>1, <2>2 DEF SenderInOrder, ClientsOwn, BatchOwn, NewUntouched
  <2>4. \A t \in Streams : stream'[t] = "open" => (Waiting(t)' <=> Waiting(t))
    BY <2>1, <2>2 DEF Waiting
  <2>5. Position'
    BY <2>2, <2>4 DEF Position, Served, UpTo
  <2>6. ReceivedInOrder'
    BY <2>2 DEF ReceivedInOrder
  <2> QED
    BY <2>2, <2>3, <2>5, <2>6 DEF Order
<1>6. CASE DeleteFailed
  <2>1. /\ sender'.pc = "range" /\ sender'.number = sender.number
        /\ sender'.left = sender.left /\ sender'.batch = sender.batch /\ sender.pc = "delete"
    BY <1>6, <1>t DEF DeleteFailed
  <2>2. UNCHANGED <<stream, got>> /\ Done' = Done /\ FeedInOrder'
    BY <1>6, <1>d DEF DeleteFailed, streamVars
  <2>3. \A j \in Ids : clients'[j] = clients[j] \/ clients'[j] = NoStream
    BY <1>6, <1>t DEF DeleteFailed
  <2>4. SenderInOrder' /\ ClientsOwn' /\ BatchOwn'
    BY <1>f, <2>1, <2>2, <2>3 DEF SenderInOrder, ClientsOwn, BatchOwn
  <2>5. NewUntouched'
    BY <1>f, <1>i, <2>1, <2>2, <2>3 DEF NewUntouched
  <2>6. \A t \in Streams : (Waiting(t)' => Waiting(t)) /\ (Served(t)' => Served(t))
    BY <1>i, <2>1, <2>3 DEF Waiting, Served
  <2>7. Position'
    BY <2>2, <2>6 DEF Position, UpTo
  <2>8. ReceivedInOrder'
    BY <2>2 DEF ReceivedInOrder
  <2> QED
    BY <2>2, <2>4, <2>5, <2>7, <2>8 DEF Order
<1>7. CASE RangeEnds
  <2>1. /\ sender'.pc = "idle" /\ sender'.left = {} /\ sender'.batch = {}
        /\ sender.left = {} /\ sender.batch = {}
    BY <1>7 DEF RangeEnds, SenderIdle
  <2>2. UNCHANGED <<clients, stream, got>> /\ Done' = Done /\ FeedInOrder'
    BY <1>7, <1>d DEF RangeEnds, streamVars
  <2>3. SenderInOrder' /\ ClientsOwn' /\ BatchOwn' /\ NewUntouched'
    BY <1>f, <2>1, <2>2 DEF SenderInOrder, ClientsOwn, BatchOwn, NewUntouched
  <2>4. Position'
    BY <2>1, <2>2 DEF Position, Waiting, Served, UpTo
  <2>5. ReceivedInOrder'
    BY <2>2 DEF ReceivedInOrder
  <2> QED
    BY <2>2, <2>3, <2>4, <2>5 DEF Order
<1>8. ASSUME NEW s \in Streams, Subscribe(s) PROVE Order' /\ Position' /\ ReceivedInOrder'
  <2>1. UNCHANGED <<sender, got>> /\ Done' = Done /\ FeedInOrder'
    BY <1>8, <1>d DEF Subscribe
  <2>2. /\ stream[s] = "new" /\ stream'[s] = "open"
        /\ \A t \in Streams : t # s => stream'[t] = stream[t]
        /\ clients'[IdOf[s]] = s
        /\ \A j \in Ids : j # IdOf[s] => clients'[j] = clients[j]
    BY <1>8, <1>t, <1>i DEF Subscribe
  <2>3. SenderInOrder' /\ ClientsOwn' /\ BatchOwn'
    BY <1>f, <1>i, <2>1, <2>2 DEF SenderInOrder, ClientsOwn, BatchOwn
  <2>4. NewUntouched'
    BY <1>f, <1>i, <2>1, <2>2 DEF NewUntouched
  <2>5. got'[s] = <<>>
    BY <1>f, <2>1, <2>2 DEF NewUntouched
  <2>6. \A t \in Streams : t # s => (Waiting(t)' => Waiting(t)) /\ (Served(t)' => Served(t))
    BY <1>i, <2>1, <2>2 DEF Waiting, Served
  <2>7. Position'
    BY <2>1, <2>2, <2>5, <2>6 DEF Position, UpTo
  <2>8. ReceivedInOrder'
    BY <2>1 DEF ReceivedInOrder
  <2> QED
    BY <2>1, <2>3, <2>4, <2>7, <2>8 DEF Order
<1>9. ASSUME NEW s \in Streams, HangUp(s) \/ Unsubscribe(s) \/ Stall(s) \/ Resume(s)
      PROVE  Order' /\ Position' /\ ReceivedInOrder'
  <2>1. UNCHANGED <<sender, got>> /\ Done' = Done /\ FeedInOrder'
    BY <1>9, <1>d DEF HangUp, Unsubscribe, Stall, Resume
  <2>2. /\ \A t \in Streams : stream'[t] \in {"new", "open"} => stream'[t] = stream[t]
        /\ \A j \in Ids : clients'[j] = clients[j] \/ clients'[j] = NoStream
    BY <1>9, <1>t DEF HangUp, Unsubscribe, Stall, Resume
  <2>3. SenderInOrder' /\ ClientsOwn' /\ BatchOwn'
    BY <1>f, <2>1, <2>2 DEF SenderInOrder, ClientsOwn, BatchOwn
  <2>4. NewUntouched'
    BY <1>f, <1>i, <2>1, <2>2 DEF NewUntouched
  <2>5. \A t \in Streams : (Waiting(t)' => Waiting(t)) /\ (Served(t)' => Served(t))
    BY <1>i, <2>1, <2>2 DEF Waiting, Served
  <2>6. Position'
    BY <2>1, <2>2, <2>5 DEF Position, UpTo
  <2>7. ReceivedInOrder'
    BY <2>1 DEF ReceivedInOrder
  <2> QED
    BY <2>1, <2>3, <2>4, <2>6, <2>7 DEF Order
<1>10. CASE UNCHANGED vars
  <2>1. /\ UNCHANGED <<sender, got, clients, stream>> /\ Done' = Done /\ FeedInOrder'
    BY <1>10, <1>d DEF vars, feedVars, streamVars
  <2>2. SenderInOrder' /\ ClientsOwn' /\ BatchOwn' /\ NewUntouched'
    BY <1>f, <2>1 DEF SenderInOrder, ClientsOwn, BatchOwn, NewUntouched
  <2>3. Position'
    BY <2>1 DEF Position, Waiting, Served, UpTo
  <2>4. ReceivedInOrder'
    BY <2>1 DEF ReceivedInOrder
  <2> QED
    BY <2>1, <2>2, <2>3, <2>4 DEF Order
<1>11. CASE \E s \in Streams : Client(s)
  BY <1>8, <1>9, <1>11 DEF Client
<1>12. CASE Ranging
  <2>1. CASE Send
    BY <1>4, <1>5, <2>1 DEF Send
  <2> QED
    BY <1>3, <1>6, <1>7, <1>12, <2>1 DEF Ranging
<1> QED
  BY <1>1, <1>2, <1>10, <1>11, <1>12 DEF Next, Quiescent

LEMMA OrderInvariant == Spec => [](TypeOK /\ Order /\ Position /\ ReceivedInOrder)
<1>1. Order => SenderBusy
  BY DEF Order, SenderInOrder, SenderBusy
<1>2. Init => TypeOK /\ Order /\ Position /\ ReceivedInOrder
  BY InitTypes, InitOrder
<1>3. TypeOK /\ Order /\ Position /\ ReceivedInOrder /\ [Next]_vars
        => (TypeOK /\ Order /\ Position /\ ReceivedInOrder)'
  BY <1>1, TypeStep, OrderStep
<1> QED
  BY <1>2, <1>3, PTL DEF Spec

(***************************************************************************)
(* Every variable keeps its type; the channel keeps within its capacity    *)
(* (transactor/transactor.go:103-133).                                     *)
(***************************************************************************)
THEOREM FeedTypes == Spec => []TypeOK
BY OrderInvariant, PTL

(***************************************************************************)
(* Whatever the ids, the streams that come and go and the order in which   *)
(* Range finds them, what a client receives is a run of consecutive events *)
(* (transactor/transactor.go:110-133).                                     *)
(***************************************************************************)
THEOREM FeedInSequence == Spec => []ReceivedInOrder
BY OrderInvariant, PTL

-----------------------------------------------------------------------------
(* What a stream with an id of its own receives.                           *)

OwnIds == \A s, t \in Streams : IdOf[s] = IdOf[t] => s = t

Received(s, n) == \E i \in 1..Len(got[s]) : got[s][i].number = n

OpenStored == \A s \in Streams : stream[s] = "open" => clients[IdOf[s]] = s

FailedGone ==
    sender.pc = "delete" =>
        \A s \in Streams : IdOf[s] = sender.key => stream[s] \in {"cancelled", "returned"}

\* All but the event that Range is still to bring.
ReceivedAll ==
    \A s \in Streams : stream[s] = "open" =>
        \A n \in since[s] + 1 .. Done : Received(s, n) \/ (n = Done /\ Waiting(s))

Kept == OpenStored /\ FailedGone /\ ReceivedAll

LEMMA InitKept == Init => Kept
BY DEF Init, Kept, OpenStored, FailedGone, ReceivedAll, SenderIdle

LEMMA KeptStep ==
    ASSUME OwnIds
    PROVE  TypeOK /\ Order /\ Kept /\ [Next]_vars => Kept'
<1> SUFFICES ASSUME TypeOK, Order, Kept, [Next]_vars PROVE Kept'
  OBVIOUS
<1>f. FeedInOrder /\ SenderInOrder /\ ClientsOwn /\ BatchOwn /\ NewUntouched
  BY DEF Order
<1>k. OpenStored /\ FailedGone /\ ReceivedAll
  BY DEF Kept
<1>t. /\ sender \in [pc : {"idle", "range", "delete"}, number : 0..Len(events),
                     left : SUBSET Ids, batch : SUBSET (Ids \X Streams), key : Ids]
      /\ clients \in [Ids -> Streams \cup {NoStream}]
      /\ stream \in [Streams -> {"new", "open", "cancelled", "returned"}]
      /\ DOMAIN got = Streams
      /\ since \in [Streams -> 0..Len(events)]
      /\ Len(events) \in Nat /\ Len(feed) \in Nat
  BY DEF TypeOK
<1>i. \A s \in Streams : IdOf[s] \in Ids /\ s # NoStream
  BY FeedAssumption
<1>o. \A s, t \in Streams : IdOf[s] = IdOf[t] => s = t
  BY DEF OwnIds
<1>d. Done \in Int /\ (feed' = feed /\ UNCHANGED runnerVars => Done' = Done)
  BY DoneStands
<1>1. CASE Runner \/ OrphanRow \/ Refill
  <2>1. Done' = Done
    BY <1>1, RunnerOrder
  <2>2. UNCHANGED <<clients, sender, stream, got, since>>
    BY <1>1 DEF Runner, PostRow, OrphanRow, AssignBegins, AssignEnds, Put, Push, Refill, FillReads,
                FillStores, feedVars, streamVars
  <2> QED
    BY <1>k, <2>1, <2>2 DEF Kept, OpenStored, FailedGone, ReceivedAll, Received, Waiting
<1>2. CASE TakeEvent
  <2>1. /\ Done' = Done + 1
        /\ sender' = [SenderIdle EXCEPT !.pc = "range", !.number = Done + 1, !.left = Ids]
    BY <1>2, TakeOrder
  <2>2. sender'.pc = "range" /\ sender'.left = Ids
    BY <2>1 DEF SenderIdle
  <2>3. UNCHANGED <<clients, stream, got, since>> /\ sender.pc = "idle"
    BY <1>2 DEF TakeEvent, streamVars
  <2>4. OpenStored' /\ FailedGone'
    BY <1>k, <2>2, <2>3 DEF OpenStored, FailedGone
  <2>5. ASSUME NEW s \in Streams, stream'[s] = "open", NEW n \in since'[s] + 1 .. Done'
        PROVE  Received(s, n)' \/ (n = Done' /\ Waiting(s)')
    <3>1. Waiting(s)' /\ ~Waiting(s)
      BY <1>f, <1>i, <1>k, <2>2, <2>3, <2>5 DEF Waiting, OpenStored, SenderInOrder
    <3>2. CASE n # Done'
      <4>1. since[s] \in Int /\ since'[s] = since[s]
        BY <1>t, <2>3
      <4>2. n \in since[s] + 1 .. Done
        BY <1>d, <2>1, <2>5, <3>2, <4>1
      <4>3. Received(s, n)
        BY <1>k, <2>3, <2>5, <3>1, <4>2 DEF ReceivedAll
      <4> QED
        BY <2>3, <4>3 DEF Received
    <3> QED
      BY <3>1, <3>2
  <2> QED
    BY <2>4, <2>5 DEF Kept, ReceivedAll
<1>3. ASSUME NEW ids \in SUBSET Ids, CopyEntries(ids) PROVE Kept'
  <2>1. /\ sender'.pc = sender.pc
        /\ sender'.left = sender.left \ ids /\ sender'.batch = Entries(ids)
        /\ sender.batch = {} /\ ids \subseteq sender.left /\ sender.pc = "range"
    BY <1>3, <1>t DEF CopyEntries
  <2>2. UNCHANGED <<clients, stream, got, since>> /\ Done' = Done
    BY <1>3, <1>d DEF CopyEntries, streamVars
  <2>3. ASSUME NEW s \in Streams PROVE Waiting(s)' <=> Waiting(s)
    <3>1. <<IdOf[s], s>> \in Entries(ids) <=> IdOf[s] \in ids /\ clients[IdOf[s]] = s
      BY <1>i DEF Entries
    <3> QED
      BY <1>i, <2>1, <2>2, <3>1 DEF Waiting
  <2>4. OpenStored' /\ FailedGone'
    BY <1>k, <2>1, <2>2 DEF OpenStored, FailedGone
  <2>5. ReceivedAll'
    BY <1>k, <2>2, <2>3 DEF ReceivedAll, Received
  <2> QED
    BY <2>4, <2>5 DEF Kept
<1>4. ASSUME NEW i \in Ids, NEW s \in Streams, SendDelivers(i, s) PROVE Kept'
  <2>1. /\ sender'.pc = sender.pc /\ sender'.left = sender.left
        /\ sender'.batch = sender.batch \ {<<i, s>>} /\ sender.pc = "range"
    BY <1>4, <1>t DEF SendDelivers
  <2>2. UNCHANGED <<clients, stream, since>> /\ Done' = Done
    BY <1>4, <1>d DEF SendDelivers, streamVars
  <2>3. sender.number = Done
    BY <1>f, <2>1 DEF SenderInOrder
  <2>4. PICK v : got' = [got EXCEPT ![s] = Append(@, [number |-> Done, balance |-> v])]
    BY <1>4, <2>3 DEF SendDelivers
  <2>5. Received(s, Done)' /\ \A n : Received(s, n) => Received(s, n)'
    <3> DEFINE r == [number |-> Done, balance |-> v]
               S == Receipts(Len(events)) \cup {r}
    <3>1. got[s] \in Seq(Receipts(Len(events)))
      BY DEF TypeOK, Receipts
    <3>2. got[s] \in Seq(S) /\ r \in S
      BY <3>1, SeqMonotonic
    <3>3. got'[s] = Append(got[s], r)
      BY <1>t, <2>4
    <3>4. /\ Len(Append(got[s], r)) = Len(got[s]) + 1 /\ Append(got[s], r)[Len(got[s]) + 1] = r
          /\ \A k \in 1..Len(got[s]) : Append(got[s], r)[k] = got[s][k]
      BY <3>2, AppendFacts
    <3>5. Len(got[s]) \in Nat /\ r.number = Done
      BY <3>1
    <3>6. Received(s, Done)'
      <4>1. Len(got[s]) + 1 \in 1..Len(got'[s])
        BY <3>3, <3>4, <3>5
      <4>2. got'[s][Len(got[s]) + 1].number = Done
        BY <3>3, <3>4, <3>5
      <4>3. \E k \in 1..Len(got'[s]) : got'[s][k].number = Done
        BY <4>1, <4>2
      <4> QED
        BY <2>2, <4>3 DEF Received
    <3>7. ASSUME NEW n, Received(s, n) PROVE Received(s, n)'
      <4>1. PICK k \in 1..Len(got[s]) : got[s][k].number = n
        BY <3>7 DEF Received
      <4>2. k \in 1..Len(got'[s]) /\ got'[s][k].number = n
        BY <3>3, <3>4, <3>5, <4>1
      <4> QED
        BY <4>2 DEF Received
    <3> QED
      BY <3>6, <3>7
  <2>6. \A t \in Streams : t # s => got'[t] = got[t] /\ (Waiting(t)' <=> Waiting(t))
    BY <1>t, <2>1, <2>2, <2>4 DEF Waiting
  <2>7. OpenStored' /\ FailedGone'
    BY <1>k, <2>1, <2>2 DEF OpenStored, FailedGone
  <2>8. ASSUME NEW t \in Streams, stream'[t] = "open", NEW n \in since'[t] + 1 .. Done'
        PROVE  Received(t, n)' \/ (n = Done' /\ Waiting(t)')
    <3>1. Received(t, n) \/ (n = Done /\ Waiting(t))
      BY <1>k, <2>2, <2>8 DEF ReceivedAll
    <3>2. CASE t = s
      <4>1. n = Done => Received(s, n)'
        BY <2>2, <2>5 DEF Received
      <4> QED
        BY <2>5, <3>1, <3>2, <4>1
    <3>3. CASE t # s
      <4>1. Received(t, n) => Received(t, n)'
        BY <2>6, <3>3 DEF Received
      <4> QED
        BY <2>2, <2>6, <3>1, <3>3, <4>1
    <3> QED
      BY <3>2, <3>3
  <2> QED
    BY <2>7, <2>8 DEF Kept, ReceivedAll
<1>5. ASSUME NEW i \in Ids, NEW s \in Streams, SendVanishes(i, s) \/ SendFails(i, s) PROVE Kept'
  <2>1. /\ sender'.left = sender.left /\ sender'.batch = sender.batch \ {<<i, s>>}
        /\ sender'.pc = "delete" => sender'.key = i
        /\ <<i, s>> \in sender.batch /\ stream[s] # "open"
    BY <1>5, <1>t DEF SendVanishes, SendFails
  <2>2. UNCHANGED <<clients, stream, got, since>> /\ Done' = Done
    BY <1>5, <1>d DEF SendVanishes, SendFails, streamVars
  <2>3. FailedGone'
    <3>1. i = IdOf[s]
      BY <1>f, <2>1 DEF BatchOwn
    <3>2. stream[s] \in {"cancelled", "returned"}
      BY <1>f, <1>t, <2>1, <3>1 DEF NewUntouched
    <3> QED
      BY <1>o, <2>1, <2>2, <3>1, <3>2 DEF FailedGone
  <2>4. \A t \in Streams : stream'[t] = "open" => (Waiting(t)' <=> Waiting(t))
    BY <2>1, <2>2 DEF Waiting
  <2>5. OpenStored'
    BY <1>k, <2>2 DEF OpenStored
  <2>6. ReceivedAll'
    BY <1>k, <2>2, <2>4 DEF ReceivedAll, Received
  <2> QED
    BY <2>3, <2>5, <2>6 DEF Kept
<1>6. CASE DeleteFailed
  <2>1. /\ sender'.pc = "range" /\ sender'.left = sender.left /\ sender'.batch = sender.batch
        /\ sender.pc = "delete"
    BY <1>6, <1>t DEF DeleteFailed
  <2>2. UNCHANGED <<stream, got, since>> /\ Done' = Done
    BY <1>6, <1>d DEF DeleteFailed, streamVars
  <2>3. \A t \in Streams : stream[t] = "open" => clients'[IdOf[t]] = clients[IdOf[t]]
    BY <1>6, <1>i, <1>k, <1>t, <2>1 DEF DeleteFailed, FailedGone
  <2>4. OpenStored' /\ FailedGone'
    BY <1>k, <2>1, <2>2, <2>3 DEF OpenStored, FailedGone
  <2>5. \A t \in Streams : stream'[t] = "open" => (Waiting(t)' <=> Waiting(t))
    BY <2>1, <2>2, <2>3 DEF Waiting
  <2>6. ReceivedAll'
    BY <1>k, <2>2, <2>5 DEF ReceivedAll, Received
  <2> QED
    BY <2>4, <2>6 DEF Kept
<1>7. CASE RangeEnds
  <2>1. /\ sender'.pc = "idle" /\ sender'.left = {} /\ sender'.batch = {}
        /\ sender.left = {} /\ sender.batch = {}
    BY <1>7 DEF RangeEnds, SenderIdle
  <2>2. UNCHANGED <<clients, stream, got, since>> /\ Done' = Done
    BY <1>7, <1>d DEF RangeEnds, streamVars
  <2> QED
    BY <1>k, <2>1, <2>2 DEF Kept, OpenStored, FailedGone, ReceivedAll, Received, Waiting
<1>8. ASSUME NEW s \in Streams, Subscribe(s) PROVE Kept'
  <2>1. UNCHANGED <<sender, got>> /\ Done' = Done
    BY <1>8, <1>d DEF Subscribe
  <2>2. /\ stream[s] = "new" /\ stream'[s] = "open"
        /\ \A t \in Streams : t # s => stream'[t] = stream[t] /\ since'[t] = since[t]
        /\ clients'[IdOf[s]] = s
        /\ \A j \in Ids : j # IdOf[s] => clients'[j] = clients[j]
    BY <1>8, <1>t, <1>i DEF Subscribe
  <2>3. since'[s] = Done
    BY <1>8, <1>f, <1>t, TakenIsDone DEF Subscribe
  <2>4. OpenStored'
    BY <1>i, <1>k, <1>o, <2>2 DEF OpenStored
  <2>5. FailedGone'
    BY <1>k, <2>1, <2>2 DEF FailedGone
  <2>6. \A t \in Streams : t # s => (Waiting(t)' <=> Waiting(t))
    BY <1>i, <1>o, <2>1, <2>2 DEF Waiting
  <2>7. \A n \in since'[s] + 1 .. Done' : FALSE
    BY <1>d, <2>1, <2>3
  <2>8. ReceivedAll'
    BY <1>k, <2>1, <2>2, <2>6, <2>7 DEF ReceivedAll, Received
  <2> QED
    BY <2>4, <2>5, <2>8 DEF Kept
<1>9. ASSUME NEW s \in Streams, HangUp(s) \/ Unsubscribe(s) \/ Stall(s) \/ Resume(s) PROVE Kept'
  <2>1. UNCHANGED <<sender, got, since>> /\ Done' = Done
    BY <1>9, <1>d DEF HangUp, Unsubscribe, Stall, Resume
  <2>2. \A t \in Streams : /\ stream'[t] = "open" => stream[t] = "open"
                           /\ stream[t] \in {"cancelled", "returned"} => stream'[t] \in {"cancelled", "returned"}
    BY <1>9, <1>t DEF HangUp, Unsubscribe, Stall, Resume
  <2>3. \A t \in Streams : stream'[t] = "open" => clients'[IdOf[t]] = clients[IdOf[t]]
    BY <1>9, <1>i, <1>o, <1>t DEF HangUp, Unsubscribe, Stall, Resume
  <2>4. OpenStored' /\ FailedGone'
    BY <1>k, <2>1, <2>2, <2>3 DEF OpenStored, FailedGone
  <2>5. \A t \in Streams : stream'[t] = "open" => (Waiting(t)' <=> Waiting(t))
    BY <2>1, <2>3 DEF Waiting
  <2>6. ReceivedAll'
    BY <1>k, <2>1, <2>2, <2>5 DEF ReceivedAll, Received
  <2> QED
    BY <2>4, <2>6 DEF Kept
<1>10. CASE UNCHANGED vars
  <2>1. UNCHANGED <<sender, got, clients, stream, since>> /\ Done' = Done
    BY <1>10, <1>d DEF vars, feedVars, streamVars
  <2> QED
    BY <1>k, <2>1 DEF Kept, OpenStored, FailedGone, ReceivedAll, Received, Waiting
<1>11. CASE \E s \in Streams : Client(s)
  BY <1>8, <1>9, <1>11 DEF Client
<1>12. CASE Ranging
  <2>1. CASE Send
    BY <1>4, <1>5, <2>1 DEF Send
  <2> QED
    BY <1>3, <1>6, <1>7, <1>12, <2>1 DEF Ranging
<1> QED
  BY <1>1, <1>2, <1>10, <1>11, <1>12 DEF Next, Quiescent

LEMMA KeptMeansNoneMissed == TypeOK /\ Order /\ Kept => NoneMissed
<1> SUFFICES ASSUME TypeOK, Order, Kept,
                    NEW s \in Streams, sender.pc = "idle", stream[s] = "open",
                    NEW n \in since[s] + 1 .. Taken
             PROVE  \E i \in 1..Len(got[s]) : got[s][i].number = n
  BY DEF NoneMissed
<1>1. Taken = Done
  BY TakenIsDone DEF Order
<1>2. ~Waiting(s)
  BY DEF Order, SenderInOrder, Waiting
<1> QED
  BY <1>1, <1>2 DEF Kept, ReceivedAll, Received

(***************************************************************************)
(* When no two subscriptions share an id, an open stream has every event   *)
(* that broadcast took since the stream was stored                         *)
(* (transactor/transactor.go:103-133).  The condition is needed: a client  *)
(* that reconnects under its id breaks it.                                 *)
(***************************************************************************)
THEOREM OwnIdsMissNothing ==
    ASSUME OwnIds
    PROVE  Spec => []NoneMissed
<1>1. Init => Kept
  BY InitKept
<1>2. TypeOK /\ Order /\ Kept /\ [Next]_vars => Kept'
  BY KeptStep
<1>3. TypeOK /\ Order /\ Kept => NoneMissed
  BY KeptMeansNoneMissed
<1> QED
  BY <1>1, <1>2, <1>3, OrderInvariant, PTL DEF Spec

-----------------------------------------------------------------------------
(* What a received balance counts.                                         *)

\* Covers and OneCountedTwice, for any list of events.
CoversIn(e, later, earlier) ==
    /\ earlier.rows <= later.rows
    /\ \A m \in earlier.applied : e[m].transfer <= later.rows \/ m \in later.applied

TwiceOnce(e, balance) ==
    \A m, n \in balance.applied :
        e[m].transfer <= balance.rows /\ e[n].transfer <= balance.rows => e[m].transfer = e[n].transfer

\* Events whose object is back in the map.
Settled == IF runner \in {"writing", "put"} THEN Len(events) - 1 ELSE Len(events)

InFlight(a) == runner \in {"writing", "put"} /\ Current.account = a

\* balanceUpdate has still to assign a side of transfer t.
IsOpen(t) ==
    \/ \E k \in 1..Len(todo) : todo[k].transfer = t
    \/ runner = "writing" /\ Current.transfer = t

\* Transfers are numbered as they are committed, and done one after the other.
Numbering ==
    /\ \A m \in 1..Len(events) : events[m].transfer <= rows
    /\ \A t \in Nat : IsOpen(t) =>
          t <= rows /\ \A m \in 1..Len(events) : events[m].transfer <= t
    /\ \A t, u \in Nat : IsOpen(t) /\ IsOpen(u) => t = u

\* Whoever has read the database read it after every settled event.
Snapshots ==
    /\ \A a \in Accounts : \A o \in 1..Len(objects[a]) : objects[a][o].rows <= rows
    /\ \A f \in Lookups : lookup[f].rows <= rows
    /\ \A f \in Lookups : lookup[f].pc = "read" =>
          \A m \in 1..Settled :
              events[m].transfer <= lookup[f].rows /\ Object(m).rows <= lookup[f].rows

\* An object has been assigned the events that point to it, and no others.
Assigned ==
    /\ \A a \in Accounts : \A o \in 1..Len(objects[a]) : \A m \in objects[a][o].applied :
          m \in 1..Len(events) /\ events[m].account = a /\ events[m].object = o
    /\ \A m \in 1..Len(events) : m \in Object(m).applied \/ (runner = "writing" /\ m = Len(events))

\* The events of an account point to newer and newer objects.
Climbs ==
    /\ \A j, k \in 1..Len(events) :
          j <= k /\ events[j].account = events[k].account => events[j].object <= events[k].object
    /\ \A j \in 1..Settled : events[j].object <= cached[events[j].account]

\* A newer object counts what an older one counts.
Covered ==
    /\ \A j, k \in 1..Len(events) :
          j <= k /\ events[j].account = events[k].account => CoversIn(events, Object(k), Object(j))
    /\ \A j \in 1..Settled : ~InFlight(events[j].account) =>
          CoversIn(events, objects[events[j].account][cached[events[j].account]], Object(j))

Singles ==
    \A a \in Accounts : \A o \in 1..Len(objects[a]) :
        /\ TwiceOnce(events, objects[a][o])
        /\ \A m \in objects[a][o].applied : events[m].transfer <= objects[a][o].rows =>
              \A t \in Nat : IsOpen(t) => t = events[m].transfer \/ t > objects[a][o].rows

Ledger == Numbering /\ Snapshots /\ Assigned /\ Climbs /\ Covered /\ Singles

\* Receipt r is a former state of its event's object, and counts the events up to its own.
Former(r) ==
    /\ r.balance.rows = Object(r.number).rows
    /\ r.balance.applied \subseteq Object(r.number).applied
    /\ \A m \in 1..r.number : events[m].account = events[r.number].account => Counts(r.balance, m)
    /\ TwiceOnce(events, r.balance)

NotBack(q, r) ==
    events[q.number].account = events[r.number].account /\ q.balance # Torn /\ r.balance # Torn
        => CoversIn(events, r.balance, q.balance)

Seen ==
    /\ \A s \in Streams : \A i \in 1..Len(got[s]) : got[s][i].number <= Done
    /\ \A s \in Streams : \A i \in 1..Len(got[s]) : got[s][i].balance # Torn => Former(got[s][i])
    /\ \A s \in Streams : \A i \in 1..Len(got[s]) : \A j \in 1..i - 1 : NotBack(got[s][j], got[s][i])

LEMMA SeenMeansNeverStale == Seen => NeverStale /\ OneCountedTwice
BY DEF Seen, Former, NotBack, TwiceOnce, CoversIn, Covers, Counts, NeverStale, OneCountedTwice

LEMMA LedgerFacts ==
    ASSUME LedgerTyped
    PROVE  /\ Len(events) \in Nat /\ rows \in Nat
           /\ \A m \in 1..Len(events) :
                 /\ events[m].account \in Accounts /\ events[m].transfer \in Nat
                 /\ events[m].object \in Nat /\ events[m].object \in 1..Len(objects[events[m].account])
           /\ \A a \in Accounts : Len(objects[a]) \in Nat /\ cached[a] \in Nat /\ cached[a] \in 1..Len(objects[a])
           /\ \A a \in Accounts : \A o \in 1..Len(objects[a]) :
                 /\ objects[a][o] \in Balances
                 /\ objects[a][o].rows \in Nat /\ objects[a][o].applied \subseteq Nat
           /\ \A f \in Lookups : lookup[f].rows \in Nat /\ lookup[f].account \in Accounts
           /\ \A t : IsOpen(t) => t \in Nat
<1>1. Len(events) \in Nat /\ rows \in Nat
  BY FeedAssumption DEF LedgerTyped
<1>2. \A m \in 1..Len(events) :
          /\ events[m].account \in Accounts /\ events[m].transfer \in Nat
          /\ events[m].object \in Nat /\ events[m].object \in 1..Len(objects[events[m].account])
  BY EventTyped
<1>3. \A a \in Accounts : Len(objects[a]) \in Nat /\ cached[a] \in Nat /\ cached[a] \in 1..Len(objects[a])
  BY DEF LedgerTyped
<1>4. ASSUME NEW a \in Accounts, NEW o \in 1..Len(objects[a])
      PROVE  /\ objects[a][o] \in Balances
             /\ objects[a][o].rows \in Nat /\ objects[a][o].applied \subseteq Nat
  <2>1. objects[a] \in Seq(Balances)
    BY DEF LedgerTyped
  <2>2. objects[a][o] \in Balances
    BY <2>1, ElementOfSeq
  <2> QED
    BY <2>2 DEF Balances
<1>5. \A f \in Lookups : lookup[f].rows \in Nat /\ lookup[f].account \in Accounts
  BY DEF LedgerTyped
<1>6. ASSUME NEW t, IsOpen(t) PROVE t \in Nat
  <2>1. CASE runner = "writing" /\ Current.transfer = t
    BY <1>2, <2>1, CurrentTyped DEF Current
  <2>2. ASSUME NEW k \in 1..Len(todo), todo[k].transfer = t PROVE t \in Nat
    <3>1. todo[k] \in Sides
      BY ElementOfSeq DEF LedgerTyped
    <3> QED
      BY <2>2, <3>1 DEF Sides
  <2> QED
    BY <1>6, <2>1, <2>2 DEF IsOpen
<1> QED
  BY <1>1, <1>2, <1>3, <1>4, <1>5, <1>6

LEMMA InitLedger == Init => Ledger /\ Seen
<1> SUFFICES ASSUME Init PROVE Ledger /\ Seen
  OBVIOUS
<1>1. Len(events) = 0 /\ Len(todo) = 0 /\ runner = "idle" /\ rows = 0
  BY EmptySeq DEF Init
<1>2. \A t : ~IsOpen(t)
  BY <1>1 DEF IsOpen
<1>3. Numbering
  BY <1>1, <1>2 DEF Numbering
<1>4. \A a \in Accounts : \A o \in 1..Len(objects[a]) : objects[a][o].rows = 0 /\ objects[a][o].applied = {}
  <2> DEFINE b == [rows |-> 0, applied |-> {}]
  <2>1. b.rows = 0 /\ b.applied = {}
    OBVIOUS
  <2>2. \A a \in Accounts : objects[a] = <<b>>
    BY DEF Init
  <2> HIDE DEF b
  <2>3. Len(<<b>>) = 1 /\ <<b>>[1] = b
    OBVIOUS
  <2> QED
    BY <2>1, <2>2, <2>3
<1>5. Settled = 0
  BY <1>1 DEF Settled
<1>6. Snapshots
  BY <1>1, <1>4, <1>5 DEF Snapshots, Init, NotReading
<1>7. Assigned /\ Climbs /\ Covered
  BY <1>1, <1>4, <1>5 DEF Assigned, Climbs, Covered
<1>8. Singles
  BY <1>4 DEF Singles, TwiceOnce
<1>9. \A s \in Streams : 1..Len(got[s]) = {}
  BY EmptySeq DEF Init
<1> QED
  BY <1>3, <1>6, <1>7, <1>8, <1>9 DEF Ledger, Seen

\* Events stay, and the objects they point to lose nothing.
Grown ==
    /\ Len(events) <= Len(events')
    /\ \A m \in 1..Len(events) : events'[m] = events[m]
    /\ \A m \in 1..Len(events) :
          Object(m)'.rows = Object(m).rows /\ Object(m).applied \subseteq Object(m)'.applied

\* What does not depend on the database and on the lookups.
LEMMA ObjectsStand ==
    ASSUME Assigned, Climbs, Covered, UNCHANGED <<events, objects, cached>>,
           runner' = runner \/ (runner = "push" /\ runner' = "idle")
    PROVE  /\ Assigned' /\ Climbs' /\ Covered' /\ Grown /\ Settled' = Settled
           /\ \A m : Object(m)' = Object(m)
<1>0. \A m : Object(m)' = Object(m)
  BY DEF Object
<1>1. Settled' = Settled /\ \A a : InFlight(a)' <=> InFlight(a)
  BY DEF Settled, InFlight, Current
<1>2. Assigned'
  BY <1>0 DEF Assigned
<1>3. Climbs'
  BY <1>1 DEF Climbs
<1>4. Covered'
  BY <1>0, <1>1 DEF Covered
<1>5. Grown
  BY <1>0 DEF Grown
<1> QED
  BY <1>0, <1>1, <1>2, <1>3, <1>4, <1>5

LEMMA PostLedger ==
    ASSUME LedgerTyped, Ledger, NEW d \in Accounts, NEW c \in Accounts, PostRow(d, c)
    PROVE  Ledger' /\ Grown
<1>f. Numbering /\ Snapshots /\ Assigned /\ Climbs /\ Covered /\ Singles
  BY DEF Ledger
<1>1. /\ UNCHANGED <<events, runner, objects, cached, lookup>> /\ runner = "idle" /\ rows' = rows + 1
      /\ todo' = <<Side(d, rows + 1), Side(c, rows + 1)>>
  BY DEF PostRow
<1>2. Assigned' /\ Climbs' /\ Covered' /\ Grown /\ Settled' = Settled /\ \A m : Object(m)' = Object(m)
  BY <1>1, <1>f, ObjectsStand
<1>3. \A t : IsOpen(t)' => t = rows + 1
  BY <1>1 DEF IsOpen, Side
<1>4. Numbering'
  BY <1>f, <1>1, <1>3, LedgerFacts DEF Numbering
<1>5. Snapshots'
  BY <1>f, <1>1, <1>2, LedgerFacts DEF Snapshots
<1>6. Singles'
  <2>1. ASSUME NEW a \in Accounts, NEW o \in 1..Len(objects[a])
        PROVE  TwiceOnce(events, objects[a][o])' /\ rows + 1 > objects[a][o].rows
    <3>1. TwiceOnce(events, objects[a][o])
      BY <1>f DEF Singles
    <3>2. rows \in Nat /\ objects[a][o].rows \in Nat /\ objects[a][o].rows <= rows
      BY <1>f, LedgerFacts DEF Snapshots
    <3> QED
      BY <1>1, <3>1, <3>2
  <2> QED
    BY <1>1, <1>3, <2>1 DEF Singles
<1> QED
  BY <1>2, <1>4, <1>5, <1>6 DEF Ledger

\* The steps that leave the sides alone and let time pass: orphans, the push, a read.
LEMMA OtherLedger ==
    ASSUME LedgerTyped, Ledger,
           OrphanRow \/ Push \/ (\E f \in Lookups, a \in Accounts : FillReads(f, a))
    PROVE  Ledger' /\ Grown
<1>f. Numbering /\ Snapshots /\ Assigned /\ Climbs /\ Covered /\ Singles
  BY DEF Ledger
<1>1. /\ UNCHANGED <<todo, events, objects, cached>>
      /\ runner' = runner \/ (runner = "push" /\ runner' = "idle")
      /\ rows' \in {rows, rows + 1}
  BY DEF OrphanRow, Push, FillReads
<1>2. Assigned' /\ Climbs' /\ Covered' /\ Grown /\ Settled' = Settled /\ \A m : Object(m)' = Object(m)
  BY <1>1, <1>f, ObjectsStand
<1>3. \A t : IsOpen(t)' <=> IsOpen(t)
  BY <1>1 DEF IsOpen, Current
<1>4. Numbering'
  BY <1>f, <1>1, <1>3, LedgerFacts DEF Numbering
<1>5. Singles'
  BY <1>f, <1>1, <1>3 DEF Singles, TwiceOnce
<1>6. Snapshots'
  <2>1. \A a \in Accounts : \A o \in 1..Len(objects'[a]) : objects'[a][o].rows <= rows'
    <3>1. rows \in Nat /\ rows' \in Nat /\ rows <= rows'
      BY <1>1, LedgerFacts
    <3>2. \A a \in Accounts : \A o \in 1..Len(objects[a]) :
              objects[a][o].rows <= rows /\ objects[a][o].rows \in Nat
      BY <1>f, LedgerFacts DEF Snapshots
    <3>3. \A a \in Accounts : \A o \in 1..Len(objects[a]) : objects[a][o].rows <= rows'
      BY <3>1, <3>2
    <3> QED
      BY <1>1, <3>3
  <2>2. CASE OrphanRow \/ Push
    <3>1. lookup' = lookup
      BY <2>2 DEF OrphanRow, Push
    <3> QED
      BY <1>f, <1>1, <1>2, <2>1, <3>1, LedgerFacts DEF Snapshots
  <2>3. ASSUME NEW f \in Lookups, NEW a \in Accounts, FillReads(f, a) PROVE Snapshots'
    <3>1. rows' = rows /\ \A g \in Lookups : lookup'[g] = lookup[g] \/ lookup'[g].rows = rows
      BY <2>3 DEF FillReads, LedgerTyped
    <3>2. \A m \in 1..Settled : m \in 1..Len(events)
      BY LedgerFacts DEF Settled
    <3>3. \A m \in 1..Len(events) : events[m].transfer <= rows /\ Object(m).rows <= rows
      BY <1>f, LedgerFacts DEF Numbering, Snapshots, Object
    <3>4. ASSUME NEW g \in Lookups PROVE lookup'[g].rows <= rows'
      BY <1>f, <3>1, LedgerFacts DEF Snapshots
    <3>5. ASSUME NEW g \in Lookups, lookup'[g].pc = "read", NEW m \in 1..Settled
          PROVE  events[m].transfer <= lookup'[g].rows /\ Object(m).rows <= lookup'[g].rows
      BY <1>f, <3>1, <3>2, <3>3, <3>5 DEF Snapshots
    <3> QED
      BY <1>1, <1>2, <2>1, <3>4, <3>5 DEF Snapshots
  <2> QED
    BY <2>2, <2>3
<1> QED
  BY <1>2, <1>4, <1>5, <1>6 DEF Ledger

\* The side that get takes moves from the list to a new event.
LEMMA BeginsFacts ==
    ASSUME LedgerTyped, AssignBegins
    PROVE  /\ todo # <<>> /\ runner = "idle" /\ runner' = "writing"
           /\ UNCHANGED <<rows, objects, cached, lookup>>
           /\ Len(events') = Len(events) + 1
           /\ \A m \in 1..Len(events) : events'[m] = events[m]
           /\ LET e == events'[Len(events) + 1]
              IN  /\ e.account \in Accounts /\ e.object = cached[e.account]
                  /\ e.transfer \in Nat /\ IsOpen(e.transfer)
                  /\ Current' = e
           /\ \A t : IsOpen(t)' => IsOpen(t)
<1> DEFINE side == Head(todo)
           e == [account |-> side.account, transfer |-> side.transfer, object |-> cached[side.account]]
<1>1. /\ todo \in Seq(Sides) /\ todo # <<>> /\ runner = "idle" /\ runner' = "writing"
      /\ UNCHANGED <<rows, objects, cached, lookup>>
      /\ todo' = Tail(todo) /\ events' = Append(events, e) /\ events \in Seq(Events)
  BY DEF AssignBegins, LedgerTyped
<1>2. /\ side = todo[1] /\ 1 \in 1..Len(todo) /\ side \in Sides
      /\ Len(todo') = Len(todo) - 1 /\ \A k \in 1..Len(todo') : todo'[k] = todo[k + 1]
      /\ Len(todo) \in Nat
  BY <1>1, HeadTailProperties, EmptySeq
<1>3. side.account \in Accounts /\ side.transfer \in Nat
  BY <1>2 DEF Sides
<1>4. e \in Events
  BY <1>3, LedgerFacts DEF Events
<1>5. e.account = side.account /\ e.object = cached[side.account] /\ e.transfer = side.transfer
  OBVIOUS
<1> HIDE DEF e, side
<1>6. /\ Len(events') = Len(events) + 1 /\ events'[Len(events) + 1] = e
      /\ \A m \in 1..Len(events) : events'[m] = events[m]
  BY <1>1, <1>4, AppendFacts
<1>7. Current' = e
  BY <1>6 DEF Current
<1>8. IsOpen(e.transfer)
  BY <1>2, <1>5 DEF IsOpen
<1>9. ASSUME NEW t, IsOpen(t)' PROVE IsOpen(t)
  <2>1. CASE t = e.transfer
    BY <1>8, <2>1
  <2>2. ASSUME NEW k \in 1..Len(todo'), todo'[k].transfer = t PROVE IsOpen(t)
    <3>1. k + 1 \in 1..Len(todo) /\ todo[k + 1].transfer = t
      BY <1>2, <2>2
    <3> QED
      BY <3>1 DEF IsOpen
  <2> QED
    BY <1>7, <1>9, <2>1, <2>2 DEF IsOpen
<1> QED
  BY <1>1, <1>3, <1>5, <1>6, <1>7, <1>8, <1>9

LEMMA BeginsLedger ==
    ASSUME LedgerTyped, Ledger, AssignBegins
    PROVE  Ledger' /\ Grown
<1>f. Numbering /\ Snapshots /\ Assigned /\ Climbs /\ Covered /\ Singles
  BY DEF Ledger
<1> DEFINE n == Len(events) + 1
           a == events'[n].account
<1>1. /\ runner = "idle" /\ runner' = "writing"
      /\ UNCHANGED <<rows, objects, cached, lookup>>
      /\ Len(events') = n /\ n \in Nat /\ n \notin 1..Len(events)
      /\ \A m \in 1..n : m \in 1..Len(events) \/ m = n
      /\ \A m \in 1..Len(events) : events'[m] = events[m]
      /\ a \in Accounts /\ events'[n].object = cached[a]
      /\ events'[n].transfer \in Nat /\ IsOpen(events'[n].transfer) /\ Current' = events'[n]
      /\ \A t : IsOpen(t)' => IsOpen(t)
  BY BeginsFacts, LedgerFacts
<1>3. Settled' = Len(events) /\ Settled = Len(events)
  BY <1>1, LedgerFacts DEF Settled
<1>h. n \in 1..n /\ Len(events) <= n /\ \A m \in 1..Len(events) : m \in 1..n
  BY <1>1, LedgerFacts
<1> HIDE DEF n
<1>2. /\ \A m \in 1..Len(events) : Object(m)' = Object(m)
      /\ \A m : m = n => Object(m)' = objects[a][cached[a]]
  <2>1. \A m : Object(m)' = objects[events'[m].account][events'[m].object]
    BY <1>1 DEF Object
  <2>2. \A m \in 1..Len(events) : Object(m)' = Object(m)
    BY <1>1, <2>1 DEF Object
  <2>3. events'[n].object = cached[a]
    BY <1>1
  <2>4. \A m : m = n => Object(m)' = objects[a][cached[a]]
    BY <2>1, <2>3
  <2> QED
    BY <2>2, <2>4
<1>4. Numbering'
  <2>1. events'[n].transfer <= rows
    BY <1>f, <1>1 DEF Numbering
  <2>2. \A t \in Nat : IsOpen(t)' => t <= rows /\ t = events'[n].transfer
    BY <1>f, <1>1 DEF Numbering
  <2>3. \A t \in Nat : IsOpen(t)' => \A m \in 1..n : events'[m].transfer <= t
    BY <1>f, <1>1, <2>2 DEF Numbering
  <2>4. \A m \in 1..n : events'[m].transfer <= rows
    BY <1>f, <1>1, <2>1 DEF Numbering
  <2> QED
    BY <1>1, <2>2, <2>3, <2>4 DEF Numbering
<1>5. Snapshots'
  <2>1. \A m \in 1..Len(events) : events'[m].transfer = events[m].transfer /\ Object(m)' = Object(m)
    BY <1>1, <1>2
  <2>2. ASSUME NEW f \in Lookups, lookup[f].pc = "read", NEW m \in 1..Len(events)
        PROVE  events'[m].transfer <= lookup[f].rows /\ Object(m)'.rows <= lookup[f].rows
    BY <1>f, <1>3, <2>1, <2>2 DEF Snapshots
  <2> QED
    BY <1>f, <1>1, <1>3, <2>2 DEF Snapshots
<1>6. Assigned'
  <2>1. \A b \in Accounts : \A o \in 1..Len(objects[b]) : \A m \in objects[b][o].applied :
            m \in 1..Len(events) /\ events[m].account = b /\ events[m].object = o
    BY <1>f DEF Assigned
  <2>2. \A m \in 1..Len(events) : m \in Object(m).applied
    BY <1>f, <1>1 DEF Assigned
  <2>3. \A m \in 1..Len(events) : m \in 1..n /\ m \in Object(m)'.applied
    BY <1>h, <1>2, <2>2
  <2>4. \A b \in Accounts : \A o \in 1..Len(objects[b]) : \A m \in objects[b][o].applied :
            m \in 1..n /\ events'[m].account = b /\ events'[m].object = o
    BY <1>1, <2>1, <2>3
  <2> QED
    BY <1>1, <2>3, <2>4 DEF Assigned
<1>7. Climbs'
  <2>1. \A j \in 1..Len(events) : events[j].account = a => events[j].object <= cached[a]
    BY <1>f, <1>3 DEF Climbs
  <2>2. \A j, k \in 1..n : j <= k /\ events'[j].account = events'[k].account
          => events'[j].object <= events'[k].object
    BY <1>f, <1>1, <2>1, LedgerFacts DEF Climbs
  <2> QED
    BY <1>f, <1>1, <1>3, <2>2 DEF Climbs
<1>8. Covered'
  <2>0. \A j \in 1..Len(events) : \A m \in Object(j).applied : events'[m] = events[m]
    BY <1>f, <1>1, LedgerFacts DEF Assigned, Object
  <2>1. ASSUME NEW j \in 1..Len(events), NEW p, CoversIn(events, p, Object(j))
        PROVE  CoversIn(events', p, Object(j))
    BY <2>0, <2>1 DEF CoversIn
  <2>2. ASSUME NEW j \in 1..Len(events), ~InFlight(events[j].account)'
        PROVE  CoversIn(events', objects[events[j].account][cached[events[j].account]], Object(j))
    BY <1>f, <1>1, <1>3, <2>1 DEF Covered, InFlight
  <2>3. ASSUME NEW j \in 1..Len(events), events[j].account = a
        PROVE  CoversIn(events', objects[a][cached[a]], Object(j))
    BY <1>f, <1>1, <1>3, <2>1, <2>3 DEF Covered, InFlight
  <2>4. CoversIn(events', objects[a][cached[a]], objects[a][cached[a]])
    BY <1>1, LedgerFacts DEF CoversIn
  <2>5. ASSUME NEW j \in 1..n, NEW k \in 1..n, j <= k, events'[j].account = events'[k].account
        PROVE  CoversIn(events', Object(k)', Object(j)')
    <3>1. CASE k = n /\ j = n
      BY <1>2, <2>4, <3>1
    <3>2. CASE k = n /\ j # n
      <4>1. j \in 1..Len(events) /\ events[j].account = a
        BY <1>1, <2>5, <3>2
      <4> QED
        BY <1>2, <2>3, <3>2, <4>1
    <3>3. CASE k # n
      <4>1. k \in 1..Len(events) /\ j \in 1..Len(events)
        BY <1>1, <2>5, <3>3, LedgerFacts
      <4>2. CoversIn(events, Object(k), Object(j))
        BY <1>f, <1>1, <2>5, <4>1 DEF Covered
      <4> QED
        BY <1>2, <2>1, <4>1, <4>2
    <3> QED
      BY <3>1, <3>2, <3>3
  <2>6. ASSUME NEW j \in 1..Len(events), ~InFlight(events[j].account)'
        PROVE  CoversIn(events', objects[events'[j].account][cached[events'[j].account]], Object(j)')
    BY <1>1, <1>2, <2>2, <2>6
  <2> QED
    BY <1>1, <1>3, <2>5, <2>6 DEF Covered
<1>9. Singles'
  <2>1. ASSUME NEW b \in Accounts, NEW o \in 1..Len(objects[b])
        PROVE  \A m \in objects[b][o].applied : events'[m] = events[m]
    <3>1. \A m \in objects[b][o].applied : m \in 1..Len(events)
      BY <1>f DEF Assigned
    <3> QED
      BY <1>1, <3>1
  <2>2. ASSUME NEW b \in Accounts, NEW o \in 1..Len(objects[b])
        PROVE  TwiceOnce(events', objects[b][o])
    <3>1. TwiceOnce(events, objects[b][o])
      BY <1>f DEF Singles
    <3> QED
      BY <2>1, <3>1 DEF TwiceOnce
  <2>3. ASSUME NEW b \in Accounts, NEW o \in 1..Len(objects[b]), NEW m \in objects[b][o].applied,
               events'[m].transfer <= objects[b][o].rows, NEW t \in Nat, IsOpen(t)'
        PROVE  t = events'[m].transfer \/ t > objects[b][o].rows
    <3>1. IsOpen(t) /\ events'[m] = events[m]
      BY <1>1, <2>1, <2>3
    <3> QED
      BY <1>f, <2>3, <3>1 DEF Singles
  <2> QED
    BY <1>1, <2>2, <2>3 DEF Singles
<1>10. Grown
  <2>1. Len(events) <= Len(events')
    BY <1>1, <1>h
  <2> QED
    BY <1>1, <1>2, <2>1 DEF Grown
<1> QED
  BY <1>4, <1>5, <1>6, <1>7, <1>8, <1>9, <1>10 DEF Ledger

LEMMA EndsFacts ==
    ASSUME LedgerTyped, AssignEnds
    PROVE  LET n == Len(events)
               q == Current.account
               o == Current.object
           IN  /\ n \in 1..Len(events) /\ q \in Accounts /\ o \in 1..Len(objects[q])
               /\ events[n].account = q /\ events[n].object = o
               /\ runner = "writing" /\ runner' = "put"
               /\ UNCHANGED <<rows, todo, events, cached, lookup>> /\ Current' = Current
               /\ \A a \in Accounts : Len(objects'[a]) = Len(objects[a])
               /\ \A a \in Accounts : \A i \in 1..Len(objects[a]) :
                     /\ objects'[a][i].rows = objects[a][i].rows
                     /\ objects'[a][i].applied = IF a = q /\ i = o THEN objects[a][i].applied \cup {n}
                                                                 ELSE objects[a][i].applied
<1> DEFINE n == Len(events)
           q == Current.account
           o == Current.object
           b == [objects[q][o] EXCEPT !.applied = @ \cup {n}]
<1>1. runner = "writing" /\ runner' = "put" /\ UNCHANGED <<rows, todo, events, cached, lookup>>
  BY DEF AssignEnds
<1>8. objects' = [objects EXCEPT ![q] = [objects[q] EXCEPT ![o] = b]]
  BY DEF AssignEnds
<1>2. n \in 1..Len(events)
  BY <1>1, CurrentTyped
<1>3. q \in Accounts /\ o \in 1..Len(objects[q]) /\ events[n].account = q /\ events[n].object = o
  BY <1>2, LedgerFacts DEF Current
<1>4. Current' = Current
  BY <1>1 DEF Current
<1>5. objects \in [Accounts -> Seq(Balances)]
  BY DEF LedgerTyped
<1> HIDE DEF n, q, o
<1>6. objects[q] \in Seq(Balances) /\ objects[q][o] \in Balances /\ n \in Nat
  BY <1>2, <1>3, <1>5, ElementOfSeq, LedgerFacts
<1>7. b \in Balances /\ b.rows = objects[q][o].rows /\ b.applied = objects[q][o].applied \cup {n}
  BY <1>6 DEF Balances
<1> HIDE DEF b
<1>9. /\ Len([objects[q] EXCEPT ![o] = b]) = Len(objects[q])
      /\ \A j \in 1..Len(objects[q]) : [objects[q] EXCEPT ![o] = b][j] = IF j = o THEN b ELSE objects[q][j]
  BY <1>3, <1>6, <1>7, ExceptSeq
<1>10. \A a \in Accounts : objects'[a] = IF a = q THEN [objects[q] EXCEPT ![o] = b] ELSE objects[a]
  BY <1>3, <1>5, <1>8
<1>11. \A a \in Accounts : Len(objects'[a]) = Len(objects[a])
  BY <1>9, <1>10
<1>12. \A a \in Accounts : \A i \in 1..Len(objects[a]) :
          /\ objects'[a][i].rows = objects[a][i].rows
          /\ objects'[a][i].applied = IF a = q /\ i = o THEN objects[a][i].applied \cup {n}
                                                      ELSE objects[a][i].applied
  BY <1>7, <1>9, <1>10
<1> QED
  BY <1>1, <1>2, <1>3, <1>4, <1>11, <1>12 DEF n, q, o

LEMMA EndsLedger ==
    ASSUME LedgerTyped, Ledger, AssignEnds
    PROVE  Ledger' /\ Grown
<1>f. Numbering /\ Snapshots /\ Assigned /\ Climbs /\ Covered /\ Singles
  BY DEF Ledger
<1> DEFINE n == Len(events)
           q == Current.account
           o == Current.object
<1>1. /\ n \in 1..Len(events) /\ n \in Nat /\ q \in Accounts /\ o \in 1..Len(objects[q])
      /\ events[n].account = q /\ events[n].object = o /\ Current.transfer = events[n].transfer
      /\ runner = "writing" /\ runner' = "put"
      /\ UNCHANGED <<rows, todo, events, cached, lookup>> /\ Current' = Current
      /\ \A a \in Accounts : Len(objects'[a]) = Len(objects[a])
      /\ \A a \in Accounts : \A i \in 1..Len(objects[a]) :
            /\ objects'[a][i].rows = objects[a][i].rows
            /\ objects'[a][i].applied = IF a = q /\ i = o THEN objects[a][i].applied \cup {n}
                                                        ELSE objects[a][i].applied
  BY EndsFacts, LedgerFacts DEF Current
<1>2. Settled' = Settled /\ Settled = n - 1 /\ \A a : InFlight(a)' <=> a = q
  BY <1>1 DEF Settled, InFlight
<1>3. \A t : IsOpen(t)' => IsOpen(t)
  BY <1>1 DEF IsOpen
<1>4. IsOpen(events[n].transfer)
  BY <1>1 DEF IsOpen
<1>e. \A m \in 1..Len(events) : m <= n
  BY <1>1
<1> HIDE DEF n, q, o
<1>5. \A m \in 1..Len(events) :
          /\ Object(m)' = objects'[events[m].account][events[m].object]
          /\ Object(m)'.rows = Object(m).rows
          /\ Object(m)'.applied = IF events[m].account = q /\ events[m].object = o
                                  THEN Object(m).applied \cup {n} ELSE Object(m).applied
  BY <1>1, LedgerFacts DEF Object
<1>6. Numbering'
  BY <1>f, <1>1, <1>3 DEF Numbering
<1>7. Snapshots'
  <2>1. \A m \in 1..Settled : m \in 1..Len(events)
    BY <1>1, <1>2
  <2>2. ASSUME NEW f \in Lookups, lookup[f].pc = "read", NEW m \in 1..Settled
        PROVE  events[m].transfer <= lookup[f].rows /\ Object(m)'.rows <= lookup[f].rows
    BY <1>f, <1>5, <2>1, <2>2 DEF Snapshots
  <2>3. ASSUME NEW a \in Accounts, NEW i \in 1..Len(objects'[a]) PROVE objects'[a][i].rows <= rows
    BY <1>f, <1>1 DEF Snapshots
  <2> QED
    BY <1>f, <1>1, <1>2, <2>2, <2>3 DEF Snapshots
<1>8. Assigned'
  <2>1. \A m \in 1..Len(events) : m \in Object(m)'.applied
    <3>1. \A m \in 1..Len(events) : m \in Object(m).applied \/ m = n
      BY <1>f DEF Assigned, n
    <3> QED
      BY <1>1, <1>5, <3>1
  <2>2. ASSUME NEW a \in Accounts, NEW i \in 1..Len(objects[a]), NEW m \in objects'[a][i].applied
        PROVE  m \in 1..Len(events) /\ events[m].account = a /\ events[m].object = i
    <3>1. CASE m \in objects[a][i].applied
      BY <1>f, <3>1 DEF Assigned
    <3>2. CASE m \notin objects[a][i].applied
      <4>1. objects'[a][i].applied = IF a = q /\ i = o THEN objects[a][i].applied \cup {n}
                                                       ELSE objects[a][i].applied
        BY <1>1
      <4>2. m = n /\ a = q /\ i = o
        BY <2>2, <3>2, <4>1
      <4> QED
        BY <1>1, <4>2
    <3> QED
      BY <3>1, <3>2
  <2> QED
    BY <1>1, <2>1, <2>2 DEF Assigned
<1>9. Climbs'
  BY <1>f, <1>1, <1>2 DEF Climbs
<1>10. Covered'
  <2>1. ASSUME NEW j \in 1..Len(events), NEW k \in 1..Len(events), j <= k,
               events[j].account = events[k].account
        PROVE  CoversIn(events, Object(k)', Object(j)')
    <3>1. CoversIn(events, Object(k), Object(j))
      BY <1>f, <2>1 DEF Covered
    <3>2. n \in Object(j)'.applied => n \in Object(k)'.applied \/ n \in Object(j).applied
      <4> SUFFICES ASSUME n \in Object(j)'.applied, n \notin Object(j).applied
                   PROVE  n \in Object(k)'.applied
        OBVIOUS
      <4>1. events[j].account = q /\ events[j].object = o
        BY <1>5
      <4>2. k <= n
        BY <1>e
      <4>c. \A i, l \in 1..Len(events) :
                i <= l /\ events[i].account = events[l].account => events[i].object <= events[l].object
        BY <1>f DEF Climbs
      <4>3. o <= events[k].object
        BY <2>1, <4>1, <4>c
      <4>6. n \in 1..Len(events) /\ events[n].object = o /\ events[k].account = events[n].account
        BY <1>1, <2>1, <4>1
      <4>5. events[k].object <= o
        BY <4>2, <4>6, <4>c
      <4>4. events[k].object = o
        BY <2>1, <4>3, <4>5, <1>1, LedgerFacts
      <4> QED
        BY <1>5, <2>1, <4>1, <4>4
    <3>3. \A m \in Object(j)'.applied : m \in Object(j).applied \/ m = n
      BY <1>5
    <3>4. Object(k).applied \subseteq Object(k)'.applied
      BY <1>5
    <3> QED
      BY <1>5, <3>1, <3>2, <3>3, <3>4 DEF CoversIn
  <2>2. ASSUME NEW j \in 1..Settled, events[j].account # q
        PROVE  CoversIn(events, objects'[events[j].account][cached[events[j].account]], Object(j)')
    <3>1. j \in 1..Len(events)
      BY <1>1, <1>2
    <3>2. CoversIn(events, objects[events[j].account][cached[events[j].account]], Object(j))
      BY <1>f, <1>1, <2>2 DEF Covered, InFlight, q
    <3>3. Object(j)'.rows = Object(j).rows /\ Object(j)'.applied = Object(j).applied
      BY <1>5, <2>2, <3>1
    <3>4. /\ events[j].account \in Accounts
          /\ cached[events[j].account] \in 1..Len(objects[events[j].account])
      BY <3>1, LedgerFacts
    <3> QED
      BY <1>1, <2>2, <3>2, <3>3, <3>4 DEF CoversIn
  <2> QED
    BY <1>1, <1>2, <2>1, <2>2 DEF Covered
<1>11. Singles'
  <2>1. ASSUME NEW a \in Accounts, NEW i \in 1..Len(objects[a]), ~(a = q /\ i = o)
        PROVE  /\ TwiceOnce(events, objects'[a][i])
               /\ \A m \in objects'[a][i].applied : events[m].transfer <= objects'[a][i].rows =>
                     \A t \in Nat : IsOpen(t)' => t = events[m].transfer \/ t > objects'[a][i].rows
    <3>1. objects'[a][i].rows = objects[a][i].rows /\ objects'[a][i].applied = objects[a][i].applied
      BY <1>1, <2>1
    <3>2. /\ TwiceOnce(events, objects[a][i])
          /\ \A m \in objects[a][i].applied : events[m].transfer <= objects[a][i].rows =>
                \A t \in Nat : IsOpen(t) => t = events[m].transfer \/ t > objects[a][i].rows
      BY <1>f DEF Singles
    <3> QED
      BY <1>3, <3>1, <3>2 DEF TwiceOnce
  <2> DEFINE r == objects[q][o].rows
             A == objects[q][o].applied
  <2>2. /\ r \in Nat /\ events[n].transfer \in Nat
        /\ \A m \in A : m \in 1..Len(events)
        /\ \A m \in A : events[m].transfer \in Nat
    BY <1>f, <1>1, LedgerFacts DEF Assigned
  <2>3. /\ \A m, k \in A : events[m].transfer <= r /\ events[k].transfer <= r
                             => events[m].transfer = events[k].transfer
        /\ \A m \in A : events[m].transfer <= r =>
              \A t \in Nat : IsOpen(t) => t = events[m].transfer \/ t > r
    BY <1>f, <1>1 DEF Singles, TwiceOnce
  <2>4. \A m \in A : events[m].transfer <= r /\ events[n].transfer <= r
                        => events[m].transfer = events[n].transfer
    BY <1>4, <2>2, <2>3
  <2>5. \A t \in Nat : IsOpen(t)' => t = events[n].transfer
    BY <1>f, <1>3, <1>4, <2>2 DEF Numbering
  <2>6. objects'[q][o].rows = r /\ objects'[q][o].applied = A \cup {n}
    BY <1>1
  <2> HIDE DEF r, A
  <2>7. TwiceOnce(events, objects'[q][o])
    BY <2>3, <2>4, <2>6 DEF TwiceOnce
  <2>8. \A m \in objects'[q][o].applied : events[m].transfer <= objects'[q][o].rows =>
           \A t \in Nat : IsOpen(t)' => t = events[m].transfer \/ t > objects'[q][o].rows
    BY <1>3, <2>3, <2>5, <2>6
  <2> QED
    BY <1>1, <2>1, <2>7, <2>8 DEF Singles
<1>12. Grown
  <2>1. Len(events') = Len(events) /\ Len(events) \in Nat /\ events' = events
    BY <1>1, LedgerFacts
  <2>2. \A m \in 1..Len(events) :
            Object(m)'.rows = Object(m).rows /\ Object(m).applied \subseteq Object(m)'.applied
    BY <1>5
  <2>3. \A m \in 1..Len(events) : events'[m] = events[m]
    BY <2>1
  <2>4. Len(events) <= Len(events')
    BY <2>1
  <2> QED
    BY <2>2, <2>3, <2>4 DEF Grown
<1> QED
  BY <1>6, <1>7, <1>8, <1>9, <1>10, <1>11, <1>12 DEF Ledger

\* put finds no handler between its read of the database and its store.
LEMMA PutLedger ==
    ASSUME LedgerTyped, Ledger, Put
    PROVE  Ledger' /\ Grown
<1>f. Numbering /\ Snapshots /\ Assigned /\ Climbs /\ Covered /\ Singles
  BY DEF Ledger
<1> DEFINE n == Len(events)
           q == Current.account
           o == Current.object
<1>1. /\ runner = "put" /\ runner' = "push" /\ UNCHANGED <<rows, todo, events, objects, lookup>>
      /\ \A f \in Lookups : lookup[f].pc = "idle"
      /\ cached' = [cached EXCEPT ![q] = o]
  BY DEF Put
<1>2. n \in 1..Len(events) /\ n \in Nat /\ \A m \in 1..Len(events) : m <= n /\ (m = n \/ m \in 1..(n - 1))
  BY <1>1, CurrentTyped
<1>3. q \in Accounts /\ events[n].account = q /\ events[n].object = o
  BY <1>2, LedgerFacts DEF Current
<1>4. \A a \in Accounts : cached'[a] = IF a = q THEN o ELSE cached[a]
  BY <1>1, <1>3 DEF LedgerTyped
<1>5. Settled' = n /\ Settled = n - 1 /\ \A a : InFlight(a) <=> a = q
  BY <1>1 DEF Settled, InFlight
<1>6. \A t : IsOpen(t)' <=> IsOpen(t)
  BY <1>1 DEF IsOpen
<1>7. \A m : Object(m)' = Object(m)
  BY <1>1 DEF Object
<1> HIDE DEF n, q, o
<1>8. Numbering' /\ Singles'
  BY <1>f, <1>1, <1>6 DEF Numbering, Singles
<1>9. Snapshots'
  BY <1>f, <1>1 DEF Snapshots
<1>10. Assigned'
  BY <1>f, <1>1, <1>7 DEF Assigned
<1>e. \A m \in 1..Len(events) : events[m].account \in Accounts /\ (events[m].account # q => m \in 1..(n - 1))
  BY <1>2, <1>3, LedgerFacts
<1>11. Climbs'
  <2>1. ASSUME NEW j \in 1..Len(events) PROVE events[j].object <= cached'[events[j].account]
    <3>1. CASE events[j].account = q
      <4>1. events[j].object <= events[n].object
        BY <1>f, <1>2, <1>3, <3>1 DEF Climbs
      <4> QED
        BY <1>e, <1>3, <1>4, <3>1, <4>1
    <3>2. CASE events[j].account # q
      <4>1. events[j].object <= cached[events[j].account]
        BY <1>f, <1>e, <1>5, <3>2 DEF Climbs
      <4> QED
        BY <1>e, <1>4, <3>2, <4>1
    <3> QED
      BY <3>1, <3>2
  <2> QED
    BY <1>f, <1>1, <1>5, <2>1 DEF Climbs, n
<1>12. Covered'
  <2>1. ASSUME NEW j \in 1..Len(events)
        PROVE  CoversIn(events, objects[events[j].account][cached'[events[j].account]], Object(j))
    <3>1. CASE events[j].account = q
      <4>1. CoversIn(events, Object(n), Object(j))
        BY <1>f, <1>2, <1>3, <3>1 DEF Covered
      <4>2. objects[events[j].account][cached'[events[j].account]] = Object(n)
        BY <1>e, <1>3, <1>4, <3>1 DEF Object
      <4> QED
        BY <4>1, <4>2
    <3>2. CASE events[j].account # q
      <4>1. CoversIn(events, objects[events[j].account][cached[events[j].account]], Object(j))
        BY <1>f, <1>e, <1>5, <3>2 DEF Covered
      <4>2. cached'[events[j].account] = cached[events[j].account]
        BY <1>e, <1>4, <3>2
      <4> QED
        BY <4>1, <4>2
    <3> QED
      BY <3>1, <3>2
  <2> QED
    BY <1>f, <1>1, <1>5, <1>7, <2>1 DEF Covered, n
<1>13. Grown
  <2>1. Len(events) \in Nat /\ events' = events
    BY <1>1, LedgerFacts
  <2> QED
    BY <1>7, <2>1 DEF Grown
<1> QED
  BY <1>8, <1>9, <1>10, <1>11, <1>12, <1>13 DEF Ledger

\* The object a refill stores is empty, and read after every settled event.
LEMMA FillFacts ==
    ASSUME LedgerTyped, NEW f \in Lookups, FillStores(f)
    PROVE  LET a == lookup[f].account
               l == Len(objects[a]) + 1
           IN  /\ UNCHANGED <<rows, todo, events, runner>> /\ lookup[f].pc = "read" /\ a \in Accounts
               /\ Len(objects'[a]) = l /\ cached'[a] = l
               /\ objects'[a][l].rows = lookup[f].rows /\ objects'[a][l].applied = {}
               /\ \A i \in 1..Len(objects[a]) : objects'[a][i] = objects[a][i]
               /\ \A i \in 1..l : i = l \/ i \in 1..Len(objects[a])
               /\ \A c \in Accounts : c # a => objects'[c] = objects[c] /\ cached'[c] = cached[c]
               /\ \A g \in Lookups : lookup'[g] = lookup[g] \/ (lookup'[g].pc = "idle" /\ lookup'[g].rows = 0)
<1> DEFINE a == lookup[f].account
           b == [rows |-> lookup[f].rows, applied |-> {}]
<1>1. a \in Accounts /\ lookup[f].rows \in Nat
  BY LedgerFacts
<1>2. b \in Balances /\ b.rows = lookup[f].rows /\ b.applied = {}
  BY <1>1 DEF Balances
<1>3. /\ objects' = [objects EXCEPT ![a] = Append(@, b)] /\ cached' = [cached EXCEPT ![a] = Len(objects[a]) + 1]
      /\ UNCHANGED <<rows, todo, events, runner>>
      /\ lookup' = [lookup EXCEPT ![f] = NotReading] /\ lookup[f].pc = "read"
  BY DEF FillStores
<1>4. \A g \in Lookups : lookup'[g] = lookup[g] \/ (lookup'[g].pc = "idle" /\ lookup'[g].rows = 0)
  BY <1>3 DEF LedgerTyped, NotReading
<1> HIDE DEF a, b
<1>5. objects[a] \in Seq(Balances) /\ Len(objects[a]) \in Nat /\ DOMAIN objects = Accounts /\ DOMAIN cached = Accounts
  BY <1>1 DEF LedgerTyped
<1>6. /\ Len(Append(objects[a], b)) = Len(objects[a]) + 1
      /\ Append(objects[a], b)[Len(objects[a]) + 1] = b
      /\ \A i \in 1..Len(objects[a]) : Append(objects[a], b)[i] = objects[a][i]
  BY <1>2, <1>5, AppendFacts
<1>7. objects'[a] = Append(objects[a], b) /\ cached'[a] = Len(objects[a]) + 1
  BY <1>1, <1>3, <1>5
<1>8. \A c \in Accounts : c # a => objects'[c] = objects[c] /\ cached'[c] = cached[c]
  BY <1>3, <1>5
<1>9. \A i \in 1..(Len(objects[a]) + 1) : i = Len(objects[a]) + 1 \/ i \in 1..Len(objects[a])
  BY <1>5
<1>10. /\ UNCHANGED <<rows, todo, events, runner>> /\ lookup[f].pc = "read" /\ a \in Accounts
       /\ Len(objects'[a]) = Len(objects[a]) + 1 /\ cached'[a] = Len(objects[a]) + 1
       /\ objects'[a][Len(objects[a]) + 1].rows = lookup[f].rows
       /\ objects'[a][Len(objects[a]) + 1].applied = {}
       /\ \A i \in 1..Len(objects[a]) : objects'[a][i] = objects[a][i]
  BY <1>1, <1>2, <1>3, <1>6, <1>7
<1> QED
  BY <1>4, <1>8, <1>9, <1>10 DEF a

LEMMA FillStoresLedger ==
    ASSUME LedgerTyped, Ledger, NEW f \in Lookups, FillStores(f)
    PROVE  Ledger' /\ Grown
<1>f. Numbering /\ Snapshots /\ Assigned /\ Climbs /\ Covered /\ Singles
  BY DEF Ledger
<1> DEFINE a == lookup[f].account
           l == Len(objects[a]) + 1
           n == Len(events)
<1>1. /\ UNCHANGED <<rows, todo, events, runner>> /\ lookup[f].pc = "read" /\ a \in Accounts
      /\ Len(objects'[a]) = l /\ cached'[a] = l
      /\ objects'[a][l].rows = lookup[f].rows /\ objects'[a][l].applied = {}
      /\ \A i \in 1..Len(objects[a]) : objects'[a][i] = objects[a][i]
      /\ \A i \in 1..l : i = l \/ i \in 1..Len(objects[a])
      /\ \A c \in Accounts : c # a => objects'[c] = objects[c] /\ cached'[c] = cached[c]
      /\ \A g \in Lookups : lookup'[g] = lookup[g] \/ (lookup'[g].pc = "idle" /\ lookup'[g].rows = 0)
  BY FillFacts
<1>2. /\ Settled' = Settled /\ \A c : InFlight(c)' <=> InFlight(c)
      /\ \A t : IsOpen(t)' <=> IsOpen(t)
  BY <1>1 DEF Settled, InFlight, Current, IsOpen
<1>3. /\ l \in Nat /\ n \in Nat /\ Settled \in {n, n - 1}
      /\ \A m \in 1..Settled : m \in 1..n
      /\ \A m \in 1..n : events[m].account = a => events[m].object <= l
  BY <1>1, LedgerFacts DEF Settled
<1>4. \A m \in 1..n : m \in 1..Settled \/ (m = n /\ InFlight(events[m].account))
  <2>1. CASE runner \in {"writing", "put"}
    BY <1>3, <2>1 DEF Settled, InFlight, Current
  <2>2. CASE runner \notin {"writing", "put"}
    BY <1>3, <2>2 DEF Settled
  <2> QED
    BY <2>1, <2>2
<1> HIDE DEF l
<1>5. \A m \in 1..n : Object(m)' = Object(m)
  <2>1. ASSUME NEW m \in 1..n PROVE Object(m)' = Object(m)
    <3>1. Object(m)' = objects'[events[m].account][events[m].object]
      BY <1>1 DEF Object
    <3>2. events[m].account \in Accounts /\ events[m].object \in 1..Len(objects[events[m].account])
      BY LedgerFacts
    <3> QED
      BY <1>1, <3>1, <3>2 DEF Object
  <2> QED
    BY <2>1
<1> HIDE DEF a, n
<1>6. Numbering'
  BY <1>f, <1>1, <1>2 DEF Numbering
<1>7. \A c \in Accounts : \A i \in 1..Len(objects'[c]) :
          \/ i \in 1..Len(objects[c]) /\ objects'[c][i] = objects[c][i]
          \/ objects'[c][i].rows = lookup[f].rows /\ objects'[c][i].applied = {}
  BY <1>1
<1>8. Snapshots'
  <2>1. ASSUME NEW c \in Accounts, NEW i \in 1..Len(objects'[c]) PROVE objects'[c][i].rows <= rows
    BY <1>f, <1>7 DEF Snapshots
  <2>2. ASSUME NEW g \in Lookups PROVE lookup'[g].rows <= rows
    BY <1>f, <1>1, LedgerFacts DEF Snapshots
  <2>3. ASSUME NEW g \in Lookups, lookup'[g].pc = "read", NEW m \in 1..Settled
        PROVE  events[m].transfer <= lookup'[g].rows /\ Object(m)'.rows <= lookup'[g].rows
    <3>1. lookup'[g] = lookup[g]
      BY <1>1, <2>3
    <3>2. Object(m)' = Object(m)
      BY <1>3, <1>5
    <3> QED
      BY <1>f, <2>3, <3>1, <3>2 DEF Snapshots
  <2> QED
    BY <1>1, <1>2, <2>1, <2>2, <2>3 DEF Snapshots
<1>9. Assigned'
  <2>1. ASSUME NEW c \in Accounts, NEW i \in 1..Len(objects'[c]), NEW m \in objects'[c][i].applied
        PROVE  m \in 1..Len(events) /\ events[m].account = c /\ events[m].object = i
    BY <1>f, <1>7 DEF Assigned
  <2>2. \A m \in 1..Len(events) : m \in Object(m)'.applied \/ (runner = "writing" /\ m = Len(events))
    BY <1>f, <1>5 DEF Assigned, n
  <2> QED
    BY <1>1, <2>1, <2>2 DEF Assigned
<1>10. Climbs'
  <2>1. ASSUME NEW j \in 1..Settled PROVE events[j].object <= cached'[events[j].account]
    <3>1. CASE events[j].account = a
      BY <1>1, <1>3, <3>1
    <3>2. CASE events[j].account # a
      <4>1. events[j].account \in Accounts
        BY <1>3, LedgerFacts DEF n
      <4> QED
        BY <1>f, <1>1, <3>2, <4>1 DEF Climbs
    <3> QED
      BY <3>1, <3>2
  <2> QED
    BY <1>f, <1>1, <1>2, <2>1 DEF Climbs
<1>11. Covered'
  <2>1. \A j, k \in 1..n : j <= k /\ events[j].account = events[k].account
            => CoversIn(events, Object(k)', Object(j)')
    BY <1>f, <1>5 DEF Covered, n
  <2>2. ASSUME NEW j \in 1..Settled, ~InFlight(events[j].account)
        PROVE  CoversIn(events, objects'[events[j].account][cached'[events[j].account]], Object(j)')
    <3>0. j \in 1..n /\ events[j].account \in Accounts /\ Object(j)' = Object(j)
      BY <1>3, <1>5, LedgerFacts DEF n
    <3>1. CASE events[j].account # a
      <4>1. CoversIn(events, objects[events[j].account][cached[events[j].account]], Object(j))
        BY <1>f, <2>2 DEF Covered
      <4> QED
        BY <1>1, <3>0, <3>1, <4>1
    <3>2. CASE events[j].account = a
      <4>1. Object(j).rows <= lookup[f].rows
        BY <1>f, <1>1 DEF Snapshots
      <4>2. ASSUME NEW m \in Object(j).applied PROVE events[m].transfer <= lookup[f].rows
        <5>1. m \in 1..n /\ events[m].account = events[j].account
          BY <1>f, <3>0, LedgerFacts DEF Assigned, Object, n
        <5>2. m \in 1..Settled
          BY <1>4, <2>2, <5>1
        <5> QED
          BY <1>f, <1>1, <5>2 DEF Snapshots
      <4>3. objects'[events[j].account][cached'[events[j].account]] = objects'[a][l]
        BY <1>1, <3>2
      <4> QED
        BY <1>1, <3>0, <4>1, <4>2, <4>3 DEF CoversIn
    <3> QED
      BY <3>1, <3>2
  <2> QED
    BY <1>1, <1>2, <2>1, <2>2 DEF Covered, n
<1>12. Singles'
  <2>1. ASSUME NEW c \in Accounts, NEW i \in 1..Len(objects'[c])
        PROVE  /\ TwiceOnce(events, objects'[c][i])
               /\ \A m \in objects'[c][i].applied : events[m].transfer <= objects'[c][i].rows =>
                     \A t \in Nat : IsOpen(t) => t = events[m].transfer \/ t > objects'[c][i].rows
    <3>1. CASE objects'[c][i].applied = {}
      BY <3>1 DEF TwiceOnce
    <3>2. CASE i \in 1..Len(objects[c]) /\ objects'[c][i] = objects[c][i]
      BY <1>f, <3>2 DEF Singles
    <3> QED
      BY <1>7, <3>1, <3>2
  <2> QED
    BY <1>1, <1>2, <2>1 DEF Singles
<1>13. Grown
  <2>1. Len(events) \in Nat /\ events' = events
    BY <1>1, LedgerFacts
  <2> QED
    BY <1>5, <2>1 DEF Grown, n
<1> QED
  BY <1>6, <1>8, <1>9, <1>10, <1>11, <1>12, <1>13 DEF Ledger

LEMMA LedgerStep ==
    ASSUME LedgerTyped, Ledger, Runner \/ OrphanRow \/ Refill
    PROVE  Ledger' /\ Grown
<1>1. CASE Runner
  BY <1>1, PostLedger, BeginsLedger, EndsLedger, PutLedger, OtherLedger DEF Runner
<1>2. CASE OrphanRow
  BY <1>2, OtherLedger
<1>3. CASE Refill
  BY <1>3, OtherLedger, FillStoresLedger DEF Refill
<1> QED
  BY <1>1, <1>2, <1>3

LEMMA ReceiptTyped ==
    ASSUME TypeOK, NEW s \in Streams, NEW i \in 1..Len(got[s])
    PROVE  /\ got[s][i].number \in 1..Len(events)
           /\ got[s][i].balance \in Balances \cup {Torn}
<1>1. got[s] \in Seq(Receipts(Len(events)))
  BY DEF TypeOK, Receipts
<1>2. got[s][i] \in Receipts(Len(events))
  BY <1>1, ElementOfSeq
<1> QED
  BY <1>2 DEF Receipts

\* What was received stays true of the ledger as it grows.
LEMMA SeenStands ==
    ASSUME TypeOK, Assigned, Seen, Grown, got' = got, Done \in Int, Done' \in {Done, Done + 1}
    PROVE  Seen'
<1>0. LedgerTyped
  BY TypedParts
<1>g. /\ Len(events) \in Nat
      /\ \A m \in 1..Len(events) : events'[m] = events[m]
      /\ \A m \in 1..Len(events) :
            Object(m)'.rows = Object(m).rows /\ Object(m).applied \subseteq Object(m)'.applied
  BY <1>0, LedgerFacts DEF Grown
<1>1. ASSUME NEW s \in Streams, NEW i \in 1..Len(got[s])
      PROVE  /\ got[s][i].number \in 1..Len(events) /\ got[s][i].number \in Nat
             /\ events'[got[s][i].number] = events[got[s][i].number]
  BY <1>g, ReceiptTyped
<1>2. ASSUME NEW s \in Streams, NEW i \in 1..Len(got[s]) PROVE got[s][i].number <= Done'
  BY <1>1 DEF Seen
<1>3. ASSUME NEW s \in Streams, NEW i \in 1..Len(got[s]), got[s][i].balance # Torn
      PROVE  /\ \A m \in got[s][i].balance.applied : m \in 1..Len(events) /\ events'[m] = events[m]
             /\ Former(got[s][i]) /\ Former(got[s][i])'
  <2> DEFINE r == got[s][i]
  <2>1. Former(r)
    BY <1>3 DEF Seen
  <2>2. r.number \in 1..Len(events) /\ r.number \in Nat
    BY <1>1
  <2>3. \A m \in Object(r.number).applied : m \in 1..Len(events)
    <3>1. /\ events[r.number].account \in Accounts
          /\ events[r.number].object \in 1..Len(objects[events[r.number].account])
      BY <1>0, <2>2, LedgerFacts
    <3> QED
      BY <3>1 DEF Assigned, Object
  <2>4. \A m \in r.balance.applied : m \in 1..Len(events) /\ events'[m] = events[m]
    BY <1>g, <2>1, <2>3 DEF Former
  <2>5. r.balance.rows = Object(r.number)'.rows /\ r.balance.applied \subseteq Object(r.number)'.applied
    BY <1>g, <2>1, <2>2 DEF Former
  <2>6. \A m \in 1..r.number : m \in 1..Len(events) /\ events'[m] = events[m]
    BY <1>g, <2>2
  <2>7. \A m \in 1..r.number : events'[m].account = events'[r.number].account =>
            events'[m].transfer <= r.balance.rows \/ m \in r.balance.applied
    BY <1>1, <2>1, <2>6 DEF Former, Counts
  <2>8. TwiceOnce(events', r.balance)
    BY <2>1, <2>4 DEF Former, TwiceOnce
  <2>9. r' = r
    OBVIOUS
  <2> HIDE DEF r
  <2>10. Former(r)'
    BY <2>5, <2>7, <2>8, <2>9 DEF Former, Counts
  <2> QED
    BY <2>1, <2>4, <2>10 DEF r
<1>4. ASSUME NEW s \in Streams, NEW i \in 1..Len(got[s]), NEW j \in 1..i - 1 PROVE NotBack(got[s][j], got[s][i])'
  <2>1. j \in 1..Len(got[s])
    <3>1. Len(got[s]) \in Nat
      BY DEF TypeOK
    <3> QED
      BY <3>1
  <2>2. NotBack(got[s][j], got[s][i])
    BY DEF Seen
  <2>3. events'[got[s][j].number] = events[got[s][j].number] /\ events'[got[s][i].number] = events[got[s][i].number]
    BY <1>1, <2>1
  <2>4. got[s][j].balance # Torn => \A m \in got[s][j].balance.applied : events'[m] = events[m]
    BY <1>3, <2>1
  <2> QED
    BY <2>2, <2>3, <2>4 DEF NotBack, CoversIn
<1> QED
  BY <1>2, <1>3, <1>4 DEF Seen

\* Send finds an object that counts every transfer up to the event's own, and
\* everything that earlier receipts have counted.
LEMMA SeenSend ==
    ASSUME TypeOK, Order, Ledger, Seen, NEW i \in Ids, NEW s \in Streams, SendDelivers(i, s)
    PROVE  Seen'
<1>0. LedgerTyped
  BY TypedParts
<1>f. Assigned /\ Covered /\ Singles
  BY DEF Ledger
<1>1. /\ UNCHANGED <<events, runner, objects, feed>> /\ sender.pc = "range" /\ sender.number = Done
      /\ Done > 0 /\ Done \in Int /\ Done' = Done
  <2>1. UNCHANGED <<events, runner, objects, feed, runnerVars>> /\ sender.pc = "range"
    BY DEF SendDelivers, runnerVars
  <2> QED
    BY <2>1, DoneStands DEF Order, SenderInOrder
<1>2. PICK v \in Carried(Done) :
          got' = [got EXCEPT ![s] = Append(@, [number |-> Done, balance |-> v])]
  BY <1>1 DEF SendDelivers
<1>3. /\ Done \in 1..Len(events)
      /\ \A m \in 1..Done : m \in 1..Len(events) /\ (runner = "writing" => m # Len(events))
  <2>1. Len(events) \in Nat /\ Len(feed) \in Nat
    BY DEF TypeOK
  <2> QED
    BY <1>1, <2>1 DEF Done, Pushed
<1> DEFINE k == Done
           a == events[k].account
           O == Object(k)
           r == [number |-> k, balance |-> v]
<1>4. a \in Accounts /\ events[k].object \in 1..Len(objects[a])
  BY <1>0, <1>3, EventTyped
<1>5. v # Torn => v = O
  BY <1>2 DEF Carried
<1>6. v \in Balances \cup {Torn}
  BY <1>0, <1>3, <1>2, EventTyped DEF Carried
<1> HIDE DEF k
<1>k. k \in 1..Len(events) /\ k \in Nat /\ k = Done
  BY <1>3 DEF k
<1>7. v # Torn => Former(r)
  <2> SUFFICES ASSUME v # Torn PROVE Former(r)
    OBVIOUS
  <2>1. ASSUME NEW m \in 1..k, events[m].account = a PROVE Counts(O, m)
    <3>1. m \in 1..Len(events) /\ m <= k /\ m \in Object(m).applied
      BY <1>f, <1>3, <1>k DEF Assigned
    <3>2. CoversIn(events, O, Object(m))
      BY <1>f, <1>k, <2>1, <3>1 DEF Covered
    <3> QED
      BY <3>1, <3>2 DEF CoversIn, Counts
  <2>2. TwiceOnce(events, O)
    BY <1>f, <1>4 DEF Singles, Object
  <2> QED
    BY <1>5, <2>1, <2>2 DEF Former
<1>8. ASSUME NEW j \in 1..Len(got[s]) PROVE NotBack(got[s][j], r)
  <2> SUFFICES ASSUME events[got[s][j].number].account = a, got[s][j].balance # Torn, v # Torn
               PROVE  CoversIn(events, O, got[s][j].balance)
    BY <1>5 DEF NotBack
  <2> DEFINE q == got[s][j]
  <2>1. Former(q) /\ q.number <= k /\ q.number \in 1..Len(events)
    BY <1>k, ReceiptTyped DEF Seen
  <2>2. CoversIn(events, O, Object(q.number))
    BY <1>f, <1>k, <2>1 DEF Covered
  <2> QED
    BY <2>1, <2>2 DEF CoversIn, Former
<1> DEFINE S == Receipts(Len(events)) \cup {r}
<1>9. got[s] \in Seq(Receipts(Len(events))) /\ DOMAIN got = Streams
  BY DEF TypeOK, Receipts
<1>10. got[s] \in Seq(S) /\ r \in S /\ Len(got[s]) \in Nat
  BY <1>9, SeqMonotonic
<1>11. got'[s] = Append(got[s], r) /\ \A u \in Streams : u # s => got'[u] = got[u]
  BY <1>2, <1>9, <1>k
<1>12. /\ Len(Append(got[s], r)) = Len(got[s]) + 1 /\ Append(got[s], r)[Len(got[s]) + 1] = r
       /\ \A l \in 1..Len(got[s]) : Append(got[s], r)[l] = got[s][l]
       /\ \A l \in 1..Len(Append(got[s], r)) : l = Len(got[s]) + 1 \/ l \in 1..Len(got[s])
  BY <1>10, AppendFacts
<1>13. r.number = k /\ r.balance = v
  OBVIOUS
<1> HIDE DEF r
<1>14. \A l \in 1..Len(got'[s]) :
           (l = Len(got[s]) + 1 /\ got'[s][l] = r) \/ (l \in 1..Len(got[s]) /\ got'[s][l] = got[s][l])
  BY <1>11, <1>12
<1>15. \A u \in Streams : \A l \in 1..Len(got'[u]) : got'[u][l].number <= Done
  <2>1. \A u \in Streams : \A l \in 1..Len(got[u]) : got[u][l].number <= Done
    BY DEF Seen
  <2>2. r.number <= Done
    BY <1>k, <1>13
  <2> QED
    BY <1>11, <1>14, <2>1, <2>2
<1>16. \A u \in Streams : \A l \in 1..Len(got'[u]) : got'[u][l].balance # Torn => Former(got'[u][l])
  BY <1>7, <1>11, <1>13, <1>14 DEF Seen
<1>17. \A u \in Streams : \A l \in 1..Len(got'[u]) : \A j \in 1..l - 1 : NotBack(got'[u][j], got'[u][l])
  <2>1. ASSUME NEW l \in 1..Len(got'[s]), NEW j \in 1..l - 1 PROVE NotBack(got'[s][j], got'[s][l])
    <3>1. j \in 1..Len(got[s]) /\ got'[s][j] = got[s][j]
      BY <1>10, <1>11, <1>12
    <3>2. CASE got'[s][l] = r
      BY <1>8, <3>1, <3>2
    <3>3. CASE l \in 1..Len(got[s]) /\ got'[s][l] = got[s][l]
      BY <3>1, <3>3 DEF Seen
    <3> QED
      BY <1>14, <3>2, <3>3
  <2> QED
    BY <1>11, <2>1 DEF Seen
<1> QED
  BY <1>1, <1>15, <1>16, <1>17 DEF Seen, Former, NotBack, Counts, Object

LEMMA SeenStep ==
    TypeOK /\ Order /\ Ledger /\ Seen /\ [Next]_vars => Ledger' /\ Seen'
<1> SUFFICES ASSUME TypeOK, Order, Ledger, Seen, [Next]_vars PROVE Ledger' /\ Seen'
  OBVIOUS
<1>0. LedgerTyped /\ Assigned /\ Done \in Int
  BY TypedParts, DoneStands DEF Ledger
<1>1. CASE Runner \/ OrphanRow \/ Refill
  <2>1. Ledger' /\ Grown
    BY <1>0, <1>1, LedgerStep
  <2>2. got' = got
    BY <1>1 DEF Runner, PostRow, OrphanRow, AssignBegins, AssignEnds, Put, Push, Refill, FillReads,
                FillStores, feedVars
  <2>3. Done' = Done
    BY <1>1, RunnerOrder
  <2> QED
    BY <1>0, <2>1, <2>2, <2>3, SeenStands
<1>2. ASSUME UNCHANGED runnerVars PROVE Ledger' /\ Grown
  <2>1. UNCHANGED <<rows, todo, events, runner, objects, cached, lookup>>
    BY <1>2 DEF runnerVars
  <2>2. /\ \A t : IsOpen(t)' <=> IsOpen(t)
        /\ Settled' = Settled /\ \A c : InFlight(c)' <=> InFlight(c)
        /\ \A m : Object(m)' = Object(m)
    BY <2>1 DEF IsOpen, Settled, InFlight, Current, Object
  <2>3. Numbering' /\ Snapshots' /\ Assigned'
    BY <2>1, <2>2 DEF Ledger, Numbering, Snapshots, Assigned
  <2>4. Climbs' /\ Covered' /\ Singles'
    BY <2>1, <2>2 DEF Ledger, Climbs, Covered, Singles
  <2>5. Len(events) \in Nat
    BY <1>0, LedgerFacts
  <2>6. Grown
    BY <2>1, <2>2, <2>5 DEF Grown
  <2> QED
    BY <2>3, <2>4, <2>6 DEF Ledger
<1>3. ASSUME UNCHANGED <<runnerVars, got>>, Done' \in {Done, Done + 1} PROVE Ledger' /\ Seen'
  BY <1>0, <1>2, <1>3, SeenStands
<1>4. CASE TakeEvent
  BY <1>3, <1>4, TakeOrder DEF TakeEvent
<1>5. ASSUME UNCHANGED <<runnerVars, feed, got>> PROVE Ledger' /\ Seen'
  BY <1>3, <1>5, DoneStands
<1>6. CASE \E s \in Streams : Client(s)
  BY <1>5, <1>6 DEF Client, Subscribe, HangUp, Unsubscribe, Stall, Resume
<1>7. CASE UNCHANGED vars
  BY <1>5, <1>7 DEF vars, feedVars
<1>8. ASSUME NEW i \in Ids, NEW s \in Streams, SendDelivers(i, s) PROVE Ledger' /\ Seen'
  <2>1. UNCHANGED runnerVars
    BY <1>8 DEF SendDelivers
  <2> QED
    BY <1>2, <1>8, <2>1, SeenSend
<1>9. CASE Ranging
  BY <1>5, <1>8, <1>9 DEF Ranging, Send, CopyEntries, SendVanishes, SendFails, DeleteFailed, RangeEnds
<1> QED
  BY <1>1, <1>4, <1>6, <1>7, <1>9 DEF Next, Quiescent

LEMMA SeenInvariant == Spec => [](NeverStale /\ OneCountedTwice)
<1>1. Init => Ledger /\ Seen
  BY InitLedger
<1>2. TypeOK /\ Order /\ Ledger /\ Seen /\ [Next]_vars => (Ledger /\ Seen)'
  BY SeenStep
<1>3. Seen => NeverStale /\ OneCountedTwice
  BY SeenMeansNeverStale
<1> QED
  BY <1>1, <1>2, <1>3, OrderInvariant, PTL DEF Spec

(***************************************************************************)
(* Although an event only points to an object, which a handler may have    *)
(* replaced in the map and balanceUpdate may have put back since, what a   *)
(* client receives counts every transfer of the account up to the event's  *)
(* own and all that it has received of the account before, unless Send     *)
(* reads the string while balanceUpdate assigns it                         *)
(* (transactor/account_controller.go:10-65, transactor/transactor.go:104). *)
(***************************************************************************)
THEOREM BalancesNeverStale == Spec => []NeverStale
BY SeenInvariant, PTL

(***************************************************************************)
(* Whatever handlers refill the map and whatever orphaned statements       *)
(* commit meanwhile, a received balance counts at most one transfer twice: *)
(* the runner does not begin a statement before both sides of the last one *)
(* are assigned (transactor/account_controller.go:10-47).                  *)
(***************************************************************************)
THEOREM OneTransferTwice == Spec => []OneCountedTwice
BY SeenInvariant, PTL
=============================================================================
