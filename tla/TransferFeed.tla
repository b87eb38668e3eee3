----------------------------- MODULE TransferFeed -----------------------------
(***************************************************************************)
(* The feed of completed transfers: the runner posts a row, assigns the    *)
(* new balance to the cached object of each side's account and sends an    *)
(* event that points to that object into a bounded channel                 *)
(* (transactor/account_controller.go:10-47), broadcast sends each event to *)
(* the streams in the clients map, and every TransferCompleteSubscribe     *)
(* handler registers its stream under the client's id until its context    *)
(* ends (transactor/transactor.go:103-133).  Handlers that miss a ledger   *)
(* of a user replace the cached objects of all the user's accounts         *)
(* meanwhile (getAndSet): a refill is modelled for one account, as what    *)
(* happens to its object does not depend on the user's other accounts.     *)
(***************************************************************************)
EXTENDS Integers, Sequences, FiniteSets

CONSTANTS Streams,    \* TransferCompleteSubscribe calls
          Ids,        \* ids clients give themselves
          IdOf,       \* the id each stream was opened with
          NoStream,   \* no entry in the clients map
          Accounts,   \* accounts, all of them loaded by NewTransactor
          Lookups,    \* handlers that can be in getAndSet at a time
          FeedCap,    \* capacity of channel broadcaster (1000 in the code)
          MaxRows,    \* bound on the rows of one behaviour
          MaxObjects, \* bound on the objects of an account: no refill begins beyond it
          Torn        \* a balance read while it was being assigned

\* What an account object's balance is worth: the rows of the database it was
\* read from, and the events whose amount it has been assigned since.
Balances == [rows : Nat, applied : SUBSET Nat]

ASSUME FeedAssumption ==
    /\ Ids # {} /\ Accounts # {}
    /\ IdOf \in [Streams -> Ids]
    /\ NoStream \notin Streams
    /\ FeedCap \in Nat \ {0}
    /\ MaxRows \in Nat /\ MaxObjects \in Nat
    /\ Torn \notin Balances

VARIABLES
    rows,      \* rows of table transactions, numbered as they are committed
    todo,      \* sides of the last transfer that balanceUpdate has still to do
    events,    \* every event made so far, in order
    runner,    \* "idle", "writing" a balance, in "put", or at the "push" of the event
    objects,   \* the objects made for each account so far, the first by NewTransactor
    cached,    \* userMap: which of its objects each account has in the map
    lookup,    \* what each handler in getAndSet has read
    feed,      \* channel broadcaster: numbers of events
    clients,   \* the clients map
    sender,    \* the broadcast goroutine
    stream,    \* state of each handler
    stalled,   \* open streams whose client does not read
    got,       \* what the client of each stream has received
    since,     \* events taken from the channel before each stream was stored
    newest     \* the stream that was last stored under each id

runnerVars == <<rows, todo, events, runner, objects, cached, lookup>>
streamVars == <<stream, stalled, since, newest>>
feedVars   == <<feed, clients, sender, streamVars, got>>
vars       == <<runnerVars, feedVars>>

SenderIdle == [pc |-> "idle", number |-> 0, left |-> {}, batch |-> {}, key |-> CHOOSE i \in Ids : TRUE]

NotReading == [pc |-> "idle", account |-> CHOOSE a \in Accounts : TRUE, rows |-> 0]

Init ==
    /\ rows = 0
    /\ todo = <<>>
    /\ events = <<>>
    /\ runner = "idle"
    /\ objects = [a \in Accounts |-> <<[rows |-> 0, applied |-> {}]>>]
    /\ cached = [a \in Accounts |-> 1]
    /\ lookup = [f \in Lookups |-> NotReading]
    /\ feed = <<>>
    /\ clients = [i \in Ids |-> NoStream]
    /\ sender = SenderIdle
    /\ stream = [s \in Streams |-> "new"]
    /\ stalled = {}
    /\ got = [s \in Streams |-> <<>>]
    /\ since = [s \in Streams |-> 0]
    /\ newest = [i \in Ids |-> NoStream]

-----------------------------------------------------------------------------
(* The runner: a row, then balanceUpdate for both of its sides.            *)

Side(a, n) == [account |-> a, transfer |-> n]

\* Mutant of PostRow: balanceUpdate runs beside the runner, which goes on to the next transfer.
PostRowAhead(d, c) ==
    /\ rows < MaxRows
    /\ rows' = rows + 1
    /\ todo' = todo \o <<Side(d, rows + 1), Side(c, rows + 1)>>
    /\ UNCHANGED <<events, runner, objects, cached, lookup, feedVars>>

PostRow(d, c) ==
    /\ runner = "idle" /\ todo = <<>>
    /\ rows < MaxRows
    /\ rows' = rows + 1
    /\ todo' = <<Side(d, rows + 1), Side(c, rows + 1)>>
    /\ UNCHANGED <<events, runner, objects, cached, lookup, feedVars>>

\* A statement whose connection was lost commits: nobody calls balanceUpdate for it.
OrphanRow ==
    /\ rows < MaxRows
    /\ rows' = rows + 1
    /\ UNCHANGED <<todo, events, runner, objects, cached, lookup, feedVars>>

\* get finds the account's object.  The assignment of Balance, a string of two
\* words, is not atomic.
AssignBegins ==
    /\ runner = "idle" /\ todo # <<>>
    /\ LET side == Head(todo)
       IN  events' = Append(events, [account  |-> side.account,
                                     transfer |-> side.transfer,
                                     object   |-> cached[side.account]])
    /\ todo' = Tail(todo)
    /\ runner' = "writing"
    /\ UNCHANGED <<rows, objects, cached, lookup, feedVars>>

Current == events[Len(events)]

AssignEnds ==
    /\ runner = "writing"
    /\ objects' = [objects EXCEPT ![Current.account][Current.object].applied = @ \cup {Len(events)}]
    /\ runner' = "put"
    /\ UNCHANGED <<rows, todo, events, cached, lookup, feedVars>>

\* Mutant of Put: it stores without the write lock.
PutUnlocked ==
    /\ runner = "put"
    /\ cached' = [cached EXCEPT ![Current.account] = Current.object]
    /\ runner' = "push"
    /\ UNCHANGED <<rows, todo, events, objects, lookup, feedVars>>

\* put takes the write lock: no handler is in getAndSet, which get calls under
\* the read lock.
Put ==
    /\ runner = "put"
    /\ \A f \in Lookups : lookup[f].pc = "idle"
    /\ cached' = [cached EXCEPT ![Current.account] = Current.object]
    /\ runner' = "push"
    /\ UNCHANGED <<rows, todo, events, objects, lookup, feedVars>>

\* Mutant of Push: the channel is taken for unbounded.
PushUnbounded ==
    /\ runner = "push"
    /\ feed' = Append(feed, Len(events))
    /\ runner' = "idle"
    /\ UNCHANGED <<rows, todo, events, objects, cached, lookup, clients, sender, streamVars, got>>

\* Mutant of Push: the send does not block, an event that finds the channel full is lost.
PushOrDrop ==
    /\ runner = "push"
    /\ feed' = IF Len(feed) < FeedCap THEN Append(feed, Len(events)) ELSE feed
    /\ runner' = "idle"
    /\ UNCHANGED <<rows, todo, events, objects, cached, lookup, clients, sender, streamVars, got>>

\* The blocking send to the channel.
Push ==
    /\ runner = "push"
    /\ Len(feed) < FeedCap
    /\ feed' = Append(feed, Len(events))
    /\ runner' = "idle"
    /\ UNCHANGED <<rows, todo, events, objects, cached, lookup, clients, sender, streamVars, got>>

Runner == (\E d, c \in Accounts : PostRow(d, c)) \/ AssignBegins \/ AssignEnds \/ Put \/ Push

-----------------------------------------------------------------------------
(* getAndSet, in a handler that misses another ledger of the user.         *)

\* GetAllUserAccounts, under the read lock: a snapshot of the rows committed by now.
FillReads(f, a) ==
    /\ lookup[f].pc = "idle"
    /\ Len(objects[a]) < MaxObjects
    /\ lookup' = [lookup EXCEPT ![f] = [pc |-> "read", account |-> a, rows |-> rows]]
    /\ UNCHANGED <<rows, todo, events, runner, objects, cached, feedVars>>

\* The new object replaces the cached one, whatever has happened meanwhile.
FillStores(f) ==
    /\ lookup[f].pc = "read"
    /\ LET a == lookup[f].account
       IN  /\ objects' = [objects EXCEPT ![a] = Append(@, [rows |-> lookup[f].rows, applied |-> {}])]
           /\ cached' = [cached EXCEPT ![a] = Len(objects[a]) + 1]
    /\ lookup' = [lookup EXCEPT ![f] = NotReading]
    /\ UNCHANGED <<rows, todo, events, runner, feedVars>>

Refill == \E f \in Lookups : (\E a \in Accounts : FillReads(f, a)) \/ FillStores(f)

-----------------------------------------------------------------------------
(* broadcast.                                                              *)

\* Events that broadcast has taken from the channel.
Taken ==
    IF feed # <<>> THEN Head(feed) - 1
    ELSE IF runner = "idle" THEN Len(events) ELSE Len(events) - 1

TakeEvent ==
    /\ sender.pc = "idle"
    /\ feed # <<>>
    /\ sender' = [SenderIdle EXCEPT !.pc = "range", !.number = Head(feed), !.left = Ids]
    /\ feed' = Tail(feed)
    /\ UNCHANGED <<runnerVars, clients, streamVars, got>>

Entries(ids) == {entry \in ids \X Streams : clients[entry[1]] = entry[2]}

(***************************************************************************)
(* Range visits every key at most once, in no fixed order, and reads       *)
(* several entries before it calls f for the first of them: what f is      *)
(* given may have been stored over or deleted by then.                     *)
(***************************************************************************)
CopyEntries(ids) ==
    /\ sender.pc = "range"
    /\ sender.batch = {}
    /\ ids # {} /\ ids \subseteq sender.left
    /\ sender' = [sender EXCEPT !.left = @ \ ids,
                                !.batch = Entries(ids)]
    /\ UNCHANGED <<runnerVars, feed, clients, streamVars, got>>

Object(n) == objects[events[n].account][events[n].object]

(***************************************************************************)
(* The balance Send finds in the object that event n points to.  It takes  *)
(* no lock: during an assignment it reads the old words, or one of each.   *)
(***************************************************************************)
Carried(n) ==
    {Object(n)} \cup
    IF runner = "writing" /\ Current.account = events[n].account /\ Current.object = events[n].object
    THEN {Torn} ELSE {}

\* Send writes the event and its client receives it.
SendDelivers(i, s) ==
    /\ sender.pc = "range"
    /\ <<i, s>> \in sender.batch
    /\ stream[s] = "open" /\ s \notin stalled
    /\ \E v \in Carried(sender.number) :
         got' = [got EXCEPT ![s] = Append(@, [number |-> sender.number, balance |-> v])]
    /\ sender' = [sender EXCEPT !.batch = @ \ {<<i, s>>}]
    /\ UNCHANGED <<runnerVars, feed, clients, streamVars>>

\* The client is gone and Send has not noticed.
SendVanishes(i, s) ==
    /\ sender.pc = "range"
    /\ <<i, s>> \in sender.batch
    /\ stream[s] # "open"
    /\ sender' = [sender EXCEPT !.batch = @ \ {<<i, s>>}]
    /\ UNCHANGED <<runnerVars, feed, clients, streamVars, got>>

\* Send returns an error.
SendFails(i, s) ==
    /\ sender.pc = "range"
    /\ <<i, s>> \in sender.batch
    /\ stream[s] # "open"
    /\ sender' = [sender EXCEPT !.pc = "delete", !.batch = @ \ {<<i, s>>}, !.key = i]
    /\ UNCHANGED <<runnerVars, feed, clients, streamVars, got>>

\* Mutant of DeleteFailed: a failed Send ends the goroutine.
DeleteFailedAndStop ==
    /\ sender.pc = "delete"
    /\ clients' = [clients EXCEPT ![sender.key] = NoStream]
    /\ sender' = [SenderIdle EXCEPT !.pc = "stopped"]
    /\ UNCHANGED <<runnerVars, feed, streamVars, got>>

\* Mutant of DeleteFailed: f returns false, which ends Range.
DeleteFailedEndsRange ==
    /\ sender.pc = "delete"
    /\ clients' = [clients EXCEPT ![sender.key] = NoStream]
    /\ sender' = SenderIdle
    /\ UNCHANGED <<runnerVars, feed, streamVars, got>>

\* After a failed Send the entry of that key goes, whichever stream it holds by now.
DeleteFailed ==
    /\ sender.pc = "delete"
    /\ clients' = [clients EXCEPT ![sender.key] = NoStream]
    /\ sender' = [sender EXCEPT !.pc = "range"]
    /\ UNCHANGED <<runnerVars, feed, streamVars, got>>

RangeEnds ==
    /\ sender.pc = "range"
    /\ sender.left = {} /\ sender.batch = {}
    /\ sender' = SenderIdle
    /\ UNCHANGED <<runnerVars, feed, clients, streamVars, got>>

-----------------------------------------------------------------------------
(* TransferCompleteSubscribe, and the clients.                             *)

Subscribe(s) ==
    /\ stream[s] = "new"
    /\ stream' = [stream EXCEPT ![s] = "open"]
    /\ clients' = [clients EXCEPT ![IdOf[s]] = s]
    /\ newest' = [newest EXCEPT ![IdOf[s]] = s]
    /\ since' = [since EXCEPT ![s] = Taken]
    /\ UNCHANGED <<runnerVars, feed, sender, stalled, got>>

\* The client goes away, or the connection breaks: the context is done.
HangUp(s) ==
    /\ stream[s] = "open"
    /\ stream' = [stream EXCEPT ![s] = "cancelled"]
    /\ stalled' = stalled \ {s}
    /\ UNCHANGED <<runnerVars, feed, clients, sender, since, newest, got>>

\* The handler notices, deletes the entry of its id and returns.
Unsubscribe(s) ==
    /\ stream[s] = "cancelled"
    /\ clients' = [clients EXCEPT ![IdOf[s]] = NoStream]
    /\ stream' = [stream EXCEPT ![s] = "returned"]
    /\ UNCHANGED <<runnerVars, feed, sender, stalled, since, newest, got>>

\* A client stops reading: a Send to it blocks.
Stall(s) ==
    /\ stream[s] = "open" /\ s \notin stalled
    /\ stalled' = stalled \cup {s}
    /\ UNCHANGED <<runnerVars, feed, clients, sender, stream, since, newest, got>>

Resume(s) ==
    /\ s \in stalled
    /\ stalled' = stalled \ {s}
    /\ UNCHANGED <<runnerVars, feed, clients, sender, stream, since, newest, got>>

\* No event and no client is left.
Quiescent ==
    /\ rows = MaxRows /\ todo = <<>> /\ runner = "idle" /\ feed = <<>> /\ sender.pc = "idle"
    /\ \A s \in Streams : stream[s] = "returned"
    /\ UNCHANGED vars

-----------------------------------------------------------------------------
Send == \E i \in Ids, s \in Streams : SendDelivers(i, s) \/ SendVanishes(i, s) \/ SendFails(i, s)

Ranging ==
    \/ \E ids \in SUBSET Ids : CopyEntries(ids)
    \/ Send \/ DeleteFailed \/ RangeEnds

Client(s) == Subscribe(s) \/ HangUp(s) \/ Unsubscribe(s) \/ Stall(s) \/ Resume(s)

Next ==
    \/ Runner \/ OrphanRow \/ Refill
    \/ TakeEvent \/ Ranging
    \/ \E s \in Streams : Client(s)
    \/ Quiescent

Spec == Init /\ [][Next]_vars

(***************************************************************************)
(* The goroutines run, the database answers a handler that reads, and a    *)
(* writer that waits for the lock gets it between readers (RWMutex).  That *)
(* a client which stops reading reads on, often enough to take the event,  *)
(* or hangs up is an assumption on clients: Send has no deadline.          *)
(***************************************************************************)
FairSpec ==
    /\ Spec
    /\ WF_vars(AssignBegins) /\ WF_vars(AssignEnds) /\ SF_vars(Put) /\ WF_vars(Push)
    /\ \A f \in Lookups : WF_vars(FillStores(f))
    /\ WF_vars(TakeEvent) /\ WF_vars(Ranging) /\ SF_vars(Send)
    /\ \A s \in Streams : WF_vars(Resume(s))

-----------------------------------------------------------------------------
Sides  == [account : Accounts, transfer : Nat]
Events == [account : Accounts, transfer : Nat, object : Nat]

\* Every variable has its type and the channel does not exceed its capacity.
TypeOK ==
    /\ rows \in 0..MaxRows
    /\ todo \in Seq(Sides)
    /\ events \in Seq(Events)
    /\ runner \in {"idle", "writing", "put", "push"}
    /\ runner # "idle" => events # <<>>
    /\ objects \in [Accounts -> Seq(Balances)]
    /\ cached \in [Accounts -> Nat]
    /\ \A a \in Accounts : cached[a] \in 1..Len(objects[a])
    /\ \A m \in 1..Len(events) : events[m].object \in 1..Len(objects[events[m].account])
    /\ lookup \in [Lookups -> [pc : {"idle", "read"}, account : Accounts, rows : Nat]]
    /\ feed \in Seq(1..Len(events)) /\ Len(feed) <= FeedCap
    /\ clients \in [Ids -> Streams \cup {NoStream}]
    /\ sender \in [pc     : {"idle", "range", "delete"},
                    number : 0..Len(events),
                    left   : SUBSET Ids,
                    batch  : SUBSET (Ids \X Streams),
                    key    : Ids]
    /\ stream \in [Streams -> {"new", "open", "cancelled", "returned"}]
    /\ stalled \in SUBSET Streams
    /\ got \in [Streams -> Seq([number : 1..Len(events), balance : Balances \cup {Torn}])]
    /\ since \in [Streams -> 0..Len(events)]
    /\ newest \in [Ids -> Streams \cup {NoStream}]

(***************************************************************************)
(* What a client receives is a run of consecutive events: none twice, none *)
(* out of order and none left out in between, whatever other streams come  *)
(* and go under its id while broadcast is in Range.                        *)
(***************************************************************************)
ReceivedInOrder ==
    \A s \in Streams : \A i \in 1..Len(got[s]) - 1 :
        got[s][i + 1].number = got[s][i].number + 1

(***************************************************************************)
(* A stream that is open and the last one stored under its id has received *)
(* every event that broadcast took after it was stored.  True when every   *)
(* stream has an id of its own.  transactor.go:28 has the clients map      *)
(* ensure concurrency safeness; a client that reconnects under its id      *)
(* breaks this: the old stream's handler, or its failed Send, deletes the  *)
(* new stream's entry.                                                     *)
(***************************************************************************)
NoneMissed ==
    \A s \in Streams :
        sender.pc = "idle" /\ stream[s] = "open" /\ newest[IdOf[s]] = s =>
            \A n \in since[s] + 1 .. Taken : \E i \in 1..Len(got[s]) : got[s][i].number = n

\* A balance counts the amount of event m: it was in the rows it was read from, or assigned since.
Counts(balance, m) == events[m].transfer <= balance.rows \/ m \in balance.applied

Covers(later, earlier) ==
    /\ earlier.rows <= later.rows
    /\ \A m \in earlier.applied : Counts(later, m)

(***************************************************************************)
(* An event points to the account's object instead of holding a copy, and  *)
(* the object may be replaced meanwhile: what a client receives still      *)
(* counts every transfer of the account up to the event's own, and all     *)
(* that any balance of the account it received before has counted.  The    *)
(* amount may go back all the same: a transfer counted twice (see          *)
(* OneCountedTwice) is counted once again after another refill.  A balance *)
(* read while it was being assigned may be torn.                           *)
(***************************************************************************)
NeverStale ==
    \A s \in Streams : \A i \in 1..Len(got[s]) :
        LET seen == got[s][i]
            a    == events[seen.number].account
        IN  seen.balance # Torn =>
              /\ \A m \in 1..seen.number : events[m].account = a => Counts(seen.balance, m)
              /\ \A j \in 1..i - 1 :
                    events[got[s][j].number].account = a /\ got[s][j].balance # Torn =>
                        Covers(seen.balance, got[s][j].balance)

(***************************************************************************)
(* A refill that reads the row before balanceUpdate gets the object counts *)
(* the transfer twice.  A received balance never counts more than one      *)
(* transfer twice: the runner posts none before balanceUpdate has returned.*)
(***************************************************************************)
OneCountedTwice ==
    \A s \in Streams : \A i \in 1..Len(got[s]) :
        LET balance == got[s][i].balance
        IN  balance # Torn =>
              \A m, n \in {k \in balance.applied : events[k].transfer <= balance.rows} :
                  events[m].transfer = events[n].transfer

(***************************************************************************)
(* Every event is handled in the end: the runner never stays blocked on    *)
(* the channel, nor broadcast on a stream.                                 *)
(***************************************************************************)
EventsHandled == <>[](todo = <<>> /\ runner = "idle" /\ feed = <<>> /\ sender.pc = "idle")
=============================================================================
