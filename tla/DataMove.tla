------------------------------- MODULE DataMove -------------------------------
(***************************************************************************)
(* What the migrator promises, without its steps, restarts, locks and the  *)
(* trigger it drops: the accounts move once, all with the balances of one  *)
(* moment of the legacy database; transfers move at most once, together;   *)
(* and the server, which needs the accounts to start, always posts a       *)
(* transfer and counts it at once.  What is moved may be a part of what    *)
(* the legacy database holds.                                              *)
(***************************************************************************)
CONSTANTS Accounts,         \* ids of legacy accounts
          LegacyTransfers,  \* transfers of the legacy service
          ServerTransfers,  \* transfers of the server
          Parties           \* debtor and creditor of each transfer

VARIABLES legacy,    \* accounts of the legacy database
          log,       \* its transfers
          moved,     \* accounts of the new database
          counted,   \* the transfers each of their balances counts
          history,   \* transfers of the new database
          server     \* the server has started

moveVars == <<legacy, log, moved, counted, history, server>>

MoveInit ==
    /\ legacy \in SUBSET Accounts
    /\ log = {}
    /\ moved = {}
    /\ counted = [a \in Accounts |-> {}]
    /\ history = {}
    /\ server = FALSE

LegacyOpens(a) ==
    /\ legacy' = legacy \cup {a}
    /\ UNCHANGED <<log, moved, counted, history, server>>

LegacyPosts(t) ==
    /\ Parties[t] \subseteq legacy
    /\ log' = log \cup {t}
    /\ UNCHANGED <<legacy, moved, counted, history, server>>

\* Every balance counts what the legacy database held when it was read, once.
MoveAccounts(some, seen) ==
    /\ moved = {}
    /\ ~server
    /\ some \subseteq legacy
    /\ seen \subseteq log
    /\ moved' = some
    /\ counted' = [a \in Accounts |-> {t \in seen : a \in some /\ a \in Parties[t]}]
    /\ UNCHANGED <<legacy, log, history, server>>

MoveTransfers(some) ==
    /\ history \cap LegacyTransfers = {}
    /\ some \subseteq log
    /\ \A t \in some : Parties[t] \subseteq moved
    /\ history' = history \cup some
    /\ UNCHANGED <<legacy, log, moved, counted, server>>

ServerStarts ==
    /\ moved # {}
    /\ server' = TRUE
    /\ UNCHANGED <<legacy, log, moved, counted, history>>

ServerPosts(t) ==
    /\ server
    /\ t \notin history
    /\ Parties[t] \subseteq moved
    /\ history' = history \cup {t}
    /\ counted' = [a \in Accounts |-> IF a \in Parties[t] THEN counted[a] \cup {t} ELSE counted[a]]
    /\ UNCHANGED <<legacy, log, moved, server>>

MoveNext ==
    \/ \E a \in Accounts : LegacyOpens(a)
    \/ \E t \in LegacyTransfers : LegacyPosts(t)
    \/ \E some \in SUBSET Accounts, seen \in SUBSET LegacyTransfers : MoveAccounts(some, seen)
    \/ \E some \in SUBSET LegacyTransfers : MoveTransfers(some)
    \/ ServerStarts
    \/ \E t \in ServerTransfers : ServerPosts(t)

MoveSpec == MoveInit /\ [][MoveNext]_moveVars
=============================================================================
