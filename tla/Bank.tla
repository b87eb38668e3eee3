--------------------------------- MODULE Bank ---------------------------------
(***************************************************************************)
(* What the transaction service promises its clients, without its          *)
(* goroutines, channels, locks, caches or statements: accounts are opened, *)
(* an ordered transfer settles at most once and as a whole, and an answer  *)
(* tells the truth about it.  A client whose connection broke, or whose    *)
(* INSERT did, is answered "unknown": its transfer may settle later.       *)
(***************************************************************************)
EXTENDS Integers

CONSTANTS Clients,        \* one transfer per client
          Accounts,       \* accounts that may be opened
          MayGoNegative   \* accounts whose balance has no floor

VARIABLES open,      \* accounts opened so far
          balance,   \* balance of every account
          order,     \* the transfer each client asks for
          settled,   \* clients whose transfer has settled
          answer     \* what each client has been told

bankVars == <<open, balance, order, settled, answer>>

Answers == {"none", "ok", "refused", "unknown"}

BankTypeOK ==
    /\ open \in SUBSET Accounts
    /\ balance \in [Accounts -> Int]
    /\ order \in [Clients -> [from : Accounts, to : Accounts, amount : Int]]
    /\ settled \in SUBSET Clients
    /\ answer \in [Clients -> Answers]

BankInit ==
    /\ BankTypeOK
    /\ \A a \in Accounts \ MayGoNegative : balance[a] >= 0
    /\ settled = {}
    /\ answer = [c \in Clients |-> "none"]

Open(a) ==
    /\ a \in Accounts \ open
    /\ open' = open \cup {a}
    /\ UNCHANGED <<balance, order, settled, answer>>

(***************************************************************************)
(* Money moves all at once, and only out of an account that has it.  The   *)
(* one excuse is a transfer out of the same account whose client was       *)
(* answered "unknown": its statement may have raced with this one.         *)
(***************************************************************************)
Settle(c) ==
    /\ c \notin settled
    /\ answer[c] \in {"none", "unknown"}
    /\ order[c].from \in open
    /\ order[c].to \in open
    /\ order[c].from # order[c].to
    /\ settled' = settled \cup {c}
    /\ \/ order[c].from \in MayGoNegative
       \/ balance[order[c].from] >= order[c].amount
       \/ \E d \in settled' : answer[d] = "unknown" /\ order[d].from = order[c].from
    /\ balance' = [balance EXCEPT ![order[c].from] = @ - order[c].amount,
                                  ![order[c].to]   = @ + order[c].amount]
    /\ UNCHANGED <<open, order, answer>>

\* Success is reported after the transfer settled, refusal only if it never will.
Tell(c, a) ==
    /\ answer[c] = "none"
    /\ \/ a = "ok" /\ c \in settled
       \/ a = "refused" /\ c \notin settled
       \/ a = "unknown"
    /\ answer' = [answer EXCEPT ![c] = a]
    /\ UNCHANGED <<open, balance, order, settled>>

\* The bank fails in front of several clients at once.
Hangup(clients) ==
    /\ \A c \in clients : answer[c] = "none"
    /\ answer' = [c \in Clients |-> IF c \in clients THEN "unknown" ELSE answer[c]]
    /\ UNCHANGED <<open, balance, order, settled>>

BankNext ==
    \/ \E a \in Accounts : Open(a)
    \/ \E c \in Clients : Settle(c)
    \/ \E c \in Clients, a \in Answers : Tell(c, a)
    \/ \E clients \in SUBSET Clients : Hangup(clients)

BankSpec == BankInit /\ [][BankNext]_bankVars
=============================================================================
