----------------------------- MODULE MCTransactor -----------------------------
(***************************************************************************)
(* Small instances of Transactor.                                          *)
(***************************************************************************)
EXTENDS Transactor, TLC

CONSTANTS alice, bob, sups, unused

MCSeeds == {<<OnChain, sups>>, <<alice, sups>>}

MCOpeningDebits == [k \in Keys |-> IF k = <<OnChain, sups>> THEN 2 ELSE 0]

MCOpeningCredits == [k \in Keys |-> IF k = <<alice, sups>> THEN 2 ELSE 0]

Transfer(op, credit, debit, amount) ==
    [op |-> op, user |-> credit, debtor |-> debit, ledger |-> sups,
     amount |-> amount, create |-> {}]

Lookup(op, user, create) ==
    [op |-> op, user |-> user, debtor |-> user, ledger |-> sups,
     amount |-> 0, create |-> create]

CloseCall ==
    [op |-> "Close", user |-> OnChain, debtor |-> OnChain, ledger |-> sups,
     amount |-> 0, create |-> {}]

\* Transfers that race each other for alice's money and with her lookups.
MCRequests ==
    {Transfer("Transact", bob, alice, 2),
     Transfer("TransactWithID", alice, OnChain, 1),
     Lookup("AccountsUser", alice, {}),
     Lookup("GetBalance", bob, {sups})}

\* With two units to a token: half tokens, a bad amount, a missing account.
FractionalRequests ==
    {Transfer("Transact", bob, alice, 1),
     Transfer("TransactWithID", alice, OnChain, 3),
     Transfer("TransactWithID", bob, alice, 2),
     Transfer("Transact", alice, OnChain, Unparsable),
     Transfer("Transact", alice, alice, 2),
     Lookup("AccountGetViaUser", bob, {}),
     Lookup("AccountsUser", bob, {sups})}

\* Enough for every caller to meet a full channel, a rejection, a miss and Close.
LiveRequests ==
    {Transfer("Transact", bob, alice, 2),
     Transfer("TransactWithID", OnChain, alice, 1),
     Lookup("AccountsUser", alice, {}),
     Lookup("GetBalance", bob, {sups}),
     CloseCall}

\* Money taken from alice by crediting her a negative amount: bob, who has none, is the debtor.
NegativeRequests ==
    {Transfer("TransactWithID", alice, bob, -3),
     Lookup("GetBalance", bob, {sups})}

CallSymmetry == Permutations(Calls)
=============================================================================
