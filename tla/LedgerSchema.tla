----------------------------- MODULE LedgerSchema -----------------------------
(***************************************************************************)
(* The part of the database schema that decides what a transfer does:      *)
(* accounts, UNIQUE (xsyn_user_id, ledger), NUMERIC(28) columns, and the   *)
(* BEFORE INSERT trigger check_balances on transactions                    *)
(* (migrations/20221021013652_initial_migration.up.sql).                   *)
(*                                                                         *)
(* An account is named by its user and ledger: the UNIQUE constraint makes *)
(* the pair as good a name as the account's own id.  Amounts and balances  *)
(* are integers counting 1/Scale of a whole token, so that an amount with  *)
(* a fractional part can be written; the columns hold whole tokens only.   *)
(***************************************************************************)
EXTENDS Integers

CONSTANTS Users,        \* canonical xsyn user ids
          OnChain,      \* the on chain / off world user of check_balances
          Ledgers,      \* the rows of table ledgers
          Scale,        \* number of amount units in one whole token
          NumericLimit  \* first magnitude NUMERIC(28) cannot hold

ASSUME SchemaAssumption ==
    /\ OnChain \in Users
    /\ Scale \in Nat \ {0}
    /\ NumericLimit \in Nat

Keys == Users \X Ledgers

UserOf(k)   == k[1]
LedgerOf(k) == k[2]

(***************************************************************************)
(* What storing amount a in a NUMERIC(28) column yields: the nearest whole *)
(* number of tokens, a half being rounded away from zero.                  *)
(***************************************************************************)
Numeric(a) ==
    LET size    == IF a < 0 THEN -a ELSE a
        rounded == Scale * ((2 * size + Scale) \div (2 * Scale))
    IN  IF a < 0 THEN -rounded ELSE rounded

IsWhole(a) == Numeric(a) = a

FitsNumeric(n) == -NumericLimit < n /\ n < NumericLimit

\* Mutant of TriggerAllows: the funds check counts credits only.
TriggerForgetsDebits(tx, accounts, debits, credits) ==
    /\ FitsNumeric(Numeric(tx.amount))
    /\ {tx.debit, tx.credit} \subseteq accounts
    /\ tx.debit # tx.credit
    /\ LedgerOf(tx.debit) = tx.ledger /\ LedgerOf(tx.credit) = tx.ledger
    /\ UserOf(tx.debit) # OnChain => credits[tx.debit] - Numeric(tx.amount) >= 0

(***************************************************************************)
(* The reads of an INSERT INTO transactions: the value fits the column and *)
(* check_balances raises no exception.  A missing account makes the        *)
(* trigger's sub-selects NULL, which raises nothing, but then the row's    *)
(* foreign key refuses it.  The reads take no lock.                        *)
(***************************************************************************)
TriggerAllows(tx, accounts, debits, credits) ==
    /\ FitsNumeric(Numeric(tx.amount))
    /\ tx.debit \in accounts
    /\ tx.credit \in accounts
    /\ tx.debit # tx.credit
    /\ LedgerOf(tx.debit) = tx.ledger
    /\ LedgerOf(tx.credit) = tx.ledger
    /\ UserOf(tx.debit) # OnChain =>
         credits[tx.debit] - debits[tx.debit] - Numeric(tx.amount) >= 0

\* Neither of the trigger's two UPDATE accounts statements overflows.
UpdatesFit(tx, debits, credits) ==
    /\ FitsNumeric(debits[tx.debit] + Numeric(tx.amount))
    /\ FitsNumeric(credits[tx.credit] + Numeric(tx.amount))

\* Mutant of DebitsAfter: the column keeps fractions.
DebitsUnrounded(tx, debits) ==
    [debits EXCEPT ![tx.debit] = @ + tx.amount]

\* Mutant of CreditsAfter: both updates name the debtor.
CreditsToDebtor(tx, credits) ==
    [credits EXCEPT ![tx.debit] = @ + Numeric(tx.amount)]

\* The values those statements write.
DebitsAfter(tx, debits) ==
    [debits EXCEPT ![tx.debit] = @ + Numeric(tx.amount)]

CreditsAfter(tx, credits) ==
    [credits EXCEPT ![tx.credit] = @ + Numeric(tx.amount)]
=============================================================================
