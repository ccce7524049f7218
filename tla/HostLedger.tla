----------------------------- MODULE HostLedger -----------------------------
(***************************************************************************)
(* What the mock ISO 8583 host promises about money, with no concurrency   *)
(* left in it: an authorization is ONE step that compares the balance and  *)
(* the day's total with the request and debits; a reversal is ONE step     *)
(* that credits an outstanding withdrawal and marks exactly its row.       *)
(*                                                                         *)
(* HostEmulator.tla, the service as written (reads, an advisory lock and   *)
(* writes spread over many awaits), is shown to implement this module.     *)
(* AtmApp.tla uses the same operators for the host calls it makes.         *)
(*                                                                         *)
(* The Transaction table is partitioned by account and by UTC day of       *)
(* createdAt, the two columns its queries select on: rows[a][d] is the     *)
(* sequence of the rows of account a created on day d.                     *)
(***************************************************************************)
EXTENDS Integers, Sequences, SequencesExt

CONSTANTS
    Accounts,        \* the accounts with a card
    Amounts,         \* the amounts that may be asked for, of any sign
    Stans,           \* the values of a STAN (Transaction.stanNo)
    MaxDay,          \* bound: the days 1 .. MaxDay are modelled
    InitialBalance,  \* Account.balance as seeded, per account
    DailyLimit       \* Account.dailyLimit, per account

ASSUME LedgerAssumption ==
    /\ Amounts \subseteq Int
    /\ Stans \subseteq Nat
    /\ MaxDay \in Nat \ {0}
    /\ InitialBalance \in [Accounts -> Nat]
    /\ DailyLimit \in [Accounts -> Nat]

VARIABLES
    balance,         \* Account.balance
    rows,            \* the WITHDRAWAL rows of the Transaction table
    today            \* the current UTC day

ledgerVars == <<balance, rows, today>>

Days == 1 .. MaxDay

Status == {"COMPLETED", "REVERSED"}

Row == [stanNo : Stans, amount : Amounts, status : Status]

LedgerTypeOK ==
    /\ balance \in [Accounts -> Int]
    /\ rows \in [Accounts -> [Days -> Seq(Row)]]
    /\ today \in Days

-----------------------------------------------------------------------------
(***************************************************************************)
(* SUM(amount) over the COMPLETED rows of one account on one day; SQL's    *)
(* NULL for no row counts as 0.                                            *)
(***************************************************************************)
CompletedAmounts(table) ==
    [i \in DOMAIN table |-> IF table[i].status = "COMPLETED" THEN table[i].amount ELSE 0]

CompletedTotal(table) == SumFunction(CompletedAmounts(table))

(* The same over all days.                                                 *)
Withdrawn(a) == SumFunction([d \in Days |-> CompletedTotal(rows[a][d])])

(* updateMany({ stanNo, status: COMPLETED } -> REVERSED) on one partition. *)
MarkReversed(table, s) ==
    [i \in DOMAIN table |->
        IF table[i].stanNo = s /\ table[i].status = "COMPLETED"
        THEN [table[i] EXCEPT !.status = "REVERSED"]
        ELSE table[i]]

(* <<a, d, i>> is the place of a COMPLETED row that carries STAN s.        *)
CompletedAt(a, d, i, s) ==
    /\ i \in DOMAIN rows[a][d]
    /\ rows[a][d][i].stanNo = s
    /\ rows[a][d][i].status = "COMPLETED"

(* The one COMPLETED row of STAN s is a withdrawal of amt from account a.  *)
OutstandingOnce(a, amt, s) ==
    \E d \in Days : \E i \in DOMAIN rows[a][d] :
        /\ CompletedAt(a, d, i, s)
        /\ rows[a][d][i].amount = amt
        /\ \A b \in Accounts, e \in Days : \A j \in DOMAIN rows[b][e] :
              CompletedAt(b, e, j, s) => b = a /\ e = d /\ j = i

-----------------------------------------------------------------------------
LedgerInit ==
    /\ balance = InitialBalance
    /\ rows = [a \in Accounts |-> [d \in Days |-> << >>]]
    /\ today = 1

(***************************************************************************)
(* The withdrawal fits in the day's limit.  The day is the one on which    *)
(* the total was taken: it may be over when the debit is made, and then    *)
(* the debit is the first withdrawal of the new day.                       *)
(***************************************************************************)
WithinLimit(a, amt, day) ==
    /\ day <= today
    /\ day # today => rows[a][today] = << >>
    /\ CompletedTotal(rows[a][day]) + amt <= DailyLimit[a]

(* The host's answer to a withdrawal of amt is yes.                        *)
Approvable(a, amt) ==
    /\ balance[a] >= amt
    /\ \E day \in Days : WithinLimit(a, amt, day)

Debit(a, amt, s) ==
    /\ balance' = [balance EXCEPT ![a] = @ - amt]
    /\ rows' = [rows EXCEPT ![a][today] =
                   Append(@, [stanNo |-> s, amount |-> amt, status |-> "COMPLETED"])]
    /\ today' = today

Approve(a, amt, s) ==
    /\ Approvable(a, amt)
    /\ Debit(a, amt, s)

(* The writes of a reversal: the credit, the mark, and the REVERSED row.   *)
Credit(a, amt, s) ==
    /\ balance' = [balance EXCEPT ![a] = @ + amt]
    /\ rows' = [b \in Accounts |-> [d \in Days |->
                   IF b = a /\ d = today
                   THEN Append(MarkReversed(rows[b][d], s),
                               [stanNo |-> s, amount |-> amt, status |-> "REVERSED"])
                   ELSE MarkReversed(rows[b][d], s)]]
    /\ today' = today

ReverseWithdrawal(a, amt, s) ==
    /\ OutstandingOnce(a, amt, s)
    /\ Credit(a, amt, s)

Midnight ==
    /\ today < MaxDay
    /\ today' = today + 1
    /\ UNCHANGED <<balance, rows>>

LedgerNext ==
    \/ \E a \in Accounts, amt \in Amounts, s \in Stans :
          \/ Approve(a, amt, s)
          \/ ReverseWithdrawal(a, amt, s)
    \/ Midnight

LedgerSpec == LedgerInit /\ [][LedgerNext]_ledgerVars

=============================================================================
