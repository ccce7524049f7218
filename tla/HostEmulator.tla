---------------------------- MODULE HostEmulator ----------------------------
(***************************************************************************)
(* HostEmulatorService: authorizeWithdrawal and reverseTransaction as they *)
(* run, every await a point where other requests interleave.               *)
(*                                                                         *)
(* A request r is one call of authorizeWithdrawal together with what its   *)
(* caller does with the answer: AtmAppService.processWithdrawal dispenses  *)
(* and, when the dispense fails, calls reverseTransaction with the same    *)
(* STAN, account and amount.  Its amount is positive: submitAmount lets no *)
(* other through.                                                          *)
(*                                                                         *)
(* The ISO 8583 / ISO 20022 listeners make the same call with the number   *)
(* their message carries, which nothing checks, and never reverse: what is *)
(* approved for them counts as handed out.  An amount below zero passes    *)
(* every test of authorizeWithdrawal, credits the account and files a      *)
(* COMPLETED row below zero; the history variable credited records it.     *)
(* A number that BigInt refuses (NaN, a fraction) ends in AuthorizeFails.  *)
(*                                                                         *)
(* Postgres is external: READ COMMITTED, so a statement sees what is       *)
(* committed when it runs and the writes of a transaction appear at its    *)
(* commit; pg_advisory_xact_lock is held to the commit or rollback.  The   *)
(* lock key is a hash of the account id, taken to be injective.            *)
(***************************************************************************)
EXTENDS HostLedger

CONSTANTS
    Requests,           \* slots: calls that may be in progress at once
    Cards,              \* the PANs that callers present
    AccountOf,          \* the account of each card, or NoAccount
    NoAccount,
    PrefixOf,           \* the first four digits of each card
    Listeners,          \* the switch profiles of the ISO 8583 / ISO 20022 listeners
    StanModulus,        \* formatStan keeps n % 1_000_000
    MaxAuthorizations,  \* bound: calls of generateStan per server process
    MaxRestarts,        \* bound: restarts of the server process
    NoRequest

(* The switch profiles: the prefixes of the cards each of them carries and *)
(* the largest single withdrawal it allows, in rupiah.                     *)
Profile(prefixes, max) == [binPrefixes |-> prefixes, maxWithdrawalIdr |-> max]
SwitchProfiles ==
    [JALIN       |-> Profile({"4097", "4339", "4567", "5436", "5520"}, 5000000),
     ATM_BERSAMA |-> Profile({"4577", "4585", "4365"}, 3000000),
     PRIMA       |-> Profile({"4263", "5264"}, 5000000),
     BIFAST      |-> Profile({"4368", "5263"}, 250000000)]
Switches == DOMAIN SwitchProfiles

ASSUME EmulatorAssumption ==
    /\ NoAccount \notin Accounts
    /\ NoRequest \notin Requests
    /\ IsFiniteSet(Requests)
    /\ AccountOf \in [Cards -> Accounts \cup {NoAccount}]
    /\ PrefixOf \in [Cards -> STRING]
    /\ Listeners \subseteq Switches
    /\ StanModulus \in Nat \ {0}
    /\ Stans = 0 .. StanModulus - 1
    /\ MaxAuthorizations \in Nat
    /\ MaxRestarts \in Nat

VARIABLES
    dailyWithdrawn,  \* Account.dailyWithdrawn, the cached hint
    stanCounter,     \* HostEmulatorService.stanCounter
    lock,            \* holder of each account's advisory lock
    req,             \* the calls in progress
    cash,            \* history: money handed out, per account
    credited,        \* history: what amounts below zero put on each account
    stranded,        \* history: the debits whose call died before it settled
    restarts

emulatorVars == <<dailyWithdrawn, stanCounter, lock, req, cash, credited, stranded, restarts>>
vars == <<ledgerVars, emulatorVars>>

(***************************************************************************)
(* Where a call stands.                                                    *)
(*   lookup     STAN drawn, the card row is being read                     *)
(*   waiting    pg_advisory_xact_lock issued                               *)
(*   locked     the account row is being re-read                           *)
(*   funded     balance sufficed, SUM is being computed                    *)
(*   within     within the daily limit, the writes are being committed     *)
(*   approved   answered yes, the caller dispenses                         *)
(*   reversing  reverseTransaction waits for the lock                      *)
(*   crediting  reverseTransaction holds it, its writes are being committed*)
(***************************************************************************)
Authorizing == {"lookup", "waiting", "locked", "funded", "within"}
Unsettled   == {"approved", "reversing", "crediting"}
Holding     == {"locked", "funded", "within", "crediting"}
Steps       == {"idle"} \cup Authorizing \cup Unsettled

Idle == [pc |-> "idle"]

Callers == {"session", "listener"}

Debt == [account : Accounts, amount : {n \in Amounts : n > 0}, stanNo : Stans, boot : Nat]

Call == [pc : Authorizing \cup Unsettled,
         pan : Cards,
         sw : Switches,
         caller : Callers,
         account : Accounts \cup {NoAccount},
         amount : Amounts,
         stanNo : Stans,
         day : Days]

TypeOK ==
    /\ LedgerTypeOK
    /\ dailyWithdrawn \in [Accounts -> Int]
    /\ stanCounter \in Nat
    /\ lock \in [Accounts -> Requests \cup {NoRequest}]
    /\ req \in [Requests -> Call \cup {Idle}]
    /\ cash \in [Accounts -> Int]
    /\ credited \in [Accounts -> Nat]
    /\ stranded \in SUBSET Debt
    /\ restarts \in Nat

-----------------------------------------------------------------------------
formatStan(n) == n % StanModulus

(* A card goes to the switch that carries its prefix, and by default to    *)
(* Jalin; no two switches carry the same one.                              *)
getSwitchByPan(p) ==
    LET carriers == {s \in Switches : PrefixOf[p] \in SwitchProfiles[s].binPrefixes}
    IN  IF carriers = {} THEN "JALIN" ELSE CHOOSE s \in carriers : TRUE

Init ==
    /\ LedgerInit
    /\ dailyWithdrawn = [a \in Accounts |-> 0]
    /\ stanCounter = 1
    /\ lock = [a \in Accounts |-> NoRequest]
    /\ req = [r \in Requests |-> Idle]
    /\ cash = [a \in Accounts |-> 0]
    /\ credited = [a \in Accounts |-> 0]
    /\ stranded = {}
    /\ restarts = 0

Goto(r, pc) == req' = [req EXCEPT ![r].pc = pc]

(* What a call that was approved and not settled owes its customer.       *)
DebtOf(r) == [account |-> req[r].account, amount |-> req[r].amount,
              stanNo |-> req[r].stanNo, boot |-> restarts]

(* The call answers "no" (or throws): its slot is free again.              *)
Answer(r) == req' = [req EXCEPT ![r] = Idle]

Release(r) == lock' = [a \in Accounts |-> IF lock[a] = r THEN NoRequest ELSE lock[a]]

(* authorizeWithdrawal up to its first await: generateStan.  The customer  *)
(* session leaves the switch to the card, a listener names its own.        *)
AuthorizeWithdrawal(r, p, amt, sw, caller) ==
    /\ req[r].pc = "idle"
    /\ stanCounter <= MaxAuthorizations
    /\ req' = [req EXCEPT ![r] =
                  [pc |-> "lookup", pan |-> p, sw |-> sw, caller |-> caller, account |-> NoAccount,
                   amount |-> amt, stanNo |-> formatStan(stanCounter), day |-> today]]
    /\ stanCounter' = stanCounter + 1
    /\ UNCHANGED <<ledgerVars, dailyWithdrawn, lock, cash, credited, stranded, restarts>>

(* The card is read; INVALID_CARD and the switch's cap answer at once.     *)
LookupCard(r) ==
    /\ req[r].pc = "lookup"
    /\ IF \/ AccountOf[req[r].pan] = NoAccount
          \/ req[r].amount > SwitchProfiles[req[r].sw].maxWithdrawalIdr
       THEN Answer(r)
       ELSE req' = [req EXCEPT ![r].pc = "waiting",
                               ![r].account = AccountOf[req[r].pan]]
    /\ UNCHANGED <<ledgerVars, dailyWithdrawn, stanCounter, lock, cash, credited, stranded, restarts>>

(* Variant of AuthorizeLock: the advisory lock is not taken.               *)
AuthorizeLock_Unlocked(r) ==
    /\ req[r].pc = "waiting"
    /\ Goto(r, "locked")
    /\ UNCHANGED <<ledgerVars, dailyWithdrawn, stanCounter, lock, cash, credited, stranded, restarts>>

(* pg_advisory_xact_lock returns to authorizeWithdrawal.                   *)
AuthorizeLock(r) ==
    /\ req[r].pc = "waiting"
    /\ lock[req[r].account] = NoRequest
    /\ lock' = [lock EXCEPT ![req[r].account] = r]
    /\ Goto(r, "locked")
    /\ UNCHANGED <<ledgerVars, dailyWithdrawn, stanCounter, cash, credited, stranded, restarts>>

(* Variants of ReadBalance: the balance is not compared; the refusal       *)
(* leaves the transaction, and its lock, open.                             *)
ReadBalance_NoCheck(r) ==
    /\ req[r].pc = "locked"
    /\ Goto(r, "funded")
    /\ UNCHANGED <<ledgerVars, dailyWithdrawn, stanCounter, lock, cash, credited, stranded, restarts>>

ReadBalance_KeepsLock(r) ==
    /\ req[r].pc = "locked"
    /\ IF balance[req[r].account] < req[r].amount THEN Answer(r) ELSE Goto(r, "funded")
    /\ UNCHANGED <<ledgerVars, dailyWithdrawn, stanCounter, lock, cash, credited, stranded, restarts>>

(* The balance is re-read under the lock; NOT_SUFFICIENT_FUNDS answers.    *)
ReadBalance(r) ==
    /\ req[r].pc = "locked"
    /\ IF balance[req[r].account] < req[r].amount
       THEN Answer(r) /\ Release(r)
       ELSE Goto(r, "funded") /\ UNCHANGED lock
    /\ UNCHANGED <<ledgerVars, dailyWithdrawn, stanCounter, cash, credited, stranded, restarts>>

(* The day's total is computed; EXCEEDS_WITHDRAWAL_LIMIT answers.          *)
ReadDailyTotal(r) ==
    /\ req[r].pc = "funded"
    /\ IF WithinLimit(req[r].account, req[r].amount, today)
       THEN /\ req' = [req EXCEPT ![r].pc = "within", ![r].day = today]
            /\ UNCHANGED lock
       ELSE Answer(r) /\ Release(r)
    /\ UNCHANGED <<ledgerVars, dailyWithdrawn, stanCounter, cash, credited, stranded, restarts>>

(* The answer yes: a withdrawal is owed to its customer until it is        *)
(* dispensed; of nothing, or less, there is nothing to hand out.           *)
Approved(r) ==
    IF req[r].amount > 0
    THEN Goto(r, "approved") /\ UNCHANGED credited
    ELSE /\ Answer(r)
         /\ credited' = [credited EXCEPT ![req[r].account] = @ - req[r].amount]

(* Account.update, transaction.create and the commit that shows them.      *)
CommitApproval(r) ==
    /\ req[r].pc = "within"
    /\ Debit(req[r].account, req[r].amount, req[r].stanNo)
    /\ dailyWithdrawn' = [dailyWithdrawn EXCEPT ![req[r].account] = @ + req[r].amount]
    /\ Approved(r)
    /\ Release(r)
    /\ UNCHANGED <<stanCounter, cash, stranded, restarts>>

(* The transaction rolls back and the catch answers SYSTEM_MALFUNCTION.    *)
AuthorizeFails(r) ==
    /\ req[r].pc \in Authorizing
    /\ Answer(r)
    /\ Release(r)
    /\ UNCHANGED <<ledgerVars, dailyWithdrawn, stanCounter, cash, credited, stranded, restarts>>

(* The caller's dispense succeeds.                                         *)
Dispensed(r) ==
    /\ req[r].pc = "approved"
    /\ cash' = [cash EXCEPT ![req[r].account] = @ + req[r].amount]
    /\ Answer(r)
    /\ UNCHANGED <<ledgerVars, dailyWithdrawn, stanCounter, lock, credited, stranded, restarts>>

(* The session's dispense fails and it calls reverseTransaction.           *)
ReverseTransaction(r) ==
    /\ req[r].pc = "approved"
    /\ req[r].caller = "session"
    /\ Goto(r, "reversing")
    /\ UNCHANGED <<ledgerVars, dailyWithdrawn, stanCounter, lock, cash, credited, stranded, restarts>>

(* pg_advisory_xact_lock returns to reverseTransaction.                    *)
ReverseLock(r) ==
    /\ req[r].pc = "reversing"
    /\ lock[req[r].account] = NoRequest
    /\ lock' = [lock EXCEPT ![req[r].account] = r]
    /\ Goto(r, "crediting")
    /\ UNCHANGED <<ledgerVars, dailyWithdrawn, stanCounter, cash, credited, stranded, restarts>>

(* Variant of CommitReversal: the rows are marked, the money is not put    *)
(* back.                                                                   *)
CommitReversal_MarkOnly(r) ==
    /\ req[r].pc = "crediting"
    /\ rows' = [a \in Accounts |-> [d \in Days |-> MarkReversed(rows[a][d], req[r].stanNo)]]
    /\ dailyWithdrawn' = [dailyWithdrawn EXCEPT ![req[r].account] = @ - req[r].amount]
    /\ Answer(r)
    /\ Release(r)
    /\ UNCHANGED <<balance, today, stanCounter, cash, credited, stranded, restarts>>

(* The reversal's three writes and its commit.                             *)
CommitReversal(r) ==
    /\ req[r].pc = "crediting"
    /\ Credit(req[r].account, req[r].amount, req[r].stanNo)
    /\ dailyWithdrawn' = [dailyWithdrawn EXCEPT ![req[r].account] = @ - req[r].amount]
    /\ Answer(r)
    /\ Release(r)
    /\ UNCHANGED <<stanCounter, cash, credited, stranded, restarts>>

(* The reversal's transaction rolls back: reverseTransaction rejects and   *)
(* nothing retries it, so the debit stays.                                 *)
ReverseFails(r) ==
    /\ req[r].pc \in {"reversing", "crediting"}
    /\ stranded' = stranded \cup {DebtOf(r)}
    /\ Answer(r)
    /\ Release(r)
    /\ UNCHANGED <<ledgerVars, dailyWithdrawn, stanCounter, cash, credited, restarts>>

NextDay == Midnight /\ UNCHANGED emulatorVars

(* The server process dies and starts again: the calls in progress are     *)
(* gone, their transactions rolled back, and stanCounter starts over.      *)
Restart ==
    /\ restarts < MaxRestarts
    /\ restarts' = restarts + 1
    /\ stranded' = stranded \cup {DebtOf(r) : r \in {q \in Requests : req[q].pc \in Unsettled}}
    /\ req' = [r \in Requests |-> Idle]
    /\ lock' = [a \in Accounts |-> NoRequest]
    /\ stanCounter' = 1
    /\ UNCHANGED <<ledgerVars, dailyWithdrawn, cash, credited>>

Step(r) ==
    \/ \E p \in Cards, amt \in Amounts :
          \/ amt > 0 /\ AuthorizeWithdrawal(r, p, amt, getSwitchByPan(p), "session")
          \/ \E sw \in Listeners : AuthorizeWithdrawal(r, p, amt, sw, "listener")
    \/ LookupCard(r)
    \/ AuthorizeLock(r)
    \/ ReadBalance(r)
    \/ ReadDailyTotal(r)
    \/ CommitApproval(r)
    \/ AuthorizeFails(r)
    \/ Dispensed(r)
    \/ ReverseTransaction(r)
    \/ ReverseLock(r)
    \/ CommitReversal(r)
    \/ ReverseFails(r)

Next == (\E r \in Requests : Step(r)) \/ NextDay \/ Restart

Spec == Init /\ [][Next]_vars

-----------------------------------------------------------------------------
(***************************************************************************)
(* Fairness: Postgres answers every statement it was given, so a call that *)
(* is past its lock moves on (weak fairness); the advisory lock is granted *)
(* first come first served, so a call is not overtaken for ever (strong    *)
(* fairness).  No fairness on new calls, on failures, on the calendar or   *)
(* on restarts.                                                            *)
(***************************************************************************)
Fairness ==
    \A r \in Requests :
        /\ WF_vars(LookupCard(r) \/ ReadBalance(r) \/ ReadDailyTotal(r))
        /\ WF_vars(CommitApproval(r) \/ CommitReversal(r))
        /\ SF_vars(AuthorizeLock(r) \/ ReverseLock(r))

LiveSpec == Spec /\ Fairness

-----------------------------------------------------------------------------
(***************************************************************************)
(* No interleaving of authorizations overdraws an account: the balance     *)
(* each of them compared is still there when it debits (the lock is taken  *)
(* before the re-read at authorizeWithdrawal's "Re-read after acquiring    *)
(* the lock").                                                             *)
(***************************************************************************)
BalanceNeverNegative == \A a \in Accounts : balance[a] >= 0

(***************************************************************************)
(* The completed withdrawals of an account on one UTC day never add up to  *)
(* more than its dailyLimit, calls that straddle midnight included, on an  *)
(* account that no listener credited: a COMPLETED row below zero makes     *)
(* room for as much again.  "The daily-limit check uses an aggregate SUM   *)
(* over COMPLETED WITHDRAWAL transactions as the authoritative source":    *)
(* SumCoversCash says that no note handed out escapes the sum, but for     *)
(* what was credited, until a restart sets stanCounter back: then a        *)
(* reversal marks an older row of the same STAN.                           *)
(***************************************************************************)
SumCoversCash == \A a \in Accounts : cash[a] <= Withdrawn(a) + credited[a]

DayWithinLimit ==
    \A a \in Accounts :
        credited[a] = 0 => \A d \in Days : CompletedTotal(rows[a][d]) <= DailyLimit[a]

DailyLimitHolds == DayWithinLimit /\ (restarts = 0 => SumCoversCash)

(* The debits that the calls in progress have still to settle, and those   *)
(* that no call will settle; and what they come to for account a.          *)
Debts == stranded \cup {DebtOf(r) : r \in {q \in Requests : req[q].pc \in Unsettled}}

DebtTotal(debts) == SumFunction([d \in debts |-> d.amount])

Owed(a) == DebtTotal({d \in Debts : d.account = a})

(***************************************************************************)
(* Money is neither created nor destroyed but by a listener's amount below *)
(* zero: what left the balance was handed out, is owed by a call in        *)
(* progress, or belongs to a call that died between authorizeWithdrawal    *)
(* and its settlement.                                                     *)
(***************************************************************************)
MoneyConserved ==
    \A a \in Accounts : balance[a] + cash[a] + Owed(a) = InitialBalance[a] + credited[a]

(***************************************************************************)
(* Concurrent calls are the atomic ledger: every commit is an approval the *)
(* ledger allows at that moment, or the reversal of one outstanding        *)
(* withdrawal.  A restart reuses STANs and ends that.                      *)
(***************************************************************************)
LedgerUntilRestart == LedgerInit /\ [][LedgerNext \/ restarts > 0]_ledgerVars

(***************************************************************************)
(* A call of authorizeWithdrawal is answered, whatever the other calls on  *)
(* its account do; none waits for the advisory lock for ever.              *)
(***************************************************************************)
EveryCallAnswered ==
    \A r \in Requests : req[r].pc \in Authorizing ~> req[r].pc \notin Authorizing

=============================================================================
