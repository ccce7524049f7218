------------------------- MODULE HostEmulatorProofs -------------------------
(***************************************************************************)
(* Proofs about HostEmulator, for any accounts, cards, requests, amounts,  *)
(* limits and bounds.                                                      *)
(***************************************************************************)
EXTENDS HostEmulator, HostLedgerProofs

-----------------------------------------------------------------------------
(***************************************************************************)
(* The advisory lock at work.  AccountKnown: past the card lookup a call   *)
(* works on an account.  LockHeld: the calls between the lock and the      *)
(* commit are exactly the holders of the locks of their accounts.          *)
(* FundsHeld: a call that compared the balance may rely on it until it     *)
(* commits.  DebtsPositive: only of a withdrawal above zero is there       *)
(* something to settle, so a reversal never takes from a balance.          *)
(***************************************************************************)
AccountKnown ==
    \A r \in Requests : req[r].pc \notin {"idle", "lookup"} => req[r].account \in Accounts

LockHeld ==
    \A r \in Requests, a \in Accounts :
        lock[a] = r <=> (req[r].pc \in Holding /\ req[r].account = a)

FundsHeld ==
    \A r \in Requests :
        req[r].pc \in {"funded", "within"} => balance[req[r].account] >= req[r].amount

DebtsPositive ==
    \A r \in Requests : req[r].pc \in Unsettled => req[r].amount > 0

LockInv ==
    /\ TypeOK
    /\ AccountKnown
    /\ LockHeld
    /\ FundsHeld
    /\ DebtsPositive
    /\ BalanceNeverNegative

(* Whoever calls authorizeWithdrawal, it works with one of the profiles.   *)
LEMMA SwitchKnown ==
    \A p \in Cards : getSwitchByPan(p) \in Switches /\ Listeners \subseteq Switches
<1>1. ASSUME NEW p \in Cards PROVE getSwitchByPan(p) \in Switches
  <2>1. "JALIN" \in Switches
    BY DEF Switches, SwitchProfiles
  <2>2. ASSUME NEW S, S \subseteq Switches, S # {} PROVE (CHOOSE s \in S : TRUE) \in Switches
    BY <2>2
  <2> QED
    BY <2>1, <2>2 DEF getSwitchByPan
<1> QED
  BY <1>1, EmulatorAssumption

(* A call that is not idle has all the fields of a call.                   *)
LEMMA ActiveCall ==
    ASSUME TypeOK, NEW r \in Requests
    PROVE  /\ req[r] \in Call \cup {Idle}
           /\ req[r].pc \in Steps
           /\ req[r].pc # "idle" => req[r] \in Call
           /\ req[r].pc = "idle" => req[r] = Idle
BY DEF TypeOK, Call, Idle, Steps, Authorizing, Unsettled

(* The first state satisfies the lock invariant.                           *)
LEMMA LockInit == Init => LockInv
BY LedgerAssumption, EmulatorAssumption
   DEF Init, LedgerInit, LockInv, TypeOK, LedgerTypeOK, Idle, Days, AccountKnown, LockHeld,
       FundsHeld, DebtsPositive, BalanceNeverNegative, Holding, Unsettled

(* The bookkeeping of a call keeps the calls and the locks in their types. *)
LEMMA CallTypes ==
    ASSUME TypeOK, NEW r \in Requests
    PROVE  /\ Answer(r) => req' \in [Requests -> Call \cup {Idle}]
           /\ \A pc \in Authorizing \cup Unsettled :
                 Goto(r, pc) /\ req[r] \in Call => req' \in [Requests -> Call \cup {Idle}]
           /\ Release(r) => lock' \in [Accounts -> Requests \cup {NoRequest}]
<1>1. Answer(r) => req' \in [Requests -> Call \cup {Idle}]
  BY DEF Answer, TypeOK
<1>2. ASSUME NEW pc \in Authorizing \cup Unsettled, Goto(r, pc), req[r] \in Call
      PROVE  req' \in [Requests -> Call \cup {Idle}]
  <2>1. [req[r] EXCEPT !.pc = pc] \in Call
    BY <1>2 DEF Call
  <2> QED
    BY <1>2, <2>1 DEF Goto, TypeOK
<1>3. Release(r) => lock' \in [Accounts -> Requests \cup {NoRequest}]
  BY DEF Release, TypeOK
<1> QED
  BY <1>1, <1>2, <1>3

(* Every step keeps the variables in their types.                          *)
LEMMA TypeStep == TypeOK /\ AccountKnown /\ DebtsPositive /\ [Next]_vars => TypeOK'
<1> SUFFICES ASSUME TypeOK, AccountKnown, DebtsPositive, [Next]_vars PROVE TypeOK'
    OBVIOUS
<1> USE LedgerAssumption, EmulatorAssumption
<1>1. ASSUME NEW r \in Requests, Step(r) PROVE TypeOK'
  <2>0. /\ req[r].pc \in Steps
        /\ req[r].pc # "idle" => req[r] \in Call
        /\ req[r].pc \notin {"idle", "lookup"} => req[r].account \in Accounts
    BY ActiveCall DEF AccountKnown
  <2>1. ASSUME NEW p \in Cards, NEW amt \in Amounts, NEW sw \in Switches, NEW c \in Callers,
               AuthorizeWithdrawal(r, p, amt, sw, c)
        PROVE  TypeOK'
    BY <2>1, SMTT(30) DEF AuthorizeWithdrawal, TypeOK, LedgerTypeOK, ledgerVars, Call, formatStan, Authorizing
  <2>2. CASE LookupCard(r)
    <3>1. ASSUME AccountOf[req[r].pan] # NoAccount
          PROVE  [req[r] EXCEPT !.pc = "waiting", !.account = AccountOf[req[r].pan]] \in Call
      BY <2>0, <2>2, <3>1 DEF LookupCard, Call, Authorizing
    <3>2. req' \in [Requests -> Call \cup {Idle}]
      BY <2>2, <3>1, CallTypes DEF LookupCard, TypeOK
    <3> QED
      BY <2>2, <3>2 DEF LookupCard, TypeOK, LedgerTypeOK, ledgerVars
  <2>3. CASE AuthorizeLock(r)
    <3>1. req' \in [Requests -> Call \cup {Idle}]
      BY <2>0, <2>3, CallTypes DEF AuthorizeLock, Authorizing, Unsettled
    <3> QED
      BY <2>0, <2>3, <3>1 DEF AuthorizeLock, TypeOK, LedgerTypeOK, ledgerVars
  <2>4. CASE ReadBalance(r)
    <3>1. req' \in [Requests -> Call \cup {Idle}] /\ lock' \in [Accounts -> Requests \cup {NoRequest}]
      BY <2>0, <2>4, CallTypes DEF ReadBalance, TypeOK, Authorizing, Unsettled
    <3> QED
      BY <2>4, <3>1 DEF ReadBalance, TypeOK, LedgerTypeOK, ledgerVars
  <2>5. CASE ReadDailyTotal(r)
    <3>1. [req[r] EXCEPT !.pc = "within", !.day = today] \in Call
      BY <2>0, <2>5 DEF ReadDailyTotal, Call, Authorizing, TypeOK, LedgerTypeOK
    <3>2. /\ req' \in [Requests -> Call \cup {Idle}]
          /\ lock' \in [Accounts -> Requests \cup {NoRequest}]
      <4>1. CASE Answer(r) /\ Release(r)
        BY <4>1, CallTypes
      <4>2. CASE req' = [req EXCEPT ![r].pc = "within", ![r].day = today] /\ lock' = lock
        BY <3>1, <4>2 DEF TypeOK
      <4> QED
        BY <2>5, <4>1, <4>2 DEF ReadDailyTotal
    <3> QED
      BY <2>5, <3>2 DEF ReadDailyTotal, TypeOK, LedgerTypeOK, ledgerVars
  <2>6. CASE CommitApproval(r)
    <3>1. /\ req[r].account \in Accounts
          /\ req[r].amount \in Amounts /\ req[r].amount \in Int
          /\ req[r].stanNo \in Stans
      BY <2>0, <2>6 DEF CommitApproval, Call
    <3>2. LedgerTypeOK'
      BY <2>6, <3>1, LedgerTypes DEF CommitApproval, TypeOK
    <3>3. /\ req' \in [Requests -> Call \cup {Idle}]
          /\ lock' \in [Accounts -> Requests \cup {NoRequest}]
          /\ credited' \in [Accounts -> Nat]
      <4>1. Approved(r) /\ Release(r) /\ req[r] \in Call /\ credited \in [Accounts -> Nat]
        BY <2>0, <2>6 DEF CommitApproval, TypeOK
      <4>2. CASE req[r].amount > 0
        BY <4>1, <4>2, CallTypes DEF Approved, Unsettled
      <4>3. CASE ~ (req[r].amount > 0)
        <5>1. credited[req[r].account] - req[r].amount \in Nat
          BY <3>1, <4>1, <4>3
        <5> QED
          BY <4>1, <4>3, <5>1, CallTypes, SMTT(30) DEF Approved
      <4> QED
        BY <4>2, <4>3
    <3>4. dailyWithdrawn' \in [Accounts -> Int]
      BY <2>6, <3>1 DEF CommitApproval, TypeOK
    <3> QED
      BY <2>6, <3>2, <3>3, <3>4 DEF CommitApproval, TypeOK
  <2>7. CASE AuthorizeFails(r)
    <3>1. /\ req' \in [Requests -> Call \cup {Idle}]
          /\ lock' \in [Accounts -> Requests \cup {NoRequest}]
      BY <2>7, CallTypes DEF AuthorizeFails
    <3> QED
      BY <2>7, <3>1 DEF AuthorizeFails, TypeOK, LedgerTypeOK, ledgerVars
  <2>8. CASE Dispensed(r)
    <3>1. req' \in [Requests -> Call \cup {Idle}] /\ req[r].amount \in Int
      BY <2>0, <2>8, CallTypes DEF Dispensed, Call
    <3> QED
      BY <2>0, <2>8, <3>1 DEF Dispensed, TypeOK, LedgerTypeOK, ledgerVars
  <2>9. CASE ReverseTransaction(r)
    <3>1. req' \in [Requests -> Call \cup {Idle}]
      BY <2>0, <2>9, CallTypes DEF ReverseTransaction, Authorizing, Unsettled
    <3> QED
      BY <2>0, <2>9, <3>1 DEF ReverseTransaction, TypeOK, LedgerTypeOK, ledgerVars
  <2>10. CASE ReverseLock(r)
    <3>1. req' \in [Requests -> Call \cup {Idle}]
      BY <2>0, <2>10, CallTypes DEF ReverseLock, Authorizing, Unsettled
    <3> QED
      BY <2>0, <2>10, <3>1 DEF ReverseLock, TypeOK, LedgerTypeOK, ledgerVars
  <2>11. CASE CommitReversal(r)
    <3>1. /\ req[r].account \in Accounts
          /\ req[r].amount \in Amounts /\ req[r].amount \in Int
          /\ req[r].stanNo \in Stans
      BY <2>0, <2>11 DEF CommitReversal, Call
    <3>2. LedgerTypeOK'
      BY <2>11, <3>1, LedgerTypes DEF CommitReversal, TypeOK
    <3>3. /\ req' \in [Requests -> Call \cup {Idle}]
          /\ lock' \in [Accounts -> Requests \cup {NoRequest}]
      BY <2>0, <2>11, CallTypes DEF CommitReversal, TypeOK, Unsettled
    <3>4. dailyWithdrawn' \in [Accounts -> Int]
      BY <2>11, <3>1 DEF CommitReversal, TypeOK
    <3> QED
      BY <2>11, <3>2, <3>3, <3>4 DEF CommitReversal, TypeOK
  <2>12. CASE ReverseFails(r)
    <3>1. req[r] \in Call /\ req[r].account \in Accounts /\ req[r].amount > 0
      BY <2>0, <2>12 DEF ReverseFails, DebtsPositive, Unsettled
    <3>2. DebtOf(r) \in Debt
      BY <3>1 DEF DebtOf, Debt, Call, TypeOK
    <3>3. /\ req' \in [Requests -> Call \cup {Idle}]
          /\ lock' \in [Accounts -> Requests \cup {NoRequest}]
      BY <2>12, CallTypes DEF ReverseFails
    <3> QED
      BY <2>12, <3>2, <3>3 DEF ReverseFails, TypeOK, LedgerTypeOK, ledgerVars
  <2> QED
    BY <1>1, <2>1, <2>2, <2>3, <2>4, <2>5, <2>6, <2>7, <2>8, <2>9, <2>10, <2>11, <2>12, SwitchKnown
       DEF Step, Callers
<1>2. CASE NextDay
  BY <1>2 DEF NextDay, Midnight, TypeOK, LedgerTypeOK, emulatorVars, Days
<1>3. CASE Restart
  <2>1. {DebtOf(r) : r \in {q \in Requests : req[q].pc \in Unsettled}} \subseteq Debt
    <3>1. ASSUME NEW q \in Requests, req[q].pc \in Unsettled PROVE DebtOf(q) \in Debt
      <4>1. /\ req[q] \in Call /\ req[q].account \in Accounts /\ restarts \in Nat
            /\ req[q].amount > 0
        BY <3>1, ActiveCall DEF AccountKnown, DebtsPositive, Unsettled, TypeOK
      <4> QED
        BY <4>1 DEF DebtOf, Debt, Call
    <3> QED
      BY <3>1
  <2> QED
    BY <1>3, <2>1 DEF Restart, TypeOK, LedgerTypeOK, ledgerVars, Idle
<1>4. CASE UNCHANGED vars
  BY <1>4 DEF vars, ledgerVars, emulatorVars, TypeOK, LedgerTypeOK
<1> QED
  BY <1>1, <1>2, <1>3, <1>4 DEF Next

(* A call gets to a debt only by the commit of an amount above zero.       *)
LEMMA PositiveStep == TypeOK /\ DebtsPositive /\ [Next]_vars => DebtsPositive'
<1> SUFFICES ASSUME TypeOK, DebtsPositive, [Next]_vars PROVE DebtsPositive'
    OBVIOUS
<1> USE DEF Authorizing, Unsettled
<1>1. ASSUME NEW r \in Requests, Step(r) PROVE DebtsPositive'
  <2>0. req \in [Requests -> Call \cup {Idle}] /\ (req[r].pc # "idle" => req[r] \in Call)
    BY ActiveCall DEF TypeOK
  <2>1. ASSUME \A q \in Requests \ {r} : req'[q] = req[q],
               req'[r].pc \in Unsettled => req'[r].amount > 0
        PROVE  DebtsPositive'
    BY <2>1 DEF DebtsPositive
  <2>2. CASE req'[r].pc \in Unsettled /\ req[r].pc \in Unsettled /\ \E pc : Goto(r, pc)
    <3>1. /\ req'[r].amount = req[r].amount /\ req[r].amount > 0
          /\ \A q \in Requests \ {r} : req'[q] = req[q]
      BY <2>0, <2>2 DEF Goto, Call, DebtsPositive
    <3> QED
      BY <2>1, <3>1
  <2>3. CASE Answer(r)
    <3>1. req'[r].pc = "idle" /\ \A q \in Requests \ {r} : req'[q] = req[q]
      BY <2>0, <2>3 DEF Answer, Idle
    <3> QED
      BY <2>1, <3>1
  <2>4. CASE req[r].amount > 0 /\ req[r].pc = "within" /\ Goto(r, "approved")
    <3>1. /\ req'[r].amount = req[r].amount
          /\ \A q \in Requests \ {r} : req'[q] = req[q]
      BY <2>0, <2>4 DEF Goto, Call
    <3> QED
      BY <2>1, <2>4, <3>1
  <2>5. CASE req'[r].pc \notin Unsettled /\ \A q \in Requests \ {r} : req'[q] = req[q]
    BY <2>1, <2>5
  <2>6. ASSUME NEW p, NEW amt, NEW sw, NEW c, AuthorizeWithdrawal(r, p, amt, sw, c)
        PROVE  DebtsPositive'
    BY <2>0, <2>5, <2>6 DEF AuthorizeWithdrawal
  <2>7. CASE LookupCard(r)
    <3>1. CASE Answer(r)
      BY <2>3, <3>1
    <3>2. CASE ~ Answer(r)
      BY <2>0, <2>5, <2>7, <3>2 DEF LookupCard, Call
    <3> QED
      BY <3>1, <3>2
  <2>8. CASE AuthorizeLock(r) \/ ReadBalance(r)
    <3>1. CASE Goto(r, "locked") /\ req[r].pc = "waiting"
      BY <2>0, <2>5, <3>1 DEF Goto, Call
    <3>2. CASE Goto(r, "funded") /\ req[r].pc = "locked"
      BY <2>0, <2>5, <3>2 DEF Goto, Call
    <3> QED
      BY <2>3, <2>8, <3>1, <3>2 DEF AuthorizeLock, ReadBalance
  <2>9. CASE ReadDailyTotal(r)
    <3>1. CASE Answer(r)
      BY <2>3, <3>1
    <3>2. CASE ~ Answer(r)
      BY <2>0, <2>5, <2>9, <3>2 DEF ReadDailyTotal, Call
    <3> QED
      BY <3>1, <3>2
  <2>10. CASE CommitApproval(r)
    BY <2>3, <2>4, <2>10 DEF CommitApproval, Approved
  <2>11. CASE ReverseTransaction(r) \/ ReverseLock(r)
    <3>1. \E pc \in Unsettled : Goto(r, pc)
      BY <2>11 DEF ReverseTransaction, ReverseLock
    <3>2. req[r].pc \in Unsettled /\ req[r] \in Call
      BY <2>0, <2>11 DEF ReverseTransaction, ReverseLock
    <3>3. req'[r].pc \in Unsettled
      BY <2>0, <3>1, <3>2 DEF Goto, Call
    <3> QED
      BY <2>2, <3>1, <3>2, <3>3
  <2>12. CASE AuthorizeFails(r) \/ Dispensed(r) \/ CommitReversal(r) \/ ReverseFails(r)
    BY <2>3, <2>12 DEF AuthorizeFails, Dispensed, CommitReversal, ReverseFails
  <2> QED
    BY <1>1, <2>6, <2>7, <2>8, <2>9, <2>10, <2>11, <2>12 DEF Step
<1>2. CASE NextDay \/ UNCHANGED vars
  BY <1>2 DEF NextDay, vars, emulatorVars, DebtsPositive
<1>3. CASE Restart
  BY <1>3 DEF Restart, Idle, DebtsPositive
<1> QED
  BY <1>1, <1>2, <1>3 DEF Next

(***************************************************************************)
(* Every step of a call keeps the locks with their holders and the funds   *)
(* that were checked in place.                                             *)
(***************************************************************************)
LEMMA LockStep == LockInv /\ [Next]_vars => LockInv'
<1> SUFFICES ASSUME LockInv, [Next]_vars PROVE LockInv'
    OBVIOUS
<1> USE LedgerAssumption, EmulatorAssumption
<1>0. TypeOK /\ TypeOK' /\ DebtsPositive'
  BY TypeStep, PositiveStep DEF LockInv
<1>1. ASSUME NEW r \in Requests, Step(r)
      PROVE  AccountKnown' /\ LockHeld' /\ FundsHeld' /\ BalanceNeverNegative'
  <2>0. /\ \A q \in Requests : /\ req[q].pc \in Steps
                             /\ req[q].pc # "idle" => req[q].amount \in Int
        /\ req[r].pc # "idle" => req[r] \in Call
        /\ req \in [Requests -> Call \cup {Idle}]
        /\ balance \in [Accounts -> Int]
        /\ lock \in [Accounts -> Requests \cup {NoRequest}]
    BY <1>0, ActiveCall DEF Call, TypeOK, LedgerTypeOK
  <2> USE <2>0 DEF LockInv, AccountKnown, LockHeld, FundsHeld, DebtsPositive,
                   BalanceNeverNegative, Holding, Steps, Authorizing, Unsettled, Idle, ledgerVars
  <2>1. ASSUME NEW p \in Cards, NEW amt \in Amounts, NEW sw \in Switches, NEW c \in Callers,
               AuthorizeWithdrawal(r, p, amt, sw, c)
        PROVE  AccountKnown' /\ LockHeld' /\ FundsHeld' /\ BalanceNeverNegative'
    BY <2>1 DEF AuthorizeWithdrawal
  <2>2. CASE LookupCard(r)
    <3>1. CASE Answer(r)
      BY <2>2, <3>1 DEF LookupCard, Answer
    <3>2. CASE AccountOf[req[r].pan] # NoAccount /\ ~Answer(r)
      <4>1. /\ req'[r].pc = "waiting"
            /\ req'[r].account \in Accounts
            /\ \A q \in Requests \ {r} : req'[q] = req[q]
            /\ req[r].pc = "lookup" /\ balance' = balance /\ lock' = lock
        BY <2>2, <3>2, SMTT(30) DEF LookupCard, Call
      <4>2. AccountKnown' /\ BalanceNeverNegative'
        BY <4>1
      <4>3. LockHeld'
        <5>1. ASSUME NEW q \in Requests \ {r}, NEW a \in Accounts
              PROVE  lock'[a] = q <=> (req'[q].pc \in Holding /\ req'[q].account = a)
          BY <4>1, <5>1
        <5>2. ASSUME NEW a \in Accounts
              PROVE  lock'[a] # r /\ req'[r].pc \notin Holding
          BY <4>1, <5>2
        <5> QED
          BY <5>1, <5>2
      <4>4. FundsHeld'
        BY <4>1
      <4> QED
        BY <4>2, <4>3, <4>4
    <3> QED
      BY <2>2, <3>1, <3>2 DEF LookupCard
  <2>3. CASE AuthorizeLock(r)
    BY <2>3 DEF AuthorizeLock, Goto
  <2>4. CASE ReadBalance(r)
    <3>1. CASE Answer(r) /\ Release(r)
      BY <2>4, <3>1 DEF ReadBalance, Answer, Release
    <3>2. CASE balance[req[r].account] >= req[r].amount /\ Goto(r, "funded") /\ lock' = lock
      BY <2>4, <3>2 DEF ReadBalance, Goto
    <3>3. balance[req[r].account] \in Int /\ req[r].amount \in Int
      BY <2>4 DEF ReadBalance
    <3> QED
      BY <2>4, <3>1, <3>2, <3>3 DEF ReadBalance
  <2>5. CASE ReadDailyTotal(r)
    <3>1. CASE Answer(r) /\ Release(r)
      BY <2>5, <3>1 DEF ReadDailyTotal, Answer, Release
    <3>2. CASE req' = [req EXCEPT ![r].pc = "within", ![r].day = today] /\ lock' = lock
      <4>1. /\ req'[r].pc = "within"
            /\ req'[r].account = req[r].account
            /\ req'[r].amount = req[r].amount
            /\ \A q \in Requests \ {r} : req'[q] = req[q]
            /\ req[r].pc = "funded" /\ balance' = balance
        BY <2>5, <3>2 DEF ReadDailyTotal, Call
      <4>2. AccountKnown' /\ BalanceNeverNegative'
        BY <3>2, <4>1, SMTT(30)
      <4>3. LockHeld'
        BY <3>2, <4>1
      <4>4. FundsHeld'
        BY <3>2, <4>1
      <4> QED
        BY <4>2, <4>3, <4>4
    <3> QED
      BY <2>5, <3>1, <3>2 DEF ReadDailyTotal
  <2>6. CASE CommitApproval(r)
    <3>0. balance[req[r].account] \in Int /\ req[r].amount \in Int /\ req[r].account \in Accounts
      BY <2>6 DEF CommitApproval
    <3>5. /\ \A q \in Requests \ {r} : req'[q] = req[q]
          /\ req'[r].pc \in {"idle", "approved"}
          /\ req'[r].pc = "approved" => req'[r].account = req[r].account
      <4>1. req[r] \in Call /\ Approved(r)
        BY <2>6 DEF CommitApproval
      <4>2. CASE Goto(r, "approved")
        BY <4>1, <4>2 DEF Goto, Call
      <4>3. CASE Answer(r)
        BY <4>1, <4>3 DEF Answer
      <4> QED
        BY <4>1, <4>2, <4>3 DEF Approved
    <3>1. AccountKnown'
      BY <2>6, <3>0, <3>5 DEF CommitApproval
    <3>2. BalanceNeverNegative'
      BY <2>6, <3>0, SMTT(30) DEF CommitApproval, Debit
    <3>3. LockHeld'
      BY <2>6, <3>0, <3>5 DEF CommitApproval, Release
    <3>4. FundsHeld'
      <4>1. ASSUME NEW q \in Requests, req'[q].pc \in {"funded", "within"}
            PROVE  balance'[req'[q].account] >= req'[q].amount
        <5>1. q # r /\ req'[q] = req[q]
          BY <3>5, <4>1
        <5>4. req[q].account \in Accounts /\ req[q].pc \in Holding
          BY <4>1, <5>1
        <5>5. \A a \in Accounts : lock[a] = q <=> (req[q].pc \in Holding /\ req[q].account = a)
          OBVIOUS
        <5>6. req[r].pc = "within"
          BY <2>6 DEF CommitApproval
        <5>2. lock[req[q].account] = q /\ lock[req[r].account] = r
          BY <3>0, <5>4, <5>5, <5>6
        <5>3. balance'[req[q].account] = balance[req[q].account]
          BY <2>6, <3>0, <5>1, <5>2 DEF CommitApproval, Debit
        <5> QED
          BY <4>1, <5>1, <5>3
      <4> QED
        BY <4>1
    <3> QED
      BY <3>1, <3>2, <3>3, <3>4
  <2>7. CASE AuthorizeFails(r)
    BY <2>7 DEF AuthorizeFails, Answer, Release
  <2>8. CASE Dispensed(r)
    BY <2>8 DEF Dispensed, Answer
  <2>9. CASE ReverseTransaction(r)
    BY <2>9 DEF ReverseTransaction, Goto
  <2>10. CASE ReverseLock(r)
    BY <2>10 DEF ReverseLock, Goto
  <2>11. CASE CommitReversal(r)
    <3>0. /\ balance[req[r].account] \in Int /\ req[r].amount \in Int /\ req[r].amount > 0
          /\ req[r].account \in Accounts
      BY <2>11 DEF CommitReversal
    <3>1. AccountKnown'
      BY <2>11 DEF CommitReversal, Answer
    <3>2. BalanceNeverNegative'
      BY <2>11, <3>0 DEF CommitReversal, Credit
    <3>3. LockHeld'
      BY <2>11, <3>0 DEF CommitReversal, Answer, Release
    <3>4. FundsHeld'
      BY <2>11, <3>0 DEF CommitReversal, Credit, Answer, Release
    <3> QED
      BY <3>1, <3>2, <3>3, <3>4
  <2>12. CASE ReverseFails(r)
    BY <2>12 DEF ReverseFails, Answer, Release
  <2> QED
    BY <1>1, <2>1, <2>2, <2>3, <2>4, <2>5, <2>6, <2>7, <2>8, <2>9, <2>10, <2>11, <2>12, SwitchKnown
       DEF Step, Callers
<1>2. CASE NextDay
  BY <1>0, <1>2 DEF NextDay, Midnight, emulatorVars, LockInv, AccountKnown, LockHeld, FundsHeld,
                    BalanceNeverNegative
<1>3. CASE Restart
  BY <1>0, <1>3 DEF Restart, ledgerVars, LockInv, AccountKnown, LockHeld, FundsHeld,
                    BalanceNeverNegative, Idle, Holding
<1>4. CASE UNCHANGED vars
  BY <1>0, <1>4 DEF vars, ledgerVars, emulatorVars, LockInv, AccountKnown, LockHeld, FundsHeld,
                    BalanceNeverNegative
<1> QED
  BY <1>0, <1>1, <1>2, <1>3, <1>4 DEF Next, LockInv

(***************************************************************************)
(* No interleaving of authorizations, reversals, failures, day changes and *)
(* restarts overdraws an account: authorizeWithdrawal's re-read under the  *)
(* advisory lock is still true when its debit commits.                     *)
(***************************************************************************)
THEOREM NeverOverdrawn == Spec => []BalanceNeverNegative
<1>1. LockInv => BalanceNeverNegative
  BY DEF LockInv
<1> QED
  BY <1>1, LockInit, LockStep, PTL DEF Spec

(* The variables of the host keep their types.                             *)
THEOREM TypeCorrect == Spec => []TypeOK
<1>1. LockInv => TypeOK
  BY DEF LockInv
<1> QED
  BY <1>1, LockInit, LockStep, PTL DEF Spec

-----------------------------------------------------------------------------
(***************************************************************************)
(* The second argument: what the lock and the STAN together give.  A       *)
(* reversal finds its row by STAN alone, so this part needs STANs that are *)
(* not drawn twice: it holds until the process is restarted, and as long   *)
(* as there are fewer authorizations than formatStan has values.           *)
(***************************************************************************)
NoStanWrap == MaxAuthorizations < StanModulus

(* No row is dated after today.                                            *)
FutureEmpty ==
    \A a \in Accounts, d \in Days : d > today => rows[a][d] = << >>

(* The day's total a call compared still leaves room for it.               *)
LimitHeld ==
    \A r \in Requests :
        req[r].pc = "within" => WithinLimit(req[r].account, req[r].amount, req[r].day)

(* Every STAN in use was drawn from the counter, no two calls share one.   *)
StanDrawn ==
    /\ restarts = 0
    /\ stanCounter <= MaxAuthorizations + 1
    /\ \A r \in Requests : req[r].pc # "idle" => req[r].stanNo < stanCounter
    /\ \A r, q \in Requests :
          req[r].pc # "idle" /\ req[q].pc # "idle" /\ r # q => req[r].stanNo # req[q].stanNo
    /\ \A a \in Accounts, d \in Days : \A i \in DOMAIN rows[a][d] :
          rows[a][d][i].stanNo < stanCounter

(* A call has no completed row before its commit and exactly one after it. *)
RowOfCall ==
    \A r \in Requests :
        /\ req[r].pc \in Authorizing =>
              \A a \in Accounts, d \in Days : \A i \in DOMAIN rows[a][d] :
                  ~CompletedAt(a, d, i, req[r].stanNo)
        /\ req[r].pc \in Unsettled =>
              OutstandingOnce(req[r].account, req[r].amount, req[r].stanNo)

StanInv == FutureEmpty /\ LimitHeld /\ StanDrawn /\ RowOfCall

(* A STAN drawn before the counter wraps is the counter's value.           *)
LEMMA StanIsCounter ==
    ASSUME NEW n \in Nat, NEW m \in Nat, n < m
    PROVE  n % m = n
OBVIOUS

(* OutstandingOnce on any table, and how to establish it.                  *)
OnceIn(table, a, amt, s) ==
    \E d \in Days : \E i \in DOMAIN table[a][d] :
        /\ table[a][d][i].stanNo = s
        /\ table[a][d][i].status = "COMPLETED"
        /\ table[a][d][i].amount = amt
        /\ \A b \in Accounts, e \in Days : \A j \in DOMAIN table[b][e] :
              table[b][e][j].stanNo = s /\ table[b][e][j].status = "COMPLETED"
                  => b = a /\ e = d /\ j = i

(* The row a call left once in the table is the row it is owed to give back. *)
LEMMA OnceMeans ==
    ASSUME NEW q, OnceIn(rows', req'[q].account, req'[q].amount, req'[q].stanNo)
    PROVE  OutstandingOnce(req[q].account, req[q].amount, req[q].stanNo)'
<1> DEFINE a == req'[q].account
           s == req'[q].stanNo
<1>1. PICK d \in Days : \E i \in DOMAIN rows'[a][d] :
          /\ rows'[a][d][i].stanNo = s
          /\ rows'[a][d][i].status = "COMPLETED"
          /\ rows'[a][d][i].amount = req'[q].amount
          /\ \A b \in Accounts, e \in Days : \A j \in DOMAIN rows'[b][e] :
                rows'[b][e][j].stanNo = s /\ rows'[b][e][j].status = "COMPLETED"
                    => b = a /\ e = d /\ j = i
  BY SMTT(30) DEF OnceIn
<1>2. PICK i \in DOMAIN rows'[a][d] :
          /\ rows'[a][d][i].stanNo = s
          /\ rows'[a][d][i].status = "COMPLETED"
          /\ rows'[a][d][i].amount = req'[q].amount
          /\ \A b \in Accounts, e \in Days : \A j \in DOMAIN rows'[b][e] :
                rows'[b][e][j].stanNo = s /\ rows'[b][e][j].status = "COMPLETED"
                    => b = a /\ e = d /\ j = i
  BY <1>1
<1>3. \A b \in Accounts, e \in Days : \A j \in DOMAIN rows'[b][e] :
          CompletedAt(b, e, j, req[q].stanNo)' => b = a /\ e = d /\ j = i
  BY <1>2 DEF CompletedAt
<1>4. CompletedAt(req[q].account, d, i, req[q].stanNo)'
  BY <1>2 DEF CompletedAt
<1> QED
  BY <1>2, <1>3, <1>4, SMTT(30) DEF OutstandingOnce

LEMMA OnceIsOutstanding ==
    ASSUME NEW a, NEW amt, NEW s
    PROVE  /\ OutstandingOnce(a, amt, s) <=> OnceIn(rows, a, amt, s)
           /\ OutstandingOnce(a, amt, s)' <=> OnceIn(rows', a, amt, s)
BY DEF OutstandingOnce, OnceIn, CompletedAt

(* The first state satisfies the STAN invariant.                           *)
LEMMA StanInit == Init => StanInv
BY LedgerAssumption, EmulatorAssumption
   DEF Init, LedgerInit, StanInv, FutureEmpty, LimitHeld, StanDrawn, RowOfCall, Idle, Days,
       Authorizing, Unsettled

(***************************************************************************)
(* A step that leaves the ledger alone keeps the STAN invariant when every *)
(* call is either gone or still has its STAN, amount and account and has   *)
(* not jumped over its commit.                                             *)
(***************************************************************************)
Carried(q) ==
    /\ req[q].pc # "idle"
    /\ req'[q].stanNo = req[q].stanNo
    /\ req'[q].pc \in Authorizing => req[q].pc \in Authorizing
    /\ req'[q].pc \in Unsettled => /\ req[q].pc \in Unsettled
                                   /\ req'[q].account = req[q].account
                                   /\ req'[q].amount = req[q].amount
    /\ req'[q].pc = "within" => WithinLimit(req'[q].account, req'[q].amount, req'[q].day)

LEMMA StanKept ==
    ASSUME StanInv, UNCHANGED ledgerVars, UNCHANGED <<stanCounter, restarts>>,
           \A q \in Requests : req'[q].pc = "idle" \/ Carried(q)
    PROVE  StanInv'
<1> USE DEF ledgerVars
<1>1. FutureEmpty'
  BY DEF StanInv, FutureEmpty
<1>2. LimitHeld'
  <2>1. \A a, amt, d : WithinLimit(a, amt, d)' = WithinLimit(a, amt, d)
    BY DEF WithinLimit
  <2> QED
    BY <2>1 DEF LimitHeld, Carried, WithinLimit
<1>3. StanDrawn'
  BY DEF StanInv, StanDrawn, Carried
<1>4. RowOfCall'
  BY DEF StanInv, RowOfCall, Carried, CompletedAt, OutstandingOnce, Authorizing, Unsettled
<1> QED
  BY <1>1, <1>2, <1>3, <1>4 DEF StanInv

(* The steps of a call that do not write to the ledger.                    *)
LEMMA StanStepReads ==
    ASSUME LockInv, StanInv, NEW r \in Requests,
           LookupCard(r) \/ AuthorizeLock(r) \/ ReadBalance(r) \/ ReadDailyTotal(r) \/ AuthorizeFails(r)
           \/ Dispensed(r) \/ ReverseTransaction(r) \/ ReverseLock(r) \/ ReverseFails(r)
    PROVE  StanInv'
<1>0. /\ req \in [Requests -> Call \cup {Idle}]
      /\ req[r].pc # "idle" => req[r] \in Call
      /\ \A q \in Requests : req[q].pc = "within" =>
            WithinLimit(req[q].account, req[q].amount, req[q].day)
  BY ActiveCall DEF LockInv, TypeOK, StanInv, LimitHeld
<1> SUFFICES /\ UNCHANGED ledgerVars /\ UNCHANGED <<stanCounter, restarts>>
             /\ \A q \in Requests : req'[q].pc = "idle" \/ Carried(q)
    BY StanKept
<1>1. UNCHANGED ledgerVars /\ UNCHANGED <<stanCounter, restarts>>
  BY DEF LookupCard, AuthorizeLock, ReadBalance, ReadDailyTotal, AuthorizeFails, Dispensed, ReverseTransaction, ReverseLock, ReverseFails
<1>2. ASSUME NEW q \in Requests, q # r PROVE req'[q] = req[q]
  BY <1>0, <1>2 DEF LookupCard, AuthorizeLock, ReadBalance, ReadDailyTotal, AuthorizeFails, Dispensed, ReverseTransaction, ReverseLock, ReverseFails, Answer, Goto
<1>3. req'[r].pc = "idle" \/ Carried(r)
  <2> USE <1>0 DEF Carried, Call, Idle, Authorizing, Unsettled
  <2>1. CASE LookupCard(r)
    BY <2>1 DEF LookupCard, Answer
  <2>2. CASE AuthorizeLock(r)
    BY <2>2 DEF AuthorizeLock, Goto
  <2>3. CASE ReadBalance(r)
    BY <2>3 DEF ReadBalance, Answer, Goto
  <2>4. CASE ReadDailyTotal(r)
    BY <2>4 DEF ReadDailyTotal, Answer
  <2>5. CASE AuthorizeFails(r)
    BY <2>5 DEF AuthorizeFails, Answer
  <2>6. CASE Dispensed(r)
    BY <2>6 DEF Dispensed, Answer
  <2>7. CASE ReverseTransaction(r)
    BY <2>7 DEF ReverseTransaction, Goto
  <2>8. CASE ReverseLock(r)
    BY <2>8 DEF ReverseLock, Goto
  <2>9. CASE ReverseFails(r)
    BY <2>9 DEF ReverseFails, Answer
  <2> QED
    BY <2>1, <2>2, <2>3, <2>4, <2>5, <2>6, <2>7, <2>8, <2>9
<1>4. ASSUME NEW q \in Requests, q # r PROVE req'[q].pc = "idle" \/ Carried(q)
  <2>1. req[q].pc \in Steps
    BY ActiveCall DEF LockInv
  <2> QED
    BY <1>0, <1>2, <1>4, <2>1 DEF Carried
<1> QED
  BY <1>1, <1>3, <1>4

(* A new call draws a STAN that no row and no other call carries.          *)
LEMMA StanStepDraw ==
    ASSUME LockInv, StanInv, NoStanWrap, NEW r \in Requests, NEW p \in Cards,
           NEW amt \in Amounts, NEW sw \in Switches, NEW c \in Callers,
           AuthorizeWithdrawal(r, p, amt, sw, c)
    PROVE  StanInv'
<1> USE LedgerAssumption, EmulatorAssumption
<1>0. req \in [Requests -> Call \cup {Idle}] /\ stanCounter \in Nat
  BY DEF LockInv, TypeOK
<1>1. formatStan(stanCounter) = stanCounter
  <2>1. stanCounter <= MaxAuthorizations
    BY DEF AuthorizeWithdrawal
  <2>2. stanCounter < StanModulus /\ StanModulus \in Nat /\ stanCounter \in Nat
    BY <1>0, <2>1 DEF NoStanWrap
  <2> QED
    BY <2>2, StanIsCounter DEF formatStan
<1>2. /\ req'[r].pc = "lookup" /\ req'[r].stanNo = stanCounter
      /\ \A q \in Requests \ {r} : req'[q] = req[q]
  BY <1>0, <1>1 DEF AuthorizeWithdrawal
<1>3. /\ balance' = balance /\ rows' = rows /\ today' = today
      /\ stanCounter' = stanCounter + 1 /\ restarts' = restarts
      /\ stanCounter <= MaxAuthorizations
  BY DEF AuthorizeWithdrawal, ledgerVars
<1>4. FutureEmpty'
  BY <1>3 DEF StanInv, FutureEmpty
<1>5. LimitHeld'
  BY <1>2, <1>3 DEF StanInv, LimitHeld, WithinLimit
<1>6. ASSUME NEW q \in Requests, req[q].pc # "idle"
      PROVE  req[q].stanNo \in Nat /\ req[q].stanNo < stanCounter
  BY <1>6, ActiveCall DEF StanInv, StanDrawn, LockInv, Call
<1>7. ASSUME NEW a \in Accounts, NEW d \in Days, NEW k \in DOMAIN rows[a][d]
      PROVE  rows[a][d][k].stanNo \in Nat /\ rows[a][d][k].stanNo < stanCounter
  <2>1. rows[a][d] \in Seq(Row)
    BY DEF LockInv, TypeOK, LedgerTypeOK
  <2>2. rows[a][d][k] \in Row
    BY <2>1
  <2> QED
    BY <2>2 DEF Row, StanInv, StanDrawn
<1>8. StanDrawn'
  <2>1. restarts' = 0 /\ stanCounter' <= MaxAuthorizations + 1
    BY <1>0, <1>3 DEF StanInv, StanDrawn
  <2>2. ASSUME NEW q \in Requests, req'[q].pc # "idle" PROVE req'[q].stanNo < stanCounter'
    <3>1. CASE q = r
      BY <1>0, <1>2, <1>3, <3>1
    <3>2. CASE q # r
      <4>1. req'[q] = req[q]
        BY <1>2, <3>2
      <4>2. req[q].stanNo \in Nat /\ req[q].stanNo < stanCounter
        BY <1>6, <2>2, <4>1
      <4> QED
        BY <1>0, <1>3, <4>1, <4>2
    <3> QED
      BY <3>1, <3>2
  <2>3. ASSUME NEW q \in Requests, NEW t \in Requests, q # t,
               req'[q].pc # "idle", req'[t].pc # "idle"
        PROVE  req'[q].stanNo # req'[t].stanNo
    <3>1. CASE q # r /\ t # r
      BY <1>2, <2>3, <3>1 DEF StanInv, StanDrawn
    <3>2. CASE q = r \/ t = r
      BY <1>0, <1>2, <1>6, <2>3, <3>2
    <3> QED
      BY <3>1, <3>2
  <2>4. ASSUME NEW a \in Accounts, NEW d \in Days, NEW k \in DOMAIN rows'[a][d]
        PROVE  rows'[a][d][k].stanNo < stanCounter'
    BY <1>0, <1>3, <1>7, <2>4
  <2> QED
    BY <2>1, <2>2, <2>3, <2>4 DEF StanDrawn
<1>9. RowOfCall'
  <2>1. ASSUME NEW a \in Accounts, NEW d \in Days, NEW k \in DOMAIN rows[a][d]
        PROVE  ~CompletedAt(a, d, k, stanCounter)
    BY <1>0, <1>7 DEF CompletedAt
  <2>2. ASSUME NEW q \in Requests
        PROVE  (/\ req[q].pc \in Authorizing =>
                     \A a \in Accounts, d \in Days : \A k \in DOMAIN rows[a][d] :
                         ~CompletedAt(a, d, k, req[q].stanNo)
                /\ req[q].pc \in Unsettled =>
                     OutstandingOnce(req[q].account, req[q].amount, req[q].stanNo))'
    <3>1. CASE q = r
      <4>1. req'[q].pc = "lookup" /\ req'[q].stanNo = stanCounter
        BY <1>2, <3>1
      <4>2. \A a \in Accounts, d \in Days : \A k \in DOMAIN rows'[a][d] :
                ~(/\ k \in DOMAIN rows'[a][d]
                  /\ rows'[a][d][k].stanNo = req'[q].stanNo
                  /\ rows'[a][d][k].status = "COMPLETED")
        BY <1>3, <2>1, <4>1 DEF CompletedAt
      <4> QED
        BY <4>1, <4>2 DEF CompletedAt, Unsettled
    <3>2. CASE q # r
      <4>1. req'[q] = req[q] /\ rows' = rows
        BY <1>2, <1>3, <3>2
      <4>2. /\ req[q].pc \in Authorizing =>
                  \A a \in Accounts, d \in Days : \A k \in DOMAIN rows[a][d] :
                      ~CompletedAt(a, d, k, req[q].stanNo)
            /\ req[q].pc \in Unsettled =>
                  OutstandingOnce(req[q].account, req[q].amount, req[q].stanNo)
        BY DEF StanInv, RowOfCall
      <4> QED
        BY <4>1, <4>2 DEF CompletedAt, OutstandingOnce
    <3> QED
      BY <3>1, <3>2
  <2> QED
    BY <2>2 DEF RowOfCall
<1> QED
  BY <1>4, <1>5, <1>8, <1>9 DEF StanInv

(* While a call holds its account's lock no other call writes its rows.    *)
LEMMA OtherAccount ==
    ASSUME LockInv, NEW r \in Requests, NEW q \in Requests, q # r,
           req[r].pc \in Holding, req[q].pc \in Holding
    PROVE  req[r].account # req[q].account
BY DEF LockInv, LockHeld, AccountKnown, Holding

(* What the commit makes of its call: a debt, or nothing.                  *)
LEMMA CommitEnds ==
    ASSUME TypeOK, NEW r \in Requests, CommitApproval(r)
    PROVE  /\ \/ req'[r].pc = "idle"
              \/ /\ req'[r].pc = "approved"
                 /\ req'[r].stanNo = req[r].stanNo
                 /\ req'[r].account = req[r].account
                 /\ req'[r].amount = req[r].amount
           /\ \A q \in Requests \ {r} : req'[q] = req[q]
<1>1. /\ req[r] \in Call /\ req \in [Requests -> Call \cup {Idle}] /\ Approved(r)
  BY ActiveCall DEF CommitApproval, TypeOK
<1>2. CASE Goto(r, "approved")
  BY <1>1, <1>2 DEF Goto, Call
<1>3. CASE Answer(r)
  BY <1>1, <1>3 DEF Answer, Idle
<1> QED
  BY <1>1, <1>2, <1>3 DEF Approved

(* The commit of an approval writes one row, with the call's own STAN.     *)
LEMMA StanStepApprove ==
    ASSUME LockInv, StanInv, NEW r \in Requests, CommitApproval(r)
    PROVE  StanInv'
<1> USE LedgerAssumption, EmulatorAssumption
<1> DEFINE a == req[r].account
           n == Len(rows[a][today]) + 1
<1>0. /\ req \in [Requests -> Call \cup {Idle}]
      /\ req[r].pc = "within" /\ req[r] \in Call /\ a \in Accounts
      /\ req[r].amount \in Amounts /\ req[r].stanNo \in Stans
      /\ LedgerTypeOK /\ today \in Days
  BY ActiveCall DEF LockInv, TypeOK, LedgerTypeOK, AccountKnown, CommitApproval, Call
<1>1. /\ Debit(a, req[r].amount, req[r].stanNo)
      /\ stanCounter' = stanCounter /\ restarts' = restarts /\ today' = today
  BY DEF CommitApproval, Debit
<1>2. /\ \/ req'[r].pc = "idle"
         \/ /\ req'[r].pc = "approved"
            /\ req'[r].stanNo = req[r].stanNo
            /\ req'[r].account = a
            /\ req'[r].amount = req[r].amount
      /\ \A q \in Requests \ {r} : req'[q] = req[q]
  BY CommitEnds DEF LockInv
<1> HIDE DEF a
<1>20. /\ \A b \in Accounts, e \in Days : \A j \in DOMAIN rows[b][e] :
             j \in DOMAIN rows'[b][e] /\ rows'[b][e][j] = rows[b][e][j]
       /\ \A b \in Accounts, e \in Days : \A j \in DOMAIN rows'[b][e] :
             \/ j \in DOMAIN rows[b][e]
             \/ b = a /\ e = today /\ j = n
       /\ n \in DOMAIN rows'[a][today]
       /\ rows'[a][today][n] =
             [stanNo |-> req[r].stanNo, amount |-> req[r].amount, status |-> "COMPLETED"]
       /\ \A b \in Accounts, e \in Days : b # a \/ e # today => rows'[b][e] = rows[b][e]
  BY <1>0, <1>1, RowsAfterDebit, Zenon
<1> HIDE DEF n
<1>30. \A b \in Accounts, e \in Days : \A j \in DOMAIN rows[b][e] :
          j \in DOMAIN rows'[b][e] /\ rows'[b][e][j] = rows[b][e][j]
  BY <1>20
<1>31. \A b \in Accounts, e \in Days : \A j \in DOMAIN rows'[b][e] :
          j \notin DOMAIN rows[b][e] => b = a /\ e = today /\ j = n
  BY <1>20
<1>33. /\ n \in DOMAIN rows'[a][today]
       /\ rows'[a][today][n].stanNo = req[r].stanNo
       /\ rows'[a][today][n].amount = req[r].amount
       /\ rows'[a][today][n].status = "COMPLETED"
  BY <1>20
<1>34. \A b \in Accounts, e \in Days : b # a \/ e # today => rows'[b][e] = rows[b][e]
  BY <1>20
<1>4. FutureEmpty'
  <2>1. ASSUME NEW b \in Accounts, NEW d \in Days, d > today'
        PROVE  rows'[b][d] = << >>
    <3>1. d # today /\ d > today
      BY <1>0, <1>1, <2>1 DEF Days
    <3> QED
      BY <1>34, <3>1 DEF StanInv, FutureEmpty
  <2> QED
    BY <2>1 DEF FutureEmpty
<1>5. LimitHeld'
  <2>1. ASSUME NEW q \in Requests, req'[q].pc = "within"
        PROVE  WithinLimit(req[q].account, req[q].amount, req[q].day)'
    <3>1. q # r /\ req'[q] = req[q]
      BY <1>2, <2>1
    <3>2. req[q].account # a /\ req[q].account \in Accounts /\ req[q].day \in Days
      BY <1>0, <2>1, <3>1, OtherAccount, ActiveCall
         DEF Holding, LockInv, AccountKnown, Call, a
    <3>3. rows'[req[q].account][today] = rows[req[q].account][today]
          /\ rows'[req[q].account][req[q].day] = rows[req[q].account][req[q].day]
      BY <1>0, <1>34, <3>2
    <3>4. WithinLimit(req[q].account, req[q].amount, req[q].day)
      BY <2>1, <3>1 DEF StanInv, LimitHeld
    <3> QED
      BY <1>1, <3>1, <3>3, <3>4 DEF WithinLimit
  <2> QED
    BY <2>1 DEF LimitHeld
<1>6. \A q \in Requests : /\ req'[q].pc # "idle" => req[q].pc # "idle"
                          /\ req'[q].pc # "idle" => req'[q].stanNo = req[q].stanNo
  BY <1>0, <1>2
<1>7. StanDrawn'
  <2>1. ASSUME NEW b \in Accounts, NEW e \in Days, NEW j \in DOMAIN rows'[b][e]
        PROVE  rows'[b][e][j].stanNo < stanCounter
    <3>1. CASE j \in DOMAIN rows[b][e]
      BY <1>30, <1>31, <1>33, <3>1 DEF StanInv, StanDrawn
    <3>2. CASE j \notin DOMAIN rows[b][e]
      BY <1>0, <1>30, <1>31, <1>33, <3>2 DEF StanInv, StanDrawn
    <3> QED
      BY <3>1, <3>2
  <2> QED
    BY <1>1, <1>6, <2>1 DEF StanInv, StanDrawn
<1>8. ASSUME NEW q \in Requests, q # r, req[q].pc # "idle"
      PROVE  req[q].stanNo # req[r].stanNo
  BY <1>0, <1>8 DEF StanInv, StanDrawn
<1>9. ASSUME NEW q \in Requests
      PROVE  (/\ req[q].pc \in Authorizing =>
                   \A b \in Accounts, e \in Days : \A j \in DOMAIN rows[b][e] :
                       ~CompletedAt(b, e, j, req[q].stanNo)
              /\ req[q].pc \in Unsettled =>
                   OutstandingOnce(req[q].account, req[q].amount, req[q].stanNo))'
  <2>1. CASE q = r
    <3>1. \A b \in Accounts, e \in Days : \A j \in DOMAIN rows[b][e] :
             ~CompletedAt(b, e, j, req[r].stanNo)
      BY <1>0 DEF StanInv, RowOfCall, Authorizing
    <3>2. ASSUME NEW b \in Accounts, NEW e \in Days, NEW j \in DOMAIN rows'[b][e],
                 rows'[b][e][j].stanNo = req[r].stanNo, rows'[b][e][j].status = "COMPLETED"
          PROVE  b = a /\ e = today /\ j = n
      <4>1. CASE j \in DOMAIN rows[b][e]
        <5>1. rows'[b][e][j] = rows[b][e][j]
          BY <1>30, <4>1
        <5> QED
          BY <3>1, <3>2, <4>1, <5>1 DEF CompletedAt
      <4>2. CASE j \notin DOMAIN rows[b][e]
        BY <1>31, <4>2
      <4> QED
        BY <4>1, <4>2
    <3>0. CASE req'[q].pc = "idle"
      BY <3>0 DEF Authorizing, Unsettled
    <3> SUFFICES ASSUME req'[q].pc # "idle"
                 PROVE  (/\ req[q].pc \in Authorizing =>
                              \A b \in Accounts, e \in Days : \A j \in DOMAIN rows[b][e] :
                                  ~CompletedAt(b, e, j, req[q].stanNo)
                         /\ req[q].pc \in Unsettled =>
                              OutstandingOnce(req[q].account, req[q].amount, req[q].stanNo))'
      BY <3>0
    <3>3. req'[q].pc = "approved" /\ req'[q].account = a /\ req'[q].amount = req[r].amount
          /\ req'[q].stanNo = req[r].stanNo
      BY <1>2, <2>1
    <3>4. OnceIn(rows', a, req[r].amount, req[r].stanNo)
      BY <1>0, <1>30, <1>31, <1>33, <3>2 DEF OnceIn
    <3>5. OutstandingOnce(req[q].account, req[q].amount, req[q].stanNo)'
      <4>1. OnceIn(rows', req'[q].account, req'[q].amount, req'[q].stanNo)
        BY <3>3, <3>4
      <4> QED
        BY <4>1, OnceMeans
    <3> QED
      BY <3>3, <3>5 DEF Authorizing
  <2>2. CASE q # r
    <3>1. req'[q] = req[q]
      BY <1>2, <2>2
    <3>2. ASSUME req[q].pc \in Authorizing
          PROVE  (\A b \in Accounts, e \in Days : \A j \in DOMAIN rows[b][e] :
                       ~CompletedAt(b, e, j, req[q].stanNo))'
      <4>1. req[q].stanNo # req[r].stanNo
        BY <1>8, <2>2, <3>2 DEF Authorizing
      <4>2. \A b \in Accounts, e \in Days : \A j \in DOMAIN rows[b][e] :
               ~CompletedAt(b, e, j, req[q].stanNo)
        BY <3>2 DEF StanInv, RowOfCall
      <4>3. ASSUME NEW b \in Accounts, NEW e \in Days, NEW j \in DOMAIN rows'[b][e],
                   rows'[b][e][j].stanNo = req[q].stanNo, rows'[b][e][j].status = "COMPLETED"
            PROVE  FALSE
        <5>1. CASE j \in DOMAIN rows[b][e]
          <6>1. rows'[b][e][j] = rows[b][e][j]
            BY <1>30, <5>1
          <6> QED
            BY <4>2, <4>3, <5>1, <6>1 DEF CompletedAt
        <5>2. CASE j \notin DOMAIN rows[b][e]
          <6>1. b = a /\ e = today /\ j = n
            BY <1>31, <5>2
          <6> QED
            BY <1>33, <4>1, <4>3, <6>1
        <5> QED
          BY <5>1, <5>2
      <4>4. req'[q].stanNo = req[q].stanNo
        BY <3>1
      <4> QED
        BY <4>3, <4>4 DEF CompletedAt
    <3>3. ASSUME req[q].pc \in Unsettled
          PROVE  OutstandingOnce(req[q].account, req[q].amount, req[q].stanNo)'
      <4>1. req[q].stanNo # req[r].stanNo /\ req[q].account \in Accounts
        BY <1>8, <2>2, <3>3 DEF Unsettled, LockInv, AccountKnown
      <4> DEFINE Place(d, k) ==
               /\ CompletedAt(req[q].account, d, k, req[q].stanNo)
               /\ rows[req[q].account][d][k].amount = req[q].amount
               /\ \A b \in Accounts, e \in Days : \A j \in DOMAIN rows[b][e] :
                     CompletedAt(b, e, j, req[q].stanNo) =>
                         b = req[q].account /\ e = d /\ j = k
      <4>0. PICK d \in Days : \E k \in DOMAIN rows[req[q].account][d] : Place(d, k)
        BY <3>3 DEF StanInv, RowOfCall, OutstandingOnce
      <4>2. PICK k \in DOMAIN rows[req[q].account][d] : Place(d, k)
        BY <4>0
      <4>3. /\ k \in DOMAIN rows'[req[q].account][d]
            /\ rows'[req[q].account][d][k] = rows[req[q].account][d][k]
        BY <1>30, <4>1
      <4>4. ASSUME NEW b \in Accounts, NEW e \in Days, NEW j \in DOMAIN rows'[b][e],
                   rows'[b][e][j].stanNo = req[q].stanNo, rows'[b][e][j].status = "COMPLETED"
            PROVE  b = req[q].account /\ e = d /\ j = k
        BY <1>30, <1>31, <1>33, <4>1, <4>2, <4>4, SMTT(30) DEF CompletedAt
      <4>5. OnceIn(rows', req[q].account, req[q].amount, req[q].stanNo)
        <5>1. /\ rows'[req[q].account][d][k].stanNo = req[q].stanNo
              /\ rows'[req[q].account][d][k].status = "COMPLETED"
              /\ rows'[req[q].account][d][k].amount = req[q].amount
          BY <4>2, <4>3 DEF CompletedAt
        <5>2. \A b \in Accounts, e \in Days : \A j \in DOMAIN rows'[b][e] :
                 rows'[b][e][j].stanNo = req[q].stanNo /\ rows'[b][e][j].status = "COMPLETED"
                     => b = req[q].account /\ e = d /\ j = k
          BY <4>4
        <5>3. \E i \in DOMAIN rows'[req[q].account][d] :
                 /\ rows'[req[q].account][d][i].stanNo = req[q].stanNo
                 /\ rows'[req[q].account][d][i].status = "COMPLETED"
                 /\ rows'[req[q].account][d][i].amount = req[q].amount
                 /\ \A b \in Accounts, e \in Days : \A j \in DOMAIN rows'[b][e] :
                       rows'[b][e][j].stanNo = req[q].stanNo /\ rows'[b][e][j].status = "COMPLETED"
                           => b = req[q].account /\ e = d /\ j = i
          BY <4>3, <5>1, <5>2, Zenon
        <5> QED
          BY <5>3 DEF OnceIn
      <4> QED
        <5>1. OnceIn(rows', req'[q].account, req'[q].amount, req'[q].stanNo)
          BY <3>1, <4>5
        <5> QED
          BY <5>1, OnceMeans
    <3> QED
      BY <3>1, <3>2, <3>3
  <2> QED
    BY <2>1, <2>2
<1> QED
  BY <1>4, <1>5, <1>7, <1>9 DEF StanInv, RowOfCall

(***************************************************************************)
(* The commit of a reversal marks the call's own row and no other: nothing *)
(* that a call on another account has read is disturbed.                   *)
(***************************************************************************)
LEMMA StanStepReverse ==
    ASSUME LockInv, StanInv, NEW r \in Requests, CommitReversal(r)
    PROVE  StanInv'
<1> USE LedgerAssumption, EmulatorAssumption
<1> DEFINE a == req[r].account
           s == req[r].stanNo
<1>0. /\ req \in [Requests -> Call \cup {Idle}]
      /\ req[r].pc = "crediting" /\ req[r] \in Call /\ a \in Accounts
      /\ req[r].amount \in Amounts /\ s \in Stans
      /\ LedgerTypeOK /\ today \in Days
  BY ActiveCall DEF LockInv, TypeOK, LedgerTypeOK, AccountKnown, CommitReversal, Call
<1>1. /\ Credit(a, req[r].amount, s)
      /\ stanCounter' = stanCounter /\ restarts' = restarts /\ today' = today
  BY DEF CommitReversal, Credit
<1>2. req'[r].pc = "idle" /\ \A q \in Requests \ {r} : req'[q] = req[q]
  BY <1>0 DEF CommitReversal, Answer, Idle
<1>3. OnceIn(rows, a, req[r].amount, s)
  BY <1>0, OnceIsOutstanding DEF StanInv, RowOfCall, Unsettled
<1>4. s < stanCounter
  BY <1>0 DEF StanInv, StanDrawn
<1>5. ASSUME NEW q \in Requests, q # r, req[q].pc # "idle"
      PROVE  req[q].stanNo # s
  BY <1>0, <1>5 DEF StanInv, StanDrawn
<1> HIDE DEF a, s
<1>20. /\ \A b \in Accounts, e \in Days : \A j \in DOMAIN rows[b][e] :
             /\ j \in DOMAIN rows'[b][e]
             /\ rows'[b][e][j].stanNo = rows[b][e][j].stanNo
             /\ rows'[b][e][j].amount = rows[b][e][j].amount
             /\ rows'[b][e][j].status = "COMPLETED" <=>
                   (rows[b][e][j].status = "COMPLETED" /\ rows[b][e][j].stanNo # s)
       /\ \A b \in Accounts, e \in Days : \A j \in DOMAIN rows'[b][e] :
             j \notin DOMAIN rows[b][e] =>
                 rows'[b][e][j].stanNo = s /\ rows'[b][e][j].status = "REVERSED"
       /\ \A b \in Accounts, e \in Days :
             b # a \/ e # today => rows'[b][e] = MarkReversed(rows[b][e], s)
  <2>1. /\ LedgerTypeOK /\ a \in Accounts /\ req[r].amount \in Amounts /\ s \in Stans
        /\ Credit(a, req[r].amount, s)
    BY <1>0, <1>1
  <2> QED
    BY ONLY <2>1, RowsAfterCredit
<1>21. \A b \in Accounts, e \in Days : \A j \in DOMAIN rows[b][e] :
             /\ j \in DOMAIN rows'[b][e]
             /\ rows'[b][e][j].stanNo = rows[b][e][j].stanNo
             /\ rows'[b][e][j].amount = rows[b][e][j].amount
             /\ rows'[b][e][j].status = "COMPLETED" <=>
                   (rows[b][e][j].status = "COMPLETED" /\ rows[b][e][j].stanNo # s)
  BY <1>20
<1>22. \A b \in Accounts, e \in Days : \A j \in DOMAIN rows'[b][e] :
             j \notin DOMAIN rows[b][e] =>
                 rows'[b][e][j].stanNo = s /\ rows'[b][e][j].status = "REVERSED"
  BY <1>20
<1>23. \A b \in Accounts, e \in Days :
             b # a \/ e # today => rows'[b][e] = MarkReversed(rows[b][e], s)
  BY <1>20
<1>24. \A b \in Accounts, e \in Days : rows[b][e] \in Seq(Row)
  BY <1>0 DEF LedgerTypeOK
<1>6. FutureEmpty'
  <2>1. ASSUME NEW b \in Accounts, NEW d \in Days, d > today'
        PROVE  rows'[b][d] = << >>
    <3>1. d # today /\ d > today
      BY <1>0, <1>1, <2>1 DEF Days
    <3>2. rows[b][d] = << >>
      BY <3>1 DEF StanInv, FutureEmpty
    <3>3. rows'[b][d] = MarkReversed(rows[b][d], s)
      BY <1>23, <3>1
    <3> QED
      BY <1>24, <3>2, <3>3, MarkNothing
  <2> QED
    BY <2>1 DEF FutureEmpty
<1>7. ASSUME NEW b \in Accounts, NEW e \in Days, b # a
      PROVE  rows'[b][e] = rows[b][e]
  <2>1. \A j \in DOMAIN rows[b][e] :
           ~(rows[b][e][j].stanNo = s /\ rows[b][e][j].status = "COMPLETED")
    BY <1>3, <1>7 DEF OnceIn
  <2>2. rows'[b][e] = MarkReversed(rows[b][e], s)
    BY <1>7, <1>23
  <2> QED
    BY <1>24, <2>1, <2>2, MarkNothing, ZenonT(40)
<1>8. LimitHeld'
  <2>1. ASSUME NEW q \in Requests, req'[q].pc = "within"
        PROVE  WithinLimit(req[q].account, req[q].amount, req[q].day)'
    <3>1. q # r /\ req'[q] = req[q]
      BY <1>2, <2>1
    <3>2. req[q].account # a /\ req[q].account \in Accounts /\ req[q].day \in Days
      BY <1>0, <2>1, <3>1, OtherAccount, ActiveCall
         DEF Holding, LockInv, AccountKnown, Call, a
    <3>3. rows'[req[q].account][today] = rows[req[q].account][today]
          /\ rows'[req[q].account][req[q].day] = rows[req[q].account][req[q].day]
      BY <1>0, <1>7, <3>2
    <3>4. WithinLimit(req[q].account, req[q].amount, req[q].day)
      BY <2>1, <3>1 DEF StanInv, LimitHeld
    <3> QED
      BY <1>1, <3>1, <3>3, <3>4 DEF WithinLimit
  <2> QED
    BY <2>1 DEF LimitHeld
<1>9. StanDrawn'
  <2>1. ASSUME NEW b \in Accounts, NEW e \in Days, NEW j \in DOMAIN rows'[b][e]
        PROVE  rows'[b][e][j].stanNo < stanCounter
    <3>1. CASE j \in DOMAIN rows[b][e]
      BY <1>21, <3>1, SMTT(30) DEF StanInv, StanDrawn
    <3>2. CASE j \notin DOMAIN rows[b][e]
      BY <1>4, <1>22, <3>2
    <3> QED
      BY <3>1, <3>2
  <2>2. \A q \in Requests : req'[q].pc # "idle" => q # r /\ req'[q] = req[q]
    BY <1>2
  <2> QED
    BY <1>1, <2>1, <2>2 DEF StanInv, StanDrawn
<1>10. ASSUME NEW b \in Accounts, NEW e \in Days, NEW j \in DOMAIN rows'[b][e],
              rows'[b][e][j].status = "COMPLETED"
       PROVE  /\ j \in DOMAIN rows[b][e]
              /\ rows[b][e][j].status = "COMPLETED"
              /\ rows'[b][e][j].stanNo = rows[b][e][j].stanNo
  BY <1>21, <1>22, <1>10
<1>11. ASSUME NEW q \in Requests
       PROVE  (/\ req[q].pc \in Authorizing =>
                    \A b \in Accounts, e \in Days : \A j \in DOMAIN rows[b][e] :
                        ~CompletedAt(b, e, j, req[q].stanNo)
               /\ req[q].pc \in Unsettled =>
                    OutstandingOnce(req[q].account, req[q].amount, req[q].stanNo))'
  <2>1. CASE q = r
    BY <1>2, <2>1 DEF Authorizing, Unsettled
  <2>2. CASE q # r
    <3>1. req'[q] = req[q]
      BY <1>2, <2>2
    <3>2. ASSUME req[q].pc \in Authorizing
          PROVE  (\A b \in Accounts, e \in Days : \A j \in DOMAIN rows[b][e] :
                       ~CompletedAt(b, e, j, req[q].stanNo))'
      <4>1. \A b \in Accounts, e \in Days : \A j \in DOMAIN rows[b][e] :
               ~CompletedAt(b, e, j, req[q].stanNo)
        BY <3>2 DEF StanInv, RowOfCall
      <4> QED
        BY <1>10, <3>1, <4>1 DEF CompletedAt
    <3>3. ASSUME req[q].pc \in Unsettled
          PROVE  OutstandingOnce(req[q].account, req[q].amount, req[q].stanNo)'
      <4>1. req[q].stanNo # s /\ req[q].account \in Accounts
        BY <1>5, <2>2, <3>3 DEF Unsettled, LockInv, AccountKnown
      <4>2. OnceIn(rows, req[q].account, req[q].amount, req[q].stanNo)
        BY <3>3, OnceIsOutstanding, SMTT(30) DEF StanInv, RowOfCall
      <4>3. OnceIn(rows', req[q].account, req[q].amount, req[q].stanNo)
        <5>1. PICK d \in Days : \E k \in DOMAIN rows[req[q].account][d] :
                 /\ rows[req[q].account][d][k].stanNo = req[q].stanNo
                 /\ rows[req[q].account][d][k].status = "COMPLETED"
                 /\ rows[req[q].account][d][k].amount = req[q].amount
                 /\ \A b \in Accounts, e \in Days : \A j \in DOMAIN rows[b][e] :
                       rows[b][e][j].stanNo = req[q].stanNo /\ rows[b][e][j].status = "COMPLETED"
                           => b = req[q].account /\ e = d /\ j = k
          BY <4>2, SMTT(30) DEF OnceIn
        <5>2. PICK k \in DOMAIN rows[req[q].account][d] :
                 /\ rows[req[q].account][d][k].stanNo = req[q].stanNo
                 /\ rows[req[q].account][d][k].status = "COMPLETED"
                 /\ rows[req[q].account][d][k].amount = req[q].amount
                 /\ \A b \in Accounts, e \in Days : \A j \in DOMAIN rows[b][e] :
                       rows[b][e][j].stanNo = req[q].stanNo /\ rows[b][e][j].status = "COMPLETED"
                           => b = req[q].account /\ e = d /\ j = k
          BY <5>1
        <5>3. /\ k \in DOMAIN rows'[req[q].account][d]
              /\ rows'[req[q].account][d][k].stanNo = req[q].stanNo
              /\ rows'[req[q].account][d][k].status = "COMPLETED"
              /\ rows'[req[q].account][d][k].amount = req[q].amount
          BY <1>21, <4>1, <5>2
        <5>4. ASSUME NEW b \in Accounts, NEW e \in Days, NEW j \in DOMAIN rows'[b][e],
                     rows'[b][e][j].stanNo = req[q].stanNo, rows'[b][e][j].status = "COMPLETED"
              PROVE  b = req[q].account /\ e = d /\ j = k
          <6>1. /\ j \in DOMAIN rows[b][e]
                /\ rows[b][e][j].status = "COMPLETED"
                /\ rows[b][e][j].stanNo = req[q].stanNo
            BY <1>10, <5>4
          <6> QED
            BY <5>2, <6>1
        <5>5. \E i \in DOMAIN rows'[req[q].account][d] :
                 /\ rows'[req[q].account][d][i].stanNo = req[q].stanNo
                 /\ rows'[req[q].account][d][i].status = "COMPLETED"
                 /\ rows'[req[q].account][d][i].amount = req[q].amount
                 /\ \A b \in Accounts, e \in Days : \A j \in DOMAIN rows'[b][e] :
                       rows'[b][e][j].stanNo = req[q].stanNo /\ rows'[b][e][j].status = "COMPLETED"
                           => b = req[q].account /\ e = d /\ j = i
          <6>1. \A b \in Accounts, e \in Days : \A j \in DOMAIN rows'[b][e] :
                   rows'[b][e][j].stanNo = req[q].stanNo /\ rows'[b][e][j].status = "COMPLETED"
                       => b = req[q].account /\ e = d /\ j = k
            BY <5>4
          <6> QED
            BY <5>3, <6>1, Zenon
        <5> QED
          BY <5>5 DEF OnceIn
      <4> QED
        <5>1. OnceIn(rows', req'[q].account, req'[q].amount, req'[q].stanNo)
          BY <3>1, <4>3
        <5> QED
          BY <5>1, OnceMeans
    <3> QED
      BY <3>1, <3>2, <3>3
  <2> QED
    BY <2>1, <2>2
<1> QED
  BY <1>6, <1>8, <1>9, <1>11 DEF StanInv, RowOfCall

(* The calls have the same rows when neither changes.                      *)
LEMMA RowOfCallKept ==
    ASSUME RowOfCall, rows' = rows, req' = req
    PROVE  RowOfCall'
BY DEF RowOfCall, CompletedAt, OutstandingOnce

(* Every step but a restart keeps the STAN invariant.                      *)
LEMMA StanStep ==
    ASSUME NoStanWrap, LockInv, StanInv, [Next]_vars, restarts' = 0
    PROVE  StanInv'
<1> USE LedgerAssumption, EmulatorAssumption
<1>1. ASSUME NEW r \in Requests, Step(r) PROVE StanInv'
  BY <1>1, StanStepReads, StanStepDraw, StanStepApprove, StanStepReverse, SwitchKnown
     DEF Step, Callers
<1>2. CASE NextDay
  <2>1. /\ today' = today + 1 /\ today' \in Days /\ rows' = rows /\ req' = req
        /\ today \in Nat
    BY <1>2 DEF NextDay, Midnight, emulatorVars, Days, LockInv, TypeOK, LedgerTypeOK
  <2>2. FutureEmpty'
    BY <2>1 DEF StanInv, FutureEmpty, Days
  <2>3. LimitHeld'
    <3>1. ASSUME NEW q \in Requests, req[q].pc = "within"
          PROVE  WithinLimit(req[q].account, req[q].amount, req[q].day)'
      <4>1. req[q].account \in Accounts /\ req[q].day \in Days
        BY <3>1, ActiveCall DEF LockInv, AccountKnown, Call
      <4>2. rows[req[q].account][today + 1] = << >>
        BY <2>1, <4>1 DEF StanInv, FutureEmpty
      <4>3. WithinLimit(req[q].account, req[q].amount, req[q].day)
        BY <3>1 DEF StanInv, LimitHeld
      <4> QED
        BY <2>1, <4>1, <4>2, <4>3 DEF WithinLimit, Days
    <3> QED
      BY <2>1, <3>1 DEF LimitHeld
  <2>4. stanCounter' = stanCounter /\ restarts' = restarts
    BY <1>2 DEF NextDay, emulatorVars
  <2>5. StanDrawn'
    BY <2>1, <2>4 DEF StanInv, StanDrawn
  <2>6. RowOfCall'
    BY <2>1, RowOfCallKept DEF StanInv
  <2> QED
    BY <2>2, <2>3, <2>5, <2>6 DEF StanInv
<1>3. CASE Restart
  <2>1. restarts \in Nat /\ restarts' = restarts + 1
    BY <1>3 DEF Restart, LockInv, TypeOK
  <2> QED
    BY <2>1
<1>4. CASE UNCHANGED vars
  <2>1. UNCHANGED ledgerVars /\ UNCHANGED <<stanCounter, restarts>> /\ req' = req
    BY <1>4 DEF vars, emulatorVars
  <2>2. \A q \in Requests : req'[q].pc = "idle" \/ Carried(q)
    BY <2>1 DEF Carried, StanInv, LimitHeld
  <2> QED
    BY <2>1, <2>2, StanKept
<1> QED
  BY <1>1, <1>2, <1>3, <1>4 DEF Next

(***************************************************************************)
(* Every step of the service is a step of the atomic ledger, or none of    *)
(* its business.                                                           *)
(***************************************************************************)
LEMMA LedgerStep ==
    ASSUME NoStanWrap, LockInv, StanInv, [Next]_vars
    PROVE  [LedgerNext]_ledgerVars
<1> USE LedgerAssumption, EmulatorAssumption
<1>1. ASSUME NEW r \in Requests, CommitApproval(r) PROVE LedgerNext
  <2>1. /\ req[r].pc = "within" /\ req[r] \in Call
        /\ req[r].account \in Accounts /\ req[r].amount \in Amounts /\ req[r].stanNo \in Stans
        /\ req[r].day \in Days
    BY <1>1, ActiveCall DEF LockInv, AccountKnown, CommitApproval, Call
  <2>2. Approvable(req[r].account, req[r].amount)
    BY <2>1 DEF LockInv, FundsHeld, StanInv, LimitHeld, Approvable
  <2>3. Approve(req[r].account, req[r].amount, req[r].stanNo)
    BY <1>1, <2>2 DEF CommitApproval, Approve
  <2> QED
    BY <2>1, <2>3 DEF LedgerNext
<1>2. ASSUME NEW r \in Requests, CommitReversal(r) PROVE LedgerNext
  <2>1. /\ req[r].pc = "crediting" /\ req[r] \in Call
        /\ req[r].account \in Accounts /\ req[r].amount \in Amounts /\ req[r].stanNo \in Stans
    BY <1>2, ActiveCall DEF LockInv, AccountKnown, CommitReversal, Call
  <2>2. OutstandingOnce(req[r].account, req[r].amount, req[r].stanNo)
    BY <2>1 DEF StanInv, RowOfCall, Unsettled
  <2>3. ReverseWithdrawal(req[r].account, req[r].amount, req[r].stanNo)
    BY <1>2, <2>2 DEF CommitReversal, ReverseWithdrawal
  <2> QED
    BY <2>1, <2>3 DEF LedgerNext
<1>3. ASSUME NEW r \in Requests, Step(r) PROVE [LedgerNext]_ledgerVars
  <2>1. CASE CommitApproval(r) \/ CommitReversal(r)
    BY <1>1, <1>2, <2>1
  <2>2. CASE ~(CommitApproval(r) \/ CommitReversal(r))
    BY <1>3, <2>2 DEF Step, AuthorizeWithdrawal, LookupCard, AuthorizeLock, ReadBalance,
                      ReadDailyTotal, AuthorizeFails, Dispensed, ReverseTransaction, ReverseLock,
                      ReverseFails
  <2> QED
    BY <2>1, <2>2
<1>4. CASE NextDay
  BY <1>4 DEF NextDay, LedgerNext
<1>5. CASE Restart
  BY <1>5 DEF Restart
<1>6. CASE UNCHANGED vars
  BY <1>6 DEF vars
<1> QED
  BY <1>3, <1>4, <1>5, <1>6 DEF Next

(* A step leaves the number of restarts alone or adds to it.               *)
LEMMA RestartsGrow == LockInv /\ [Next]_vars /\ restarts' = 0 => restarts = 0
<1> SUFFICES ASSUME LockInv, [Next]_vars, restarts' = 0 PROVE restarts = 0
    OBVIOUS
<1>1. CASE Restart
  BY <1>1 DEF Restart, LockInv, TypeOK
<1>2. CASE UNCHANGED vars
  BY <1>2 DEF vars, emulatorVars
<1>3. CASE NextDay
  BY <1>3 DEF NextDay, emulatorVars
<1>4. ASSUME NEW r \in Requests, Step(r) PROVE restarts = 0
  BY <1>4 DEF Step, AuthorizeWithdrawal, LookupCard, AuthorizeLock, ReadBalance, ReadDailyTotal,
              CommitApproval, AuthorizeFails, Dispensed, ReverseTransaction, ReverseLock,
              CommitReversal, ReverseFails
<1> QED
  BY <1>1, <1>2, <1>3, <1>4 DEF Next

(***************************************************************************)
(* The advisory lock and unique STANs make the concurrent service an       *)
(* implementation of the atomic ledger until it is restarted: at the       *)
(* commit of every approval the balance suffices and the day's limit       *)
(* leaves room, and every reversal credits the one withdrawal it undoes.   *)
(***************************************************************************)
THEOREM ImplementsLedger == ASSUME NoStanWrap PROVE Spec => LedgerUntilRestart
<1> DEFINE Inv == LockInv /\ (restarts = 0 => StanInv)
<1>1. Init => LedgerInit /\ Inv
  BY LockInit, StanInit DEF Init
<1>2. Inv /\ [Next]_vars => Inv'
  BY LockStep, StanStep, RestartsGrow
<1>3. Inv /\ [Next]_vars => [LedgerNext \/ restarts > 0]_ledgerVars
  <2> SUFFICES ASSUME Inv, [Next]_vars PROVE [LedgerNext \/ restarts > 0]_ledgerVars
    OBVIOUS
  <2>1. CASE restarts = 0
    BY <2>1, LedgerStep
  <2>2. CASE restarts # 0
    BY <2>2 DEF LockInv, TypeOK
  <2> QED
    BY <2>1, <2>2
<1> QED
  <2> HIDE DEF Inv
  <2> QED
    BY <1>1, <1>2, <1>3, PTL DEF Spec, LedgerUntilRestart

-----------------------------------------------------------------------------
(***************************************************************************)
(* The third argument: the daily limit, with restarts.  It does not need   *)
(* unique STANs: a reversal may mark the wrong row, but marking rows never *)
(* adds to a total, on an account that has no row below zero.  CreditSeen: *)
(* such are all accounts that no listener credited.  LimitSafe: for them,  *)
(* the day's total a call compared still leaves room for it.               *)
(***************************************************************************)
CreditSeen ==
    \A a \in Accounts : credited[a] = 0 => \A d \in Days : NoneBelowZero(rows[a][d])

LimitSafe ==
    \A r \in Requests :
        req[r].pc = "within" /\ credited[req[r].account] = 0 =>
            WithinLimit(req[r].account, req[r].amount, req[r].day)

LimitInv == LockInv /\ FutureEmpty /\ LimitSafe /\ CreditSeen /\ DayWithinLimit

LEMMA LimitInit == Init => LimitInv
<1> SUFFICES ASSUME Init PROVE LimitInv
    OBVIOUS
<1>1. LockInv /\ FutureEmpty /\ LimitSafe
  BY LockInit, StanInit DEF StanInv, LimitHeld, LimitSafe
<1>2. \A a \in Accounts, d \in Days : rows[a][d] = << >> /\ DailyLimit[a] \in Nat
  BY LedgerAssumption DEF Init, LedgerInit
<1>3. \A a \in Accounts, d \in Days : CompletedTotal(rows[a][d]) <= DailyLimit[a]
  BY <1>2, TotalEmpty
<1>4. CreditSeen
  BY <1>2 DEF CreditSeen, NoneBelowZero
<1> QED
  BY <1>1, <1>3, <1>4 DEF LimitInv, DayWithinLimit

(* A step that leaves the ledger alone, and lets a call go on only with a  *)
(* limit that has room for it.                                             *)
LEMMA LimitKept ==
    ASSUME LimitInv, LockInv', UNCHANGED ledgerVars, UNCHANGED credited,
           \A q \in Requests :
              req'[q].pc = "within" /\ credited[req'[q].account] = 0 =>
                  WithinLimit(req'[q].account, req'[q].amount, req'[q].day)
    PROVE  LimitInv'
<1> USE DEF ledgerVars
<1>1. FutureEmpty' /\ DayWithinLimit' /\ CreditSeen'
  BY DEF LimitInv, FutureEmpty, DayWithinLimit, CreditSeen, NoneBelowZero
<1>2. LimitSafe'
  BY DEF LimitSafe, WithinLimit
<1> QED
  BY <1>1, <1>2 DEF LimitInv

LEMMA LimitStepReads ==
    ASSUME LimitInv, LockInv', NEW r \in Requests,
           \/ \E p \in Cards, amt \in Amounts, sw \in Switches, c \in Callers :
                 AuthorizeWithdrawal(r, p, amt, sw, c)
           \/ LookupCard(r) \/ AuthorizeLock(r) \/ ReadBalance(r) \/ ReadDailyTotal(r)
           \/ AuthorizeFails(r) \/ Dispensed(r) \/ ReverseTransaction(r) \/ ReverseLock(r)
           \/ ReverseFails(r)
    PROVE  LimitInv'
<1>0. /\ req \in [Requests -> Call \cup {Idle}]
      /\ req[r].pc # "idle" => req[r] \in Call
      /\ \A q \in Requests : req[q].pc = "within" /\ credited[req[q].account] = 0 =>
            WithinLimit(req[q].account, req[q].amount, req[q].day)
  BY ActiveCall DEF LimitInv, LockInv, TypeOK, LimitSafe
<1>1. UNCHANGED ledgerVars /\ UNCHANGED credited
  BY DEF AuthorizeWithdrawal, LookupCard, AuthorizeLock, ReadBalance, ReadDailyTotal,
         AuthorizeFails, Dispensed, ReverseTransaction, ReverseLock, ReverseFails
<1>2. ASSUME NEW q \in Requests, q # r PROVE req'[q] = req[q]
  BY <1>0, <1>2 DEF AuthorizeWithdrawal, LookupCard, AuthorizeLock, ReadBalance, ReadDailyTotal,
         AuthorizeFails, Dispensed, ReverseTransaction, ReverseLock, ReverseFails, Answer, Goto
<1>3. ASSUME req'[r].pc = "within", credited[req'[r].account] = 0
      PROVE  WithinLimit(req'[r].account, req'[r].amount, req'[r].day)
  <2> USE <1>0 DEF Call, Idle
  <2>1. CASE \E p \in Cards, amt \in Amounts, sw \in Switches, c \in Callers :
                 AuthorizeWithdrawal(r, p, amt, sw, c)
    BY <1>3, <2>1 DEF AuthorizeWithdrawal
  <2>2. CASE LookupCard(r)
    BY <1>3, <2>2 DEF LookupCard, Answer
  <2>3. CASE AuthorizeLock(r) \/ ReverseLock(r) \/ ReverseTransaction(r)
    BY <1>3, <2>3 DEF AuthorizeLock, ReverseLock, ReverseTransaction, Goto
  <2>4. CASE ReadBalance(r)
    BY <1>3, <2>4 DEF ReadBalance, Answer, Goto
  <2>5. CASE ReadDailyTotal(r)
    BY <1>3, <2>5 DEF ReadDailyTotal, Answer
  <2>6. CASE AuthorizeFails(r) \/ Dispensed(r) \/ ReverseFails(r)
    BY <1>3, <2>6 DEF AuthorizeFails, Dispensed, ReverseFails, Answer
  <2> QED
    BY <2>1, <2>2, <2>3, <2>4, <2>5, <2>6
<1> QED
  BY <1>0, <1>1, <1>2, <1>3, LimitKept

(* The commit of an approval stays within the limit of the day it falls    *)
(* on, the day of the total or the first of a new one.                     *)
LEMMA LimitStepApprove ==
    ASSUME LimitInv, LockInv', NEW r \in Requests, CommitApproval(r)
    PROVE  LimitInv'
<1> USE LedgerAssumption, EmulatorAssumption
<1> DEFINE a == req[r].account
           amt == req[r].amount
           s == req[r].stanNo
           new == [stanNo |-> s, amount |-> amt, status |-> "COMPLETED"]
<1>0. /\ req \in [Requests -> Call \cup {Idle}]
      /\ req[r].pc = "within" /\ req[r] \in Call /\ a \in Accounts
      /\ amt \in Amounts /\ amt \in Int /\ s \in Stans /\ req[r].day \in Days
      /\ LockInv /\ LedgerTypeOK /\ today \in Days
      /\ \A b \in Accounts, e \in Days : rows[b][e] \in Seq(Row)
  <2>1. LockInv /\ TypeOK /\ LedgerTypeOK /\ AccountKnown /\ req[r].pc = "within"
    BY DEF LimitInv, LockInv, TypeOK, CommitApproval
  <2>2. req[r] \in Call /\ req[r].account \in Accounts
    BY <2>1, ActiveCall DEF AccountKnown
  <2>3. amt \in Amounts /\ amt \in Int /\ s \in Stans /\ req[r].day \in Days
    BY <2>2 DEF Call
  <2> QED
    BY <2>1, <2>2, <2>3 DEF TypeOK, LedgerTypeOK
<1>1. Debit(a, amt, s) /\ today' = today
  BY DEF CommitApproval, Debit
<1>2. \A q \in Requests : req'[q].pc = "within" => q # r /\ req'[q] = req[q]
  <2>1. TypeOK
    BY <1>0 DEF LockInv
  <2> QED
    BY <2>1, CommitEnds
<1>3. credited[a] = 0 => WithinLimit(a, amt, req[r].day)
  BY <1>0 DEF LimitInv, LimitSafe
<1>9. /\ \A b \in Accounts \ {a} : credited'[b] = credited[b]
      /\ credited'[a] = 0 => credited[a] = 0 /\ amt >= 0
  <2>1. credited \in [Accounts -> Nat] /\ Approved(r)
    BY <1>0 DEF LockInv, TypeOK, CommitApproval
  <2>2. CASE amt > 0
    BY <1>0, <2>1, <2>2 DEF Approved
  <2>3. CASE ~ (amt > 0)
    <3>1. credited' = [credited EXCEPT ![a] = @ - amt]
      BY <2>1, <2>3 DEF Approved
    <3> HIDE DEF a, amt
    <3>2. credited'[a] = credited[a] - amt /\ credited[a] \in Nat
      BY <1>0, <2>1, <3>1
    <3> QED
      BY <1>0, <2>1, <2>3, <3>1, <3>2
  <2> QED
    BY <2>2, <2>3
<1> HIDE DEF a, amt, s
<1>20. /\ \A b \in Accounts, e \in Days : \A j \in DOMAIN rows[b][e] :
             j \in DOMAIN rows'[b][e] /\ rows'[b][e][j] = rows[b][e][j]
       /\ \A b \in Accounts, e \in Days : \A j \in DOMAIN rows'[b][e] :
             \/ j \in DOMAIN rows[b][e]
             \/ b = a /\ e = today /\ j = Len(rows[a][today]) + 1
       /\ Len(rows[a][today]) + 1 \in DOMAIN rows'[a][today]
       /\ rows'[a][today][Len(rows[a][today]) + 1] =
             [stanNo |-> s, amount |-> amt, status |-> "COMPLETED"]
       /\ \A b \in Accounts, e \in Days : b # a \/ e # today => rows'[b][e] = rows[b][e]
  BY <1>0, <1>1, RowsAfterDebit, Zenon
<1>4. \A b \in Accounts, e \in Days : b # a \/ e # today => rows'[b][e] = rows[b][e]
  BY <1>20
<1>11. ASSUME NEW b \in Accounts, NEW e \in Days, NEW j \in DOMAIN rows'[b][e]
       PROVE  \/ j \in DOMAIN rows[b][e] /\ rows'[b][e][j] = rows[b][e][j]
              \/ b = a /\ rows'[b][e][j].amount = amt
  <2> DEFINE n == Len(rows[a][today]) + 1
  <2>1. rows'[a][today][n] = [stanNo |-> s, amount |-> amt, status |-> "COMPLETED"]
    BY <1>20
  <2>2. j \in DOMAIN rows[b][e] \/ (b = a /\ e = today /\ j = n)
    BY <1>20
  <2> HIDE DEF n
  <2> QED
    BY <1>20, <2>1, <2>2
<1>5. CompletedTotal(rows'[a][today]) = CompletedTotal(rows[a][today]) + amt
  <2>1. new \in Row /\ new.status = "COMPLETED" /\ new.amount = amt
    BY <1>0 DEF Row, Status
  <2>2. rows'[a][today] = Append(rows[a][today], new)
    BY <1>0, <1>1 DEF Debit, LedgerTypeOK
  <2> HIDE DEF new
  <2>3. CompletedTotal(Append(rows[a][today], new)) = CompletedTotal(rows[a][today]) + amt
    BY <1>0, <2>1, TotalAppend
  <2> QED
    BY <2>2, <2>3
<1>6. FutureEmpty'
  <2>1. ASSUME NEW b \in Accounts, NEW d \in Days, d > today' PROVE rows'[b][d] = << >>
    <3>1. d # today /\ d > today
      BY <1>0, <1>1, <2>1 DEF Days
    <3> QED
      BY <1>4, <3>1 DEF LimitInv, FutureEmpty
  <2> QED
    BY <2>1 DEF FutureEmpty
<1>7. LimitSafe'
  <2>1. ASSUME NEW q \in Requests, req'[q].pc = "within", credited'[req'[q].account] = 0
        PROVE  WithinLimit(req[q].account, req[q].amount, req[q].day)'
    <3>1. q # r /\ req'[q] = req[q]
      BY <1>2, <2>1
    <3>2. req[q].account # a /\ req[q].account \in Accounts /\ req[q].day \in Days
      BY <1>0, <2>1, <3>1, OtherAccount, ActiveCall DEF Holding, LockInv, AccountKnown, Call, a
    <3>3. rows'[req[q].account][today] = rows[req[q].account][today]
          /\ rows'[req[q].account][req[q].day] = rows[req[q].account][req[q].day]
      BY <1>0, <1>4, <3>2
    <3>4. WithinLimit(req[q].account, req[q].amount, req[q].day)
      BY <1>9, <2>1, <3>1, <3>2 DEF LimitInv, LimitSafe
    <3> QED
      BY <1>1, <3>1, <3>3, <3>4 DEF WithinLimit
  <2> QED
    BY <2>1 DEF LimitSafe
<1>10. CreditSeen'
  <2>1. ASSUME NEW b \in Accounts, credited'[b] = 0, NEW e \in Days
        PROVE  NoneBelowZero(rows'[b][e])
    <3>1. credited[b] = 0 /\ (b = a => amt >= 0)
      BY <1>9, <2>1
    <3>2. NoneBelowZero(rows[b][e])
      BY <3>1 DEF LimitInv, CreditSeen
    <3>3. ASSUME NEW j \in DOMAIN rows'[b][e] PROVE rows'[b][e][j].amount >= 0
      <4>1. \/ j \in DOMAIN rows[b][e] /\ rows'[b][e][j] = rows[b][e][j]
            \/ b = a /\ rows'[b][e][j].amount = amt
        BY <1>11
      <4> QED
        BY <3>1, <3>2, <4>1 DEF NoneBelowZero
    <3> QED
      BY <3>3 DEF NoneBelowZero
  <2> QED
    BY <2>1 DEF CreditSeen
<1>8. DayWithinLimit'
  <2>1. ASSUME credited'[a] = 0 PROVE CompletedTotal(rows[a][today]) + amt <= DailyLimit[a]
    <3>0. /\ WithinLimit(a, amt, req[r].day)
          /\ CompletedTotal(rows[a][req[r].day]) \in Nat
      <4>1. credited[a] = 0
        BY <1>9, <2>1
      <4>2. NoneBelowZero(rows[a][req[r].day])
        BY <1>0, <4>1 DEF LimitInv, CreditSeen
      <4> QED
        BY <1>0, <1>3, <4>1, <4>2, TotalNatural
    <3>1. CASE req[r].day = today
      BY <3>0, <3>1 DEF WithinLimit
    <3>2. CASE req[r].day # today
      <4>1. CompletedTotal(rows[a][today]) = 0
        BY <3>0, <3>2, TotalEmpty DEF WithinLimit
      <4>3. DailyLimit[a] \in Nat
        BY <1>0
      <4> QED
        BY <1>0, <3>0, <4>1, <4>3 DEF WithinLimit
    <3> QED
      BY <3>1, <3>2
  <2>2. ASSUME NEW b \in Accounts, credited'[b] = 0, NEW d \in Days
        PROVE  CompletedTotal(rows'[b][d]) <= DailyLimit[b]
    <3>1. CASE b = a /\ d = today
      BY <1>5, <2>1, <2>2, <3>1
    <3>2. CASE b # a \/ d # today
      BY <1>4, <1>9, <2>2, <3>2 DEF LimitInv, DayWithinLimit
    <3> QED
      BY <3>1, <3>2
  <2> QED
    BY <2>2 DEF DayWithinLimit
<1> QED
  BY <1>6, <1>7, <1>8, <1>10 DEF LimitInv

(* A reversal marks rows, whichever carry its STAN, and adds a reversed    *)
(* one: no total of an account without amounts below zero grows, an empty  *)
(* day of another account stays empty.                                     *)
LEMMA LimitStepReverse ==
    ASSUME LimitInv, LockInv', NEW r \in Requests, CommitReversal(r)
    PROVE  LimitInv'
<1> USE LedgerAssumption, EmulatorAssumption
<1> DEFINE a == req[r].account
           amt == req[r].amount
           s == req[r].stanNo
<1>0. /\ req \in [Requests -> Call \cup {Idle}]
      /\ req[r].pc = "crediting" /\ req[r] \in Call /\ a \in Accounts
      /\ amt \in Amounts /\ amt \in Nat /\ s \in Stans
      /\ UNCHANGED credited
      /\ LockInv /\ LedgerTypeOK /\ today \in Days
      /\ \A b \in Accounts, e \in Days : rows[b][e] \in Seq(Row)
  <2>1. LockInv /\ TypeOK /\ LedgerTypeOK /\ AccountKnown /\ req[r].pc = "crediting"
    BY DEF LimitInv, LockInv, TypeOK, CommitReversal
  <2>2. req[r] \in Call /\ req[r].account \in Accounts
    BY <2>1, ActiveCall DEF AccountKnown
  <2>3. amt \in Amounts /\ amt \in Int /\ amt > 0 /\ s \in Stans
    BY <2>1, <2>2 DEF Call, LockInv, DebtsPositive, Unsettled
  <2> QED
    BY <2>1, <2>2, <2>3 DEF TypeOK, LedgerTypeOK, CommitReversal
<1>1. Credit(a, amt, s) /\ today' = today
  BY DEF CommitReversal, Credit
<1>2. \A q \in Requests : req'[q].pc = "within" => q # r /\ req'[q] = req[q]
  BY <1>0 DEF CommitReversal, Answer, Idle
<1> HIDE DEF a, amt, s
<1>20. /\ \A b \in Accounts, e \in Days : \A j \in DOMAIN rows[b][e] :
             /\ j \in DOMAIN rows'[b][e]
             /\ rows'[b][e][j].stanNo = rows[b][e][j].stanNo
             /\ rows'[b][e][j].amount = rows[b][e][j].amount
             /\ rows'[b][e][j].status = "COMPLETED" <=>
                   (rows[b][e][j].status = "COMPLETED" /\ rows[b][e][j].stanNo # s)
       /\ \A b \in Accounts, e \in Days : \A j \in DOMAIN rows'[b][e] :
             j \notin DOMAIN rows[b][e] =>
                 /\ rows'[b][e][j].stanNo = s /\ rows'[b][e][j].status = "REVERSED"
                 /\ rows'[b][e][j].amount = amt
       /\ \A b \in Accounts, e \in Days :
             b # a \/ e # today => rows'[b][e] = MarkReversed(rows[b][e], s)
  <2>1. LedgerTypeOK /\ a \in Accounts /\ amt \in Amounts /\ s \in Stans /\ Credit(a, amt, s)
    BY <1>0, <1>1
  <2> HIDE LedgerAssumption, EmulatorAssumption
  <2> QED
    BY <2>1, RowsAfterCredit, SMTT(30)
<1>3. \A b \in Accounts, e \in Days :
         b # a \/ e # today => rows'[b][e] = MarkReversed(rows[b][e], s)
  BY <1>20
<1>10. ASSUME NEW b \in Accounts, NEW e \in Days, NEW j \in DOMAIN rows'[b][e]
       PROVE  \/ j \in DOMAIN rows[b][e] /\ rows'[b][e][j].amount = rows[b][e][j].amount
              \/ rows'[b][e][j].amount = amt
  BY <1>20
<1>4. MarkReversed(<< >>, s) = << >>
  <2>1. << >> \in Seq(Row) /\ \A i \in DOMAIN << >> : FALSE
    OBVIOUS
  <2> QED
    BY <2>1, MarkNothing
<1>5. ASSUME NEW b \in Accounts, credited[b] = 0, NEW e \in Days
      PROVE  /\ CompletedTotal(rows'[b][e]) <= CompletedTotal(rows[b][e])
             /\ CompletedTotal(rows[b][e]) \in Int /\ CompletedTotal(rows'[b][e]) \in Int
  <2>1. NoneBelowZero(rows[b][e])
    BY <1>5 DEF LimitInv, CreditSeen
  <2> QED
    BY <1>0, <1>1, <2>1, TotalsCredit
<1>6. FutureEmpty'
  <2>1. ASSUME NEW b \in Accounts, NEW d \in Days, d > today' PROVE rows'[b][d] = << >>
    <3>1. d # today /\ d > today
      BY <1>0, <1>1, <2>1 DEF Days
    <3>2. rows[b][d] = << >>
      BY <3>1 DEF LimitInv, FutureEmpty
    <3> QED
      BY <1>3, <1>4, <3>1, <3>2
  <2> QED
    BY <2>1 DEF FutureEmpty
<1>7. LimitSafe'
  <2>1. ASSUME NEW q \in Requests, req'[q].pc = "within", credited'[req'[q].account] = 0
        PROVE  WithinLimit(req[q].account, req[q].amount, req[q].day)'
    <3> DEFINE b == req[q].account
               day == req[q].day
    <3>1. q # r /\ req'[q] = req[q]
      BY <1>2, <2>1
    <3>2. b # a /\ b \in Accounts /\ day \in Days /\ req[q].amount \in Int
          /\ credited[b] = 0
      BY <1>0, <2>1, <3>1, OtherAccount, ActiveCall, ZenonT(40) DEF Holding, LockInv, AccountKnown, Call, a
    <3>3. WithinLimit(b, req[q].amount, day)
      BY <2>1, <3>1, <3>2 DEF LimitInv, LimitSafe
    <3>4. rows[b][today] = << >> => rows'[b][today] = << >>
      BY <1>0, <1>3, <1>4, <3>2
    <3>5. CompletedTotal(rows'[b][day]) + req[q].amount <= DailyLimit[b]
      <4>1. /\ CompletedTotal(rows'[b][day]) <= CompletedTotal(rows[b][day])
            /\ CompletedTotal(rows[b][day]) \in Int /\ CompletedTotal(rows'[b][day]) \in Int
        BY <1>5, <3>2
      <4>2. DailyLimit[b] \in Nat
        BY <3>2
      <4> QED
        BY <3>2, <3>3, <4>1, <4>2 DEF WithinLimit
    <3> QED
      BY <1>1, <3>1, <3>3, <3>4, <3>5 DEF WithinLimit
  <2> QED
    BY <2>1 DEF LimitSafe
<1>9. CreditSeen'
  <2>1. ASSUME NEW b \in Accounts, credited'[b] = 0, NEW e \in Days
        PROVE  NoneBelowZero(rows'[b][e])
    <3>1. NoneBelowZero(rows[b][e])
      BY <1>0, <2>1 DEF LimitInv, CreditSeen
    <3>2. ASSUME NEW j \in DOMAIN rows'[b][e] PROVE rows'[b][e][j].amount >= 0
      <4>1. \/ j \in DOMAIN rows[b][e] /\ rows'[b][e][j].amount = rows[b][e][j].amount
            \/ rows'[b][e][j].amount = amt
        BY <1>10
      <4> QED
        BY <1>0, <3>1, <4>1 DEF NoneBelowZero
    <3> QED
      BY <3>2 DEF NoneBelowZero
  <2> QED
    BY <2>1 DEF CreditSeen
<1>8. DayWithinLimit'
  <2>1. ASSUME NEW b \in Accounts, credited'[b] = 0, NEW d \in Days
        PROVE  CompletedTotal(rows'[b][d]) <= DailyLimit[b]
    <3>1. /\ CompletedTotal(rows'[b][d]) <= CompletedTotal(rows[b][d])
          /\ CompletedTotal(rows[b][d]) \in Int /\ CompletedTotal(rows'[b][d]) \in Int
      BY <1>0, <1>5, <2>1
    <3>2. CompletedTotal(rows[b][d]) <= DailyLimit[b] /\ DailyLimit[b] \in Nat
      BY <1>0, <2>1 DEF LimitInv, DayWithinLimit
    <3> QED
      BY <3>1, <3>2
  <2> QED
    BY <2>1 DEF DayWithinLimit
<1> QED
  BY <1>6, <1>7, <1>8, <1>9 DEF LimitInv

LEMMA LimitStep == LimitInv /\ [Next]_vars => LimitInv'
<1> SUFFICES ASSUME LimitInv, [Next]_vars PROVE LimitInv'
    OBVIOUS
<1>0. LockInv /\ LockInv'
  BY LockStep DEF LimitInv
<1>1. ASSUME NEW r \in Requests, Step(r) PROVE LimitInv'
  BY <1>0, <1>1, LimitStepReads, LimitStepApprove, LimitStepReverse, SwitchKnown DEF Step, Callers
<1>2. CASE NextDay
  <2>1. /\ today' = today + 1 /\ today' \in Days /\ rows' = rows /\ req' = req
        /\ today \in Nat /\ credited' = credited
    BY <1>0, <1>2, LedgerAssumption
       DEF NextDay, Midnight, emulatorVars, Days, LockInv, TypeOK, LedgerTypeOK
  <2>2. FutureEmpty'
    BY <2>1 DEF LimitInv, FutureEmpty, Days
  <2>3. LimitSafe'
    <3>1. ASSUME NEW q \in Requests, req[q].pc = "within", credited[req[q].account] = 0
          PROVE  WithinLimit(req[q].account, req[q].amount, req[q].day)'
      <4>1. req[q].account \in Accounts /\ req[q].day \in Days
        BY <1>0, <3>1, ActiveCall DEF LockInv, AccountKnown, Call
      <4>2. rows[req[q].account][today + 1] = << >>
        BY <2>1, <4>1 DEF LimitInv, FutureEmpty
      <4>3. WithinLimit(req[q].account, req[q].amount, req[q].day)
        BY <3>1 DEF LimitInv, LimitSafe
      <4> QED
        BY <2>1, <4>1, <4>2, <4>3 DEF WithinLimit, Days
    <3> QED
      BY <2>1, <3>1 DEF LimitSafe
  <2>4. DayWithinLimit' /\ CreditSeen'
    BY <2>1 DEF LimitInv, DayWithinLimit, CreditSeen, NoneBelowZero
  <2> QED
    BY <1>0, <2>2, <2>3, <2>4 DEF LimitInv
<1>3. CASE Restart
  <2>1. UNCHANGED ledgerVars /\ UNCHANGED credited /\ \A q \in Requests : req'[q].pc = "idle"
    BY <1>3 DEF Restart, Idle
  <2> QED
    BY <1>0, <2>1, LimitKept
<1>4. CASE UNCHANGED vars
  <2>1. UNCHANGED ledgerVars /\ UNCHANGED credited /\ req' = req
    BY <1>4 DEF vars, emulatorVars
  <2> QED
    BY <1>0, <2>1, LimitKept DEF LimitInv, LimitSafe
<1> QED
  BY <1>1, <1>2, <1>3, <1>4 DEF Next

(***************************************************************************)
(* The completed withdrawals of an account on one UTC day never exceed its *)
(* dailyLimit, whatever calls, midnights, reversals and restarts come      *)
(* between authorizeWithdrawal's SUM and its commit, while no listener has *)
(* credited the account: no row of it is then below zero.                  *)
(***************************************************************************)
THEOREM DailyLimitNeverExceeded == Spec => []DayWithinLimit
<1>1. LimitInv => DayWithinLimit
  BY DEF LimitInv
<1> QED
  BY <1>1, LimitInit, LimitStep, PTL DEF Spec

-----------------------------------------------------------------------------
(***************************************************************************)
(* The fourth argument: money.  Owed sums over a SET of debts, so it is    *)
(* right only while no two debts are equal: a debt carries the STAN of its *)
(* call and the process (boot) that made it, and within one process every  *)
(* STAN is drawn once.  This part survives restarts.                       *)
(***************************************************************************)
DebtsApart ==
    /\ stanCounter <= MaxAuthorizations + 1
    /\ IsFiniteSet(stranded)
    /\ \A r \in Requests : req[r].pc # "idle" => req[r].stanNo < stanCounter
    /\ \A r, q \in Requests :
          req[r].pc # "idle" /\ req[q].pc # "idle" /\ r # q => req[r].stanNo # req[q].stanNo
    /\ \A d \in stranded :
          /\ d.boot <= restarts
          /\ d.boot = restarts =>
                /\ d.stanNo < stanCounter
                /\ \A r \in Requests : req[r].pc # "idle" => req[r].stanNo # d.stanNo

MoneyInv == LockInv /\ DebtsApart /\ MoneyConserved

(* What the debts of one account come to, and what one more adds.          *)
OwedIn(debts, a) == DebtTotal({d \in debts : d.account = a})

LEMMA DebtAmount ==
    ASSUME NEW d \in Debt
    PROVE  d.amount \in Nat
<1>1. d.amount \in Amounts /\ d.amount > 0
  BY DEF Debt
<1>2. d.amount \in Int
  BY <1>1, LedgerAssumption, Zenon
<1>3. \A n \in Int : n > 0 => n \in Nat
  OBVIOUS
<1> QED
  BY <1>1, <1>2, <1>3

LEMMA OwedSum ==
    ASSUME NEW debts \in SUBSET Debt, IsFiniteSet(debts), NEW a, NEW f,
           \A d \in debts : f[d] = d.amount
    PROVE  /\ OwedIn(debts, a) = SumFunctionOnSet(f, {d \in debts : d.account = a})
           /\ IsFiniteSet({d \in debts : d.account = a})
           /\ IntOn(f, {d \in debts : d.account = a})
           /\ OwedIn(debts, a) \in Nat
<1> DEFINE S == {d \in debts : d.account = a}
           g == [d \in S |-> d.amount]
<1>1. IsFiniteSet(S) /\ S \subseteq debts
  BY FS_Subset
<1>2. \A d \in S : d.amount \in Nat /\ g[d] = d.amount /\ f[d] = d.amount
  BY <1>1, DebtAmount
<1>3. DOMAIN g = S
  OBVIOUS
<1>4. OwedIn(debts, a) = SumFunction(g)
  BY DEF OwedIn, DebtTotal
<1> HIDE DEF S, g
<1>5. OwedIn(debts, a) = SumFunctionOnSet(g, S)
  BY <1>3, <1>4 DEF SumFunction
<1>6. IntOn(f, S) /\ IntOn(g, S) /\ \A d \in S : g[d] \in Nat /\ f[d] = g[d]
  BY <1>2 DEF IntOn
<1>7. SumFunctionOnSet(f, S) = SumFunctionOnSet(g, S)
  BY <1>1, <1>6, SumEqual
<1>8. SumFunctionOnSet(g, S) \in Nat
  BY <1>1, <1>6, SumNat
<1> QED
  BY <1>1, <1>5, <1>6, <1>7, <1>8 DEF S

LEMMA OwedMore ==
    ASSUME NEW debts \in SUBSET Debt, IsFiniteSet(debts), NEW D \in Debt, D \notin debts, NEW a
    PROVE  OwedIn(debts \cup {D}, a) =
              OwedIn(debts, a) + (IF D.account = a THEN D.amount ELSE 0)
<1> DEFINE f == [d \in Debt |-> d.amount]
           more == debts \cup {D}
           S == {d \in debts : d.account = a}
<1>1. more \in SUBSET Debt /\ IsFiniteSet(more)
  BY FS_AddElement
<1>2. \A d \in more : f[d] = d.amount
  BY <1>1
<1>3. /\ OwedIn(debts, a) = SumFunctionOnSet(f, S) /\ IsFiniteSet(S) /\ IntOn(f, S)
      /\ OwedIn(debts, a) \in Nat
  <2> HIDE DEF f
  <2> QED
    BY <1>2, OwedSum
<1>4. /\ OwedIn(more, a) = SumFunctionOnSet(f, {d \in more : d.account = a})
      /\ IntOn(f, {d \in more : d.account = a})
  <2> HIDE DEF f, more
  <2> QED
    BY <1>1, <1>2, OwedSum
<1>5. f[D] = D.amount /\ D.amount \in Nat
  BY DebtAmount
<1>6. CASE D.account = a
  <2>1. {d \in more : d.account = a} = S \cup {D} /\ D \notin S
    BY <1>6
  <2> HIDE DEF S, f, more
  <2>2. IntOn(f, S \cup {D})
    BY <1>4, <2>1
  <2>3. SumFunctionOnSet(f, S \cup {D}) = f[D] + SumFunctionOnSet(f, S)
    BY <1>3, <2>1, <2>2, SumAdd
  <2>4. OwedIn(more, a) = SumFunctionOnSet(f, S \cup {D})
    BY <1>4, <2>1
  <2>5. OwedIn(more, a) = D.amount + OwedIn(debts, a)
    BY <1>3, <1>5, <2>3, <2>4
  <2> QED
    BY <1>3, <1>5, <1>6, <2>5 DEF more
<1>7. CASE D.account # a
  <2>1. {d \in more : d.account = a} = S
    BY <1>7
  <2> HIDE DEF S, f, more
  <2>2. OwedIn(more, a) = OwedIn(debts, a)
    BY <1>3, <1>4, <2>1
  <2> QED
    BY <1>3, <1>7, <2>2 DEF more
<1> QED
  BY <1>6, <1>7

(* The debts are finitely many, each of them of its type.                  *)
LEMMA DebtsTyped ==
    ASSUME LockInv, IsFiniteSet(stranded)
    PROVE  Debts \in SUBSET Debt /\ IsFiniteSet(Debts)
<1> DEFINE Owing == {q \in Requests : req[q].pc \in Unsettled}
           Called == {DebtOf(q) : q \in Owing}
<1>1. ASSUME NEW q \in Requests, req[q].pc \in Unsettled PROVE DebtOf(q) \in Debt
  <2>1. req[q] \in Call /\ req[q].account \in Accounts /\ restarts \in Nat
    BY <1>1, ActiveCall DEF LockInv, AccountKnown, Unsettled, TypeOK
  <2>2. req[q].amount \in {n \in Amounts : n > 0} /\ req[q].stanNo \in Stans
    <3>1. req[q].amount \in Amounts /\ req[q].stanNo \in Stans
      BY <2>1 DEF Call
    <3> QED
      BY <1>1, <3>1 DEF LockInv, DebtsPositive
  <2> QED
    BY <2>1, <2>2 DEF DebtOf, Debt
<1>2. IsFiniteSet(Called)
  <2>1. IsFiniteSet(Owing)
    BY EmulatorAssumption, FS_Subset
  <2> DEFINE f == [q \in Owing |-> DebtOf(q)]
  <2>2. f \in Surjection(Owing, Called)
    BY DEF Surjection
  <2> HIDE DEF Owing, Called, f
  <2> QED
    BY <2>1, <2>2, FS_Surjection
<1>3. Debts = stranded \cup Called
  BY DEF Debts
<1>4. stranded \in SUBSET Debt /\ Called \in SUBSET Debt
  BY <1>1 DEF LockInv, TypeOK
<1> HIDE DEF Called
<1> QED
  BY <1>2, <1>3, <1>4, FS_Union

(* How a step of call r moves the debts.                                   *)
LEMMA DebtsSame ==
    ASSUME UNCHANGED <<stranded, restarts>>,
           \A q \in Requests : req'[q].pc \in Unsettled <=> req[q].pc \in Unsettled,
           \A q \in Requests : req[q].pc \in Unsettled =>
              /\ req'[q].account = req[q].account
              /\ req'[q].amount = req[q].amount
              /\ req'[q].stanNo = req[q].stanNo
    PROVE  Debts' = Debts
<1>1. \A q \in Requests : req[q].pc \in Unsettled => DebtOf(q)' = DebtOf(q)
  BY DEF DebtOf
<1> QED
  BY <1>1 DEF Debts

LEMMA DebtsGain ==
    ASSUME UNCHANGED <<stranded, restarts>>, NEW r \in Requests,
           \A q \in Requests \ {r} : req'[q] = req[q],
           req[r].pc \notin Unsettled, req'[r].pc \in Unsettled,
           req'[r].account = req[r].account, req'[r].amount = req[r].amount,
           req'[r].stanNo = req[r].stanNo
    PROVE  Debts' = Debts \cup {DebtOf(r)}
<1>1. \A q \in Requests : DebtOf(q)' = DebtOf(q)
  BY DEF DebtOf
<1>2. \A q \in Requests : req'[q].pc \in Unsettled <=> (req[q].pc \in Unsettled \/ q = r)
  OBVIOUS
<1> QED
  BY <1>1, <1>2 DEF Debts

LEMMA DebtsLose ==
    ASSUME UNCHANGED <<stranded, restarts>>, NEW r \in Requests,
           \A q \in Requests \ {r} : req'[q] = req[q],
           req[r].pc \in Unsettled, req'[r].pc \notin Unsettled
    PROVE  Debts = Debts' \cup {DebtOf(r)}
<1>1. \A q \in Requests \ {r} : DebtOf(q)' = DebtOf(q)
  BY DEF DebtOf
<1>2. \A q \in Requests : req[q].pc \in Unsettled <=> (req'[q].pc \in Unsettled \/ q = r)
  OBVIOUS
<1> QED
  BY <1>1, <1>2 DEF Debts

(* The debt of a call is none of the others.                               *)
LEMMA DebtIsNew ==
    ASSUME LockInv, DebtsApart, NEW r \in Requests, req[r].pc # "idle", NEW debts,
           \A d \in debts : \/ d \in stranded
                            \/ \E q \in Requests \ {r} : req[q].pc \in Unsettled /\ d = DebtOf(q)
    PROVE  DebtOf(r) \notin debts
<1>1. DebtOf(r).boot = restarts /\ DebtOf(r).stanNo = req[r].stanNo
  BY DEF DebtOf
<1>2. DebtOf(r) \notin stranded
  BY <1>1 DEF DebtsApart
<1>3. ASSUME NEW q \in Requests \ {r}, req[q].pc \in Unsettled PROVE DebtOf(q) # DebtOf(r)
  <2>1. DebtOf(q).stanNo = req[q].stanNo /\ req[q].pc # "idle"
    BY <1>3 DEF DebtOf, Unsettled
  <2> QED
    BY <1>1, <2>1 DEF DebtsApart
<1> QED
  BY <1>2, <1>3

(* A step that draws no STAN and strands nothing.                          *)
LEMMA ApartKept ==
    ASSUME DebtsApart, UNCHANGED <<stanCounter, stranded, restarts>>,
           \A q \in Requests : \/ req'[q].pc = "idle"
                               \/ req[q].pc # "idle" /\ req'[q].stanNo = req[q].stanNo
    PROVE  DebtsApart'
BY DEF DebtsApart

LEMMA OwedIs ==
    ASSUME NEW a
    PROVE  Owed(a) = OwedIn(Debts, a) /\ Owed(a)' = OwedIn(Debts', a)
BY DEF Owed, OwedIn, DebtTotal

LEMMA MoneyKept ==
    ASSUME MoneyInv, UNCHANGED <<balance, cash, credited>>, Debts' = Debts
    PROVE  MoneyConserved'
<1>1. \A a \in Accounts : Owed(a)' = Owed(a)
  BY OwedIs
<1>2. ASSUME NEW a \in Accounts
      PROVE  balance'[a] + cash'[a] + Owed(a)' = InitialBalance[a] + credited'[a]
  BY <1>1 DEF MoneyInv, MoneyConserved
<1> QED
  BY <1>2 DEF MoneyConserved

(* A step that moves money from one side of the books to the other.        *)
LEMMA MoneyMoved ==
    ASSUME TypeOK, TypeOK', MoneyConserved, UNCHANGED credited,
           \A b \in Accounts :
              /\ Owed(b) \in Int /\ Owed(b)' \in Int
              /\ balance'[b] + cash'[b] + Owed(b)' = balance[b] + cash[b] + Owed(b)
    PROVE  MoneyConserved'
<1>1. ASSUME NEW b \in Accounts
      PROVE  balance'[b] + cash'[b] + Owed(b)' = InitialBalance[b] + credited'[b]
  BY DEF MoneyConserved
<1> QED
  BY <1>1 DEF MoneyConserved

(* The steps of a call that move no money.                                 *)
LEMMA MoneyStepReads ==
    ASSUME MoneyInv, NEW r \in Requests,
           LookupCard(r) \/ AuthorizeLock(r) \/ ReadBalance(r) \/ ReadDailyTotal(r)
           \/ AuthorizeFails(r) \/ ReverseTransaction(r) \/ ReverseLock(r)
    PROVE  DebtsApart' /\ MoneyConserved'
<1>0. /\ req \in [Requests -> Call \cup {Idle}]
      /\ req[r].pc # "idle" => req[r] \in Call
      /\ \A q \in Requests : req[q].pc \in Steps
  BY ActiveCall DEF MoneyInv, LockInv, TypeOK
<1>1. UNCHANGED <<balance, cash, credited, stanCounter, stranded, restarts>>
  BY DEF LookupCard, AuthorizeLock, ReadBalance, ReadDailyTotal, AuthorizeFails,
         ReverseTransaction, ReverseLock, ledgerVars
<1>2. ASSUME NEW q \in Requests, q # r PROVE req'[q] = req[q]
  BY <1>0, <1>2 DEF LookupCard, AuthorizeLock, ReadBalance, ReadDailyTotal, AuthorizeFails,
         ReverseTransaction, ReverseLock, Answer, Goto
<1>3. /\ req'[r].pc = "idle" \/ (req[r].pc # "idle" /\ req'[r].stanNo = req[r].stanNo)
      /\ req'[r].pc \in Unsettled <=> req[r].pc \in Unsettled
      /\ req[r].pc \in Unsettled => /\ req'[r].account = req[r].account
                                   /\ req'[r].amount = req[r].amount
                                   /\ req'[r].stanNo = req[r].stanNo
  <2> USE <1>0 DEF Call, Idle, Authorizing, Unsettled
  <2>1. CASE LookupCard(r)
    BY <2>1 DEF LookupCard, Answer
  <2>2. CASE AuthorizeLock(r)
    BY <2>2 DEF AuthorizeLock, Goto
  <2>3. CASE ReadBalance(r)
    BY <2>3 DEF ReadBalance, Answer, Goto
  <2>4. CASE ReadDailyTotal(r)
    BY <2>4 DEF ReadDailyTotal, Answer
  <2>5. CASE AuthorizeFails(r)
    BY <2>5 DEF AuthorizeFails, Answer
  <2>6. CASE ReverseTransaction(r)
    BY <2>6 DEF ReverseTransaction, Goto
  <2>7. CASE ReverseLock(r)
    BY <2>7 DEF ReverseLock, Goto
  <2> QED
    BY <2>1, <2>2, <2>3, <2>4, <2>5, <2>6, <2>7
<1>4. DebtsApart'
  <2>1. \A q \in Requests : \/ req'[q].pc = "idle"
                            \/ req[q].pc # "idle" /\ req'[q].stanNo = req[q].stanNo
    BY <1>2, <1>3
  <2> QED
    BY <1>1, <2>1, ApartKept DEF MoneyInv
<1>5. Debts' = Debts
  BY <1>1, <1>2, <1>3, DebtsSame
<1> QED
  BY <1>1, <1>4, <1>5, MoneyKept

(* A new call draws a STAN that no debt of this process carries.           *)
LEMMA MoneyStepDraw ==
    ASSUME NoStanWrap, MoneyInv, NEW r \in Requests, NEW p \in Cards, NEW amt \in Amounts,
           NEW sw \in Switches, NEW c \in Callers,
           AuthorizeWithdrawal(r, p, amt, sw, c)
    PROVE  DebtsApart' /\ MoneyConserved'
<1> USE LedgerAssumption, EmulatorAssumption
<1>0. /\ req \in [Requests -> Call \cup {Idle}] /\ stanCounter \in Nat
      /\ req[r].pc = "idle" /\ stanCounter <= MaxAuthorizations
      /\ \A q \in Requests : req[q].pc # "idle" => req[q].stanNo \in Nat
      /\ \A d \in stranded : d.stanNo \in Nat
  BY ActiveCall DEF MoneyInv, LockInv, TypeOK, AuthorizeWithdrawal, Call, Debt
<1>1. formatStan(stanCounter) = stanCounter
  <2>1. stanCounter < StanModulus /\ StanModulus \in Nat /\ stanCounter \in Nat
    BY <1>0 DEF NoStanWrap
  <2> QED
    BY <2>1, StanIsCounter DEF formatStan
<1>2. /\ req'[r].pc = "lookup" /\ req'[r].stanNo = stanCounter
      /\ \A q \in Requests \ {r} : req'[q] = req[q]
      /\ stanCounter' = stanCounter + 1
      /\ UNCHANGED <<balance, cash, credited, stranded, restarts>>
  BY <1>0, <1>1 DEF AuthorizeWithdrawal, ledgerVars
<1>3. DebtsApart'
  <2>1. stanCounter' <= MaxAuthorizations + 1 /\ IsFiniteSet(stranded')
    BY <1>0, <1>2 DEF MoneyInv, DebtsApart
  <2>2. ASSUME NEW q \in Requests, req'[q].pc # "idle"
        PROVE  /\ req'[q].stanNo < stanCounter'
               /\ q # r => req[q].stanNo \in Nat /\ req[q].stanNo < stanCounter
    BY <1>0, <1>2, <2>2 DEF MoneyInv, DebtsApart
  <2>3. ASSUME NEW q \in Requests, NEW t \in Requests, q # t,
               req'[q].pc # "idle", req'[t].pc # "idle"
        PROVE  req'[q].stanNo # req'[t].stanNo
    <3>1. CASE q # r /\ t # r
      BY <1>2, <2>3, <3>1 DEF MoneyInv, DebtsApart
    <3>2. CASE q = r \/ t = r
      BY <1>0, <1>2, <2>2, <2>3, <3>2
    <3> QED
      BY <3>1, <3>2
  <2>4. ASSUME NEW d \in stranded, d.boot = restarts
        PROVE  /\ d.stanNo < stanCounter'
               /\ \A q \in Requests : req'[q].pc # "idle" => req'[q].stanNo # d.stanNo
    <3>1. /\ d.stanNo \in Nat /\ d.stanNo < stanCounter
          /\ \A q \in Requests : req[q].pc # "idle" => req[q].stanNo # d.stanNo
      BY <1>0, <2>4 DEF MoneyInv, DebtsApart
    <3>2. d.stanNo < stanCounter' /\ d.stanNo # stanCounter
      BY <1>0, <1>2, <3>1
    <3>3. ASSUME NEW q \in Requests, req'[q].pc # "idle" PROVE req'[q].stanNo # d.stanNo
      <4>1. CASE q = r
        BY <1>2, <3>2, <4>1
      <4>2. CASE q # r
        BY <1>2, <3>1, <3>3, <4>2
      <4> QED
        BY <4>1, <4>2
    <3> QED
      BY <3>2, <3>3
  <2>5. \A d \in stranded : d.boot <= restarts
    BY DEF MoneyInv, DebtsApart
  <2> QED
    BY <1>2, <2>1, <2>2, <2>3, <2>4, <2>5 DEF DebtsApart
<1>4. Debts' = Debts
  BY <1>0, <1>2, DebtsSame DEF Unsettled
<1> QED
  BY <1>2, <1>3, <1>4, MoneyKept

(* An approval turns what leaves the balance into a new debt.              *)
LEMMA MoneyStepApprove ==
    ASSUME MoneyInv, LockInv', NEW r \in Requests, CommitApproval(r), req[r].amount > 0
    PROVE  DebtsApart' /\ MoneyConserved'
<1> DEFINE D == DebtOf(r)
<1>0. /\ req \in [Requests -> Call \cup {Idle}]
      /\ req[r].pc = "within" /\ req[r] \in Call /\ req[r].account \in Accounts
      /\ req[r].amount \in Amounts /\ req[r].amount \in Int
      /\ TypeOK /\ TypeOK' /\ LockInv /\ DebtsApart /\ MoneyConserved
  BY ActiveCall, LedgerAssumption
     DEF MoneyInv, LockInv, TypeOK, AccountKnown, CommitApproval, Call
<1>1. /\ req'[r].pc = "approved" /\ req'[r].stanNo = req[r].stanNo
      /\ req'[r].account = req[r].account /\ req'[r].amount = req[r].amount
      /\ \A q \in Requests \ {r} : req'[q] = req[q]
      /\ UNCHANGED <<stanCounter, cash, credited, stranded, restarts>>
  BY <1>0 DEF CommitApproval, Approved, Goto, Call
<1>2. DebtsApart'
  <2>1. \A q \in Requests : \/ req'[q].pc = "idle"
                            \/ req[q].pc # "idle" /\ req'[q].stanNo = req[q].stanNo
    BY <1>0, <1>1
  <2> QED
    BY <1>0, <1>1, <2>1, ApartKept
<1>3. Debts' = Debts \cup {D}
  BY <1>0, <1>1, DebtsGain DEF Unsettled
<1>4. Debts \in SUBSET Debt /\ IsFiniteSet(Debts) /\ D \in Debt /\ D \notin Debts
  <2>1. Debts \in SUBSET Debt /\ IsFiniteSet(Debts)
    BY <1>0, DebtsTyped DEF DebtsApart
  <2>2. D \in Debt
    BY <1>0 DEF DebtOf, Debt, Call, TypeOK
  <2>3. D \notin Debts
    <3>1. \A d \in Debts : \/ d \in stranded
                           \/ \E q \in Requests \ {r} : req[q].pc \in Unsettled /\ d = DebtOf(q)
      BY <1>0 DEF Debts, Unsettled
    <3> QED
      BY <1>0, <3>1, DebtIsNew
  <2> QED
    BY <2>1, <2>2, <2>3
<1>5. D.account = req[r].account /\ D.amount = req[r].amount
  BY DEF DebtOf
<1> HIDE DEF D
<1>6. ASSUME NEW b \in Accounts
      PROVE  /\ Owed(b) \in Int /\ Owed(b)' \in Int
             /\ balance'[b] + cash'[b] + Owed(b)' = balance[b] + cash[b] + Owed(b)
  <2>1. /\ Owed(b) \in Nat
        /\ Owed(b)' = Owed(b) + (IF b = req[r].account THEN req[r].amount ELSE 0)
    <3> DEFINE f == [d \in Debt |-> d.amount]
    <3>1. \A d \in Debts : f[d] = d.amount
      BY <1>4
    <3> HIDE DEF f
    <3>2. OwedIn(Debts, b) \in Nat
      BY <1>4, <3>1, OwedSum
    <3> QED
      BY <1>3, <1>4, <1>5, <3>2, OwedIs, OwedMore
  <2>2. /\ balance[b] \in Int /\ cash[b] \in Int /\ cash'[b] = cash[b]
        /\ balance'[b] = balance[b] - (IF b = req[r].account THEN req[r].amount ELSE 0)
    BY <1>0, <1>1, SMTT(30) DEF CommitApproval, Debit, TypeOK, LedgerTypeOK
  <2> QED
    BY <1>0, <2>1, <2>2
<1> QED
  BY <1>0, <1>1, <1>2, <1>6, MoneyMoved

(* An approval of nothing, or less: the balance gains what credited does.  *)
LEMMA MoneyStepCredit ==
    ASSUME MoneyInv, LockInv', NEW r \in Requests, CommitApproval(r), ~(req[r].amount > 0)
    PROVE  DebtsApart' /\ MoneyConserved'
<1>0. /\ req \in [Requests -> Call \cup {Idle}]
      /\ req[r].pc = "within" /\ req[r].account \in Accounts /\ req[r].amount \in Int
      /\ balance \in [Accounts -> Int] /\ cash \in [Accounts -> Int]
      /\ credited \in [Accounts -> Nat]
      /\ LockInv /\ DebtsApart /\ MoneyConserved
  <2>1. req[r] \in Call /\ req[r].pc = "within" /\ req[r].account \in Accounts
    BY ActiveCall DEF MoneyInv, LockInv, TypeOK, AccountKnown, CommitApproval
  <2>2. req[r].amount \in Int
    BY <2>1, LedgerAssumption DEF Call
  <2> QED
    BY <2>1, <2>2 DEF MoneyInv, LockInv, TypeOK, LedgerTypeOK
<1>1. /\ req'[r].pc = "idle"
      /\ \A q \in Requests \ {r} : req'[q] = req[q]
      /\ UNCHANGED <<stanCounter, cash, stranded, restarts>>
      /\ balance' = [balance EXCEPT ![req[r].account] = @ - req[r].amount]
      /\ credited' = [credited EXCEPT ![req[r].account] = @ - req[r].amount]
  BY <1>0 DEF CommitApproval, Approved, Answer, Idle, Debit
<1>2. DebtsApart'
  <2>1. \A q \in Requests : \/ req'[q].pc = "idle"
                            \/ req[q].pc # "idle" /\ req'[q].stanNo = req[q].stanNo
    <3>1. \A q \in Requests : req'[q].pc = "idle" \/ req'[q] = req[q]
      BY <1>1
    <3> QED
      BY <3>1
  <2> QED
    BY <1>0, <1>1, <2>1, ApartKept
<1>3. Debts' = Debts
  <2>1. req[r].pc \notin Unsettled /\ req'[r].pc \notin Unsettled
    BY <1>0, <1>1 DEF Unsettled
  <2> QED
    BY <1>1, <2>1, DebtsSame
<1>4. ASSUME NEW b \in Accounts
      PROVE  balance'[b] + cash'[b] + Owed(b)' = InitialBalance[b] + credited'[b]
  <2>1. Owed(b) \in Nat /\ Owed(b)' = Owed(b)
    <3> DEFINE f == [d \in Debt |-> d.amount]
    <3>1. Debts \in SUBSET Debt /\ IsFiniteSet(Debts)
      BY <1>0, DebtsTyped DEF DebtsApart
    <3>2. \A d \in Debts : f[d] = d.amount
      BY <3>1
    <3> HIDE DEF f
    <3> QED
      BY <1>3, <3>1, <3>2, OwedSum, OwedIs, ZenonT(40)
  <2>2. balance[b] + cash[b] + Owed(b) = InitialBalance[b] + credited[b]
    BY <1>0 DEF MoneyConserved
  <2>3. /\ balance'[b] = balance[b] - (IF b = req[r].account THEN req[r].amount ELSE 0)
        /\ credited'[b] = credited[b] - (IF b = req[r].account THEN req[r].amount ELSE 0)
        /\ cash'[b] = cash[b]
        /\ balance[b] \in Int /\ cash[b] \in Int /\ credited[b] \in Int
        /\ InitialBalance[b] \in Int
    <3>1. InitialBalance[b] \in Int
      BY LedgerAssumption
    <3> QED
      BY <1>0, <1>1, <3>1
  <2> QED
    BY <1>0, <2>1, <2>2, <2>3
<1> QED
  BY <1>2, <1>4 DEF MoneyConserved

(* A dispense turns the debt into cash, a reversal back into balance.      *)
LEMMA MoneyStepSettle ==
    ASSUME MoneyInv, LockInv', NEW r \in Requests, Dispensed(r) \/ CommitReversal(r)
    PROVE  DebtsApart' /\ MoneyConserved'
<1> DEFINE D == DebtOf(r)
<1>0. /\ req \in [Requests -> Call \cup {Idle}]
      /\ req[r].pc \in Unsettled /\ req[r].pc # "idle" /\ req[r] \in Call
      /\ req[r].account \in Accounts /\ req[r].amount \in Int
      /\ TypeOK /\ TypeOK' /\ LockInv /\ DebtsApart /\ MoneyConserved
      /\ UNCHANGED credited
  <2>1. /\ req[r].pc \in Unsettled /\ req[r].pc # "idle" /\ req[r] \in Call
        /\ req[r].account \in Accounts
    BY ActiveCall
       DEF MoneyInv, LockInv, TypeOK, AccountKnown, Dispensed, CommitReversal, Unsettled
  <2>2. req[r].amount \in Int
    BY <2>1, LedgerAssumption DEF Call
  <2> QED
    BY <2>1, <2>2 DEF MoneyInv, LockInv, TypeOK, Dispensed, CommitReversal
<1>1. /\ req'[r].pc = "idle"
      /\ \A q \in Requests \ {r} : req'[q] = req[q]
      /\ UNCHANGED <<stanCounter, stranded, restarts>>
  BY <1>0 DEF Dispensed, CommitReversal, Answer, Idle
<1>2. DebtsApart'
  <2>1. \A q \in Requests : \/ req'[q].pc = "idle"
                            \/ req[q].pc # "idle" /\ req'[q].stanNo = req[q].stanNo
    <3>1. \A q \in Requests : req'[q].pc = "idle" \/ req'[q] = req[q]
      BY <1>1
    <3> QED
      BY <3>1
  <2> QED
    BY <1>0, <1>1, <2>1, ApartKept
<1>3. Debts = Debts' \cup {D}
  BY <1>0, <1>1, DebtsLose DEF Unsettled
<1>4. Debts' \in SUBSET Debt /\ IsFiniteSet(Debts') /\ D \in Debt /\ D \notin Debts'
  <2>1. Debts \in SUBSET Debt /\ IsFiniteSet(Debts)
    BY <1>0, DebtsTyped DEF DebtsApart
  <2>2. Debts' \subseteq Debts
    BY <1>3
  <2>3. D \notin Debts'
    <3>1. \A d \in Debts' : \/ d \in stranded
                            \/ \E q \in Requests \ {r} : req[q].pc \in Unsettled /\ d = DebtOf(q)
      <4>1. ASSUME NEW q \in Requests, req'[q].pc \in Unsettled
            PROVE  q \in Requests \ {r} /\ req[q].pc \in Unsettled /\ DebtOf(q)' = DebtOf(q)
        BY <1>1, <4>1 DEF Unsettled, DebtOf
      <4> QED
        BY <1>1, <4>1 DEF Debts
    <3> QED
      BY <1>0, <3>1, DebtIsNew
  <2> QED
    BY <1>3, <2>1, <2>2, <2>3, FS_Subset
<1>5. D.account = req[r].account /\ D.amount = req[r].amount
  BY DEF DebtOf
<1> HIDE DEF D
<1>6. ASSUME NEW b \in Accounts
      PROVE  /\ Owed(b) \in Int /\ Owed(b)' \in Int
             /\ balance'[b] + cash'[b] + Owed(b)' = balance[b] + cash[b] + Owed(b)
  <2>1. /\ Owed(b)' \in Nat
        /\ Owed(b) = Owed(b)' + (IF b = req[r].account THEN req[r].amount ELSE 0)
    <3> DEFINE f == [d \in Debt |-> d.amount]
               left == Debts'
    <3>1. \A d \in left : f[d] = d.amount
      BY <1>4
    <3>2. left \in SUBSET Debt /\ IsFiniteSet(left) /\ D \notin left /\ D \in Debt
      BY <1>4
    <3>3. Owed(b) = OwedIn(left \cup {D}, b) /\ Owed(b)' = OwedIn(left, b)
      BY <1>3, OwedIs
    <3> HIDE DEF f, left
    <3>4. OwedIn(left, b) \in Nat
      BY <3>1, <3>2, OwedSum
    <3>5. OwedIn(left \cup {D}, b) = OwedIn(left, b) + (IF D.account = b THEN D.amount ELSE 0)
      BY <3>2, OwedMore
    <3> QED
      BY <1>5, <3>3, <3>4, <3>5
  <2>2. /\ balance[b] \in Int /\ cash[b] \in Int /\ balance'[b] \in Int /\ cash'[b] \in Int
        /\ balance'[b] + cash'[b] =
              balance[b] + cash[b] + (IF b = req[r].account THEN req[r].amount ELSE 0)
    <3>1. CASE Dispensed(r)
      <4>1. /\ cash' = [cash EXCEPT ![req[r].account] = @ + req[r].amount]
            /\ balance' = balance
        BY <3>1 DEF Dispensed, ledgerVars
      <4>2. balance \in [Accounts -> Int] /\ cash \in [Accounts -> Int]
        BY <1>0 DEF TypeOK, LedgerTypeOK
      <4> QED
        BY <1>0, <4>1, <4>2
    <3>2. CASE CommitReversal(r)
      <4>1. /\ balance' = [balance EXCEPT ![req[r].account] = @ + req[r].amount]
            /\ cash' = cash
        BY <3>2 DEF CommitReversal, Credit
      <4>2. balance \in [Accounts -> Int] /\ cash \in [Accounts -> Int]
        BY <1>0 DEF TypeOK, LedgerTypeOK
      <4> QED
        BY <1>0, <4>1, <4>2
    <3> QED
      BY <3>1, <3>2
  <2> QED
    BY <1>0, <2>1, <2>2
<1> QED
  BY <1>0, <1>2, <1>6, MoneyMoved

(* A reversal that fails strands the debt of its call.                     *)
LEMMA MoneyStepFails ==
    ASSUME MoneyInv, NEW r \in Requests, ReverseFails(r)
    PROVE  DebtsApart' /\ MoneyConserved'
<1>0. /\ req \in [Requests -> Call \cup {Idle}]
      /\ req[r].pc \in Unsettled /\ req[r].pc # "idle" /\ req[r] \in Call
      /\ DebtsApart /\ restarts \in Nat
  BY ActiveCall DEF MoneyInv, LockInv, TypeOK, ReverseFails, Unsettled
<1>1. /\ req'[r].pc = "idle"
      /\ \A q \in Requests \ {r} : req'[q] = req[q]
      /\ UNCHANGED <<balance, cash, credited, stanCounter, restarts>>
      /\ stranded' = stranded \cup {DebtOf(r)}
  BY <1>0 DEF ReverseFails, Answer, Idle, ledgerVars
<1>2. DebtOf(r).boot = restarts /\ DebtOf(r).stanNo = req[r].stanNo
  BY DEF DebtOf
<1>3. DebtsApart'
  <2>1. IsFiniteSet(stranded')
    BY <1>0, <1>1, FS_AddElement DEF DebtsApart
  <2>2. ASSUME NEW q \in Requests, req'[q].pc # "idle"
        PROVE  q # r /\ req'[q] = req[q] /\ req[q].pc # "idle"
    BY <1>1, <2>2
  <2>3. ASSUME NEW d \in stranded'
        PROVE  /\ d.boot <= restarts
               /\ d.boot = restarts =>
                     /\ d.stanNo < stanCounter
                     /\ \A q \in Requests : req'[q].pc # "idle" => req'[q].stanNo # d.stanNo
    <3>1. CASE d \in stranded
      BY <1>0, <2>2, <3>1 DEF DebtsApart
    <3>2. CASE d = DebtOf(r)
      BY <1>0, <1>2, <2>2, <3>2 DEF DebtsApart
    <3> QED
      BY <1>1, <3>1, <3>2
  <2>4. \A q \in Requests : req'[q].pc # "idle" => req'[q].stanNo < stanCounter
    BY <1>0, <2>2 DEF DebtsApart
  <2>5. \A q, t \in Requests :
           req'[q].pc # "idle" /\ req'[t].pc # "idle" /\ q # t => req'[q].stanNo # req'[t].stanNo
    BY <1>0, <2>2 DEF DebtsApart
  <2> QED
    BY <1>0, <1>1, <2>1, <2>3, <2>4, <2>5 DEF DebtsApart
<1>4. Debts' = Debts
  <2>1. \A q \in Requests \ {r} : DebtOf(q)' = DebtOf(q)
    BY <1>1 DEF DebtOf
  <2>2. \A q \in Requests : req[q].pc \in Unsettled <=> (req'[q].pc \in Unsettled \/ q = r)
    BY <1>0, <1>1
  <2>3. req'[r].pc \notin Unsettled
    BY <1>1 DEF Unsettled
  <2> QED
    BY <1>1, <2>1, <2>2, <2>3 DEF Debts
<1> QED
  BY <1>1, <1>3, <1>4, MoneyKept

(* A restart strands the debts of all calls; the new process starts its    *)
(* STANs again, and its debts carry a new boot.                            *)
LEMMA MoneyStepRestart ==
    ASSUME MoneyInv, Restart
    PROVE  DebtsApart' /\ MoneyConserved'
<1>1. /\ \A q \in Requests : req'[q].pc = "idle"
      /\ stranded' = Debts
      /\ restarts' = restarts + 1 /\ restarts \in Nat /\ stanCounter' = 1
      /\ UNCHANGED <<balance, cash, credited>>
  BY DEF Restart, Idle, Debts, ledgerVars, MoneyInv, LockInv, TypeOK
<1>2. Debts \in SUBSET Debt /\ IsFiniteSet(Debts)
  BY DebtsTyped DEF MoneyInv, DebtsApart
<1>3. ASSUME NEW d \in Debts PROVE d.boot \in Nat /\ d.boot <= restarts
  <2>1. d.boot \in Nat
    BY <1>2 DEF Debt
  <2>2. CASE d \in stranded
    BY <2>1, <2>2 DEF MoneyInv, DebtsApart
  <2>3. CASE \E q \in Requests : d = DebtOf(q)
    <3>1. d.boot = restarts
      BY <2>3 DEF DebtOf
    <3> QED
      BY <1>1, <3>1
  <2> QED
    BY <2>1, <2>2, <2>3 DEF Debts
<1>4. DebtsApart'
  <2>1. stanCounter' <= MaxAuthorizations + 1
    BY <1>1, EmulatorAssumption
  <2>2. \A d \in stranded' : d.boot <= restarts' /\ d.boot # restarts'
    BY <1>1, <1>3
  <2> QED
    BY <1>1, <1>2, <2>1, <2>2 DEF DebtsApart
<1>5. Debts' = Debts
  <2>1. \A q \in Requests : req'[q].pc \notin Unsettled
    BY <1>1 DEF Unsettled
  <2> QED
    BY <1>1, <2>1 DEF Debts
<1> QED
  BY <1>1, <1>4, <1>5, MoneyKept

LEMMA MoneyInit == Init => MoneyInv
<1> SUFFICES ASSUME Init PROVE MoneyInv
    OBVIOUS
<1>1. \A q \in Requests : req[q].pc = "idle"
  BY DEF Init, Idle
<1>2. stranded = {} /\ stanCounter = 1 /\ restarts = 0
  BY DEF Init
<1>3. DebtsApart
  BY <1>1, <1>2, EmulatorAssumption, FS_EmptySet DEF DebtsApart
<1>4. Debts = {}
  BY <1>1, <1>2 DEF Debts, Unsettled
<1>5. ASSUME NEW a \in Accounts
      PROVE  balance[a] + cash[a] + Owed(a) = InitialBalance[a] + credited[a]
  <2> DEFINE S == {d \in {} : d.account = a}
             f == [d \in S |-> d.amount]
  <2>1. Owed(a) = SumFunction(f) /\ S = {} /\ DOMAIN f = {}
    BY <1>4 DEF Owed, DebtTotal
  <2> HIDE DEF f
  <2>2. Owed(a) = 0
    BY <2>1, SumEmpty DEF SumFunction
  <2> QED
    BY <2>2, LedgerAssumption DEF Init, LedgerInit
<1> QED
  BY <1>3, <1>5, LockInit DEF MoneyInv, MoneyConserved

LEMMA MoneyStep ==
    ASSUME NoStanWrap, MoneyInv, [Next]_vars
    PROVE  MoneyInv'
<1>0. LockInv'
  BY LockStep DEF MoneyInv
<1>1. ASSUME NEW r \in Requests, Step(r) PROVE DebtsApart' /\ MoneyConserved'
  <2>1. CASE \E p \in Cards, amt \in Amounts :
                \/ amt > 0 /\ AuthorizeWithdrawal(r, p, amt, getSwitchByPan(p), "session")
                \/ \E sw \in Listeners : AuthorizeWithdrawal(r, p, amt, sw, "listener")
    BY <2>1, MoneyStepDraw, SwitchKnown DEF Callers
  <2>2. CASE CommitApproval(r)
    BY <1>0, <2>2, MoneyStepApprove, MoneyStepCredit
  <2> QED
    BY <1>0, <1>1, <2>1, <2>2, MoneyStepReads, MoneyStepSettle, MoneyStepFails DEF Step
<1>2. CASE NextDay \/ UNCHANGED vars
  <2>1. UNCHANGED <<balance, cash, credited, stanCounter, stranded, restarts, req>>
    BY <1>2 DEF NextDay, Midnight, vars, ledgerVars, emulatorVars
  <2>2. Debts' = Debts
    BY <2>1, DebtsSame
  <2>3. DebtsApart'
    BY <2>1 DEF MoneyInv, DebtsApart
  <2> QED
    BY <1>0, <2>1, <2>2, <2>3, MoneyKept DEF MoneyInv
<1> QED
  BY <1>0, <1>1, <1>2, MoneyStepRestart DEF Next, MoneyInv

(***************************************************************************)
(* Money is neither created nor destroyed by any interleaving of           *)
(* authorizations, dispenses, reversals, failed reversals and restarts: at *)
(* every moment an account's balance, the cash handed out from it and the  *)
(* debits not settled add up to what it was opened with and what           *)
(* listeners' amounts below zero put on it.                                *)
(***************************************************************************)
THEOREM MoneyIsConserved == ASSUME NoStanWrap PROVE Spec => []MoneyConserved
<1>1. MoneyInv => MoneyConserved
  BY DEF MoneyInv
<1>2. MoneyInv /\ [Next]_vars => MoneyInv'
  BY MoneyStep
<1> QED
  BY <1>1, <1>2, MoneyInit, PTL DEF Spec

(***************************************************************************)
(* The aggregate that the daily limit is checked against covers every note *)
(* handed out but what a listener's amount below zero had credited, until  *)
(* a restart sets stanCounter back: the books balance, money is conserved, *)
(* and what is owed is never negative.                                     *)
(***************************************************************************)
THEOREM DailyLimitIsHeld == ASSUME NoStanWrap PROVE Spec => []DailyLimitHolds
<1> DEFINE Inv == LimitInv /\ MoneyInv /\ (restarts = 0 => StanInv /\ BooksBalance)
<1>1. Init => Inv
  BY LimitInit, MoneyInit, StanInit, BooksInit DEF Init
<1>2. ASSUME Inv, [Next]_vars PROVE Inv'
  <2>1. LimitInv' /\ MoneyInv'
    BY <1>2, LimitStep, MoneyStep
  <2>2. ASSUME restarts' = 0 PROVE StanInv' /\ BooksBalance'
    <3>1. LockInv /\ LedgerTypeOK
      BY <1>2 DEF MoneyInv, LockInv, TypeOK
    <3>2. StanInv /\ BooksBalance
      BY <1>2, <2>2, <3>1, RestartsGrow
    <3>3. StanInv' /\ [LedgerNext]_ledgerVars
      BY <1>2, <2>2, <3>1, <3>2, StanStep, LedgerStep
    <3> QED
      BY <3>1, <3>2, <3>3, BooksStep
  <2> QED
    BY <2>1, <2>2
<1>3. ASSUME Inv PROVE DailyLimitHolds
  <2>1. ASSUME restarts = 0, NEW a \in Accounts PROVE cash[a] <= Withdrawn(a) + credited[a]
    <3>1. TypeOK /\ LedgerTypeOK /\ DebtsApart /\ LockInv
      BY <1>3 DEF MoneyInv, LockInv, TypeOK
    <3>2. balance[a] \in Int /\ cash[a] \in Int /\ credited[a] \in Nat /\ InitialBalance[a] \in Int
      BY <3>1, LedgerAssumption DEF TypeOK, LedgerTypeOK
    <3>3. Withdrawn(a) \in Int
      <4>1. rows[a] \in [Days -> Seq(Row)]
        BY <3>1 DEF LedgerTypeOK
      <4>2. Withdrawn(a) = SumFunction(DayTotals(rows[a]))
        BY DEF Withdrawn, DayTotals
      <4> QED
        BY <4>1, <4>2, TotalsCounted
    <3>4. Owed(a) \in Nat
      <4> DEFINE f == [d \in Debt |-> d.amount]
      <4>1. Debts \in SUBSET Debt /\ IsFiniteSet(Debts)
        BY <3>1, DebtsTyped DEF DebtsApart
      <4>2. \A d \in Debts : f[d] = d.amount
        BY <4>1
      <4> HIDE DEF f
      <4> QED
        BY <4>1, <4>2, OwedSum, OwedIs, ZenonT(40)
    <3>5. balance[a] + Withdrawn(a) + credited[a] = balance[a] + cash[a] + Owed(a)
      BY <1>3, <2>1 DEF MoneyInv, MoneyConserved, BooksBalance
    <3> QED
      BY <3>2, <3>3, <3>4, <3>5
  <2> QED
    BY <1>3, <2>1 DEF LimitInv, DailyLimitHolds, SumCoversCash
<1> QED
  <2> HIDE DEF Inv
  <2> QED
    BY <1>1, <1>2, <1>3, PTL DEF Spec

=============================================================================
