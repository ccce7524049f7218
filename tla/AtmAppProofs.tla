---------------------------- MODULE AtmAppProofs ----------------------------
(***************************************************************************)
(* Proofs about AtmApp, for any number of handlers that wait at once, any  *)
(* operations that are slow or fail, any cards, accounts, amounts and      *)
(* bounds; the properties of one handler at a time under Orderly, below.   *)
(***************************************************************************)
EXTENDS AtmApp, HostLedgerProofs

-----------------------------------------------------------------------------
(***************************************************************************)
(* Type correctness.  ArgsOK: the arguments an operation was called with   *)
(* are there; between two awaits a handler carries them along.             *)
(***************************************************************************)
Results == {"pending", "ok", "no", "exceeded", "fail"}

ArgsOK(w) ==
    /\ w.pc \in {"createRow", "readTrack", "authenticate", "authorize", "dispense"} => w.pan \in Cards
    /\ w.pc = "authorize" => w.amount \in Amounts
    /\ w.pc \in {"authorize", "dispense", "reverse"} => w.stanNo \in Stans
    /\ w.pc = "verifyPin" => w.sid \in Ids

GoodTask == {w \in Waiting \cup {Idle} : ArgsOK(w)}

TaskOK == task \in [Tasks -> GoodTask]

SessionOK ==
    /\ session \in Session \cup {NoSession}
    /\ idleTimer \in Ids \cup {0}
    /\ TimerOwner

OtherOK ==
    /\ lastId \in Nat
    /\ reader \in Cards \cup {NoCard}
    /\ entry \in Tasks \cup {NoTask}
    /\ pinBuffer \in Buffer
    /\ cardStatus \in [Cards -> {"ACTIVE", "REFUSED", "RETAINED"}]
    /\ failedPinCount \in [Cards -> Nat]
    /\ sessionRow \in [Ids -> {"none", "open", "ended"}]
    /\ stanCounter \in Nat \ {0}
    /\ faults \in Nat
    /\ cash \in [Accounts -> Int]
    /\ paid \subseteq Stans
    /\ proved \subseteq Ids

(* An entry that is active belongs to a handler that waits for its PIN.    *)
EntryOK == entry # NoTask => task[entry].pc = "getPin" /\ task[entry].res = "pending"

AppInv == LedgerTypeOK /\ SessionOK /\ TaskOK /\ OtherOK /\ EntryOK

(* A task that is not idle has all its fields.                             *)
LEMMA ActiveTask ==
    ASSUME TaskOK, NEW t \in Tasks
    PROVE  /\ task[t] \in GoodTask
           /\ task[t].pc \in Ops \cup {"idle"}
           /\ task[t].pc \in Ops => task[t] \in Waiting /\ ArgsOK(task[t])
BY DEF TaskOK, GoodTask, Waiting, Idle, Ops

(* The record that Await(op) starts from.                                  *)
LEMMA AwaitFields ==
    ASSUME NEW op \in Ops
    PROVE  /\ Await(op) \in Waiting
           /\ Await(op).pc = op
BY DEF Await, Waiting, Buffer

LEMMA WaitKeeps ==
    ASSUME TaskOK, NEW t \in Tasks, NEW w \in GoodTask, Wait(t, w)
    PROVE  TaskOK'
BY DEF TaskOK, Wait

LEMMA FinishKeeps ==
    ASSUME TaskOK, NEW t \in Tasks, Finish(t)
    PROVE  TaskOK'
<1>1. Idle \in GoodTask
  BY DEF GoodTask, Idle, ArgsOK
<1> QED
  BY <1>1 DEF TaskOK, Finish

LEMMA ResolveKeeps ==
    ASSUME TaskOK, NEW t \in Tasks, task[t].pc \in Ops, NEW r \in Results, Resolve(t, r)
    PROVE  TaskOK'
<1> DEFINE w == [task[t] EXCEPT !.res = r]
<1>1. task[t] \in Waiting /\ ArgsOK(task[t])
  BY ActiveTask
<1>2. w \in GoodTask
  BY <1>1 DEF Waiting, GoodTask, ArgsOK, Results
<1>3. task' = [task EXCEPT ![t] = w]
  BY DEF Resolve
<1> HIDE DEF w
<1> QED
  BY <1>2, <1>3 DEF TaskOK

(* The same record with other outcome and operation: the handler goes on.  *)
LEMMA EndRowTask ==
    ASSUME NEW i \in Ids
    PROVE  [Await("endRow") EXCEPT !.sid = i] \in GoodTask
BY DEF Await, GoodTask, Waiting, Buffer, ArgsOK, Ops

LEMMA EjectTask == Await("eject") \in GoodTask /\ Idle \in GoodTask
BY DEF Await, GoodTask, Waiting, Buffer, ArgsOK, Ops, Idle

LEMMA EnterKeeps ==
    ASSUME NEW s \in Session, NEW st \in AtmState, Enter(s, st)
    PROVE  SessionOK' /\ session' \in Session /\ session'.id = s.id
<1>1. /\ session' = [s EXCEPT !.state = st]
      /\ idleTimer' = IF st \in IDLE_TIMEOUT_STATES THEN s.id ELSE 0
  BY DEF Enter, Armed
<1>2. /\ session' \in Session
      /\ session'.id = s.id /\ session'.state = st /\ s.id \in Ids
  BY <1>1 DEF Session
<1>3. session' # NoSession
  BY <1>2, SessionAssumption
<1> QED
  BY <1>1, <1>2, <1>3 DEF SessionOK, TimerOwner

LEMMA TransitionKeeps ==
    ASSUME SessionOK, NEW st \in AtmState, transitionTo(st)
    PROVE  SessionOK'
<1>1. CASE session = NoSession
  BY <1>1 DEF transitionTo, SessionOK, TimerOwner
<1>2. CASE session # NoSession
  <2>1. session \in Session /\ Enter(session, st)
    BY <1>2 DEF transitionTo, SessionOK
  <2> QED
    BY <2>1, EnterKeeps
<1> QED
  BY <1>1, <1>2

LEMMA EjectAndEndKeeps ==
    ASSUME TaskOK, SessionOK, NEW t \in Tasks, EjectAndEnd(t)
    PROVE  TaskOK'
<1>1. CASE reader # NoCard
  BY <1>1, EjectTask, WaitKeeps DEF EjectAndEnd
<1>2. CASE reader = NoCard /\ session = NoSession
  BY <1>2, EjectTask, WaitKeeps DEF EjectAndEnd
<1>3. CASE reader = NoCard /\ session # NoSession
  <2>1. session.id \in Ids
    BY <1>3 DEF SessionOK, Session
  <2> QED
    BY <1>3, <2>1, EndRowTask, WaitKeeps DEF EjectAndEnd
<1> QED
  BY <1>1, <1>2, <1>3

LEMMA MarkErrorKeeps ==
    ASSUME TaskOK, SessionOK, NEW t \in Tasks, markError(t)
    PROVE  TaskOK' /\ SessionOK'
<1>1. SessionOK'
  BY TransitionKeeps DEF markError, AtmState
<1>2. TaskOK'
  BY EjectAndEndKeeps, FinishKeeps DEF markError
<1> QED
  BY <1>1, <1>2

LEMMA LedgerKept ==
    ASSUME LedgerTypeOK, UNCHANGED ledgerVars
    PROVE  LedgerTypeOK'
BY DEF LedgerTypeOK, ledgerVars

LEMMA SessionKept ==
    ASSUME SessionOK, UNCHANGED <<session, idleTimer>>
    PROVE  SessionOK'
BY DEF SessionOK, TimerOwner

LEMMA OtherKept ==
    ASSUME OtherOK, UNCHANGED <<lastId, otherVars>>
    PROVE  OtherOK'
BY DEF OtherOK, otherVars, deviceVars, cardVars, historyVars

(* A handler that does not wait for a PIN does not own the entry.          *)
LEMMA EntryKept ==
    ASSUME AppInv, NEW t \in Tasks, UNCHANGED entry,
           task[t].pc # "getPin" \/ task[t].res # "pending" \/ entry # t,
           \A u \in Tasks : u # t => task'[u] = task[u]
    PROVE  EntryOK'
BY AppAssumption DEF AppInv, EntryOK, OtherOK

LEMMA OneTask ==
    ASSUME TaskOK, NEW t \in Tasks, NEW u \in Tasks, u # t
    PROVE  /\ \A w : Wait(t, w) => task'[u] = task[u]
           /\ \A r : Resolve(t, r) => task'[u] = task[u]
           /\ Finish(t) => task'[u] = task[u]
           /\ EjectAndEnd(t) => task'[u] = task[u]
           /\ markError(t) => task'[u] = task[u]
BY DEF TaskOK, Wait, Resolve, Finish, EjectAndEnd, markError

LEMMA AppInit == Init => AppInv
<1> SUFFICES ASSUME Init PROVE AppInv
    OBVIOUS
<1> USE LedgerAssumption, AppAssumption DEF Init
<1>1. LedgerTypeOK
  BY DEF LedgerInit, LedgerTypeOK, Days
<1>2. SessionOK
  BY DEF SessionOK, TimerOwner
<1>3. TaskOK
  BY EjectTask DEF TaskOK
<1>4. OtherOK
  BY DEF OtherOK, Buffer
<1> QED
  BY <1>1, <1>2, <1>3, <1>4 DEF AppInv, EntryOK
(***************************************************************************)
(* Most steps are of one handler and touch only the session, the timer and *)
(* what the handler waits for.                                             *)
(***************************************************************************)
LEMMA LocalStep ==
    ASSUME AppInv, NEW t \in Tasks, UNCHANGED <<ledgerVars, lastId, otherVars>>,
           SessionOK', TaskOK',
           task[t].pc # "getPin" \/ task[t].res # "pending" \/ entry # t,
           \A u \in Tasks : u # t => task'[u] = task[u]
    PROVE  AppInv'
<1>1. LedgerTypeOK' /\ OtherOK'
  BY LedgerKept, OtherKept DEF AppInv
<1>2. EntryOK'
  BY EntryKept DEF otherVars, deviceVars
<1> QED
  BY <1>1, <1>2 DEF AppInv

(* The requests.                                                           *)
LEMMA RequestKeeps ==
    ASSUME AppInv, NEW t \in Tasks, Request(t)
    PROVE  AppInv'
<1> USE AppAssumption
<1>0. LedgerTypeOK /\ SessionOK /\ TaskOK /\ OtherOK /\ EntryOK
  BY DEF AppInv
<1>1. ASSUME NEW p \in Cards, InsertCard(t, p) PROVE AppInv'
  <2>1. lastId + 1 \in Ids
    BY <1>0, <1>1 DEF InsertCard, OtherOK, Ids
  <2>2. session' \in Session /\ idleTimer' = 0
    BY <1>0, <1>1, <2>1
       DEF InsertCard, Session, AtmState, IDLE_TIMEOUT_STATES, SessionOK, TimerOwner
  <2>3. SessionOK'
    BY <2>2 DEF SessionOK, TimerOwner
  <2>4. [Await("createRow") EXCEPT !.sid = lastId + 1, !.pan = p] \in GoodTask
    BY <2>1 DEF Await, GoodTask, Waiting, Buffer, ArgsOK, Ops
  <2>5. TaskOK'
    BY <1>0, <1>1, <2>4, WaitKeeps DEF InsertCard
  <2>6. OtherOK'
    BY <1>0, <1>1 DEF InsertCard, OtherOK, otherVars, deviceVars, cardVars, historyVars
  <2>7. LedgerTypeOK'
    BY <1>0, <1>1, LedgerKept DEF InsertCard
  <2>8. EntryOK'
    BY <1>0, <1>1, EntryKept, OneTask DEF InsertCard, otherVars, deviceVars
  <2> QED
    BY <2>3, <2>5, <2>6, <2>7, <2>8 DEF AppInv
<1>2. CASE BeginPinEntry(t)
  <2>1. session.id \in Ids
    BY <1>0, <1>2 DEF BeginPinEntry, InState, SessionOK, Session
  <2>2. [Await("getPin") EXCEPT !.sid = session.id] \in GoodTask
    BY <2>1 DEF Await, GoodTask, Waiting, Buffer, ArgsOK, Ops
  <2>3. TaskOK'
    BY <1>0, <1>2, <2>2, WaitKeeps DEF BeginPinEntry
  <2>4. SessionOK'
    BY <1>0, <1>2, SessionKept DEF BeginPinEntry, appVars
  <2> QED
    BY <1>0, <1>2, <2>3, <2>4, LocalStep, OneTask DEF BeginPinEntry, appVars
<1>3. ASSUME NEW txn \in Txns, SelectTransaction(t, txn) PROVE AppInv'
  <2> DEFINE s == [session EXCEPT !.selectedTxn = txn]
  <2>1. session \in Session /\ s \in Session /\ s.cardPan \in Cards
    BY <1>0, <1>3 DEF SelectTransaction, InState, SessionOK, Session
  <2> HIDE DEF s
  <2>2. CASE txn = "WITHDRAWAL"
    <3>1. Enter(s, "AMOUNT_ENTRY") /\ UNCHANGED task
      BY <1>3, <2>2 DEF SelectTransaction, s
    <3>2. SessionOK' /\ TaskOK'
      BY <1>0, <2>1, <3>1, EnterKeeps DEF AtmState, AfterPin, TaskOK
    <3> QED
      BY <1>3, <3>1, <3>2, LocalStep DEF SelectTransaction
  <2>3. CASE txn = "BALANCE"
    <3>1. /\ Enter(s, "PROCESSING")
          /\ Wait(t, [Await("getBalance") EXCEPT !.pan = s.cardPan])
      BY <1>3, <2>3 DEF SelectTransaction, s
    <3>2. [Await("getBalance") EXCEPT !.pan = s.cardPan] \in GoodTask
      BY <2>1 DEF Await, GoodTask, Waiting, Buffer, ArgsOK, Ops
    <3>3. SessionOK'
      BY <2>1, <3>1, EnterKeeps DEF AtmState, AfterPin
    <3>4. TaskOK'
      BY <1>0, <3>1, <3>2, WaitKeeps
    <3> QED
      BY <1>0, <1>3, <3>1, <3>3, <3>4, LocalStep, OneTask DEF SelectTransaction
  <2>4. CASE txn \notin {"WITHDRAWAL", "BALANCE"}
    <3>1. Enter(s, "ERROR") /\ EjectAndEnd(t)
      BY <1>3, <2>4 DEF SelectTransaction, s
    <3>2. SessionOK'
      BY <2>1, <3>1, EnterKeeps DEF AtmState
    <3>3. TaskOK'
      BY <1>0, <3>1, EjectAndEndKeeps
    <3> QED
      BY <1>0, <1>3, <3>1, <3>2, <3>3, LocalStep, OneTask DEF SelectTransaction
  <2> QED
    BY <2>2, <2>3, <2>4
<1>4. CASE ConfirmTransaction(t)
  <2>1. session \in Session /\ session.cardPan \in Cards /\ session.amount \in Amounts \cup {0}
    BY <1>0, <1>4 DEF ConfirmTransaction, InState, SessionOK, Session
  <2>2. UNCHANGED <<ledgerVars, lastId, deviceVars, cardVars, faults, historyVars>>
    BY <1>4 DEF ConfirmTransaction
  <2>3. CASE session.selectedTxn # "WITHDRAWAL"
    <3>1. markError(t) /\ UNCHANGED stanCounter
      BY <1>4, <2>3 DEF ConfirmTransaction
    <3>2. SessionOK' /\ TaskOK'
      BY <1>0, <3>1, MarkErrorKeeps
    <3> QED
      BY <1>0, <1>4, <2>2, <3>1, <3>2, LocalStep, OneTask DEF ConfirmTransaction, otherVars
  <2>4. CASE session.selectedTxn = "WITHDRAWAL" /\ session.amount = 0
    <3>1. Enter(session, "PROCESSING") /\ UNCHANGED <<task, stanCounter>>
      BY <1>4, <2>4 DEF ConfirmTransaction
    <3>2. SessionOK' /\ TaskOK'
      BY <1>0, <2>1, <3>1, EnterKeeps DEF AtmState, AfterPin, TaskOK
    <3> QED
      BY <1>4, <2>2, <3>1, <3>2, LocalStep DEF ConfirmTransaction, otherVars
  <2>5. CASE session.selectedTxn = "WITHDRAWAL" /\ session.amount # 0
    <3> DEFINE w == [Await("authorize") EXCEPT !.pan = session.cardPan,
                        !.amount = session.amount, !.stanNo = stanCounter]
    <3>1. Enter(session, "PROCESSING") /\ Wait(t, w) /\ stanCounter' = stanCounter + 1
      BY <1>4, <2>5 DEF ConfirmTransaction
    <3>2. stanCounter \in Stans
      BY <1>0, <1>4 DEF ConfirmTransaction, OtherOK
    <3>3. w \in GoodTask
      BY <2>1, <2>5, <3>2 DEF Await, GoodTask, Waiting, Buffer, ArgsOK, Ops
    <3>4. SessionOK'
      BY <2>1, <3>1, EnterKeeps DEF AtmState, AfterPin
    <3>5. TaskOK'
      BY <1>0, <3>1, <3>3, WaitKeeps
    <3>6. OtherOK'
      BY <1>0, <2>2, <3>1 DEF OtherOK, deviceVars, cardVars, historyVars
    <3>7. LedgerTypeOK'
      BY <1>0, <2>2, LedgerKept
    <3>8. EntryOK'
      BY <1>0, <1>4, <2>2, <3>1, EntryKept, OneTask DEF ConfirmTransaction, deviceVars
    <3> QED
      BY <3>4, <3>5, <3>6, <3>7, <3>8 DEF AppInv
  <2> QED
    BY <2>3, <2>4, <2>5
<1>5. CASE CancelTransaction(t)
  <2>1. SessionOK'
    BY <1>0, <1>5 DEF CancelTransaction, SessionOK, TimerOwner
  <2>2. TaskOK'
    BY <1>0, <1>5, EjectAndEndKeeps DEF CancelTransaction
  <2> QED
    BY <1>0, <1>5, <2>1, <2>2, LocalStep, OneTask DEF CancelTransaction
<1> QED
  BY <1>1, <1>2, <1>3, <1>4, <1>5 DEF Request

(* The customer's amount.                                                  *)
LEMMA SubmitKeeps ==
    ASSUME AppInv, NEW amt \in Amounts, SubmitAmount(amt)
    PROVE  AppInv'
<1>0. LedgerTypeOK /\ SessionOK /\ TaskOK /\ OtherOK /\ EntryOK
  BY DEF AppInv
<1> DEFINE s == [session EXCEPT !.amount = amt]
<1>1. s \in Session
  BY <1>0 DEF SubmitAmount, InState, SessionOK, Session
<1> HIDE DEF s
<1>2. Enter(s, "CONFIRM")
  BY DEF SubmitAmount, s
<1>3. SessionOK'
  BY <1>1, <1>2, EnterKeeps DEF AtmState, AfterPin
<1>4. LedgerTypeOK' /\ OtherOK'
  BY <1>0, LedgerKept, OtherKept DEF SubmitAmount
<1> QED
  BY <1>0, <1>3, <1>4 DEF SubmitAmount, AppInv, TaskOK, EntryOK, otherVars, deviceVars

(* The idle timer.                                                         *)
LEMMA TimeoutKeeps ==
    ASSUME AppInv, NEW t \in Tasks, IdleTimeout(t)
    PROVE  AppInv'
<1>0. LedgerTypeOK /\ SessionOK /\ TaskOK /\ OtherOK /\ EntryOK
  BY DEF AppInv
<1>1. CASE session # NoSession /\ session.id = idleTimer
  <2>1. session \in Session /\ Enter(session, "ERROR") /\ EjectAndEnd(t)
    BY <1>0, <1>1 DEF IdleTimeout, SessionOK
  <2>2. SessionOK'
    BY <2>1, EnterKeeps DEF AtmState
  <2>3. TaskOK'
    BY <1>0, <2>1, EjectAndEndKeeps
  <2> QED
    BY <1>0, <2>1, <2>2, <2>3, LocalStep, OneTask DEF IdleTimeout
<1>2. CASE ~ (session # NoSession /\ session.id = idleTimer)
  <2>1. idleTimer' = 0 /\ UNCHANGED <<session, task>>
    BY <1>2 DEF IdleTimeout
  <2>2. SessionOK' /\ TaskOK'
    BY <1>0, <2>1 DEF SessionOK, TimerOwner, TaskOK
  <2> QED
    BY <2>1, <2>2, LocalStep DEF IdleTimeout
<1> QED
  BY <1>1, <1>2

(* The handler that owns the entry.                                        *)
LEMMA EntryTask ==
    ASSUME AppInv, entry # NoTask
    PROVE  entry \in Tasks /\ task[entry].pc = "getPin" /\ task[entry].pc \in Ops
BY DEF AppInv, EntryOK, OtherOK, Ops

(* The keys, and the cancellation of an entry.                             *)
LEMMA KeysKeep ==
    ASSUME AppInv, Keys \/ CancelEntry
    PROVE  AppInv'
<1>0. LedgerTypeOK /\ SessionOK /\ TaskOK /\ OtherOK /\ EntryOK
  BY DEF AppInv
<1>1. LedgerTypeOK' /\ SessionOK'
  BY <1>0, LedgerKept, SessionKept
     DEF Keys, PressDigits, PressClear, PressEnter, CancelEntry, appVars
<1>2. OtherOK'
  BY <1>0 DEF Keys, PressDigits, PressClear, PressEnter, CancelEntry, OtherOK, appVars, cardVars,
              historyVars, Buffer
<1>3. CASE (\E typed \in Typed : PressDigits(typed)) \/ PressClear
  BY <1>0, <1>1, <1>2, <1>3 DEF PressDigits, PressClear, AppInv, TaskOK, EntryOK
<1>4. CASE PressEnter \/ CancelEntry
  <2>1. entry # NoTask /\ entry' = NoTask /\ (Resolve(entry, "ok") \/ Resolve(entry, "fail"))
    BY <1>4 DEF PressEnter, CancelEntry
  <2>2. TaskOK'
    BY <1>0, <2>1, EntryTask, ResolveKeeps DEF Results
  <2> QED
    BY <1>1, <1>2, <2>1, <2>2 DEF AppInv, EntryOK
<1> QED
  BY <1>3, <1>4 DEF Keys

(* An operation whose handler waits for it.                                *)
LEMMA PendingTask ==
    ASSUME AppInv, NEW t \in Tasks, task[t].res = "pending"
    PROVE  task[t] \in Waiting /\ ArgsOK(task[t]) /\ task[t].pc \in Ops
BY DEF AppInv, TaskOK, GoodTask, Waiting, Idle

(***************************************************************************)
(* An operation that takes effect, or fails, resolves one await.           *)
(***************************************************************************)
LEMMA ResolveStep ==
    ASSUME AppInv, NEW t \in Tasks, task[t].res = "pending", task[t].pc # "getPin" \/ entry # t,
           NEW r \in Results, Resolve(t, r), UNCHANGED <<appVars, entry>>,
           LedgerTypeOK', OtherOK'
    PROVE  AppInv'
<1>0. LedgerTypeOK /\ SessionOK /\ TaskOK /\ OtherOK /\ EntryOK
  BY DEF AppInv
<1>1. TaskOK'
  BY <1>0, PendingTask, ResolveKeeps
<1>2. SessionOK'
  BY <1>0, SessionKept DEF appVars
<1>3. EntryOK'
  BY <1>0, EntryKept, OneTask
<1> QED
  BY <1>1, <1>2, <1>3 DEF AppInv

LEMMA FailKeeps ==
    ASSUME AppInv, NEW t \in Tasks, Fail(t)
    PROVE  AppInv'
<1>1. LedgerTypeOK'
  BY LedgerKept DEF AppInv, Fail
<1>2. OtherOK'
  BY DEF AppInv, Fail, OtherOK, appVars, deviceVars, cardVars, historyVars
<1> QED
  BY <1>1, <1>2, ResolveStep DEF Fail, deviceVars, Results

LEMMA AmountIsInt == \A n \in Amounts \cup {0} : n \in Int
BY LedgerAssumption

(* The operations take effect.                                             *)
LEMMA EffectKeeps ==
    ASSUME AppInv, NEW t \in Tasks, Effect(t)
    PROVE  AppInv'
<1> USE AppAssumption, LedgerAssumption
<1>0. LedgerTypeOK /\ SessionOK /\ TaskOK /\ OtherOK /\ EntryOK
  BY DEF AppInv
<1>1. CASE CreateRow(t) \/ EndRow(t)
  <2>1. LedgerTypeOK' /\ OtherOK'
    BY <1>0, <1>1, LedgerKept
       DEF CreateRow, EndRow, OtherOK, appVars, deviceVars, historyVars
  <2> QED
    BY <1>1, <2>1, ResolveStep DEF CreateRow, EndRow, Pending, Results, deviceVars
<1>2. CASE ReadTrack(t) \/ PrintForm(t) \/ Authenticate(t) \/ GetBalance(t) \/ HostDeclines(t)
  <2>1. UNCHANGED <<ledgerVars, appVars, otherVars>>
    BY <1>2 DEF ReadTrack, PrintForm, Authenticate, GetBalance, HostDeclines
  <2>2. LedgerTypeOK' /\ OtherOK'
    BY <1>0, <2>1, LedgerKept, OtherKept DEF appVars
  <2>3. /\ task[t].res = "pending" /\ task[t].pc # "getPin"
        /\ Resolve(t, "ok") \/ Resolve(t, "no") \/ Resolve(t, "fail")
    BY <1>2 DEF ReadTrack, PrintForm, Authenticate, GetBalance, HostDeclines, Pending
  <2> QED
    BY <2>1, <2>2, <2>3, ResolveStep DEF Results, otherVars, deviceVars
<1>3. CASE LeaveReader(t)
  <2>1. LedgerTypeOK' /\ OtherOK'
    BY <1>0, <1>3, LedgerKept DEF LeaveReader, OtherOK, appVars, cardVars, historyVars
  <2> QED
    BY <1>3, <2>1, ResolveStep DEF LeaveReader, Pending, Results
<1>4. CASE ArmPinEntry(t)
  <2>1. LedgerTypeOK' /\ SessionOK'
    BY <1>0, <1>4, LedgerKept, SessionKept DEF ArmPinEntry, appVars
  <2>2. OtherOK'
    BY <1>0, <1>4 DEF ArmPinEntry, OtherOK, appVars, cardVars, historyVars, Buffer
  <2>3. ASSUME NEW u \in Tasks
        PROVE  /\ u = entry => [task[u] EXCEPT !.res = "fail"] \in GoodTask
               /\ u # entry => task[u] \in GoodTask
    <3>1. CASE u = entry
      <4>1. task[u] \in Waiting /\ ArgsOK(task[u])
        BY <1>0, <3>1, ActiveTask, EntryTask
      <4> QED
        BY <3>1, <4>1 DEF Waiting, GoodTask, ArgsOK
    <3> QED
      BY <1>0, <3>1 DEF TaskOK
  <2>4. TaskOK'
    BY <1>4, <2>3 DEF ArmPinEntry, TaskOK
  <2>5. EntryOK'
    BY <1>4 DEF ArmPinEntry, EntryOK, Pending
  <2> QED
    BY <2>1, <2>2, <2>4, <2>5 DEF AppInv
<1>5. CASE VerifyPin(t)
  <2>1. task[t].sid \in Ids
    BY <1>5, PendingTask DEF VerifyPin, Pending, ArgsOK
  <2>2. /\ failedPinCount' \in [Cards -> Nat]
        /\ proved' \subseteq Ids
    BY <1>0, <1>5, <2>1 DEF VerifyPin, OtherOK
  <2>3. LedgerTypeOK' /\ OtherOK'
    BY <1>0, <1>5, <2>2, LedgerKept DEF VerifyPin, OtherOK, appVars, deviceVars
  <2>4. \E r \in Results : Resolve(t, r)
    BY <1>5 DEF VerifyPin, Results
  <2> QED
    BY <1>5, <2>3, <2>4, ResolveStep DEF VerifyPin, Pending, deviceVars
<1>6. CASE HostRetainCard(t)
  <2>1. LedgerTypeOK' /\ OtherOK'
    BY <1>0, <1>6, LedgerKept DEF HostRetainCard, OtherOK, appVars, deviceVars, historyVars
  <2> QED
    BY <1>6, <2>1, ResolveStep DEF HostRetainCard, Pending, Results, deviceVars
<1>7. CASE HostApproves(t)
  <2>1. task[t] \in Waiting /\ task[t].amount \in Amounts /\ task[t].stanNo \in Stans
    BY <1>7, PendingTask DEF HostApproves, Pending, ArgsOK
  <2>2. AccountOf[task[t].pan] \in Accounts
    BY <1>7, PendingTask DEF HostApproves, Pending, ArgsOK
  <2>3. LedgerTypeOK'
    BY <1>0, <1>7, <2>1, <2>2, LedgerTypes DEF HostApproves, Approve
  <2>4. OtherOK'
    BY <1>0, <1>7, OtherKept DEF HostApproves, appVars
  <2> QED
    BY <1>7, <2>3, <2>4, ResolveStep DEF HostApproves, Pending, Results, otherVars, deviceVars
<1>8. CASE Dispense(t)
  <2>1. task[t] \in Waiting /\ task[t].stanNo \in Stans
    BY <1>8, PendingTask DEF Dispense, Pending, ArgsOK
  <2>2. paid' \subseteq Stans
    BY <1>0, <1>8, <2>1 DEF Dispense, OtherOK
  <2>3. task[t].amount \in Amounts \cup {0}
    BY <2>1 DEF Waiting
  <2>4. task[t].amount \in Int
    BY <2>3, AmountIsInt
  <2>5. cash' \in [Accounts -> Int]
    BY <1>0, <1>8, <2>4 DEF Dispense, OtherOK
  <2>6. LedgerTypeOK' /\ OtherOK'
    BY <1>0, <1>8, <2>2, <2>5, LedgerKept DEF Dispense, OtherOK, appVars, deviceVars, cardVars
  <2>7. Resolve(t, "ok") \/ Resolve(t, "fail")
    BY <1>8 DEF Dispense
  <2> QED
    BY <1>8, <2>6, <2>7, ResolveStep DEF Dispense, Pending, deviceVars, Results
<1>9. CASE ReverseTransaction(t)
  <2>1. task[t] \in Waiting /\ task[t].stanNo \in Stans
    BY <1>9, PendingTask DEF ReverseTransaction, Pending, ArgsOK
  <2>2. LedgerTypeOK'
    <3>1. CASE task[t].account = NoAccount \/ task[t].amount = 0
      BY <1>0, <1>9, <3>1, LedgerKept DEF ReverseTransaction
    <3>2. CASE ~ (task[t].account = NoAccount \/ task[t].amount = 0)
      <4>1. task[t].account \in Accounts /\ task[t].amount \in Amounts
        BY <2>1, <3>2 DEF Waiting
      <4> QED
        BY <1>0, <1>9, <2>1, <3>2, <4>1, LedgerTypes DEF ReverseTransaction
    <3> QED
      BY <3>1, <3>2
  <2>3. OtherOK'
    BY <1>0, <1>9, OtherKept DEF ReverseTransaction, appVars
  <2>4. Resolve(t, "ok") \/ Resolve(t, "fail")
    BY <1>9 DEF ReverseTransaction
  <2> QED
    BY <1>9, <2>2, <2>3, <2>4, ResolveStep
       DEF ReverseTransaction, Pending, Results, otherVars, deviceVars
<1> QED
  BY <1>1, <1>2, <1>3, <1>4, <1>5, <1>6, <1>7, <1>8, <1>9 DEF Effect

(* The handlers go on.                                                     *)
LEMMA ContinueKeeps ==
    ASSUME AppInv, NEW t \in Tasks, Continue(t)
    PROVE  AppInv'
<1> USE AppAssumption
<1>0. LedgerTypeOK /\ SessionOK /\ TaskOK /\ OtherOK /\ EntryOK
  BY DEF AppInv
<1>1. CASE Reject(t)
  <2>1. SessionOK' /\ TaskOK'
    BY <1>0, <1>1, SessionKept, FinishKeeps DEF Reject, appVars
  <2> QED
    BY <1>0, <1>1, <2>1, LocalStep, OneTask DEF Reject, Resumes, appVars
<1>2. CASE AfterCreateRow(t)
  <2>1. task[t] \in Waiting /\ task[t].pan \in Cards
    BY <1>0, <1>2, ActiveTask DEF AfterCreateRow, Resumes, Ops, ArgsOK
  <2>2. [task[t] EXCEPT !.pc = "readTrack", !.res = "pending"] \in GoodTask
    BY <2>1, ZenonT(40) DEF Waiting, GoodTask, ArgsOK, Ops
  <2>3. CASE reader = NoCard
    <3>1. /\ Wait(t, [task[t] EXCEPT !.pc = "readTrack", !.res = "pending"])
          /\ UNCHANGED session
          /\ idleTimer' = IF session = NoSession THEN idleTimer ELSE Armed(session, session.state)
      BY <1>2, <2>3 DEF AfterCreateRow
    <3>2. SessionOK'
      BY <1>0, <3>1 DEF SessionOK, TimerOwner, Armed, Session
    <3>3. TaskOK'
      BY <1>0, <2>2, <3>1, WaitKeeps
    <3>4. OtherOK' /\ LedgerTypeOK'
      BY <1>0, <1>2, <2>1, <2>3, LedgerKept DEF AfterCreateRow, OtherOK, cardVars, historyVars
    <3>5. EntryOK'
      BY <1>0, <1>2, <3>1, EntryKept, OneTask DEF AfterCreateRow, Resumes
    <3> QED
      BY <3>2, <3>3, <3>4, <3>5 DEF AppInv
  <2>4. CASE reader # NoCard
    <3>1. markError(t) /\ UNCHANGED reader
      BY <1>2, <2>4 DEF AfterCreateRow
    <3>2. SessionOK' /\ TaskOK'
      BY <1>0, <3>1, MarkErrorKeeps
    <3> QED
      BY <1>0, <1>2, <3>1, <3>2, LocalStep, OneTask
         DEF AfterCreateRow, Resumes, otherVars, deviceVars
  <2> QED
    BY <2>3, <2>4
<1>3. CASE AfterReadTrack(t)
  <2>1. CASE Resumes(t, "readTrack", "fail") /\ markError(t)
    BY <1>0, <1>3, <2>1, MarkErrorKeeps, LocalStep, OneTask DEF AfterReadTrack, Resumes
  <2>2. CASE /\ Resumes(t, "readTrack", "ok")
             /\ Wait(t, [task[t] EXCEPT !.pc = "authenticate", !.res = "pending"])
             /\ UNCHANGED <<session, idleTimer>>
    <3>1. task[t] \in Waiting /\ task[t].pan \in Cards
      BY <1>0, <2>2, ActiveTask DEF Resumes, Ops, ArgsOK
    <3>2. [task[t] EXCEPT !.pc = "authenticate", !.res = "pending"] \in GoodTask
      BY <3>1, ZenonT(40) DEF Waiting, GoodTask, ArgsOK, Ops
    <3>3. SessionOK' /\ TaskOK'
      BY <1>0, <2>2, <3>2, SessionKept, WaitKeeps
    <3> QED
      BY <1>0, <1>3, <2>2, <3>3, LocalStep, OneTask DEF AfterReadTrack, Resumes
  <2> QED
    BY <1>3, <2>1, <2>2 DEF AfterReadTrack
<1>4. CASE AfterAuthenticate(t)
  <2>1. CASE Resumes(t, "authenticate", "no") /\ markError(t)
    BY <1>0, <1>4, <2>1, MarkErrorKeeps, LocalStep, OneTask DEF AfterAuthenticate, Resumes
  <2>2. CASE Resumes(t, "authenticate", "ok")
    <3> DEFINE s == [session EXCEPT !.accountId = AccountOf[task[t].pan]]
    <3>1. task[t].pan \in Cards /\ Finish(t)
      BY <1>0, <1>4, <2>2, ActiveTask DEF AfterAuthenticate, Resumes, Ops, ArgsOK
    <3>2. AccountOf[task[t].pan] \in Accounts
      BY <3>1
    <3>3. CASE session # NoSession /\ session.id = task[t].sid
      <4>1. s \in Session
        BY <1>0, <3>2, <3>3 DEF SessionOK, Session
      <4> HIDE DEF s
      <4>2. Enter(s, "PIN_ENTRY")
        BY <1>4, <2>2, <3>3 DEF AfterAuthenticate, Resumes, s
      <4>3. SessionOK'
        BY <4>1, <4>2, EnterKeeps DEF AtmState, IDLE_TIMEOUT_STATES
      <4> QED
        BY <1>0, <1>4, <2>2, <3>1, <4>3, FinishKeeps, LocalStep, OneTask
           DEF AfterAuthenticate, Resumes
    <3>4. CASE ~ (session # NoSession /\ session.id = task[t].sid)
      <4>1. transitionTo("PIN_ENTRY")
        BY <1>4, <2>2, <3>4 DEF AfterAuthenticate, Resumes
      <4>2. SessionOK'
        BY <1>0, <4>1, TransitionKeeps DEF AtmState, IDLE_TIMEOUT_STATES
      <4> QED
        BY <1>0, <1>4, <2>2, <3>1, <4>2, FinishKeeps, LocalStep, OneTask
           DEF AfterAuthenticate, Resumes
    <3> QED
      BY <3>3, <3>4
  <2> QED
    BY <1>4, <2>1, <2>2 DEF AfterAuthenticate
<1>5. CASE AfterGetPin(t)
  <2>1. SessionOK' /\ LedgerTypeOK'
    BY <1>0, <1>5, SessionKept, LedgerKept DEF AfterGetPin, appVars
  <2>2. OtherOK'
    BY <1>0, <1>5 DEF AfterGetPin, OtherOK, appVars, cardVars, historyVars, Buffer
  <2>3. CASE session = NoSession \/ pinBuffer = "none"
    <3>1. Finish(t)
      BY <1>5, <2>3 DEF AfterGetPin
    <3>2. TaskOK' /\ EntryOK'
      BY <1>0, <1>5, <3>1, FinishKeeps, EntryKept, OneTask DEF AfterGetPin
    <3> QED
      BY <2>1, <2>2, <3>2 DEF AppInv
  <2>4. CASE ~ (session = NoSession \/ pinBuffer = "none")
    <3> DEFINE w == [Await("verifyPin") EXCEPT !.pan = session.cardPan, !.typed = pinBuffer,
                        !.sid = session.id]
    <3>1. session.cardPan \in Cards /\ session.id \in Ids
      BY <1>0, <2>4 DEF SessionOK, Session
    <3>2. w \in GoodTask
      BY <1>0, <3>1 DEF Await, GoodTask, Waiting, ArgsOK, Ops, OtherOK
    <3>3. Wait(t, w)
      BY <1>5, <2>4 DEF AfterGetPin
    <3> HIDE DEF w
    <3>4. TaskOK' /\ EntryOK'
      BY <1>0, <1>5, <3>2, <3>3, WaitKeeps, EntryKept, OneTask DEF AfterGetPin
    <3> QED
      BY <2>1, <2>2, <3>4 DEF AppInv
  <2> QED
    BY <2>3, <2>4
<1>6. CASE AfterVerifyPinOk(t)
  <2>1. SessionOK' /\ TaskOK'
    BY <1>0, <1>6, TransitionKeeps, FinishKeeps DEF AfterVerifyPinOk, AtmState, AfterPin
  <2> QED
    BY <1>0, <1>6, <2>1, LocalStep, OneTask DEF AfterVerifyPinOk, Resumes
<1>7. CASE AfterVerifyPinNo(t)
  <2>1. SessionOK'
    <3>1. CASE session = NoSession
      BY <1>0, <1>7, <3>1, SessionKept DEF AfterVerifyPinNo
    <3>2. CASE session # NoSession
      <4>1. /\ session \in Session
            /\ session' = [session EXCEPT !.failedPinAttempts = @ + 1]
            /\ idleTimer' = idleTimer
        BY <1>0, <1>7, <3>2 DEF AfterVerifyPinNo, SessionOK
      <4>2. /\ session' \in Session
            /\ session'.id = session.id /\ session'.state = session.state
        BY <4>1 DEF Session
      <4> QED
        BY <1>0, <4>1, <4>2, SessionAssumption DEF SessionOK, TimerOwner
    <3> QED
      BY <3>1, <3>2
  <2>2. Await("retainDev") \in GoodTask
    BY DEF Await, GoodTask, Waiting, Buffer, ArgsOK, Ops
  <2>3. Finish(t) \/ Wait(t, Await("retainDev"))
    BY <1>7 DEF AfterVerifyPinNo
  <2>4. TaskOK'
    BY <1>0, <2>2, <2>3, FinishKeeps, WaitKeeps
  <2> QED
    BY <1>0, <1>7, <2>1, <2>3, <2>4, LocalStep, OneTask DEF AfterVerifyPinNo, Resumes
<1>8. CASE AfterRetainDev(t)
  <2> DEFINE w == [Await("retainHost") EXCEPT !.pan = session.cardPan]
  <2>1. SessionOK'
    BY <1>0, <1>8, SessionKept DEF AfterRetainDev, appVars
  <2>2. CASE session = NoSession
    BY <1>0, <1>8, <2>1, <2>2, FinishKeeps, LocalStep, OneTask DEF AfterRetainDev, appVars
  <2>3. CASE session # NoSession
    <3>1. session.cardPan \in Cards
      BY <1>0, <2>3 DEF SessionOK, Session
    <3>2. w \in GoodTask
      BY <3>1 DEF Await, GoodTask, Waiting, Buffer, ArgsOK, Ops
    <3>3. Wait(t, w)
      BY <1>8, <2>3 DEF AfterRetainDev
    <3> HIDE DEF w
    <3> QED
      BY <1>0, <1>8, <2>1, <3>2, <3>3, WaitKeeps, LocalStep, OneTask DEF AfterRetainDev, appVars
  <2> QED
    BY <2>2, <2>3
<1>9. CASE AfterRetainHost(t)
  <2>1. SessionOK'
    BY <1>0, <1>9, TransitionKeeps DEF AfterRetainHost, AtmState
  <2>2. CASE session = NoSession
    BY <1>0, <1>9, <2>1, <2>2, FinishKeeps, LocalStep, OneTask DEF AfterRetainHost, Resumes
  <2>3. CASE session # NoSession
    <3>1. session.id \in Ids /\ Wait(t, [Await("endRow") EXCEPT !.sid = session.id])
      BY <1>0, <1>9, <2>3 DEF AfterRetainHost, SessionOK, Session
    <3> QED
      BY <1>0, <1>9, <2>1, <3>1, EndRowTask, WaitKeeps, LocalStep, OneTask
         DEF AfterRetainHost, Resumes
  <2> QED
    BY <2>2, <2>3
<1>10. CASE AfterGetBalance(t) \/ AfterDispenseOk(t)
  <2>1. /\ transitionTo("PRINTING") /\ (Finish(t) \/ Wait(t, Await("print")))
        /\ UNCHANGED <<ledgerVars, lastId, otherVars>>
        /\ task[t].pc # "getPin"
    BY <1>10 DEF AfterGetBalance, AfterDispenseOk, Resumes
  <2>2. Await("print") \in GoodTask
    BY DEF Await, GoodTask, Waiting, Buffer, ArgsOK, Ops
  <2>3. SessionOK'
    BY <1>0, <2>1, TransitionKeeps DEF AtmState, AfterPin
  <2>4. TaskOK'
    BY <1>0, <2>1, <2>2, FinishKeeps, WaitKeeps
  <2> QED
    BY <1>0, <2>1, <2>3, <2>4, LocalStep, OneTask
<1>11. CASE AfterAuthorizeOk(t)
  <2> DEFINE w == [task[t] EXCEPT !.pc = "dispense", !.res = "pending", !.amount = session.amount]
  <2>1. SessionOK'
    BY <1>0, <1>11, TransitionKeeps DEF AfterAuthorizeOk, AtmState, AfterPin
  <2>2. CASE session = NoSession
    BY <1>0, <1>11, <2>1, <2>2, FinishKeeps, LocalStep, OneTask DEF AfterAuthorizeOk, Resumes
  <2>3. CASE session # NoSession
    <3>1. session.amount \in Amounts \cup {0}
      BY <1>0, <2>3 DEF SessionOK, Session
    <3>2. task[t] \in Waiting /\ task[t].stanNo \in Stans /\ task[t].pan \in Cards
      BY <1>0, <1>11, ActiveTask DEF AfterAuthorizeOk, Resumes, Ops, ArgsOK
    <3>3. w \in GoodTask
      BY <3>1, <3>2 DEF GoodTask, Waiting, ArgsOK, Ops
    <3>4. Wait(t, w)
      BY <1>11, <2>3 DEF AfterAuthorizeOk
    <3> HIDE DEF w
    <3> QED
      BY <1>0, <1>11, <2>1, <3>3, <3>4, WaitKeeps, LocalStep, OneTask
         DEF AfterAuthorizeOk, Resumes
  <2> QED
    BY <2>2, <2>3
<1>12. CASE AfterAuthorizeNo(t) \/ AfterReverse(t)
  <2>1. /\ markError(t) /\ UNCHANGED <<ledgerVars, lastId, otherVars>>
        /\ task[t].pc # "getPin"
    BY <1>12 DEF AfterAuthorizeNo, AfterReverse, Resumes
  <2> QED
    BY <1>0, <2>1, MarkErrorKeeps, LocalStep, OneTask
<1>13. CASE AfterDispenseFail(t)
  <2> DEFINE w == [task[t] EXCEPT !.pc = "reverse", !.res = "pending",
                      !.account = session.accountId, !.amount = session.amount]
  <2>1. SessionOK'
    BY <1>0, <1>13, SessionKept DEF AfterDispenseFail, appVars
  <2>2. CASE session = NoSession
    BY <1>0, <1>13, <2>1, <2>2, FinishKeeps, LocalStep, OneTask
       DEF AfterDispenseFail, Resumes, appVars
  <2>3. CASE session # NoSession
    <3>1. session.amount \in Amounts \cup {0} /\ session.accountId \in Accounts \cup {NoAccount}
      BY <1>0, <2>3 DEF SessionOK, Session
    <3>2. task[t] \in Waiting /\ task[t].stanNo \in Stans
      BY <1>0, <1>13, ActiveTask DEF AfterDispenseFail, Resumes, Ops, ArgsOK
    <3>3. w \in GoodTask
      BY <3>1, <3>2, ZenonT(40) DEF GoodTask, Waiting, ArgsOK, Ops
    <3>4. Wait(t, w)
      BY <1>13, <2>3 DEF AfterDispenseFail
    <3> HIDE DEF w
    <3> QED
      BY <1>0, <1>13, <2>1, <3>3, <3>4, WaitKeeps, LocalStep, OneTask
         DEF AfterDispenseFail, Resumes, appVars
  <2> QED
    BY <2>2, <2>3
<1>14. CASE AfterPrint(t)
  <2>1. SessionOK' /\ TaskOK'
    BY <1>0, <1>14, TransitionKeeps, EjectAndEndKeeps DEF AfterPrint, AtmState, AfterPin
  <2> QED
    BY <1>0, <1>14, <2>1, LocalStep, OneTask DEF AfterPrint
<1>15. CASE AfterEject(t)
  <2>1. SessionOK'
    BY <1>0, <1>15 DEF AfterEject, SessionOK, TimerOwner
  <2>2. CASE session = NoSession
    BY <1>0, <1>15, <2>1, <2>2, FinishKeeps, LocalStep, OneTask DEF AfterEject
  <2>3. CASE session # NoSession
    <3>1. session.id \in Ids /\ Wait(t, [Await("endRow") EXCEPT !.sid = session.id])
      BY <1>0, <1>15, <2>3 DEF AfterEject, SessionOK, Session
    <3> QED
      BY <1>0, <1>15, <2>1, <3>1, EndRowTask, WaitKeeps, LocalStep, OneTask DEF AfterEject
  <2> QED
    BY <2>2, <2>3
<1>16. CASE AfterEndRow(t)
  <2>1. SessionOK'
    BY <1>0, <1>16 DEF AfterEndRow, SessionOK, TimerOwner
  <2> QED
    BY <1>0, <1>16, <2>1, FinishKeeps, LocalStep, OneTask DEF AfterEndRow, Resumes
<1> QED
  BY <1>1, <1>2, <1>3, <1>4, <1>5, <1>6, <1>7, <1>8, <1>9, <1>10, <1>11, <1>12, <1>13, <1>14,
     <1>15, <1>16 DEF Continue

LEMMA AppStep == AppInv /\ [Next]_vars => AppInv'
<1> SUFFICES ASSUME AppInv, [Next]_vars PROVE AppInv'
    OBVIOUS
<1>1. ASSUME NEW t \in Tasks,
             Request(t) \/ IdleTimeout(t) \/ Fail(t) \/ Effect(t) \/ Continue(t)
      PROVE  AppInv'
  BY <1>1, RequestKeeps, TimeoutKeeps, FailKeeps, EffectKeeps, ContinueKeeps
<1>2. ASSUME NEW amt \in Amounts, SubmitAmount(amt) PROVE AppInv'
  BY <1>2, SubmitKeeps
<1>3. CASE UNCHANGED vars
  BY <1>3, LedgerKept, SessionKept, OtherKept
     DEF vars, AppInv, appVars, TaskOK, EntryOK, otherVars, deviceVars
<1> QED
  BY <1>1, <1>2, <1>3, KeysKeep DEF Next

(* The variables of the session keep their types.                          *)
THEOREM AppTypeCorrect == Spec => []TypeOK
<1>1. AppInv => TypeOK
  BY DEF AppInv, TypeOK, SessionOK, TaskOK, GoodTask, OtherOK
<1> QED
  BY <1>1, AppInit, AppStep, PTL DEF Spec

(***************************************************************************)
(* The idle timer belongs to the current session and to a state that waits *)
(* for the customer, whatever handlers overlap and whatever fails.         *)
(***************************************************************************)
THEOREM TimerNeverStale == Spec => []TimerOwner
<1>1. AppInv => TimerOwner
  BY DEF AppInv, SessionOK
<1> QED
  BY <1>1, AppInit, AppStep, PTL DEF Spec

-----------------------------------------------------------------------------
(***************************************************************************)
(* No STAN is both paid and reversed.  One STAN is drawn per withdrawal    *)
(* and stays with its handler from authorize over dispense to reverse      *)
(* (StanDrawn).  Until its dispense succeeds it is not paid (UnpaidOK),    *)
(* and until its dispense is over no row of it is reversed (UnreversedOK). *)
(***************************************************************************)
StanOps == {"authorize", "dispense", "reverse"}

Unpaid(w) == w.pc \in {"authorize", "reverse"} \/ (w.pc = "dispense" /\ w.res # "ok")

Unreversed(w) == w.pc \in {"authorize", "dispense"}

ReversedRow(a, d, i, s) ==
    rows[a][d][i].stanNo = s /\ rows[a][d][i].status = "REVERSED"

StanDrawn ==
    /\ \A t \in Tasks : task[t].pc \in StanOps => task[t].stanNo < stanCounter
    /\ \A t, u \in Tasks :
          task[t].pc \in StanOps /\ task[u].pc \in StanOps /\ t # u
              => task[t].stanNo # task[u].stanNo
    /\ \A s \in paid : s < stanCounter
    /\ \A a \in Accounts, d \in Days : \A i \in DOMAIN rows[a][d] :
          rows[a][d][i].stanNo < stanCounter

UnpaidOK == \A t \in Tasks : Unpaid(task[t]) => task[t].stanNo \notin paid

UnreversedOK ==
    \A t \in Tasks : Unreversed(task[t]) =>
        \A a \in Accounts, d \in Days : \A i \in DOMAIN rows[a][d] :
            ~ ReversedRow(a, d, i, task[t].stanNo)

StanInv == StanDrawn /\ UnpaidOK /\ UnreversedOK /\ NeverPaidAndReversed

LEMMA StanInit == Init => StanInv
BY AppAssumption
   DEF Init, LedgerInit, StanInv, StanDrawn, UnpaidOK, UnreversedOK, NeverPaidAndReversed,
       Idle, StanOps, Unpaid, Unreversed

(* Handler v goes on as w with the same STAN, or with none.                *)
Carries(w, v) ==
    \/ w.pc \notin StanOps
    \/ /\ v.pc \in StanOps
       /\ w.stanNo = v.stanNo
       /\ Unpaid(w) => Unpaid(v)
       /\ Unreversed(w) => Unreversed(v)

LEMMA StanKept ==
    ASSUME StanInv, UNCHANGED <<ledgerVars, paid, stanCounter>>,
           \A u \in Tasks : Carries(task'[u], task[u])
    PROVE  StanInv'
<1> USE DEF ledgerVars, Carries
<1>1. StanDrawn'
  BY DEF StanInv, StanDrawn
<1>2. UnpaidOK'
  BY DEF StanInv, UnpaidOK, Unpaid, StanOps
<1>3. UnreversedOK'
  BY DEF StanInv, UnreversedOK, Unreversed, StanOps, ReversedRow
<1>4. NeverPaidAndReversed'
  BY DEF StanInv, NeverPaidAndReversed
<1> QED
  BY <1>1, <1>2, <1>3, <1>4 DEF StanInv

(* The ways one handler moves on without drawing a STAN.                   *)
Plain(t) ==
    \/ UNCHANGED task
    \/ Finish(t)
    \/ EjectAndEnd(t)
    \/ markError(t)
    \/ \E op \in Ops \ StanOps :
          \E w : w.pc = op /\ Wait(t, w)
    \/ task[t].res = "pending" /\ \E r \in Results : Resolve(t, r)

LEMMA PlainCarries ==
    ASSUME TaskOK, NEW t \in Tasks, Plain(t)
    PROVE  \A u \in Tasks : Carries(task'[u], task[u])
<1>1. ASSUME NEW u \in Tasks, task'[u] = task[u] PROVE Carries(task'[u], task[u])
  BY <1>1 DEF Carries
<1>2. CASE UNCHANGED task
  BY <1>1, <1>2
<1>3. ASSUME NEW w, Wait(t, w), w.pc \notin StanOps
      PROVE  \A u \in Tasks : Carries(task'[u], task[u])
  <2>1. task'[t].pc \notin StanOps
    BY <1>3 DEF Wait, TaskOK
  <2> QED
    BY <1>1, <1>3, <2>1, OneTask DEF Carries
<1>4. CASE Finish(t)
  BY <1>3, <1>4 DEF Finish, Wait, Idle, StanOps
<1>5. CASE EjectAndEnd(t)
  <2>1. Await("eject").pc = "eject" /\ Idle.pc = "idle"
    BY DEF Await, Idle
  <2>2. \A i : [Await("endRow") EXCEPT !.sid = i].pc = "endRow"
    BY DEF Await
  <2> QED
    BY <1>3, <1>5, <2>1, <2>2 DEF EjectAndEnd, StanOps
<1>6. CASE markError(t)
  BY <1>4, <1>5, <1>6 DEF markError
<1>7. CASE \E op \in Ops \ StanOps : \E w : w.pc = op /\ Wait(t, w)
  BY <1>3, <1>7
<1>8. ASSUME task[t].res = "pending", NEW r \in Results, Resolve(t, r)
      PROVE  \A u \in Tasks : Carries(task'[u], task[u])
  <2>1. task[t] \in Waiting
    BY <1>8 DEF TaskOK, GoodTask, Idle
  <2>2. task'[t] = [task[t] EXCEPT !.res = r]
    BY <1>8 DEF Resolve, TaskOK
  <2>3. task'[t].pc = task[t].pc /\ task'[t].stanNo = task[t].stanNo
    BY <2>1, <2>2 DEF Waiting
  <2>4. Carries(task'[t], task[t])
    BY <1>8, <2>3 DEF Carries, Unpaid, Unreversed, StanOps
  <2> QED
    BY <1>1, <1>8, <2>4, OneTask
<1> QED
  BY <1>2, <1>4, <1>5, <1>6, <1>7, <1>8 DEF Plain

LEMMA PlainKeeps ==
    ASSUME AppInv, StanInv, NEW t \in Tasks, Plain(t), UNCHANGED <<ledgerVars, paid, stanCounter>>
    PROVE  StanInv'
BY PlainCarries, StanKept DEF AppInv

(* The steps that leave the ledger, the STAN counter and the cash alone.   *)
QuietAction(t) ==
    \/ \E p \in Cards : InsertCard(t, p)
    \/ BeginPinEntry(t)
    \/ \E txn \in Txns : SelectTransaction(t, txn)
    \/ CancelTransaction(t) \/ IdleTimeout(t) \/ Fail(t)
    \/ CreateRow(t) \/ EndRow(t) \/ ReadTrack(t) \/ LeaveReader(t) \/ PrintForm(t)
    \/ Authenticate(t) \/ VerifyPin(t) \/ HostRetainCard(t)
    \/ GetBalance(t) \/ HostDeclines(t)
    \/ Reject(t) \/ AfterCreateRow(t) \/ AfterReadTrack(t) \/ AfterAuthenticate(t)
    \/ AfterGetPin(t) \/ AfterVerifyPinOk(t) \/ AfterVerifyPinNo(t) \/ AfterRetainDev(t)
    \/ AfterRetainHost(t) \/ AfterGetBalance(t) \/ AfterAuthorizeNo(t)
    \/ AfterDispenseOk(t) \/ AfterReverse(t) \/ AfterPrint(t)
    \/ AfterEject(t) \/ AfterEndRow(t)

Quiet(t) == Plain(t) /\ UNCHANGED <<ledgerVars, cash, paid, stanCounter>>

LEMMA QuietSteps ==
    ASSUME AppInv, NEW t \in Tasks, QuietAction(t)
    PROVE  Quiet(t)
<1> USE DEF otherVars, deviceVars, cardVars, historyVars, appVars
<1>0. TaskOK
  BY DEF AppInv
<1>1. \A op \in Ops : Await(op).pc = op
  BY DEF Await
<1>2. ASSUME NEW op \in Ops \ StanOps, NEW w, w.pc = op, Wait(t, w) PROVE Plain(t)
  BY <1>2 DEF Plain
<1>3. {"createRow", "readTrack", "authenticate", "getPin", "verifyPin", "retainDev", "retainHost",
       "getBalance", "print", "eject", "endRow"} \subseteq Ops \ StanOps
  BY DEF Ops, StanOps
<1>4. ASSUME NEW r \in Results, task[t].res = "pending", Resolve(t, r) PROVE Plain(t)
  BY <1>4 DEF Plain
<1>5. ASSUME UNCHANGED task \/ Finish(t) \/ EjectAndEnd(t) \/ markError(t) PROVE Plain(t)
  BY <1>5 DEF Plain
<1>6. ASSUME NEW p \in Cards, InsertCard(t, p) PROVE Quiet(t)
  <2> DEFINE w == [Await("createRow") EXCEPT !.sid = lastId + 1, !.pan = p]
  <2>1. w.pc = "createRow" /\ Wait(t, w)
    BY <1>6 DEF Await, InsertCard
  <2> HIDE DEF w
  <2>2. Plain(t)
    BY <1>2, <1>3, <2>1
  <2> QED
    BY <1>6, <2>2 DEF Quiet, InsertCard
<1>7. CASE BeginPinEntry(t)
  <2> DEFINE w == [Await("getPin") EXCEPT !.sid = session.id]
  <2>1. w.pc = "getPin" /\ Wait(t, w)
    BY <1>7 DEF Await, BeginPinEntry
  <2> HIDE DEF w
  <2>2. Plain(t)
    BY <1>2, <1>3, <2>1
  <2> QED
    BY <1>7, <2>2 DEF Quiet, BeginPinEntry
<1>8. ASSUME NEW txn \in Txns, SelectTransaction(t, txn) PROVE Quiet(t)
  <2>1. CASE txn = "WITHDRAWAL"
    BY <1>5, <1>8, <2>1 DEF Quiet, SelectTransaction
  <2>2. CASE txn = "BALANCE"
    <3> DEFINE s == [session EXCEPT !.selectedTxn = txn]
               w == [Await("getBalance") EXCEPT !.pan = s.cardPan]
    <3>1. w.pc = "getBalance" /\ Wait(t, w)
      BY <1>8, <2>2 DEF Await, SelectTransaction
    <3> HIDE DEF w
    <3>2. Plain(t)
      BY <1>2, <1>3, <3>1
    <3> QED
      BY <1>8, <3>2 DEF Quiet, SelectTransaction
  <2>3. CASE txn \notin {"WITHDRAWAL", "BALANCE"}
    BY <1>5, <1>8, <2>3 DEF Quiet, SelectTransaction
  <2> QED
    BY <2>1, <2>2, <2>3
<1>9. CASE CancelTransaction(t) \/ IdleTimeout(t) \/ Reject(t) \/ AfterVerifyPinOk(t)
           \/ AfterAuthorizeNo(t) \/ AfterReverse(t) \/ AfterPrint(t) \/ AfterEndRow(t)
  BY <1>5, <1>9 DEF Quiet, CancelTransaction, IdleTimeout, Reject, AfterVerifyPinOk,
        AfterAuthorizeNo, AfterReverse, AfterPrint, AfterEndRow
<1>10. CASE Fail(t) \/ CreateRow(t) \/ EndRow(t) \/ ReadTrack(t) \/ LeaveReader(t)
            \/ PrintForm(t) \/ Authenticate(t) \/ HostRetainCard(t) \/ GetBalance(t)
            \/ HostDeclines(t)
  BY <1>4, <1>10 DEF Quiet, Fail, CreateRow, EndRow, ReadTrack, LeaveReader, PrintForm,
        Authenticate, HostRetainCard, GetBalance, HostDeclines, Pending, Results
<1>11. CASE VerifyPin(t)
  <2>1. \E r \in Results : Resolve(t, r)
    BY <1>11 DEF VerifyPin, Results
  <2> QED
    BY <1>4, <1>11, <2>1 DEF Quiet, VerifyPin, Pending
<1>12. CASE AfterCreateRow(t)
  <2>1. task[t] \in Waiting
    BY <1>0, <1>12, ActiveTask DEF AfterCreateRow, Resumes, Ops
  <2>2. [task[t] EXCEPT !.pc = "readTrack", !.res = "pending"].pc = "readTrack"
    BY <2>1 DEF Waiting
  <2>3. Plain(t)
    BY <1>2, <1>3, <1>5, <1>12, <2>2 DEF AfterCreateRow
  <2> QED
    BY <1>12, <2>3 DEF Quiet, AfterCreateRow
<1>13. CASE AfterReadTrack(t)
  <2>1. task[t] \in Waiting
    BY <1>0, <1>13, ActiveTask DEF AfterReadTrack, Resumes, Ops
  <2>2. [task[t] EXCEPT !.pc = "authenticate", !.res = "pending"].pc = "authenticate"
    BY <2>1 DEF Waiting
  <2>3. Plain(t)
    BY <1>2, <1>3, <1>5, <1>13, <2>2 DEF AfterReadTrack
  <2> QED
    BY <1>13, <2>3 DEF Quiet, AfterReadTrack
<1>14. CASE AfterAuthenticate(t)
  BY <1>5, <1>14 DEF Quiet, AfterAuthenticate
<1>15. CASE AfterGetPin(t)
  <2> DEFINE w == [Await("verifyPin") EXCEPT !.pan = session.cardPan, !.typed = pinBuffer,
                      !.sid = session.id]
  <2>1. w.pc = "verifyPin" /\ (Finish(t) \/ Wait(t, w))
    BY <1>15 DEF Await, AfterGetPin
  <2> HIDE DEF w
  <2>2. Plain(t)
    BY <1>2, <1>3, <1>5, <2>1
  <2> QED
    BY <1>15, <2>2 DEF Quiet, AfterGetPin
<1>16. CASE AfterVerifyPinNo(t) \/ AfterGetBalance(t) \/ AfterDispenseOk(t)
  <2>1. Finish(t) \/ Wait(t, Await("retainDev")) \/ Wait(t, Await("print"))
    BY <1>16 DEF AfterVerifyPinNo, AfterGetBalance, AfterDispenseOk
  <2>2. Plain(t)
    BY <1>1, <1>2, <1>3, <1>5, <2>1
  <2> QED
    BY <1>16, <2>2 DEF Quiet, AfterVerifyPinNo, AfterGetBalance, AfterDispenseOk
<1>17. CASE AfterRetainDev(t) \/ AfterRetainHost(t) \/ AfterEject(t)
  <2> DEFINE v == [Await("retainHost") EXCEPT !.pan = session.cardPan]
             w == [Await("endRow") EXCEPT !.sid = session.id]
  <2>1. v.pc = "retainHost" /\ w.pc = "endRow" /\ (Finish(t) \/ Wait(t, v) \/ Wait(t, w))
    BY <1>17 DEF Await, AfterRetainDev, AfterRetainHost, AfterEject
  <2> HIDE DEF v, w
  <2>2. Plain(t)
    BY <1>2, <1>3, <1>5, <2>1
  <2> QED
    BY <1>17, <2>2 DEF Quiet, AfterRetainDev, AfterRetainHost, AfterEject
<1> QED
  BY <1>6, <1>7, <1>8, <1>9, <1>10, <1>11, <1>12, <1>13, <1>14, <1>15, <1>16, <1>17 DEF QuietAction

LEMMA StanPlainStep ==
    ASSUME AppInv, StanInv, NEW t \in Tasks, QuietAction(t)
    PROVE  StanInv'
BY QuietSteps, PlainKeeps DEF Quiet

(* The keys, the amount and the arming of an entry.                        *)
LEMMA StanPadStep ==
    ASSUME AppInv, StanInv,
           \/ Keys \/ CancelEntry
           \/ \E amt \in Amounts : SubmitAmount(amt)
           \/ \E t \in Tasks : ArmPinEntry(t)
    PROVE  StanInv'
<1> USE DEF otherVars, deviceVars, cardVars, historyVars, appVars
<1>0. TaskOK /\ UNCHANGED <<ledgerVars, paid, stanCounter>>
  BY DEF AppInv, Keys, PressDigits, PressClear, PressEnter, CancelEntry, SubmitAmount, ArmPinEntry
<1>1. CASE UNCHANGED task
  BY <1>0, <1>1, StanKept DEF Carries
<1>2. CASE PressEnter \/ CancelEntry
  <2>1. entry # NoTask /\ (Resolve(entry, "ok") \/ Resolve(entry, "fail"))
    BY <1>2 DEF PressEnter, CancelEntry
  <2>2. entry \in Tasks /\ task[entry].res = "pending"
    BY <2>1, EntryTask DEF AppInv, EntryOK
  <2>3. Plain(entry)
    BY <2>1, <2>2 DEF Plain, Results
  <2> QED
    BY <1>0, <2>2, <2>3, PlainKeeps
<1>3. ASSUME NEW t \in Tasks, ArmPinEntry(t) PROVE StanInv'
  <2>1. ASSUME NEW u \in Tasks PROVE Carries(task'[u], task[u])
    <3>1. CASE u # entry
      <4>1. task'[u] = task[u]
        BY <1>3, <3>1 DEF ArmPinEntry
      <4> QED
        BY <4>1 DEF Carries
    <3>2. CASE u = entry
      <4>1. task[u] \in Waiting /\ task[u].pc = "getPin"
        BY <1>0, <3>2, AppAssumption, ActiveTask, EntryTask
      <4>2. task'[u] = [task[u] EXCEPT !.res = "fail"]
        BY <1>3, <3>2 DEF ArmPinEntry
      <4>3. task'[u].pc = "getPin"
        BY <4>1, <4>2 DEF Waiting
      <4> QED
        BY <4>3 DEF Carries, StanOps
    <3> QED
      BY <3>1, <3>2
  <2> QED
    BY <1>0, <2>1, StanKept
<1> QED
  BY <1>1, <1>2, <1>3 DEF Keys, PressDigits, PressClear, SubmitAmount

(* A dispense or a reversal begins with the STAN of what came before it.   *)
LEMMA StanHandOver ==
    ASSUME AppInv, StanInv, NEW t \in Tasks, AfterAuthorizeOk(t) \/ AfterDispenseFail(t)
    PROVE  StanInv'
<1> USE DEF otherVars, historyVars
<1>0. TaskOK /\ UNCHANGED <<ledgerVars, paid, stanCounter>>
  BY DEF AppInv, AfterAuthorizeOk, AfterDispenseFail
<1>1. CASE Finish(t)
  BY <1>0, <1>1, PlainKeeps DEF Plain
<1>2. CASE ~ Finish(t)
  <2>1. task[t] \in Waiting
    BY <1>0, ActiveTask DEF AfterAuthorizeOk, AfterDispenseFail, Resumes, Ops
  <2> DEFINE v == [task[t] EXCEPT !.pc = "dispense", !.res = "pending", !.amount = session.amount]
             w == [task[t] EXCEPT !.pc = "reverse", !.res = "pending",
                      !.account = session.accountId, !.amount = session.amount]
  <2>2. \/ Resumes(t, "authorize", "ok") /\ Wait(t, v)
        \/ Resumes(t, "dispense", "fail") /\ Wait(t, w)
    BY <1>2 DEF AfterAuthorizeOk, AfterDispenseFail
  <2>3. /\ v.pc = "dispense" /\ v.res = "pending" /\ v.stanNo = task[t].stanNo
        /\ w.pc = "reverse" /\ w.res = "pending" /\ w.stanNo = task[t].stanNo
    BY <2>1 DEF Waiting
  <2> HIDE DEF v, w
  <2>4. \/ task'[t] = v /\ Resumes(t, "authorize", "ok")
        \/ task'[t] = w /\ Resumes(t, "dispense", "fail")
    <3>1. DOMAIN task = Tasks
      BY <1>0 DEF TaskOK
    <3> QED
      BY <2>2, <3>1 DEF Wait
  <2>5. Carries(task'[t], task[t])
    BY <2>3, <2>4 DEF Carries, Resumes, StanOps, Unpaid, Unreversed
  <2>6. \A u \in Tasks : u # t => task'[u] = task[u]
    BY <1>0, <2>2, OneTask
  <2>7. \A u \in Tasks : Carries(task'[u], task[u])
    BY <2>5, <2>6 DEF Carries
  <2> QED
    BY <1>0, <2>7, StanKept
<1> QED
  BY <1>1, <1>2

(* The rows carry STANs.                                                   *)
LEMMA RowStan ==
    ASSUME LedgerTypeOK
    PROVE  \A a \in Accounts, d \in Days : \A i \in DOMAIN rows[a][d] : rows[a][d][i].stanNo \in Nat
<1>1. ASSUME NEW a \in Accounts, NEW d \in Days, NEW i \in DOMAIN rows[a][d]
      PROVE  rows[a][d][i].stanNo \in Nat
  <2>1. rows[a][d] \in Seq(Row)
    BY DEF LedgerTypeOK
  <2>2. rows[a][d][i] \in Row
    BY <2>1
  <2>3. rows[a][d][i].stanNo \in Stans
    BY <2>2 DEF Row
  <2> QED
    BY <2>3, LedgerAssumption
<1> QED
  BY <1>1

(* A new withdrawal draws a STAN that nothing carries yet.                 *)
LEMMA StanDraw ==
    ASSUME AppInv, StanInv, NEW t \in Tasks, ConfirmTransaction(t)
    PROVE  StanInv'
<1> USE DEF historyVars
<1>0. TaskOK /\ stanCounter \in Nat /\ UNCHANGED <<ledgerVars, paid>>
  BY DEF AppInv, ConfirmTransaction, OtherOK
<1>1. CASE UNCHANGED stanCounter /\ (markError(t) \/ UNCHANGED task)
  BY <1>0, <1>1, PlainKeeps DEF Plain
<1> DEFINE w == [Await("authorize") EXCEPT !.pan = session.cardPan,
                    !.amount = session.amount, !.stanNo = stanCounter]
<1>2. CASE Wait(t, w) /\ stanCounter' = stanCounter + 1
  <2>1. w.pc = "authorize" /\ w.stanNo = stanCounter
    BY DEF Await
  <2> HIDE DEF w
  <2>2. task'[t] = w /\ \A u \in Tasks : u # t => task'[u] = task[u]
    BY <1>0, <1>2, OneTask DEF Wait, TaskOK
  <2>3. \A u \in Tasks : task[u].pc \in StanOps => task[u].stanNo \in Nat
    BY <1>0, LedgerAssumption, ActiveTask DEF ArgsOK, StanOps, Ops
  <2>4. \A a \in Accounts, d \in Days : \A i \in DOMAIN rows[a][d] : rows[a][d][i].stanNo \in Nat
    BY RowStan DEF AppInv
  <2>5. \A s \in paid : s \in Nat
    BY LedgerAssumption DEF AppInv, OtherOK
  <2>6. StanDrawn'
    BY <1>0, <1>2, <2>1, <2>2, <2>3, <2>4, <2>5 DEF StanInv, StanDrawn, StanOps, ledgerVars
  <2>7. UnpaidOK'
    BY <1>0, <2>1, <2>2, <2>5 DEF StanInv, UnpaidOK, Unpaid, StanDrawn
  <2>8. UnreversedOK'
    BY <1>0, <2>1, <2>2, <2>4
       DEF StanInv, UnreversedOK, Unreversed, StanDrawn, ReversedRow, ledgerVars
  <2>9. NeverPaidAndReversed'
    BY <1>0 DEF StanInv, NeverPaidAndReversed, ledgerVars
  <2> QED
    BY <2>6, <2>7, <2>8, <2>9 DEF StanInv
<1>3. QED
  BY <1>1, <1>2 DEF ConfirmTransaction

(* The dispenser pays: the STAN is paid, and no row of it is reversed.     *)
LEMMA StanPaid ==
    ASSUME AppInv, StanInv, NEW t \in Tasks, Dispense(t)
    PROVE  StanInv'
<1>0. TaskOK /\ UNCHANGED <<ledgerVars, stanCounter>> /\ Pending(t, "dispense")
  BY DEF AppInv, Dispense
<1>1. CASE task[t].amount = 0
  <2>1. Plain(t) /\ UNCHANGED paid
    BY <1>0, <1>1 DEF Dispense, Plain, Results, Pending
  <2> QED
    BY <1>0, <2>1, PlainKeeps
<1>2. CASE task[t].amount # 0
  <2>1. Resolve(t, "ok") /\ paid' = paid \cup {task[t].stanNo}
    BY <1>2 DEF Dispense
  <2>2. task[t] \in Waiting /\ task'[t] = [task[t] EXCEPT !.res = "ok"]
    BY <1>0, <2>1, PendingTask DEF Pending, Resolve, TaskOK
  <2>3. task'[t].pc = "dispense" /\ task'[t].res = "ok" /\ task'[t].stanNo = task[t].stanNo
    BY <1>0, <2>2 DEF Waiting, Pending
  <2>4. \A u \in Tasks : u # t => task'[u] = task[u]
    BY <1>0, <2>1, OneTask
  <2>5. task[t].pc = "dispense"
    BY <1>0 DEF Pending
  <2>6. StanDrawn'
    BY <1>0, <2>1, <2>3, <2>4, <2>5 DEF StanInv, StanDrawn, StanOps, ledgerVars
  <2>7. UnpaidOK'
    BY <1>0, <2>1, <2>3, <2>4, <2>5 DEF StanInv, StanDrawn, UnpaidOK, Unpaid, StanOps
  <2>8. UnreversedOK'
    BY <1>0, <2>3, <2>4, <2>5 DEF StanInv, UnreversedOK, Unreversed, ReversedRow, ledgerVars
  <2>9. NeverPaidAndReversed'
    BY <1>0, <2>1, <2>5
       DEF StanInv, NeverPaidAndReversed, UnreversedOK, Unreversed, ReversedRow, ledgerVars
  <2> QED
    BY <2>6, <2>7, <2>8, <2>9 DEF StanInv
<1> QED
  BY <1>1, <1>2

(* The host approves: one more row, which is not reversed.                 *)
LEMMA StanApproved ==
    ASSUME AppInv, StanInv, NEW t \in Tasks, HostApproves(t)
    PROVE  StanInv'
<1> USE AppAssumption DEF otherVars, historyVars
<1> DEFINE a == AccountOf[task[t].pan]
           s == task[t].stanNo
<1>0. TaskOK /\ LedgerTypeOK /\ UNCHANGED <<stanCounter, paid>> /\ Pending(t, "authorize")
  BY DEF AppInv, HostApproves
<1>1. a \in Accounts /\ task[t].amount \in Amounts /\ s \in Stans
  BY <1>0, PendingTask DEF Pending, ArgsOK
<1>2. Debit(a, task[t].amount, s) /\ Resolve(t, "ok")
  BY DEF HostApproves, Approve
<1>3. \A u \in Tasks : Carries(task'[u], task[u])
  BY <1>0, <1>2, PlainCarries DEF Plain, Results, Pending
<1>4. task[t].pc \in StanOps
  BY <1>0 DEF Pending, StanOps
<1> HIDE DEF a, s
<1>5. ASSUME NEW b \in Accounts, NEW e \in Days, NEW j \in DOMAIN rows'[b][e]
      PROVE  \/ j \in DOMAIN rows[b][e] /\ rows'[b][e][j] = rows[b][e][j]
             \/ rows'[b][e][j].stanNo = s /\ rows'[b][e][j].status = "COMPLETED"
  <2> DEFINE n == Len(rows[a][today]) + 1
             new == [stanNo |-> s, amount |-> task[t].amount, status |-> "COMPLETED"]
  <2>1. /\ j \in DOMAIN rows[b][e] => rows'[b][e][j] = rows[b][e][j]
        /\ j \in DOMAIN rows[b][e] \/ (b = a /\ e = today /\ j = n)
        /\ rows'[a][today][n] = new
    BY <1>0, <1>1, <1>2, RowsAfterDebit
  <2>2. new.stanNo = s /\ new.status = "COMPLETED"
    OBVIOUS
  <2> HIDE DEF n, new
  <2> QED
    BY <2>1, <2>2
<1>6. s < stanCounter
  BY <1>4 DEF s, StanInv, StanDrawn
<1>7. StanDrawn'
  BY <1>0, <1>3, <1>5, <1>6 DEF StanInv, StanDrawn, Carries
<1>8. UnpaidOK'
  BY <1>0, <1>3 DEF StanInv, UnpaidOK, Unpaid, Carries, StanOps
<1>9. UnreversedOK'
  BY <1>3, <1>5 DEF StanInv, UnreversedOK, Unreversed, Carries, StanOps, ReversedRow
<1>10. NeverPaidAndReversed'
  BY <1>0, <1>5 DEF StanInv, NeverPaidAndReversed
<1> QED
  BY <1>7, <1>8, <1>9, <1>10 DEF StanInv

(* The host reverses: the rows of a STAN that was not paid.                *)
LEMMA StanReversed ==
    ASSUME AppInv, StanInv, NEW t \in Tasks, ReverseTransaction(t)
    PROVE  StanInv'
<1> USE DEF otherVars, historyVars
<1> DEFINE s == task[t].stanNo
<1>0. TaskOK /\ LedgerTypeOK /\ UNCHANGED <<stanCounter, paid>> /\ Pending(t, "reverse")
  BY DEF AppInv, ReverseTransaction
<1>1. Plain(t)
  BY <1>0 DEF ReverseTransaction, Plain, Results, Pending
<1>2. CASE UNCHANGED ledgerVars
  BY <1>0, <1>1, <1>2, PlainKeeps
<1>3. CASE ~ UNCHANGED ledgerVars
  <2>1. /\ task[t].account # NoAccount /\ task[t].amount # 0
        /\ Credit(task[t].account, task[t].amount, s)
    BY <1>3 DEF ReverseTransaction
  <2>2. task[t] \in Waiting /\ s \in Stans
    BY <1>0, PendingTask DEF Pending, ArgsOK
  <2>3. task[t].account \in Accounts /\ task[t].amount \in Amounts
    BY <2>1, <2>2 DEF Waiting
  <2>4. \A u \in Tasks : Carries(task'[u], task[u])
    BY <1>0, <1>1, PlainCarries
  <2>5. task[t].pc = "reverse"
    BY <1>0 DEF Pending
  <2> HIDE DEF s
  <2>6. ASSUME NEW b \in Accounts, NEW e \in Days, NEW j \in DOMAIN rows'[b][e]
        PROVE  \/ /\ j \in DOMAIN rows[b][e]
                  /\ rows'[b][e][j].stanNo = rows[b][e][j].stanNo
                  /\ rows'[b][e][j].status = "REVERSED" =>
                        rows[b][e][j].status = "REVERSED" \/ rows[b][e][j].stanNo = s
               \/ rows'[b][e][j].stanNo = s
    <3>1. CASE j \notin DOMAIN rows[b][e]
      BY <1>0, <2>1, <2>2, <2>3, <3>1, RowsAfterCredit
    <3>2. CASE j \in DOMAIN rows[b][e]
      <4>1. /\ rows'[b][e][j].stanNo = rows[b][e][j].stanNo
            /\ rows'[b][e][j].status = "COMPLETED" <=>
                   (rows[b][e][j].status = "COMPLETED" /\ rows[b][e][j].stanNo # s)
        BY <1>0, <2>1, <2>2, <2>3, <3>2, RowsAfterCredit
      <4>2. rows[b][e] \in Seq(Row)
        BY <1>0 DEF LedgerTypeOK
      <4>3. rows[b][e][j] \in Row
        BY <3>2, <4>2
      <4>4. rows[b][e][j].status \in Status
        BY <4>3 DEF Row
      <4> QED
        BY <3>2, <4>1, <4>4 DEF Status
    <3> QED
      BY <3>1, <3>2
  <2>7. s < stanCounter /\ s \notin paid
    BY <2>5 DEF s, StanInv, StanDrawn, UnpaidOK, Unpaid, StanOps
  <2>8. \A u \in Tasks : u # t /\ task[u].pc \in StanOps => task[u].stanNo # s
    BY <2>5 DEF s, StanInv, StanDrawn, StanOps
  <2>9. StanDrawn'
    BY <1>0, <2>4, <2>6, <2>7 DEF StanInv, StanDrawn, Carries
  <2>10. UnpaidOK'
    BY <1>0, <2>4 DEF StanInv, UnpaidOK, Unpaid, Carries, StanOps
  <2>11. UnreversedOK'
    <3> SUFFICES ASSUME NEW u \in Tasks, Unreversed(task'[u]),
                        NEW b \in Accounts, NEW e \in Days, NEW j \in DOMAIN rows'[b][e],
                        rows'[b][e][j].stanNo = task'[u].stanNo,
                        rows'[b][e][j].status = "REVERSED"
                 PROVE  FALSE
      BY DEF UnreversedOK, Unreversed, ReversedRow
    <3>1. /\ task[u].pc \in StanOps /\ task'[u].stanNo = task[u].stanNo
          /\ Unreversed(task[u])
      BY <2>4 DEF Carries, Unreversed, StanOps
    <3>2. u # t
      BY <2>5, <3>1 DEF Unreversed
    <3>3. task[u].stanNo # s
      BY <2>8, <3>1, <3>2
    <3>4. /\ j \in DOMAIN rows[b][e]
          /\ rows[b][e][j].stanNo = task[u].stanNo
          /\ rows[b][e][j].status = "REVERSED"
      BY <2>6, <3>1, <3>3
    <3> QED
      BY <3>1, <3>4 DEF StanInv, UnreversedOK, ReversedRow
  <2>12. NeverPaidAndReversed'
    BY <1>0, <2>6, <2>7 DEF StanInv, NeverPaidAndReversed
  <2> QED
    BY <2>9, <2>10, <2>11, <2>12 DEF StanInv
<1> QED
  BY <1>2, <1>3

LEMMA StanStep == AppInv /\ StanInv /\ [Next]_vars => StanInv'
<1> SUFFICES ASSUME AppInv, StanInv, [Next]_vars PROVE StanInv'
    OBVIOUS
<1>1. ASSUME NEW t \in Tasks, Request(t) PROVE StanInv'
  BY <1>1, StanPlainStep, StanDraw DEF Request, QuietAction
<1>2. ASSUME NEW t \in Tasks, IdleTimeout(t) \/ Fail(t) PROVE StanInv'
  BY <1>2, StanPlainStep DEF QuietAction
<1>3. ASSUME NEW t \in Tasks, Effect(t) PROVE StanInv'
  BY <1>3, StanPlainStep, StanPadStep, StanApproved, StanPaid, StanReversed DEF Effect, QuietAction
<1>4. ASSUME NEW t \in Tasks, Continue(t) PROVE StanInv'
  BY <1>4, StanPlainStep, StanHandOver DEF Continue, QuietAction
<1>5. CASE UNCHANGED vars
  BY <1>5, StanKept DEF vars, otherVars, historyVars, Carries
<1> QED
  BY <1>1, <1>2, <1>3, <1>4, <1>5, StanPadStep DEF Next

(***************************************************************************)
(* No customer keeps the cash of a withdrawal that the host reversed, even *)
(* when handlers of several sessions overlap and any operation fails.      *)
(***************************************************************************)
THEOREM PaidIsNeverReversed == Spec => []NeverPaidAndReversed
<1>1. StanInv => NeverPaidAndReversed
  BY DEF StanInv
<1> QED
  BY <1>1, AppInit, AppStep, StanInit, StanStep, PTL DEF Spec

-----------------------------------------------------------------------------
(***************************************************************************)
(* People who act only while the machine waits for them.  The properties   *)
(* below are those of one handler at a time: Orderly says that requests,   *)
(* keys and timers come only while nothing runs, and that the operations   *)
(* without which a session is left half done do not fail.  Track reads,    *)
(* PIN checks, authorizations, dispenses, prints, balance queries and the  *)
(* host's note of a retained card may.                                     *)
(***************************************************************************)
Orderly ==
    /\ SlowOps = {}
    /\ FaultyOps \subseteq {"readTrack", "verifyPin", "retainHost", "getBalance", "authorize",
                            "dispense", "print"}

(* A handler that is not waiting for the customer's PIN.                   *)
Running(t) == task[t].pc # "idle" /\ (entry # t \/ task[t].res # "pending")

OneRuns == \A t, u \in Tasks : Running(t) /\ Running(u) => t = u

(* A session that is in one of the states S, with its row.                 *)
Open == session # NoSession /\ sessionRow[session.id] = "open"
At(S) == Open /\ session.state \in S

(* The customer may try a PIN: the card is good, and every wrong PIN of    *)
(* this session was counted by the host.                                   *)
TryingPin ==
    /\ At({"PIN_ENTRY"})
    /\ cardStatus[session.cardPan] = "ACTIVE"
    /\ session.failedPinAttempts <= failedPinCount[session.cardPan]

(* What the session is like while handler w waits.                         *)
Arriving(w) ==
    /\ session # NoSession /\ session.state = "CARD_INSERTED"
    /\ session.id = w.sid /\ session.cardPan = w.pan /\ session.failedPinAttempts = 0
    /\ w.pc = "createRow" => reader = NoCard /\ w.res \in {"pending", "ok"}
    /\ w.pc # "createRow" \/ w.res = "ok" => sessionRow[session.id] = "open"
    /\ w.pc \in {"readTrack", "authenticate"} => reader = w.pan
    /\ w.pc = "authenticate" => /\ w.res \in {"pending", "ok", "no"}
                                /\ w.res = "ok" => cardStatus[w.pan] = "ACTIVE"

Verifying(w) ==
    /\ At({"PIN_ENTRY"}) /\ session.id = w.sid /\ session.cardPan = w.pan
    /\ entry = NoTask /\ cardStatus[w.pan] = "ACTIVE"
    /\ w.res \in {"pending", "fail"} => session.failedPinAttempts <= failedPinCount[w.pan]
    /\ w.res = "ok" => w.sid \in proved
    /\ w.res \in {"no", "exceeded"} => session.failedPinAttempts < failedPinCount[w.pan]
    /\ w.res = "exceeded" => failedPinCount[w.pan] >= MaxPinAttempts

Retaining(w) ==
    /\ At({"PIN_ENTRY"})
    /\ session.failedPinAttempts <= failedPinCount[session.cardPan]
    /\ failedPinCount[session.cardPan] >= MaxPinAttempts
    /\ w.pc = "retainDev" \/ w.res # "ok" => cardStatus[session.cardPan] = "ACTIVE"
    /\ w.pc = "retainHost" => w.pan = session.cardPan
    /\ w.pc = "retainHost" \/ w.res # "pending" => reader = NoCard

Withdrawing(w) ==
    /\ At(IF w.pc = "authorize" THEN {"PROCESSING"} ELSE {"DISPENSING"})
    /\ w.pan = session.cardPan /\ w.amount = session.amount /\ w.amount # 0
    /\ w.pc = "reverse" => w.account = session.accountId /\ w.res \in {"pending", "ok"}
    /\ w.pc = "dispense" => w.res \in {"pending", "ok", "fail"}

Ending(w) ==
    /\ session # NoSession
    /\ w.pc = "eject" => Open /\ w.res \in {"pending", "ok"}
    /\ w.pc = "endRow" => /\ w.sid = session.id
                          /\ w.res = "pending" => Open
                          /\ w.res = "ok" => sessionRow[session.id] = "ended"
                          /\ w.res \in {"pending", "ok"}
    /\ w.pc = "endRow" \/ w.res # "pending" => reader = NoCard
    /\ w.pc = "eject" /\ w.res = "pending" => reader # NoCard

Scene(w) ==
    /\ w.pc \in {"createRow", "readTrack", "authenticate"} => Arriving(w)
    /\ w.pc = "getPin" => /\ session = NoSession \/ TryingPin
                          /\ w.res # "pending" /\ entry # NoTask => pinBuffer = "none"
    /\ w.pc = "verifyPin" => Verifying(w)
    /\ w.pc \in {"retainDev", "retainHost"} => Retaining(w)
    /\ w.pc = "getBalance" => At({"PROCESSING"})
    /\ w.pc \in {"authorize", "dispense", "reverse"} => Withdrawing(w)
    /\ w.pc = "print" => At({"PRINTING"})
    /\ w.pc \in {"eject", "endRow"} => Ending(w)

(* And while nothing runs.                                                 *)
AtRest ==
    \/ session = NoSession
    \/ TryingPin
    \/ At({"MAIN_MENU", "AMOUNT_ENTRY", "CONFIRM", "PROCESSING"})

(* At any time.                                                            *)
SessionSound ==
    session # NoSession =>
        /\ session.state \in AfterPin => session.id \in proved
        /\ session.state \in AfterPin \cup {"PIN_ENTRY"} => session.accountId = AccountOf[session.cardPan]
        /\ session.state \in {"AMOUNT_ENTRY", "CONFIRM"} => session.selectedTxn = "WITHDRAWAL"
        /\ session.state = "CONFIRM" => session.amount # 0
        /\ entry # NoTask => session.state \in {"CARD_INSERTED", "PIN_ENTRY", "ERROR"}

RowIsOwn == \A i \in Ids : sessionRow[i] = "open" => session # NoSession /\ session.id = i

StateSound == SessionSound /\ RowIsOwn /\ CardHasSession /\ RetainedAfterTries

OrderInv ==
    /\ OneRuns
    /\ \A t \in Tasks : Running(t) => Scene(task[t])
    /\ MachineIdle => AtRest
    /\ StateSound

(* The debit that handler w has made and not yet settled.                  *)
Owing(w) ==
    \/ w.pc = "authorize" /\ w.res = "ok"
    \/ w.pc = "dispense" /\ w.res # "ok"
    \/ w.pc = "reverse" /\ w.res # "ok"

DebitInv ==
    /\ \A t \in Tasks : Owing(task[t]) =>
          \A a \in Accounts :
              balance[a] + cash[a] + (IF a = AccountOf[task[t].pan] THEN task[t].amount ELSE 0)
                  = InitialBalance[a]
    /\ (\A t \in Tasks : ~ Owing(task[t])) =>
          \A a \in Accounts : balance[a] + cash[a] = InitialBalance[a]

-----------------------------------------------------------------------------
(* What the steps of one handler do to the tasks.                          *)

LEMMA Resolved ==
    ASSUME AppInv, NEW t \in Tasks, task[t].pc \in Ops, NEW r \in Results, Resolve(t, r)
    PROVE  /\ task'[t].pc = task[t].pc /\ task'[t].res = r
           /\ task'[t].sid = task[t].sid /\ task'[t].pan = task[t].pan
           /\ task'[t].account = task[t].account /\ task'[t].amount = task[t].amount
           /\ \A u \in Tasks : u # t => task'[u] = task[u]
<1>1. task[t] \in Waiting /\ t \in DOMAIN task
  BY ActiveTask DEF AppInv, TaskOK
<1>2. task'[t] = [task[t] EXCEPT !.res = r] /\ \A u \in Tasks : u # t => task'[u] = task[u]
  BY <1>1 DEF Resolve, AppInv, TaskOK
<1> QED
  BY <1>1, <1>2 DEF Waiting

LEMMA Waited ==
    ASSUME AppInv, NEW t \in Tasks, NEW w, Wait(t, w)
    PROVE  task'[t] = w /\ \A u \in Tasks : u # t => task'[u] = task[u]
BY DEF AppInv, TaskOK, Wait

LEMMA Finished ==
    ASSUME AppInv, NEW t \in Tasks, Finish(t)
    PROVE  task'[t].pc = "idle" /\ \A u \in Tasks : u # t => task'[u] = task[u]
BY DEF AppInv, TaskOK, Finish, Idle

LEMMA SameOps ==
    ASSUME NEW op
    PROVE  /\ Await(op).pc = op /\ Await(op).res = "pending"
           /\ \A i : /\ [Await(op) EXCEPT !.sid = i].pc = op
                     /\ [Await(op) EXCEPT !.sid = i].res = "pending"
                     /\ [Await(op) EXCEPT !.sid = i].sid = i
           /\ \A p : /\ [Await(op) EXCEPT !.pan = p].pc = op
                     /\ [Await(op) EXCEPT !.pan = p].res = "pending"
                     /\ [Await(op) EXCEPT !.pan = p].pan = p
BY DEF Await

(* A handler that goes on is alone.                                        *)
LEMMA Alone ==
    ASSUME AppInv, OrderInv, NEW t \in Tasks, Running(t)
    PROVE  /\ entry # t /\ Scene(task[t]) /\ StateSound
           /\ \A u \in Tasks : u # t => ~ Running(u)
<1>1. entry # t
  BY AppAssumption DEF AppInv, EntryOK, Running
<1> QED
  BY <1>1 DEF OrderInv, OneRuns

LEMMA PendingRuns ==
    ASSUME AppInv, NEW t \in Tasks, NEW op \in Ops, op # "getPin", Pending(t, op)
    PROVE  Running(t)
BY AppAssumption DEF AppInv, EntryOK, Running, Pending, Ops

LEMMA ResumedRuns ==
    ASSUME NEW t \in Tasks, task[t].pc \in Ops, task[t].res # "pending"
    PROVE  Running(t)
BY DEF Running, Ops

(* The invariant after a step of one handler.                              *)
LEMMA HandlerStep ==
    ASSUME AppInv, OrderInv, NEW t \in Tasks,
           Running(t) \/ (MachineIdle /\ task[t].pc = "idle"),
           entry' = entry,
           \A u \in Tasks : u # t => task'[u] = task[u],
           StateSound',
           task'[t].pc # "idle" => Scene(task[t])',
           task'[t].pc = "idle" => AtRest'
    PROVE  OrderInv'
<1>1. entry # t
  BY AppAssumption DEF AppInv, EntryOK, Running
<1>2. \A u \in Tasks : u # t => ~ Running(u)
  BY Alone DEF MachineIdle, Running
<1>3. \A u \in Tasks : Running(u)' => u = t /\ task'[t].pc # "idle"
  BY <1>1, <1>2 DEF Running
<1>4. task'[t].pc # "idle" => ~ MachineIdle'
  BY <1>1 DEF MachineIdle
<1>5. \A u \in Tasks : Running(u)' => Scene(task[u])'
  BY <1>3
<1> QED
  BY <1>3, <1>4, <1>5 DEF OrderInv, OneRuns

(* The session, its row, its card and its counts stay as they are.         *)
LEMMA SoundKept ==
    ASSUME StateSound,
           UNCHANGED <<session, sessionRow, reader, cardStatus, failedPinCount, proved, entry>>
    PROVE  StateSound'
BY DEF StateSound, SessionSound, RowIsOwn, CardHasSession, RetainedAfterTries

(* The session moves to another state, and nothing else of it changes.     *)
Moved(st) ==
    /\ session # NoSession /\ session' # NoSession /\ session'.state = st
    /\ session'.id = session.id /\ session'.cardPan = session.cardPan
    /\ session'.accountId = session.accountId /\ session'.amount = session.amount
    /\ session'.failedPinAttempts = session.failedPinAttempts

LEMMA EnterMoves ==
    ASSUME AppInv, session # NoSession, NEW st \in AtmState,
           Enter(session, st) \/ transitionTo(st)
    PROVE  Moved(st) /\ session'.selectedTxn = session.selectedTxn
<1>1. session \in Session /\ session' = [session EXCEPT !.state = st]
  BY DEF AppInv, SessionOK, Enter, transitionTo
<1>2. session' \in Session
  BY <1>1 DEF Session
<1>3. session' # NoSession
  BY <1>2, SessionAssumption
<1> QED
  BY <1>1, <1>3 DEF Session, Moved

LEMMA MovedSound ==
    ASSUME StateSound, NEW st, Moved(st),
           st \notin {"AMOUNT_ENTRY", "CONFIRM"},
           st \in AfterPin => session.id \in proved,
           st \in AfterPin \cup {"PIN_ENTRY"} => session.accountId = AccountOf[session.cardPan],
           entry # NoTask => st \in {"CARD_INSERTED", "PIN_ENTRY", "ERROR"},
           UNCHANGED <<sessionRow, reader, cardStatus, failedPinCount, proved, entry>>
    PROVE  StateSound'
BY DEF StateSound, SessionSound, RowIsOwn, CardHasSession, RetainedAfterTries, Moved

(* safeEject and endSession, of the session that is open.                  *)
LEMMA EndScene ==
    ASSUME AppInv, NEW t \in Tasks, Open, EjectAndEnd(t),
           session' # NoSession, session'.id = session.id,
           UNCHANGED <<sessionRow, reader>>
    PROVE  /\ task'[t].pc \in {"eject", "endRow"} /\ Scene(task[t])'
           /\ \A u \in Tasks : u # t => task'[u] = task[u]
<1>1. session # NoSession /\ sessionRow[session.id] = "open"
  BY DEF Open
<1>2. CASE reader # NoCard
  <2>1. task'[t] = Await("eject") /\ \A u \in Tasks : u # t => task'[u] = task[u]
    BY <1>2, Waited DEF EjectAndEnd
  <2>2. task'[t].pc = "eject" /\ task'[t].res = "pending"
    BY <2>1, SameOps
  <2> QED
    BY <1>1, <1>2, <2>1, <2>2 DEF Scene, Ending, Open
<1>3. CASE reader = NoCard
  <2>1. /\ task'[t] = [Await("endRow") EXCEPT !.sid = session.id]
        /\ \A u \in Tasks : u # t => task'[u] = task[u]
    BY <1>1, <1>3, Waited DEF EjectAndEnd
  <2>2. task'[t].pc = "endRow" /\ task'[t].res = "pending" /\ task'[t].sid = session.id
    BY <2>1, SameOps
  <2> QED
    BY <1>1, <1>3, <2>1, <2>2 DEF Scene, Ending, Open
<1> QED
  BY <1>2, <1>3

LEMMA ErrorStep ==
    ASSUME AppInv, OrderInv, NEW t \in Tasks,
           Running(t) \/ (MachineIdle /\ task[t].pc = "idle"),
           Open, Moved("ERROR"), EjectAndEnd(t),
           UNCHANGED <<sessionRow, reader, cardStatus, failedPinCount, proved, entry>>
    PROVE  OrderInv'
<1>1. session' # NoSession /\ session'.id = session.id
  BY DEF Moved
<1>2. /\ task'[t].pc \in {"eject", "endRow"} /\ Scene(task[t])'
      /\ \A u \in Tasks : u # t => task'[u] = task[u]
  BY <1>1, EndScene
<1>3. StateSound'
  BY MovedSound DEF OrderInv, AfterPin
<1> QED
  BY <1>2, <1>3, HandlerStep

LEMMA MarkErrorStep ==
    ASSUME AppInv, OrderInv, NEW t \in Tasks,
           Running(t) \/ (MachineIdle /\ task[t].pc = "idle"),
           Open, markError(t),
           UNCHANGED <<sessionRow, reader, cardStatus, failedPinCount, proved, entry>>
    PROVE  OrderInv'
<1>1. session # NoSession /\ transitionTo("ERROR") /\ EjectAndEnd(t)
  BY DEF Open, markError
<1>2. Moved("ERROR")
  BY <1>1, EnterMoves DEF AtmState
<1> QED
  BY <1>1, <1>2, ErrorStep

-----------------------------------------------------------------------------
(* The operations take effect.                                             *)

LEMMA CreateRowOrder ==
    ASSUME AppInv, OrderInv, NEW t \in Tasks, CreateRow(t)
    PROVE  OrderInv'
<1>1. /\ Pending(t, "createRow") /\ Resolve(t, "ok")
      /\ sessionRow' = [sessionRow EXCEPT ![task[t].sid] = "open"]
      /\ UNCHANGED <<session, reader, entry, cardStatus, failedPinCount, proved>>
  BY DEF CreateRow, appVars, deviceVars, historyVars
<1>2. Running(t) /\ task[t].pc = "createRow"
  BY <1>1, PendingRuns DEF Ops, Pending
<1>3. Arriving(task[t]) /\ StateSound
  BY <1>2, Alone DEF Scene
<1>4. /\ task'[t].pc = "createRow" /\ task'[t].res = "ok"
      /\ task'[t].sid = task[t].sid /\ task'[t].pan = task[t].pan
      /\ \A u \in Tasks : u # t => task'[u] = task[u]
  BY <1>1, <1>2, Resolved DEF Ops, Results
<1>5. session.id \in Ids /\ task[t].sid = session.id
  BY <1>3 DEF Arriving, AppInv, SessionOK, Session
<1>6. sessionRow'[session.id] = "open" /\ \A i \in Ids : i # session.id => sessionRow'[i] = sessionRow[i]
  BY <1>1, <1>5 DEF AppInv, OtherOK
<1>7. StateSound'
  BY <1>1, <1>3, <1>6 DEF StateSound, SessionSound, RowIsOwn, CardHasSession, RetainedAfterTries, Arriving
<1>8. Scene(task[t])'
  BY <1>1, <1>2, <1>3, <1>4, <1>6 DEF Scene, Arriving
<1> QED
  BY <1>1, <1>2, <1>4, <1>7, <1>8, HandlerStep

LEMMA EndRowOrder ==
    ASSUME AppInv, OrderInv, NEW t \in Tasks, EndRow(t)
    PROVE  OrderInv'
<1>1. /\ Pending(t, "endRow")
      /\ UNCHANGED <<session, reader, entry, cardStatus, failedPinCount, proved>>
  BY DEF EndRow, appVars, deviceVars, historyVars
<1>2. Running(t) /\ task[t].pc = "endRow" /\ task[t].res = "pending"
  BY <1>1, PendingRuns DEF Ops, Pending
<1>3. Ending(task[t]) /\ StateSound
  BY <1>2, Alone DEF Scene
<1>4. session # NoSession /\ task[t].sid = session.id /\ sessionRow[session.id] = "open"
      /\ session.id \in Ids /\ reader = NoCard
  BY <1>2, <1>3 DEF Ending, Open, AppInv, SessionOK, Session
<1>5. Resolve(t, "ok") /\ sessionRow' = [sessionRow EXCEPT ![session.id] = "ended"]
  BY <1>4 DEF EndRow
<1>6. /\ task'[t].pc = "endRow" /\ task'[t].res = "ok" /\ task'[t].sid = task[t].sid
      /\ \A u \in Tasks : u # t => task'[u] = task[u]
  BY <1>2, <1>5, Resolved DEF Ops, Results
<1>7. sessionRow'[session.id] = "ended" /\ \A i \in Ids : i # session.id => sessionRow'[i] = sessionRow[i]
  BY <1>4, <1>5 DEF AppInv, OtherOK
<1>8. StateSound'
  BY <1>1, <1>3, <1>7 DEF StateSound, SessionSound, RowIsOwn, CardHasSession, RetainedAfterTries
<1>9. Scene(task[t])'
  BY <1>1, <1>4, <1>6, <1>7 DEF Scene, Ending
<1> QED
  BY <1>1, <1>2, <1>6, <1>8, <1>9, HandlerStep

(* Operations that change nothing but their own await.                     *)
LEMMA PlainEffectOrder ==
    ASSUME AppInv, OrderInv, NEW t \in Tasks,
           ReadTrack(t) \/ PrintForm(t) \/ Authenticate(t) \/ GetBalance(t) \/ HostDeclines(t)
    PROVE  OrderInv'
<1>1. UNCHANGED <<session, sessionRow, reader, entry, cardStatus, failedPinCount, proved>>
  BY DEF ReadTrack, PrintForm, Authenticate, GetBalance, HostDeclines, appVars, otherVars,
         deviceVars, cardVars, historyVars
<1>2. StateSound'
  BY <1>1, SoundKept DEF OrderInv
<1>3. PICK op \in {"readTrack", "print", "authenticate", "getBalance", "authorize"} : Pending(t, op)
  BY DEF ReadTrack, PrintForm, Authenticate, GetBalance, HostDeclines
<1>4. Running(t) /\ task[t].pc = op /\ op \in Ops
  BY <1>3, PendingRuns DEF Ops, Pending
<1>5. Scene(task[t])
  BY <1>4, Alone
<1>6. PICK r \in {"ok", "no", "fail"} :
        /\ Resolve(t, r)
        /\ op = "authenticate" => r # "fail" /\ (r = "ok" => cardStatus[task[t].pan] = "ACTIVE")
  BY <1>3 DEF ReadTrack, PrintForm, Authenticate, GetBalance, HostDeclines, Pending
<1>7. /\ task'[t].pc = op /\ task'[t].res = r
      /\ task'[t].sid = task[t].sid /\ task'[t].pan = task[t].pan
      /\ task'[t].account = task[t].account /\ task'[t].amount = task[t].amount
      /\ \A u \in Tasks : u # t => task'[u] = task[u]
  BY <1>4, <1>6, Resolved DEF Results
<1>8. Scene(task[t])'
  <2>1. CASE op \in {"readTrack", "authenticate"}
    <3>1. Arriving(task[t])
      BY <1>4, <1>5, <2>1 DEF Scene
    <3>2. Arriving(task[t])'
      BY <1>1, <1>4, <1>6, <1>7, <2>1, <3>1 DEF Arriving
    <3> QED
      BY <1>7, <2>1, <3>2 DEF Scene
  <2>2. CASE op \in {"print", "getBalance"}
    BY <1>1, <1>4, <1>5, <1>7, <2>2 DEF Scene, At, Open
  <2>3. CASE op = "authorize"
    BY <1>1, <1>4, <1>5, <1>7, <2>3 DEF Scene, Withdrawing, At, Open
  <2> QED
    BY <2>1, <2>2, <2>3
<1> QED
  BY <1>1, <1>2, <1>4, <1>7, <1>8, HandlerStep DEF Ops

LEMMA LeaveReaderOrder ==
    ASSUME AppInv, OrderInv, NEW t \in Tasks, LeaveReader(t)
    PROVE  OrderInv'
<1>1. /\ Resolve(t, IF reader # NoCard THEN "ok" ELSE "fail") /\ reader' = NoCard
      /\ UNCHANGED <<session, sessionRow, entry, cardStatus, failedPinCount, proved>>
  BY DEF LeaveReader, appVars, cardVars, historyVars
<1>2. PICK op \in {"eject", "retainDev"} : Pending(t, op)
  BY DEF LeaveReader
<1>3. Running(t) /\ task[t].pc = op /\ op \in Ops /\ task[t].res = "pending"
  BY <1>2, PendingRuns DEF Ops, Pending
<1>4. Scene(task[t]) /\ StateSound
  BY <1>3, Alone
<1>5. PICK r \in {"ok", "fail"} : Resolve(t, r) /\ (reader # NoCard => r = "ok")
  BY <1>1
<1>6. /\ task'[t].pc = op /\ task'[t].res = r
      /\ \A u \in Tasks : u # t => task'[u] = task[u]
  BY <1>3, <1>5, Resolved DEF Results
<1>7. StateSound'
  BY <1>1, <1>4 DEF StateSound, SessionSound, RowIsOwn, CardHasSession, RetainedAfterTries
<1>8. Scene(task[t])'
  <2>1. CASE op = "eject"
    BY <1>1, <1>3, <1>4, <1>5, <1>6, <2>1 DEF Scene, Ending, Open
  <2>2. CASE op = "retainDev"
    BY <1>1, <1>3, <1>4, <1>6, <2>2 DEF Scene, Retaining, At, Open
  <2> QED
    BY <2>1, <2>2
<1> QED
  BY <1>1, <1>3, <1>6, <1>7, <1>8, HandlerStep DEF Ops

LEMMA VerifyPinOrder ==
    ASSUME AppInv, OrderInv, NEW t \in Tasks, VerifyPin(t)
    PROVE  OrderInv'
<1> DEFINE p == task[t].pan
<1>1. /\ Pending(t, "verifyPin")
      /\ UNCHANGED <<session, sessionRow, reader, entry, cardStatus>>
  BY DEF VerifyPin, appVars, deviceVars
<1>2. Running(t) /\ task[t].pc = "verifyPin" /\ task[t].res = "pending"
  BY <1>1, PendingRuns DEF Ops, Pending
<1>3. Verifying(task[t]) /\ StateSound
  BY <1>2, Alone DEF Scene
<1>4. p \in Cards /\ failedPinCount[p] \in Nat /\ session # NoSession
      /\ session.failedPinAttempts \in Nat /\ session.failedPinAttempts <= failedPinCount[p]
  BY <1>2, <1>3 DEF Verifying, At, Open, AppInv, OtherOK, SessionOK, Session
<1>5. CASE task[t].typed = p
  <2>1. /\ Resolve(t, "ok") /\ failedPinCount' = [failedPinCount EXCEPT ![p] = 0]
        /\ proved' = proved \cup {task[t].sid}
    BY <1>5 DEF VerifyPin
  <2>2. /\ task'[t].pc = "verifyPin" /\ task'[t].res = "ok"
        /\ task'[t].sid = task[t].sid /\ task'[t].pan = p
        /\ \A u \in Tasks : u # t => task'[u] = task[u]
    BY <1>2, <2>1, Resolved DEF Ops, Results
  <2>3. \A q \in Cards : q # p => failedPinCount'[q] = failedPinCount[q]
    BY <2>1 DEF AppInv, OtherOK
  <2>4. RetainedAfterTries'
    BY <1>1, <1>3, <2>3 DEF RetainedAfterTries, StateSound, Verifying
  <2>5. StateSound'
    BY <1>1, <1>3, <2>1, <2>4 DEF StateSound, SessionSound, RowIsOwn, CardHasSession
  <2>6. Scene(task[t])'
    BY <1>1, <1>3, <2>1, <2>2 DEF Scene, Verifying, At, Open
  <2> QED
    BY <1>1, <1>2, <2>2, <2>5, <2>6, HandlerStep
<1>6. CASE task[t].typed # p
  <2>1. PICK r \in {"no", "exceeded"} :
          Resolve(t, r) /\ (r = "exceeded" => failedPinCount[p] + 1 >= MaxPinAttempts)
    BY <1>6 DEF VerifyPin
  <2>2. failedPinCount' = [failedPinCount EXCEPT ![p] = failedPinCount[p] + 1] /\ proved' = proved
    BY <1>6 DEF VerifyPin
  <2>3. /\ task'[t].pc = "verifyPin" /\ task'[t].res = r
        /\ task'[t].sid = task[t].sid /\ task'[t].pan = p
        /\ \A u \in Tasks : u # t => task'[u] = task[u]
    BY <1>2, <2>1, Resolved DEF Ops, Results
  <2>4. /\ \A q \in Cards : q # p => failedPinCount'[q] = failedPinCount[q]
        /\ failedPinCount'[p] = failedPinCount[p] + 1
    BY <1>4, <2>2 DEF AppInv, OtherOK
  <2>5. RetainedAfterTries'
    BY <1>1, <1>3, <2>4 DEF RetainedAfterTries, StateSound, Verifying
  <2>6. StateSound'
    BY <1>1, <1>3, <2>2, <2>5 DEF StateSound, SessionSound, RowIsOwn, CardHasSession
  <2>7. session.failedPinAttempts < failedPinCount'[p]
        /\ (r = "exceeded" => failedPinCount'[p] >= MaxPinAttempts)
    BY <1>4, <2>1, <2>4
  <2>8. Scene(task[t])'
    BY <1>1, <1>3, <2>3, <2>7 DEF Scene, Verifying, At, Open
  <2> QED
    BY <1>1, <1>2, <2>3, <2>6, <2>8, HandlerStep
<1> QED
  BY <1>5, <1>6

LEMMA HostRetainOrder ==
    ASSUME AppInv, OrderInv, NEW t \in Tasks, HostRetainCard(t)
    PROVE  OrderInv'
<1>1. /\ Pending(t, "retainHost") /\ Resolve(t, "ok")
      /\ cardStatus' = [cardStatus EXCEPT ![task[t].pan] = "RETAINED"]
      /\ UNCHANGED <<session, sessionRow, reader, entry, failedPinCount, proved>>
  BY DEF HostRetainCard, appVars, deviceVars, historyVars
<1>2. Running(t) /\ task[t].pc = "retainHost"
  BY <1>1, PendingRuns DEF Ops, Pending
<1>3. Retaining(task[t]) /\ StateSound
  BY <1>2, Alone DEF Scene
<1>4. /\ task'[t].pc = "retainHost" /\ task'[t].res = "ok" /\ task'[t].pan = task[t].pan
      /\ \A u \in Tasks : u # t => task'[u] = task[u]
  BY <1>1, <1>2, Resolved DEF Ops, Results
<1>5. \A q \in Cards : q # task[t].pan => cardStatus'[q] = cardStatus[q]
  BY <1>1 DEF AppInv, OtherOK
<1>6. RetainedAfterTries'
  BY <1>1, <1>2, <1>3, <1>5 DEF RetainedAfterTries, StateSound, Retaining
<1>7. StateSound'
  BY <1>1, <1>3, <1>6 DEF StateSound, SessionSound, RowIsOwn, CardHasSession
<1>8. Scene(task[t])'
  BY <1>1, <1>2, <1>3, <1>4 DEF Scene, Retaining, At, Open
<1> QED
  BY <1>1, <1>2, <1>4, <1>7, <1>8, HandlerStep

(* The amount of a withdrawal is that of its session, and there is one.    *)
LEMMA PaymentOrder ==
    ASSUME AppInv, OrderInv, NEW t \in Tasks,
           HostApproves(t) \/ Dispense(t) \/ ReverseTransaction(t)
    PROVE  OrderInv'
<1>1. UNCHANGED <<session, sessionRow, reader, entry, cardStatus, failedPinCount, proved>>
  BY DEF HostApproves, Dispense, ReverseTransaction, appVars, otherVars, deviceVars, cardVars,
         historyVars
<1>2. StateSound /\ StateSound'
  BY <1>1, SoundKept DEF OrderInv
<1>3. PICK op \in {"authorize", "dispense", "reverse"} : Pending(t, op)
  BY DEF HostApproves, Dispense, ReverseTransaction
<1>4. Running(t) /\ task[t].pc = op /\ op \in Ops
  BY <1>3, PendingRuns DEF Ops, Pending
<1>5. Withdrawing(task[t])
  BY <1>4, Alone DEF Scene
<1>6. task[t].amount # 0 /\ (op = "reverse" => task[t].account # NoAccount)
  <2>1. session # NoSession /\ (op = "reverse" => session.state = "DISPENSING")
    BY <1>4, <1>5 DEF Withdrawing, At, Open
  <2>2. session.cardPan \in Cards /\ AccountOf[session.cardPan] \in Accounts
    BY <2>1, AppAssumption DEF AppInv, SessionOK, Session
  <2>3. op = "reverse" => session.accountId = AccountOf[session.cardPan]
    BY <1>2, <2>1 DEF StateSound, SessionSound, AfterPin
  <2> QED
    BY <1>4, <1>5, <2>2, <2>3, AppAssumption DEF Withdrawing
<1>7. Resolve(t, "ok")
  BY <1>3, <1>6 DEF HostApproves, Dispense, ReverseTransaction, Pending
<1>8. /\ task'[t].pc = op /\ task'[t].res = "ok" /\ task'[t].pan = task[t].pan
      /\ task'[t].account = task[t].account /\ task'[t].amount = task[t].amount
      /\ \A u \in Tasks : u # t => task'[u] = task[u]
  BY <1>4, <1>7, Resolved DEF Results
<1>9. Withdrawing(task[t])'
  BY <1>1, <1>4, <1>5, <1>8 DEF Withdrawing, At, Open
<1>10. Scene(task[t])'
  BY <1>8, <1>9 DEF Scene
<1> QED
  BY <1>1, <1>2, <1>4, <1>8, <1>10, HandlerStep DEF Ops

(* A failure of an operation that may fail leaves its handler in a scene   *)
(* with that outcome.                                                      *)
LEMMA FailOrder ==
    ASSUME AppInv, OrderInv, Orderly, NEW t \in Tasks, Fail(t)
    PROVE  OrderInv'
<1>1. /\ Resolve(t, "fail") /\ task[t].res = "pending" /\ entry # t /\ task[t].pc \in FaultyOps
      /\ UNCHANGED <<session, sessionRow, reader, entry, cardStatus, failedPinCount, proved>>
  BY DEF Fail, appVars, deviceVars, cardVars, historyVars
<1>2. StateSound'
  BY <1>1, SoundKept DEF OrderInv
<1> DEFINE op == task[t].pc
<1>3. op \in {"readTrack", "verifyPin", "retainHost", "getBalance", "authorize", "dispense", "print"}
  BY <1>1 DEF Orderly
<1>4. Running(t) /\ op \in Ops
  BY <1>1, <1>3 DEF Running, Ops
<1>5. Scene(task[t])
  BY <1>4, Alone
<1>6. /\ task'[t].pc = op /\ task'[t].res = "fail"
      /\ task'[t].sid = task[t].sid /\ task'[t].pan = task[t].pan
      /\ task'[t].account = task[t].account /\ task'[t].amount = task[t].amount
      /\ \A u \in Tasks : u # t => task'[u] = task[u]
  BY <1>1, <1>4, Resolved DEF Results
<1>7. Scene(task[t])'
  <2>1. CASE op = "readTrack"
    BY <1>1, <1>5, <1>6, <2>1 DEF Scene, Arriving
  <2>2. CASE op = "verifyPin"
    BY <1>1, <1>5, <1>6, <2>2 DEF Scene, Verifying, At, Open
  <2>3. CASE op = "retainHost"
    BY <1>1, <1>5, <1>6, <2>3 DEF Scene, Retaining, At, Open
  <2>4. CASE op \in {"getBalance", "print"}
    BY <1>1, <1>5, <1>6, <2>4 DEF Scene, At, Open
  <2>5. CASE op \in {"authorize", "dispense"}
    BY <1>1, <1>5, <1>6, <2>5 DEF Scene, Withdrawing, At, Open
  <2> QED
    BY <1>3, <2>1, <2>2, <2>3, <2>4, <2>5
<1> QED
  BY <1>1, <1>2, <1>3, <1>4, <1>6, <1>7, HandlerStep

(* A new entry supersedes the one that was active: that handler goes on,   *)
(* with an empty buffer.                                                   *)
LEMMA ArmOrder ==
    ASSUME AppInv, OrderInv, NEW t \in Tasks, ArmPinEntry(t)
    PROVE  OrderInv'
<1>1. /\ task[t].pc = "getPin" /\ task[t].res = "pending" /\ entry # t /\ entry' = t
      /\ pinBuffer' = "none"
      /\ task' = [u \in Tasks |-> IF u = entry THEN [task[u] EXCEPT !.res = "fail"] ELSE task[u]]
      /\ UNCHANGED <<session, sessionRow, reader, cardStatus, failedPinCount, proved>>
  BY DEF ArmPinEntry, Pending, appVars, cardVars, historyVars
<1>2. Running(t)
  BY <1>1 DEF Running
<1>3. /\ Scene(task[t]) /\ StateSound
      /\ \A u \in Tasks : u # t => ~ Running(u)
  BY <1>2, Alone
<1>4. session = NoSession \/ TryingPin
  BY <1>1, <1>3 DEF Scene
<1>5. session # NoSession => session.state = "PIN_ENTRY"
  BY <1>4 DEF TryingPin, At
<1>6. StateSound'
  BY <1>1, <1>3, <1>5 DEF StateSound, SessionSound, RowIsOwn, CardHasSession, RetainedAfterTries
<1>7. session' = NoSession \/ TryingPin'
  BY <1>1, <1>4 DEF TryingPin, At, Open
<1>8. \A u \in Tasks : u # entry => task'[u] = task[u]
  BY <1>1
<1>9. \A u \in Tasks : u = entry => task'[u].pc = "getPin" /\ task'[u].res = "fail"
  <2> SUFFICES ASSUME entry \in Tasks PROVE task'[entry].pc = "getPin" /\ task'[entry].res = "fail"
    OBVIOUS
  <2>1. task[entry].pc = "getPin" /\ entry # NoTask
    BY AppAssumption DEF AppInv, EntryOK
  <2>2. task[entry] \in Waiting
    BY <2>1, ActiveTask DEF AppInv, Ops
  <2>3. task'[entry] = [task[entry] EXCEPT !.res = "fail"]
    BY <1>1
  <2> QED
    BY <2>1, <2>2, <2>3 DEF Waiting
<1>10. \A u \in Tasks : Running(u)' => u = entry
  BY <1>1, <1>3, <1>8 DEF Running
<1>11. \A u \in Tasks : Running(u)' => Scene(task[u])'
  BY <1>1, <1>7, <1>9, <1>10 DEF Scene
<1>12. AtRest'
  BY <1>7 DEF AtRest
<1> QED
  BY <1>6, <1>10, <1>11, <1>12 DEF OrderInv, OneRuns

LEMMA EffectOrder ==
    ASSUME AppInv, OrderInv, NEW t \in Tasks, Effect(t)
    PROVE  OrderInv'
BY CreateRowOrder, EndRowOrder, PlainEffectOrder, LeaveReaderOrder, VerifyPinOrder,
   HostRetainOrder, PaymentOrder, ArmOrder DEF Effect

-----------------------------------------------------------------------------
(* The requests, which come only when nothing runs.                        *)

LEMMA OrderInit == Init => OrderInv
<1> SUFFICES ASSUME Init PROVE OrderInv
  OBVIOUS
<1>1. \A t \in Tasks : ~ Running(t)
  BY DEF Init, Running, Idle
<1>2. session = NoSession /\ reader = NoCard /\ \A i \in Ids : sessionRow[i] = "none"
  BY DEF Init
<1>3. RetainedAfterTries
  BY DEF Init, RetainedAfterTries
<1>4. StateSound
  BY <1>2, <1>3 DEF StateSound, SessionSound, RowIsOwn, CardHasSession
<1> QED
  BY <1>1, <1>2, <1>4 DEF OrderInv, OneRuns, AtRest

LEMMA RestOpen ==
    ASSUME Orderly, OrderInv, MayAct
    PROVE  /\ MachineIdle /\ StateSound
           /\ session # NoSession => Open
           /\ InState("PIN_ENTRY") => TryingPin
<1>1. MachineIdle
  BY DEF Orderly, MayAct, MachineIdle
<1>2. AtRest /\ StateSound
  BY <1>1 DEF OrderInv
<1> QED
  BY <1>1, <1>2 DEF AtRest, TryingPin, At, InState

LEMMA InsertOrder ==
    ASSUME AppInv, AppInv', Orderly, OrderInv, NEW t \in Tasks, NEW p \in Cards, InsertCard(t, p)
    PROVE  OrderInv'
<1>1. /\ MayAct /\ task[t].pc = "idle" /\ session = NoSession
      /\ UNCHANGED <<sessionRow, reader, entry, cardStatus, failedPinCount, proved>>
  BY DEF InsertCard, otherVars, deviceVars, cardVars, historyVars
<1>2. MachineIdle /\ StateSound
  BY <1>1, RestOpen
<1>3. /\ session'.id = lastId + 1 /\ session'.state = "CARD_INSERTED" /\ session'.cardPan = p
      /\ session'.failedPinAttempts = 0
  BY DEF InsertCard
<1>4. session' # NoSession
  <2>0. lastId < MaxSessions /\ lastId \in Nat
    BY DEF InsertCard, AppInv, OtherOK
  <2>1. lastId + 1 \in Ids
    BY <2>0, AppAssumption DEF Ids
  <2>2. session' \in Session
    BY <2>1 DEF InsertCard, Session, AtmState, IDLE_TIMEOUT_STATES
  <2> QED
    BY <2>2, SessionAssumption
<1>5. /\ task'[t] = [Await("createRow") EXCEPT !.sid = lastId + 1, !.pan = p]
      /\ \A u \in Tasks : u # t => task'[u] = task[u]
  BY Waited DEF InsertCard
<1>6. /\ task'[t].pc = "createRow" /\ task'[t].res = "pending" /\ task'[t].sid = lastId + 1
      /\ task'[t].pan = p
  BY <1>5 DEF Await
<1>7. reader = NoCard
  BY <1>1, <1>2 DEF StateSound, CardHasSession
<1>8. StateSound'
  BY <1>1, <1>2, <1>3, <1>7
     DEF StateSound, SessionSound, RowIsOwn, CardHasSession, RetainedAfterTries, AfterPin
<1>9. Scene(task[t])'
  BY <1>1, <1>3, <1>4, <1>6, <1>7 DEF Scene, Arriving
<1> QED
  BY <1>1, <1>2, <1>5, <1>6, <1>8, <1>9, HandlerStep

LEMMA BeginPinOrder ==
    ASSUME AppInv, Orderly, OrderInv, NEW t \in Tasks, BeginPinEntry(t)
    PROVE  OrderInv'
<1>1. /\ MayAct /\ task[t].pc = "idle" /\ InState("PIN_ENTRY")
      /\ UNCHANGED <<session, sessionRow, reader, entry, cardStatus, failedPinCount, proved>>
  BY DEF BeginPinEntry, appVars, otherVars, deviceVars, cardVars, historyVars
<1>2. MachineIdle /\ StateSound /\ TryingPin
  BY <1>1, RestOpen
<1>3. /\ task'[t] = [Await("getPin") EXCEPT !.sid = session.id]
      /\ \A u \in Tasks : u # t => task'[u] = task[u]
  BY Waited DEF BeginPinEntry
<1>4. task'[t].pc = "getPin" /\ task'[t].res = "pending"
  BY <1>3, SameOps
<1>5. StateSound'
  BY <1>1, <1>2, SoundKept
<1>6. Scene(task[t])'
  BY <1>1, <1>2, <1>4 DEF Scene, TryingPin, At, Open
<1> QED
  BY <1>1, <1>2, <1>3, <1>4, <1>5, <1>6, HandlerStep

LEMMA ChosenMoves ==
    ASSUME AppInv, session # NoSession, NEW st \in AtmState, NEW txn \in Txns,
           Enter([session EXCEPT !.selectedTxn = txn], st)
    PROVE  Moved(st) /\ session'.selectedTxn = txn
<1> DEFINE s == [session EXCEPT !.selectedTxn = txn]
<1>1. session \in Session /\ session' = [s EXCEPT !.state = st]
  BY DEF AppInv, SessionOK, Enter
<1>2. /\ s \in Session /\ s.selectedTxn = txn /\ s.id = session.id /\ s.cardPan = session.cardPan
      /\ s.accountId = session.accountId /\ s.amount = session.amount
      /\ s.failedPinAttempts = session.failedPinAttempts
  BY <1>1 DEF Session
<1> HIDE DEF s
<1>3. session' \in Session /\ session'.state = st /\ session'.selectedTxn = s.selectedTxn
      /\ session'.id = s.id /\ session'.cardPan = s.cardPan /\ session'.accountId = s.accountId
      /\ session'.amount = s.amount /\ session'.failedPinAttempts = s.failedPinAttempts
  BY <1>1, <1>2 DEF Session
<1> QED
  BY <1>2, <1>3, SessionAssumption DEF Moved

LEMMA SelectOrder ==
    ASSUME AppInv, Orderly, OrderInv, NEW t \in Tasks, NEW txn \in Txns, SelectTransaction(t, txn)
    PROVE  OrderInv'
<1> DEFINE s == [session EXCEPT !.selectedTxn = txn]
<1>1. /\ MayAct /\ task[t].pc = "idle" /\ session # NoSession /\ session.state = "MAIN_MENU"
      /\ UNCHANGED <<sessionRow, reader, entry, cardStatus, failedPinCount, proved>>
  BY DEF SelectTransaction, InState, otherVars, deviceVars, cardVars, historyVars
<1>2. MachineIdle /\ StateSound /\ Open
  BY <1>1, RestOpen
<1>3. /\ session.id \in proved /\ session.accountId = AccountOf[session.cardPan]
      /\ entry = NoTask
  BY <1>1, <1>2 DEF StateSound, SessionSound, AfterPin
<1>4. CASE txn = "WITHDRAWAL"
  <2>1. Enter(s, "AMOUNT_ENTRY") /\ task' = task
    BY <1>4 DEF SelectTransaction
  <2>2. Moved("AMOUNT_ENTRY") /\ session'.selectedTxn = "WITHDRAWAL"
    BY <1>1, <1>4, <2>1, ChosenMoves DEF AtmState, AfterPin
  <2>3. StateSound'
    BY <1>1, <1>2, <1>3, <2>2
       DEF StateSound, SessionSound, RowIsOwn, CardHasSession, RetainedAfterTries, Moved
  <2>4. AtRest'
    BY <1>1, <1>2, <2>2 DEF AtRest, At, Open, Moved
  <2> QED
    BY <1>1, <1>2, <2>1, <2>3, <2>4, HandlerStep
<1>5. CASE txn = "BALANCE"
  <2>1. Enter(s, "PROCESSING") /\ Wait(t, [Await("getBalance") EXCEPT !.pan = s.cardPan])
    BY <1>5 DEF SelectTransaction
  <2>2. Moved("PROCESSING")
    BY <1>1, <2>1, ChosenMoves DEF AtmState, AfterPin
  <2>3. StateSound'
    BY <1>1, <1>2, <1>3, <2>2, MovedSound
  <2>4. task'[t].pc = "getBalance" /\ \A u \in Tasks : u # t => task'[u] = task[u]
    <3>1. /\ task'[t] = [Await("getBalance") EXCEPT !.pan = s.cardPan]
          /\ \A u \in Tasks : u # t => task'[u] = task[u]
      BY <2>1, Waited
    <3> HIDE DEF s
    <3> QED
      BY <3>1, SameOps
  <2>5. Scene(task[t])'
    BY <1>1, <1>2, <2>2, <2>4 DEF Scene, At, Open, Moved
  <2> QED
    BY <1>1, <1>2, <2>3, <2>4, <2>5, HandlerStep
<1>6. CASE txn \notin {"WITHDRAWAL", "BALANCE"}
  <2>1. Enter(s, "ERROR") /\ EjectAndEnd(t)
    BY <1>6 DEF SelectTransaction
  <2>2. Moved("ERROR")
    BY <1>1, <2>1, ChosenMoves DEF AtmState
  <2> QED
    BY <1>1, <1>2, <2>1, <2>2, ErrorStep
<1> QED
  BY <1>4, <1>5, <1>6

LEMMA ConfirmOrder ==
    ASSUME AppInv, Orderly, OrderInv, NEW t \in Tasks, ConfirmTransaction(t)
    PROVE  OrderInv'
<1>1. /\ MayAct /\ task[t].pc = "idle" /\ session # NoSession /\ session.state = "CONFIRM"
      /\ UNCHANGED <<sessionRow, reader, entry, cardStatus, failedPinCount, proved>>
  BY DEF ConfirmTransaction, InState, deviceVars, cardVars, historyVars
<1>2. MachineIdle /\ StateSound /\ Open
  BY <1>1, RestOpen
<1>3. /\ session.id \in proved /\ session.accountId = AccountOf[session.cardPan]
      /\ session.selectedTxn = "WITHDRAWAL" /\ session.amount # 0 /\ entry = NoTask
  BY <1>1, <1>2 DEF StateSound, SessionSound, AfterPin
<1>4. /\ Enter(session, "PROCESSING")
      /\ Wait(t, [Await("authorize") EXCEPT !.pan = session.cardPan, !.amount = session.amount,
                     !.stanNo = stanCounter])
  BY <1>3 DEF ConfirmTransaction
<1>5. Moved("PROCESSING")
  BY <1>1, <1>4, EnterMoves DEF AtmState, AfterPin
<1>6. StateSound'
  BY <1>1, <1>2, <1>3, <1>5, MovedSound
<1>7. /\ task'[t] = [Await("authorize") EXCEPT !.pan = session.cardPan, !.amount = session.amount,
                        !.stanNo = stanCounter]
      /\ \A u \in Tasks : u # t => task'[u] = task[u]
  BY <1>4, Waited
<1>8. task'[t].pc = "authorize" /\ task'[t].pan = session.cardPan /\ task'[t].amount = session.amount
  BY <1>7 DEF Await
<1>9. Scene(task[t])'
  BY <1>1, <1>2, <1>3, <1>5, <1>8 DEF Scene, Withdrawing, At, Open, Moved
<1> QED
  BY <1>1, <1>2, <1>6, <1>7, <1>8, <1>9, HandlerStep

LEMMA CancelOrder ==
    ASSUME AppInv, Orderly, OrderInv, NEW t \in Tasks, CancelTransaction(t)
    PROVE  OrderInv'
<1>1. /\ MayAct /\ task[t].pc = "idle" /\ session # NoSession /\ EjectAndEnd(t)
      /\ UNCHANGED <<session, sessionRow, reader, entry, cardStatus, failedPinCount, proved>>
  BY DEF CancelTransaction, otherVars, deviceVars, cardVars, historyVars
<1>2. MachineIdle /\ StateSound /\ Open
  BY <1>1, RestOpen
<1>3. /\ task'[t].pc \in {"eject", "endRow"} /\ Scene(task[t])'
      /\ \A u \in Tasks : u # t => task'[u] = task[u]
  BY <1>1, <1>2, EndScene
<1>4. StateSound'
  BY <1>1, <1>2, SoundKept
<1> QED
  BY <1>1, <1>2, <1>3, <1>4, HandlerStep

LEMMA TimeoutOrder ==
    ASSUME AppInv, Orderly, OrderInv, NEW t \in Tasks, IdleTimeout(t)
    PROVE  OrderInv'
<1>1. /\ MayAct /\ task[t].pc = "idle" /\ idleTimer # 0
      /\ UNCHANGED <<sessionRow, reader, entry, cardStatus, failedPinCount, proved>>
  BY DEF IdleTimeout, otherVars, deviceVars, cardVars, historyVars
<1>2. session # NoSession /\ session.id = idleTimer
  BY <1>1 DEF AppInv, SessionOK, TimerOwner
<1>3. MachineIdle /\ Open
  BY <1>1, <1>2, RestOpen
<1>4. Enter(session, "ERROR") /\ EjectAndEnd(t)
  BY <1>2 DEF IdleTimeout
<1>5. Moved("ERROR")
  BY <1>2, <1>4, EnterMoves DEF AtmState
<1> QED
  BY <1>1, <1>3, <1>4, <1>5, ErrorStep

LEMMA SubmitOrder ==
    ASSUME AppInv, Orderly, OrderInv, NEW amt \in Amounts, SubmitAmount(amt)
    PROVE  OrderInv'
<1>1. /\ MayAct /\ session # NoSession /\ session.state = "AMOUNT_ENTRY"
      /\ UNCHANGED <<task, sessionRow, reader, entry, cardStatus, failedPinCount, proved>>
  BY DEF SubmitAmount, InState, otherVars, deviceVars, cardVars, historyVars
<1>2. MachineIdle /\ StateSound /\ Open
  BY <1>1, RestOpen
<1>3. /\ session.id \in proved /\ session.accountId = AccountOf[session.cardPan]
      /\ session.selectedTxn = "WITHDRAWAL" /\ entry = NoTask
  BY <1>1, <1>2 DEF StateSound, SessionSound, AfterPin
<1> DEFINE s == [session EXCEPT !.amount = amt]
<1>4. session \in Session /\ session' = [s EXCEPT !.state = "CONFIRM"]
  BY <1>1 DEF AppInv, SessionOK, SubmitAmount, Enter
<1>5. /\ s \in Session /\ s.amount = amt /\ s.id = session.id /\ s.cardPan = session.cardPan
      /\ s.accountId = session.accountId /\ s.selectedTxn = session.selectedTxn
  BY <1>4 DEF Session
<1> HIDE DEF s
<1>6. /\ session' \in Session /\ session'.state = "CONFIRM" /\ session'.id = s.id
      /\ session'.cardPan = s.cardPan /\ session'.accountId = s.accountId
      /\ session'.amount = s.amount /\ session'.selectedTxn = s.selectedTxn
  BY <1>4, <1>5 DEF Session, AtmState, IDLE_TIMEOUT_STATES
<1>7. session' # NoSession /\ amt # 0
  BY <1>6, SessionAssumption, SubmittedAssumption
<1>8. StateSound'
  BY <1>1, <1>2, <1>3, <1>5, <1>6, <1>7
     DEF StateSound, SessionSound, RowIsOwn, CardHasSession, RetainedAfterTries
<1>9. AtRest'
  BY <1>1, <1>2, <1>5, <1>6, <1>7 DEF AtRest, At, Open
<1>10. \A t \in Tasks : ~ Running(t)'
  BY <1>1, <1>2 DEF MachineIdle, Running
<1> QED
  BY <1>8, <1>9, <1>10 DEF OrderInv, OneRuns

(* The keys of the PIN pad: an entry that is over lets its handler go on,  *)
(* in the session whose PIN is being tried or in none.                     *)
LEMMA KeysOrder ==
    ASSUME AppInv, Orderly, OrderInv, Keys \/ CancelEntry
    PROVE  OrderInv'
<1>1. /\ MayAct /\ entry # NoTask
      /\ UNCHANGED <<session, sessionRow, reader, cardStatus, failedPinCount, proved>>
  BY DEF Keys, PressDigits, PressClear, PressEnter, CancelEntry, appVars, cardVars, historyVars
<1>2. MachineIdle /\ StateSound /\ AtRest
  BY <1>1, RestOpen DEF OrderInv
<1>3. session = NoSession \/ TryingPin
  BY <1>1, <1>2 DEF AtRest, At, StateSound, SessionSound
<1>4. session' = NoSession \/ TryingPin'
  BY <1>1, <1>3 DEF TryingPin, At, Open
<1>5. AtRest'
  BY <1>4 DEF AtRest
<1>6. PICK e \in Tasks : e = entry /\ task[e].pc = "getPin"
  BY <1>1 DEF AppInv, OtherOK, EntryOK
<1>7. CASE (\E typed \in Typed : PressDigits(typed)) \/ PressClear
  <2>1. UNCHANGED <<task, entry>>
    BY <1>7 DEF PressDigits, PressClear
  <2>2. \A t \in Tasks : ~ Running(t)'
    BY <1>2, <2>1 DEF MachineIdle, Running
  <2>3. StateSound'
    BY <1>1, <1>2, <2>1, SoundKept
  <2> QED
    BY <1>5, <2>2, <2>3 DEF OrderInv, OneRuns
<1>8. CASE PressEnter \/ CancelEntry
  <2>1. PICK r \in {"ok", "fail"} : Resolve(e, r)
    BY <1>6, <1>8 DEF PressEnter, CancelEntry
  <2>2. entry' = NoTask
    BY <1>8 DEF PressEnter, CancelEntry
  <2>3. /\ task'[e].pc = "getPin" /\ task'[e].res = r
        /\ \A u \in Tasks : u # e => task'[u] = task[u]
    BY <1>6, <2>1, Resolved DEF Ops, Results
  <2>4. \A t \in Tasks : Running(t)' => t = e
    BY <1>2, <1>6, <2>3 DEF MachineIdle, Running
  <2>5. Scene(task[e])'
    BY <1>4, <2>2, <2>3 DEF Scene
  <2>6. StateSound'
    BY <1>1, <1>2, <2>2
       DEF StateSound, SessionSound, RowIsOwn, CardHasSession, RetainedAfterTries
  <2>7. \A t \in Tasks : Running(t)' => Scene(task[t])'
    BY <2>4, <2>5
  <2> QED
    BY <1>5, <2>4, <2>6, <2>7 DEF OrderInv, OneRuns
<1> QED
  BY <1>7, <1>8 DEF Keys

-----------------------------------------------------------------------------
(* A handler goes on.                                                      *)

LEMMA RejectOrder ==
    ASSUME AppInv, OrderInv, NEW t \in Tasks, Reject(t)
    PROVE  OrderInv'
<1>1. /\ Finish(t)
      /\ UNCHANGED <<session, sessionRow, reader, entry, cardStatus, failedPinCount, proved>>
  BY DEF Reject, appVars, otherVars, deviceVars, cardVars, historyVars
<1>2. PICK op \in {"createRow", "authenticate", "verifyPin", "retainHost", "getBalance",
                   "reverse", "endRow"} : task[t].pc = op /\ task[t].res = "fail"
  BY DEF Reject, Resumes
<1>3. Running(t)
  BY <1>2, ResumedRuns DEF Ops
<1>4. Scene(task[t]) /\ StateSound
  BY <1>3, Alone
<1>5. op \notin {"createRow", "authenticate", "reverse", "endRow"}
  BY <1>2, <1>4 DEF Scene, Arriving, Withdrawing, Ending
<1>6. AtRest
  <2>1. CASE op = "verifyPin"
    BY <1>2, <1>4, <2>1 DEF Scene, Verifying, AtRest, TryingPin
  <2>2. CASE op = "retainHost"
    BY <1>2, <1>4, <2>2 DEF Scene, Retaining, AtRest, TryingPin
  <2>3. CASE op = "getBalance"
    BY <1>2, <1>4, <2>3 DEF Scene, AtRest, At
  <2> QED
    BY <1>2, <1>5, <2>1, <2>2, <2>3
<1>7. AtRest'
  BY <1>1, <1>6 DEF AtRest, TryingPin, At, Open
<1>8. StateSound'
  BY <1>1, <1>4, SoundKept
<1>9. task'[t].pc = "idle" /\ \A u \in Tasks : u # t => task'[u] = task[u]
  BY <1>1, Finished
<1> QED
  BY <1>1, <1>3, <1>7, <1>8, <1>9, HandlerStep

(* The card goes into the reader, is read, and is authenticated.           *)
LEMMA ArrivalOrder ==
    ASSUME AppInv, OrderInv, NEW t \in Tasks,
           AfterCreateRow(t) \/ AfterReadTrack(t) \/ AfterAuthenticate(t)
    PROVE  OrderInv'
<1> DEFINE w == task[t]
<1>1. /\ w.pc \in {"createRow", "readTrack", "authenticate"} /\ w.res # "pending"
      /\ UNCHANGED <<sessionRow, entry, cardStatus, failedPinCount, proved>>
  BY DEF AfterCreateRow, AfterReadTrack, AfterAuthenticate, Resumes, otherVars, deviceVars, cardVars,
         historyVars
<1>2. Running(t)
  BY <1>1, ResumedRuns DEF Ops
<1>3. Arriving(w) /\ StateSound
  BY <1>1, <1>2, Alone DEF Scene
<1>4. /\ session # NoSession /\ session.state = "CARD_INSERTED" /\ session.id = w.sid
      /\ session.cardPan = w.pan /\ session.failedPinAttempts = 0
      /\ w.pan \in Cards /\ session \in Session
  BY <1>1, <1>3 DEF Arriving, AppInv, SessionOK, Session
<1>5. Open
  BY <1>1, <1>3 DEF Arriving, Open
<1>6. w \in Waiting
  BY <1>1, ActiveTask DEF AppInv, Ops
<1>7. CASE AfterCreateRow(t)
  <2>1. reader = NoCard /\ w.pc = "createRow"
    BY <1>3, <1>7 DEF AfterCreateRow, Resumes, Arriving
  <2>2. /\ reader' = w.pan /\ session' = session
        /\ Wait(t, [w EXCEPT !.pc = "readTrack", !.res = "pending"])
    BY <1>7, <2>1 DEF AfterCreateRow
  <2>3. /\ task'[t] = [w EXCEPT !.pc = "readTrack", !.res = "pending"]
        /\ \A u \in Tasks : u # t => task'[u] = task[u]
    BY <2>2, Waited
  <2>4. /\ task'[t].pc = "readTrack" /\ task'[t].res = "pending" /\ task'[t].sid = w.sid
        /\ task'[t].pan = w.pan
    BY <1>6, <2>3 DEF Waiting
  <2>5. StateSound'
    BY <1>1, <1>3, <1>4, <2>2
       DEF StateSound, SessionSound, RowIsOwn, CardHasSession, RetainedAfterTries
  <2>6. Scene(task[t])'
    BY <1>1, <1>4, <1>5, <2>2, <2>4 DEF Scene, Arriving, Open
  <2> QED
    BY <1>1, <1>2, <2>3, <2>4, <2>5, <2>6, HandlerStep
<1>8. CASE AfterReadTrack(t)
  <2>1. w.pc = "readTrack" /\ reader = w.pan /\ reader' = reader
    BY <1>3, <1>8 DEF AfterReadTrack, Resumes, Arriving, otherVars, deviceVars
  <2>2. CASE Resumes(t, "readTrack", "ok")
    <3>1. /\ session' = session
          /\ Wait(t, [w EXCEPT !.pc = "authenticate", !.res = "pending"])
      BY <1>8, <2>2 DEF AfterReadTrack, Resumes
    <3>2. /\ task'[t] = [w EXCEPT !.pc = "authenticate", !.res = "pending"]
          /\ \A u \in Tasks : u # t => task'[u] = task[u]
      BY <3>1, Waited
    <3>3. /\ task'[t].pc = "authenticate" /\ task'[t].res = "pending" /\ task'[t].sid = w.sid
          /\ task'[t].pan = w.pan
      BY <1>6, <3>2 DEF Waiting
    <3>4. StateSound'
      BY <1>1, <1>3, <2>1, <3>1, SoundKept
    <3>5. Scene(task[t])'
      BY <1>1, <1>4, <1>5, <2>1, <3>1, <3>3 DEF Scene, Arriving, Open
    <3> QED
      BY <1>1, <1>2, <3>2, <3>3, <3>4, <3>5, HandlerStep
  <2>3. CASE ~ Resumes(t, "readTrack", "ok")
    <3>1. markError(t)
      BY <1>8, <2>3 DEF AfterReadTrack
    <3> QED
      BY <1>1, <1>2, <1>5, <2>1, <3>1, MarkErrorStep
  <2> QED
    BY <2>2, <2>3
<1>9. CASE AfterAuthenticate(t)
  <2>1. w.pc = "authenticate" /\ reader = w.pan /\ reader' = reader
    BY <1>3, <1>9 DEF AfterAuthenticate, Resumes, Arriving, otherVars, deviceVars
  <2>2. CASE Resumes(t, "authenticate", "ok")
    <3>1. cardStatus[w.pan] = "ACTIVE"
      BY <1>3, <2>2 DEF Resumes, Arriving
    <3> DEFINE s == [session EXCEPT !.accountId = AccountOf[w.pan]]
    <3>2. Enter(s, "PIN_ENTRY") /\ Finish(t)
      BY <1>4, <1>9, <2>2 DEF AfterAuthenticate, Resumes
    <3>3. AccountOf[w.pan] \in Accounts
      BY <1>4, AppAssumption
    <3>4. /\ s \in Session /\ s.id = session.id /\ s.cardPan = session.cardPan
          /\ s.accountId = AccountOf[w.pan] /\ s.failedPinAttempts = session.failedPinAttempts
      BY <1>4, <3>3 DEF Session
    <3>5. session' = [s EXCEPT !.state = "PIN_ENTRY"]
      BY <3>2 DEF Enter
    <3> HIDE DEF s
    <3>6. /\ session' \in Session /\ session'.state = "PIN_ENTRY" /\ session'.id = s.id
          /\ session'.cardPan = s.cardPan /\ session'.accountId = s.accountId
          /\ session'.failedPinAttempts = s.failedPinAttempts
      BY <3>4, <3>5 DEF Session, AtmState, IDLE_TIMEOUT_STATES
    <3>7. session' # NoSession
      BY <3>6, SessionAssumption
    <3>8. task'[t].pc = "idle" /\ \A u \in Tasks : u # t => task'[u] = task[u]
      BY <3>2, Finished
    <3>9. StateSound'
      BY <1>1, <1>3, <1>4, <2>1, <3>4, <3>6, <3>7
         DEF StateSound, SessionSound, RowIsOwn, CardHasSession, RetainedAfterTries, AfterPin
    <3>10. failedPinCount[w.pan] \in Nat
      BY <1>4 DEF AppInv, OtherOK
    <3>11. session'.failedPinAttempts <= failedPinCount'[session'.cardPan]
      BY <1>1, <1>4, <3>4, <3>6, <3>10
    <3>12. AtRest'
      BY <1>1, <1>4, <1>5, <3>1, <3>4, <3>6, <3>7, <3>11 DEF AtRest, TryingPin, At, Open
    <3> QED
      BY <1>1, <1>2, <3>8, <3>9, <3>12, HandlerStep
  <2>3. CASE ~ Resumes(t, "authenticate", "ok")
    <3>1. markError(t)
      BY <1>9, <2>3 DEF AfterAuthenticate
    <3> QED
      BY <1>1, <1>2, <1>5, <2>1, <3>1, MarkErrorStep
  <2> QED
    BY <2>2, <2>3
<1> QED
  BY <1>7, <1>8, <1>9

LEMMA GetPinOrder ==
    ASSUME AppInv, OrderInv, NEW t \in Tasks, AfterGetPin(t)
    PROVE  OrderInv'
<1>1. /\ task[t].pc = "getPin" /\ task[t].res # "pending"
      /\ UNCHANGED <<session, sessionRow, reader, entry, cardStatus, failedPinCount, proved>>
  BY DEF AfterGetPin, appVars, cardVars, historyVars
<1>2. Running(t)
  BY <1>1, ResumedRuns DEF Ops
<1>3. Scene(task[t]) /\ StateSound
  BY <1>2, Alone
<1>4. /\ session = NoSession \/ TryingPin
      /\ entry # NoTask => pinBuffer = "none"
  BY <1>1, <1>3 DEF Scene
<1>5. StateSound'
  BY <1>1, <1>3, SoundKept
<1>6. CASE session = NoSession \/ pinBuffer = "none"
  <2>1. task'[t].pc = "idle" /\ \A u \in Tasks : u # t => task'[u] = task[u]
    BY <1>6, Finished DEF AfterGetPin
  <2>2. AtRest'
    BY <1>1, <1>4 DEF AtRest, TryingPin, At, Open
  <2> QED
    BY <1>1, <1>2, <1>5, <2>1, <2>2, HandlerStep
<1>7. CASE session # NoSession /\ pinBuffer # "none"
  <2>1. /\ task'[t] = [Await("verifyPin") EXCEPT !.pan = session.cardPan, !.typed = pinBuffer,
                          !.sid = session.id]
        /\ \A u \in Tasks : u # t => task'[u] = task[u]
    BY <1>7, Waited DEF AfterGetPin
  <2>2. /\ task'[t].pc = "verifyPin" /\ task'[t].res = "pending"
        /\ task'[t].pan = session.cardPan /\ task'[t].sid = session.id
    BY <2>1 DEF Await
  <2>3. Scene(task[t])'
    BY <1>1, <1>4, <1>7, <2>2 DEF Scene, Verifying, TryingPin, At, Open
  <2> QED
    BY <1>1, <1>2, <1>5, <2>1, <2>2, <2>3, HandlerStep
<1> QED
  BY <1>6, <1>7

LEMMA VerifiedOrder ==
    ASSUME AppInv, OrderInv, NEW t \in Tasks, AfterVerifyPinOk(t)
    PROVE  OrderInv'
<1>1. /\ task[t].pc = "verifyPin" /\ task[t].res = "ok" /\ transitionTo("MAIN_MENU") /\ Finish(t)
      /\ UNCHANGED <<sessionRow, reader, entry, cardStatus, failedPinCount, proved>>
  BY DEF AfterVerifyPinOk, Resumes, otherVars, deviceVars, cardVars, historyVars
<1>2. Running(t)
  BY <1>1, ResumedRuns DEF Ops
<1>3. Verifying(task[t]) /\ StateSound
  BY <1>1, <1>2, Alone DEF Scene
<1>4. /\ Open /\ session # NoSession /\ session.state = "PIN_ENTRY" /\ session.id \in proved
      /\ entry = NoTask
  BY <1>1, <1>3 DEF Verifying, At, Open
<1>5. session.accountId = AccountOf[session.cardPan]
  BY <1>3, <1>4 DEF StateSound, SessionSound
<1>6. Moved("MAIN_MENU")
  BY <1>1, <1>4, EnterMoves DEF AtmState, AfterPin
<1>7. StateSound'
  BY <1>1, <1>3, <1>4, <1>5, <1>6, MovedSound
<1>8. AtRest'
  BY <1>1, <1>4, <1>6 DEF AtRest, At, Open, Moved
<1>9. task'[t].pc = "idle" /\ \A u \in Tasks : u # t => task'[u] = task[u]
  BY <1>1, Finished
<1> QED
  BY <1>1, <1>2, <1>7, <1>8, <1>9, HandlerStep

LEMMA RefusedOrder ==
    ASSUME AppInv, OrderInv, NEW t \in Tasks, AfterVerifyPinNo(t)
    PROVE  OrderInv'
<1> DEFINE w == task[t]
<1>1. /\ w.pc = "verifyPin" /\ w.res \in {"no", "exceeded"}
      /\ UNCHANGED <<sessionRow, reader, entry, cardStatus, failedPinCount, proved>>
  BY DEF AfterVerifyPinNo, Resumes, otherVars, deviceVars, cardVars, historyVars
<1>2. Running(t)
  BY <1>1, ResumedRuns DEF Ops
<1>3. Verifying(w) /\ StateSound
  BY <1>1, <1>2, Alone DEF Scene
<1>4. /\ Open /\ session # NoSession /\ session \in Session /\ session.state = "PIN_ENTRY"
      /\ session.cardPan = w.pan /\ w.pan \in Cards /\ cardStatus[w.pan] = "ACTIVE"
      /\ session.failedPinAttempts < failedPinCount[w.pan]
      /\ w.res = "exceeded" => failedPinCount[w.pan] >= MaxPinAttempts
  BY <1>1, <1>3 DEF Verifying, At, Open, AppInv, SessionOK, Session
<1>5. session' = [session EXCEPT !.failedPinAttempts = session.failedPinAttempts + 1]
  BY <1>4 DEF AfterVerifyPinNo
<1>6. session.failedPinAttempts \in Nat /\ failedPinCount[w.pan] \in Nat
  BY <1>4 DEF Session, AppInv, OtherOK
<1>7. /\ session' \in Session /\ session'.state = "PIN_ENTRY" /\ session'.id = session.id
      /\ session'.cardPan = w.pan /\ session'.accountId = session.accountId
      /\ session'.failedPinAttempts = session.failedPinAttempts + 1
  BY <1>4, <1>5, <1>6 DEF Session
<1>8. session' # NoSession
  BY <1>7, SessionAssumption
<1>9. session'.failedPinAttempts <= failedPinCount[w.pan]
  BY <1>4, <1>6, <1>7
<1>10. StateSound'
  BY <1>1, <1>3, <1>4, <1>7, <1>8
     DEF StateSound, SessionSound, RowIsOwn, CardHasSession, RetainedAfterTries, AfterPin
<1>11. CASE session'.failedPinAttempts >= MaxPinAttempts \/ w.res = "exceeded"
  <2>1. failedPinCount[w.pan] >= MaxPinAttempts
    BY <1>4, <1>6, <1>7, <1>9, <1>11, AppAssumption
  <2>2. Wait(t, Await("retainDev"))
    BY <1>4, <1>11 DEF AfterVerifyPinNo
  <2>3. task'[t] = Await("retainDev") /\ \A u \in Tasks : u # t => task'[u] = task[u]
    BY <2>2, Waited
  <2>4. task'[t].pc = "retainDev" /\ task'[t].res = "pending"
    BY <2>3, SameOps
  <2>5. Scene(task[t])'
    BY <1>1, <1>4, <1>7, <1>8, <1>9, <2>1, <2>4 DEF Scene, Retaining, At, Open
  <2> QED
    BY <1>1, <1>2, <1>10, <2>3, <2>4, <2>5, HandlerStep
<1>12. CASE ~ (session'.failedPinAttempts >= MaxPinAttempts \/ w.res = "exceeded")
  <2>1. Finish(t)
    BY <1>4, <1>12 DEF AfterVerifyPinNo
  <2>2. task'[t].pc = "idle" /\ \A u \in Tasks : u # t => task'[u] = task[u]
    BY <2>1, Finished
  <2>3. AtRest'
    BY <1>1, <1>4, <1>7, <1>8, <1>9 DEF AtRest, TryingPin, At, Open
  <2> QED
    BY <1>1, <1>2, <1>10, <2>2, <2>3, HandlerStep
<1> QED
  BY <1>11, <1>12

LEMMA RetainOrder ==
    ASSUME AppInv, OrderInv, NEW t \in Tasks, AfterRetainDev(t) \/ AfterRetainHost(t)
    PROVE  OrderInv'
<1>1. /\ task[t].pc \in {"retainDev", "retainHost"} /\ task[t].res # "pending"
      /\ UNCHANGED <<sessionRow, reader, entry, cardStatus, failedPinCount, proved>>
  BY DEF AfterRetainDev, AfterRetainHost, Resumes, otherVars, deviceVars, cardVars, historyVars
<1>2. Running(t)
  BY <1>1, ResumedRuns DEF Ops
<1>3. Retaining(task[t]) /\ StateSound
  BY <1>1, <1>2, Alone DEF Scene
<1>4. Open /\ session # NoSession /\ session.state = "PIN_ENTRY" /\ reader = NoCard
  BY <1>1, <1>3 DEF Retaining, At, Open
<1>5. CASE AfterRetainDev(t)
  <2>1. session' = session /\ task[t].pc = "retainDev"
    BY <1>5 DEF AfterRetainDev, appVars
  <2>2. /\ task'[t] = [Await("retainHost") EXCEPT !.pan = session.cardPan]
        /\ \A u \in Tasks : u # t => task'[u] = task[u]
    BY <1>4, <1>5, Waited DEF AfterRetainDev
  <2>3. /\ task'[t].pc = "retainHost" /\ task'[t].res = "pending"
        /\ task'[t].pan = session.cardPan
    BY <2>2, SameOps
  <2>4. StateSound'
    BY <1>1, <1>3, <2>1, SoundKept
  <2>5. Scene(task[t])'
    BY <1>1, <1>3, <1>4, <2>1, <2>3 DEF Scene, Retaining, At, Open
  <2> QED
    BY <1>1, <1>2, <2>2, <2>3, <2>4, <2>5, HandlerStep
<1>6. CASE AfterRetainHost(t)
  <2>1. Moved("ERROR")
    BY <1>4, <1>6, EnterMoves DEF AfterRetainHost, AtmState
  <2>2. /\ task'[t] = [Await("endRow") EXCEPT !.sid = session.id]
        /\ \A u \in Tasks : u # t => task'[u] = task[u]
    BY <1>4, <1>6, Waited DEF AfterRetainHost
  <2>3. task'[t].pc = "endRow" /\ task'[t].res = "pending" /\ task'[t].sid = session.id
    BY <2>2, SameOps
  <2>4. StateSound'
    BY <1>1, <1>3, <2>1, MovedSound DEF AfterPin
  <2>5. Scene(task[t])'
    BY <1>1, <1>4, <2>1, <2>3 DEF Scene, Ending, Open, Moved
  <2> QED
    BY <1>1, <1>2, <2>2, <2>3, <2>4, <2>5, HandlerStep
<1> QED
  BY <1>5, <1>6

(* The session goes on to the state of its next operation.                 *)
LEMMA AdvanceSound ==
    ASSUME AppInv, StateSound, Open, session.state \in AfterPin,
           NEW st \in {"DISPENSING", "PRINTING", "EJECTING"}, transitionTo(st),
           UNCHANGED <<sessionRow, reader, entry, cardStatus, failedPinCount, proved>>
    PROVE  Moved(st) /\ StateSound' /\ At({st})'
<1>1. session # NoSession /\ sessionRow[session.id] = "open"
  BY DEF Open
<1>2. Moved(st)
  BY <1>1, EnterMoves DEF AtmState, AfterPin
<1>3. /\ session.id \in proved /\ session.accountId = AccountOf[session.cardPan]
      /\ entry # NoTask => session.state \in {"CARD_INSERTED", "PIN_ENTRY", "ERROR"}
  BY <1>1 DEF StateSound, SessionSound
<1>4. entry = NoTask
  BY <1>3 DEF AfterPin
<1>5. StateSound'
  BY <1>2, <1>3, <1>4, MovedSound
<1> QED
  BY <1>1, <1>2, <1>5 DEF At, Open, Moved

LEMMA MoneyOrder ==
    ASSUME AppInv, OrderInv, NEW t \in Tasks,
           AfterGetBalance(t) \/ AfterAuthorizeOk(t) \/ AfterDispenseOk(t) \/ AfterDispenseFail(t)
    PROVE  OrderInv'
<1> DEFINE w == task[t]
<1>1. /\ w.pc \in {"getBalance", "authorize", "dispense"} /\ w.res # "pending"
      /\ UNCHANGED <<sessionRow, reader, entry, cardStatus, failedPinCount, proved>>
  BY DEF AfterGetBalance, AfterAuthorizeOk, AfterDispenseOk, AfterDispenseFail, Resumes, appVars,
         otherVars, deviceVars, cardVars, historyVars
<1>2. Running(t)
  BY <1>1, ResumedRuns DEF Ops
<1>3. Scene(w) /\ StateSound
  BY <1>2, Alone
<1>4. w \in Waiting
  BY <1>1, ActiveTask DEF AppInv, Ops
<1>5. w.pc # "getBalance" => Withdrawing(w)
  BY <1>1, <1>3 DEF Scene
<1>6. Open /\ session # NoSession /\ session.state \in AfterPin
  BY <1>1, <1>3, <1>5 DEF Scene, Withdrawing, At, Open, AfterPin
<1>7. CASE AfterGetBalance(t)
  <2>1. At({"PRINTING"})' /\ StateSound'
    BY <1>1, <1>3, <1>6, <1>7, AdvanceSound DEF AfterGetBalance
  <2>2. task'[t] = Await("print") /\ \A u \in Tasks : u # t => task'[u] = task[u]
    BY <1>6, <1>7, Waited DEF AfterGetBalance
  <2>3. task'[t].pc = "print" /\ task'[t].res = "pending"
    BY <2>2, SameOps
  <2>4. Scene(task[t])'
    BY <2>1, <2>3 DEF Scene
  <2> QED
    BY <1>1, <1>2, <2>1, <2>2, <2>3, <2>4, HandlerStep
<1>8. CASE AfterAuthorizeOk(t)
  <2>1. w.pc = "authorize"
    BY <1>8 DEF AfterAuthorizeOk, Resumes
  <2>2. Moved("DISPENSING") /\ At({"DISPENSING"})' /\ StateSound'
    BY <1>1, <1>3, <1>6, <1>8, AdvanceSound DEF AfterAuthorizeOk
  <2>3. /\ task'[t] = [w EXCEPT !.pc = "dispense", !.res = "pending", !.amount = session.amount]
        /\ \A u \in Tasks : u # t => task'[u] = task[u]
    BY <1>6, <1>8, Waited DEF AfterAuthorizeOk
  <2>4. /\ task'[t].pc = "dispense" /\ task'[t].res = "pending" /\ task'[t].pan = w.pan
        /\ task'[t].amount = session.amount
    BY <1>4, <2>3 DEF Waiting
  <2>5. Scene(task[t])'
    BY <1>5, <2>1, <2>2, <2>4 DEF Scene, Withdrawing, Moved
  <2> QED
    BY <1>1, <1>2, <2>2, <2>3, <2>4, <2>5, HandlerStep
<1>9. CASE AfterDispenseOk(t)
  <2>1. session.amount # 0
    BY <1>5, <1>9 DEF AfterDispenseOk, Resumes, Withdrawing
  <2>2. At({"PRINTING"})' /\ StateSound'
    BY <1>1, <1>3, <1>6, <1>9, AdvanceSound DEF AfterDispenseOk
  <2>3. task'[t] = Await("print") /\ \A u \in Tasks : u # t => task'[u] = task[u]
    BY <1>6, <1>9, <2>1, Waited DEF AfterDispenseOk
  <2>4. task'[t].pc = "print" /\ task'[t].res = "pending"
    BY <2>3, SameOps
  <2>5. Scene(task[t])'
    BY <2>2, <2>4 DEF Scene
  <2> QED
    BY <1>1, <1>2, <2>2, <2>3, <2>4, <2>5, HandlerStep
<1>10. CASE AfterDispenseFail(t)
  <2>1. w.pc = "dispense" /\ session' = session
    BY <1>10 DEF AfterDispenseFail, Resumes, appVars
  <2>2. /\ task'[t] = [w EXCEPT !.pc = "reverse", !.res = "pending",
                          !.account = session.accountId, !.amount = session.amount]
        /\ \A u \in Tasks : u # t => task'[u] = task[u]
    BY <1>6, <1>10, Waited DEF AfterDispenseFail
  <2>3. /\ task'[t].pc = "reverse" /\ task'[t].res = "pending" /\ task'[t].pan = w.pan
        /\ task'[t].account = session.accountId /\ task'[t].amount = session.amount
    BY <1>4, <2>2 DEF Waiting
  <2>4. StateSound'
    BY <1>1, <1>3, <2>1, SoundKept
  <2>5. Scene(task[t])'
    BY <1>1, <1>5, <2>1, <2>3 DEF Scene, Withdrawing, At, Open
  <2> QED
    BY <1>1, <1>2, <2>2, <2>3, <2>4, <2>5, HandlerStep
<1> QED
  BY <1>7, <1>8, <1>9, <1>10

LEMMA GiveUpOrder ==
    ASSUME AppInv, OrderInv, NEW t \in Tasks, AfterAuthorizeNo(t) \/ AfterReverse(t)
    PROVE  OrderInv'
<1>1. /\ task[t].pc \in {"authorize", "reverse"} /\ task[t].res # "pending" /\ markError(t)
      /\ UNCHANGED <<sessionRow, reader, entry, cardStatus, failedPinCount, proved>>
  BY DEF AfterAuthorizeNo, AfterReverse, Resumes, otherVars, deviceVars, cardVars, historyVars
<1>2. Running(t)
  BY <1>1, ResumedRuns DEF Ops
<1>3. Open
  BY <1>1, <1>2, Alone DEF Scene, Withdrawing, At
<1> QED
  BY <1>1, <1>2, <1>3, MarkErrorStep

LEMMA EndOrder ==
    ASSUME AppInv, OrderInv, NEW t \in Tasks, AfterPrint(t) \/ AfterEject(t) \/ AfterEndRow(t)
    PROVE  OrderInv'
<1>1. /\ task[t].pc \in {"print", "eject", "endRow"} /\ task[t].res # "pending"
      /\ UNCHANGED <<sessionRow, reader, entry, cardStatus, failedPinCount, proved>>
  BY DEF AfterPrint, AfterEject, AfterEndRow, Resumes, otherVars, deviceVars, cardVars, historyVars
<1>2. Running(t)
  BY <1>1, ResumedRuns DEF Ops
<1>3. Scene(task[t]) /\ StateSound
  BY <1>2, Alone
<1>4. CASE AfterPrint(t)
  <2>1. Open /\ session.state \in AfterPin
    BY <1>3, <1>4 DEF AfterPrint, Scene, At, AfterPin
  <2>2. Moved("EJECTING") /\ StateSound'
    BY <1>1, <1>3, <1>4, <2>1, AdvanceSound DEF AfterPrint
  <2>3. session' # NoSession /\ session'.id = session.id
    BY <2>2 DEF Moved
  <2>4. /\ task'[t].pc \in {"eject", "endRow"} /\ Scene(task[t])'
        /\ \A u \in Tasks : u # t => task'[u] = task[u]
    BY <1>1, <1>4, <2>1, <2>3, EndScene DEF AfterPrint
  <2> QED
    BY <1>1, <1>2, <2>2, <2>4, HandlerStep
<1>5. CASE AfterEject(t)
  <2>1. /\ session # NoSession /\ Open /\ reader = NoCard /\ session' = session
    BY <1>1, <1>3, <1>5 DEF AfterEject, Scene, Ending, Open
  <2>2. /\ task'[t] = [Await("endRow") EXCEPT !.sid = session.id]
        /\ \A u \in Tasks : u # t => task'[u] = task[u]
    BY <1>5, <2>1, Waited DEF AfterEject
  <2>3. task'[t].pc = "endRow" /\ task'[t].res = "pending" /\ task'[t].sid = session.id
    BY <2>2, SameOps
  <2>4. StateSound'
    BY <1>1, <1>3, <2>1, SoundKept
  <2>5. Scene(task[t])'
    BY <1>1, <2>1, <2>3 DEF Scene, Ending, Open
  <2> QED
    BY <1>1, <1>2, <2>2, <2>3, <2>4, <2>5, HandlerStep
<1>6. CASE AfterEndRow(t)
  <2>1. /\ session # NoSession /\ sessionRow[session.id] = "ended" /\ reader = NoCard
        /\ session' = NoSession /\ Finish(t)
    BY <1>3, <1>6 DEF AfterEndRow, Resumes, Scene, Ending
  <2>2. task'[t].pc = "idle" /\ \A u \in Tasks : u # t => task'[u] = task[u]
    BY <2>1, Finished
  <2>3. StateSound'
    BY <1>1, <1>3, <2>1
       DEF StateSound, SessionSound, RowIsOwn, CardHasSession, RetainedAfterTries
  <2>4. AtRest'
    BY <2>1 DEF AtRest
  <2> QED
    BY <1>1, <1>2, <2>2, <2>3, <2>4, HandlerStep
<1> QED
  BY <1>4, <1>5, <1>6

LEMMA OrderStep == AppInv /\ Orderly /\ OrderInv /\ [Next]_vars => OrderInv'
<1> SUFFICES ASSUME AppInv, Orderly, OrderInv, [Next]_vars PROVE OrderInv'
  OBVIOUS
<1>0. AppInv'
  BY AppStep
<1>1. ASSUME NEW t \in Tasks, Request(t) PROVE OrderInv'
  BY <1>0, <1>1, InsertOrder, BeginPinOrder, SelectOrder, ConfirmOrder, CancelOrder DEF Request
<1>2. ASSUME NEW t \in Tasks, IdleTimeout(t) \/ Fail(t) \/ Effect(t) PROVE OrderInv'
  BY <1>2, TimeoutOrder, FailOrder, EffectOrder
<1>3. ASSUME NEW t \in Tasks, Continue(t) PROVE OrderInv'
  BY <1>3, RejectOrder, ArrivalOrder, GetPinOrder, VerifiedOrder, RefusedOrder, RetainOrder,
     MoneyOrder, GiveUpOrder, EndOrder DEF Continue
<1>4. CASE UNCHANGED vars
  <2>1. UNCHANGED <<session, task, reader, entry, pinBuffer, cardStatus, failedPinCount,
                    sessionRow, proved>>
    BY <1>4 DEF vars, appVars, otherVars, deviceVars, cardVars, historyVars
  <2> QED
    BY <2>1 DEF OrderInv, OneRuns, Running, MachineIdle, AtRest, StateSound, SessionSound, RowIsOwn,
       CardHasSession, RetainedAfterTries, Scene, Arriving, Verifying, Retaining, Withdrawing,
       Ending, TryingPin, At, Open
<1> QED
  BY <1>1, <1>2, <1>3, <1>4, SubmitOrder, KeysOrder DEF Next

-----------------------------------------------------------------------------
(* The debit that is not settled moves with its one handler.               *)

LEMMA OwingRuns ==
    ASSUME AppInv, NEW t \in Tasks, Owing(task[t])
    PROVE  Running(t) /\ task[t].pc \in StanOps
BY AppAssumption DEF Owing, Running, StanOps, AppInv, EntryOK

LEMMA DebitInit == Init => DebitInv
<1> SUFFICES ASSUME Init PROVE DebitInv
  OBVIOUS
<1>1. \A t \in Tasks : ~ Owing(task[t])
  BY DEF Init, Idle, Owing
<1>2. \A a \in Accounts : balance[a] = InitialBalance[a] /\ cash[a] = 0 /\ InitialBalance[a] \in Nat
  BY LedgerAssumption DEF Init, LedgerInit
<1> QED
  BY <1>1, <1>2 DEF DebitInv

LEMMA DebitKept ==
    ASSUME DebitInv, UNCHANGED <<balance, cash>>,
           \A u \in Tasks :
               /\ Owing(task'[u]) <=> Owing(task[u])
               /\ Owing(task'[u]) => task'[u].pan = task[u].pan /\ task'[u].amount = task[u].amount
    PROVE  DebitInv'
BY DEF DebitInv

LEMMA PlainOthers ==
    ASSUME AppInv, NEW t \in Tasks, Plain(t), task[t].pc \notin StanOps \/ task[t].res # "pending"
    PROVE  /\ \A u \in Tasks : u # t => task'[u] = task[u]
           /\ task'[t] = task[t] \/ task'[t].pc \notin StanOps
<1>1. ASSUME NEW w, Wait(t, w), w.pc \notin StanOps
      PROVE  /\ \A u \in Tasks : u # t => task'[u] = task[u]
             /\ task'[t] = task[t] \/ task'[t].pc \notin StanOps
  BY <1>1, Waited
<1>2. CASE UNCHANGED task
  BY <1>2
<1>3. CASE Finish(t)
  BY <1>3, Finished DEF StanOps
<1>4. CASE EjectAndEnd(t)
  <2>1. Await("eject").pc = "eject" /\ Idle.pc = "idle"
    BY DEF Await, Idle
  <2>2. \A i : [Await("endRow") EXCEPT !.sid = i].pc = "endRow"
    BY DEF Await
  <2> QED
    BY <1>1, <1>4, <2>1, <2>2 DEF EjectAndEnd, StanOps
<1>5. CASE markError(t)
  BY <1>3, <1>4, <1>5 DEF markError
<1>6. CASE \E op \in Ops \ StanOps : \E w : w.pc = op /\ Wait(t, w)
  BY <1>1, <1>6
<1>7. ASSUME task[t].res = "pending", NEW r \in Results, Resolve(t, r)
      PROVE  /\ \A u \in Tasks : u # t => task'[u] = task[u]
             /\ task'[t] = task[t] \/ task'[t].pc \notin StanOps
  <2>1. task[t].pc \in Ops /\ task[t].pc \notin StanOps
    BY <1>7, ActiveTask DEF AppInv, TaskOK, GoodTask, Idle, Waiting
  <2> QED
    BY <1>7, <2>1, Resolved
<1> QED
  BY <1>2, <1>3, <1>4, <1>5, <1>6, <1>7 DEF Plain

LEMMA QuietDebit ==
    ASSUME AppInv, DebitInv, NEW t \in Tasks, Plain(t), UNCHANGED <<balance, cash>>,
           task[t].pc \notin StanOps \/ task[t].res # "pending", ~ Owing(task[t])
    PROVE  DebitInv'
<1>1. /\ \A u \in Tasks : u # t => task'[u] = task[u]
      /\ task'[t] = task[t] \/ task'[t].pc \notin StanOps
  BY PlainOthers
<1>2. ~ Owing(task'[t])
  BY <1>1 DEF Owing, StanOps
<1> QED
  BY <1>1, <1>2, DebitKept

(* The quiet steps: a failed dispense still owes, the others owe nothing.  *)
LEMMA DebitQuiet ==
    ASSUME AppInv, OrderInv, Orderly, DebitInv, NEW t \in Tasks, QuietAction(t)
    PROVE  DebitInv'
<1>1. Plain(t) /\ UNCHANGED <<balance, cash>>
  BY QuietSteps DEF Quiet, ledgerVars
<1>2. CASE task[t].pc \notin StanOps
  <2>1. ~ Owing(task[t])
    BY <1>2 DEF Owing, StanOps
  <2> QED
    BY <1>1, <1>2, <2>1, QuietDebit
<1>3. CASE task[t].pc \in StanOps /\ task[t].res # "pending"
  <2>1. \/ Reject(t) \/ AfterAuthorizeNo(t) \/ AfterDispenseOk(t) \/ AfterReverse(t)
    BY <1>3 DEF QuietAction, InsertCard, BeginPinEntry, SelectTransaction, CancelTransaction,
       IdleTimeout, Fail, CreateRow, EndRow, ReadTrack, LeaveReader, PrintForm, Authenticate,
       VerifyPin, HostRetainCard, GetBalance, HostDeclines, AfterCreateRow, AfterReadTrack,
       AfterAuthenticate, AfterGetPin, AfterVerifyPinOk, AfterVerifyPinNo, AfterRetainDev,
       AfterRetainHost, AfterGetBalance, AfterPrint, AfterEject, AfterEndRow, Pending, Resumes,
       StanOps
  <2>2. Running(t)
    BY <1>3, ResumedRuns DEF StanOps, Ops
  <2>3. Withdrawing(task[t])
    BY <1>3, <2>2, Alone DEF Scene, StanOps
  <2>4. ~ Owing(task[t])
    BY <2>1, <2>3 DEF Reject, AfterAuthorizeNo, AfterDispenseOk, AfterReverse, Resumes, Owing,
       Withdrawing
  <2> QED
    BY <1>1, <1>3, <2>4, QuietDebit
<1>4. CASE task[t].pc \in StanOps /\ task[t].res = "pending"
  <2>1. Fail(t) \/ HostDeclines(t)
    BY <1>4 DEF QuietAction, InsertCard, BeginPinEntry, SelectTransaction, CancelTransaction,
       IdleTimeout, CreateRow, EndRow, ReadTrack, LeaveReader, PrintForm, Authenticate,
       VerifyPin, HostRetainCard, GetBalance, Reject, AfterCreateRow, AfterReadTrack,
       AfterAuthenticate, AfterGetPin, AfterVerifyPinOk, AfterVerifyPinNo, AfterRetainDev,
       AfterRetainHost, AfterGetBalance, AfterAuthorizeNo, AfterDispenseOk, AfterReverse,
       AfterPrint, AfterEject, AfterEndRow, Pending, Resumes, StanOps
  <2>2. PICK r \in {"no", "fail"} : Resolve(t, r)
    BY <2>1 DEF Fail, HostDeclines
  <2>3. /\ task'[t].pc = task[t].pc /\ task'[t].res = r
        /\ task'[t].pan = task[t].pan /\ task'[t].amount = task[t].amount
        /\ \A u \in Tasks : u # t => task'[u] = task[u]
    BY <1>4, <2>2, Resolved DEF StanOps, Ops, Results
  <2>4. Owing(task'[t]) <=> Owing(task[t])
    BY <1>4, <2>3 DEF Owing, StanOps
  <2> QED
    BY <1>1, <2>3, <2>4, DebitKept
<1> QED
  BY <1>2, <1>3, <1>4

LEMMA DebitPad ==
    ASSUME AppInv, DebitInv,
           \/ Keys \/ CancelEntry
           \/ \E amt \in Amounts : SubmitAmount(amt)
           \/ \E t \in Tasks : ArmPinEntry(t)
    PROVE  DebitInv'
<1>0. UNCHANGED <<balance, cash>>
  BY DEF Keys, PressDigits, PressClear, PressEnter, CancelEntry, SubmitAmount, ArmPinEntry,
         ledgerVars, otherVars, historyVars
<1>1. CASE UNCHANGED task
  BY <1>0, <1>1, DebitKept
<1>2. CASE entry \in Tasks /\ (PressEnter \/ CancelEntry \/ \E t \in Tasks : ArmPinEntry(t))
  <2>1. task[entry].pc = "getPin"
    BY <1>2, AppAssumption DEF AppInv, EntryOK
  <2>2. task[entry] \in Waiting /\ DOMAIN task = Tasks
    BY <1>2, <2>1, ActiveTask DEF AppInv, TaskOK, Ops
  <2>3. PICK r \in {"ok", "fail"} :
          \A u \in Tasks : task'[u] = IF u = entry THEN [task[u] EXCEPT !.res = r] ELSE task[u]
    BY <1>2, <2>2 DEF PressEnter, CancelEntry, ArmPinEntry, Resolve
  <2>4. task'[entry].pc = "getPin"
    BY <1>2, <2>1, <2>2, <2>3 DEF Waiting
  <2>5. \A u \in Tasks : (Owing(task'[u]) <=> Owing(task[u])) /\ (Owing(task[u]) => task'[u] = task[u])
    BY <2>1, <2>3, <2>4 DEF Owing
  <2> QED
    BY <1>0, <2>5, DebitKept
<1>3. CASE entry \notin Tasks /\ (\E t \in Tasks : ArmPinEntry(t))
  <2>1. \A u \in Tasks : task'[u] = task[u]
    BY <1>3 DEF ArmPinEntry
  <2> QED
    BY <1>0, <2>1, DebitKept
<1>4. PressEnter \/ CancelEntry => entry \in Tasks
  BY DEF PressEnter, CancelEntry, AppInv, OtherOK
<1> QED
  BY <1>1, <1>2, <1>3, <1>4 DEF Keys, PressDigits, PressClear, SubmitAmount

LEMMA DebitConfirm ==
    ASSUME AppInv, DebitInv, NEW t \in Tasks, ConfirmTransaction(t)
    PROVE  DebitInv'
<1>1. task[t].pc = "idle" /\ UNCHANGED <<balance, cash>>
  BY DEF ConfirmTransaction, ledgerVars, historyVars
<1> DEFINE w == [Await("authorize") EXCEPT !.pan = session.cardPan, !.amount = session.amount,
                    !.stanNo = stanCounter]
<1>2. markError(t) \/ UNCHANGED task \/ Wait(t, w)
  BY DEF ConfirmTransaction
<1>3. w.pc = "authorize" /\ w.res = "pending"
  BY DEF Await
<1> HIDE DEF w
<1>4. ~ Owing(task[t]) /\ task[t].pc \notin StanOps
  BY <1>1 DEF Owing, StanOps
<1>5. CASE markError(t) \/ UNCHANGED task
  BY <1>1, <1>4, <1>5, QuietDebit DEF Plain
<1>6. CASE Wait(t, w)
  <2>1. task'[t] = w /\ \A u \in Tasks : u # t => task'[u] = task[u]
    BY <1>6, Waited
  <2>2. ~ Owing(task'[t])
    BY <1>3, <2>1 DEF Owing
  <2> QED
    BY <1>1, <1>4, <2>1, <2>2, DebitKept
<1> QED
  BY <1>2, <1>5, <1>6

LEMMA DebitHandOver ==
    ASSUME AppInv, OrderInv, DebitInv, NEW t \in Tasks, AfterAuthorizeOk(t) \/ AfterDispenseFail(t)
    PROVE  DebitInv'
<1> DEFINE w == task[t]
<1>1. /\ \/ w.pc = "authorize" /\ w.res = "ok"
         \/ w.pc = "dispense" /\ w.res = "fail"
      /\ UNCHANGED <<balance, cash>>
  BY DEF AfterAuthorizeOk, AfterDispenseFail, Resumes, ledgerVars, otherVars, historyVars
<1>2. Running(t)
  BY <1>1, ResumedRuns DEF Ops
<1>3. Withdrawing(w) /\ w \in Waiting
  BY <1>1, <1>2, Alone, ActiveTask DEF Scene, AppInv, Ops
<1>4. session # NoSession /\ session.amount = w.amount
  BY <1>3 DEF Withdrawing, At, Open
<1>5. \/ task'[t] = [w EXCEPT !.pc = "dispense", !.res = "pending", !.amount = session.amount]
      \/ task'[t] = [w EXCEPT !.pc = "reverse", !.res = "pending", !.account = session.accountId,
                        !.amount = session.amount]
  BY <1>4, Waited DEF AfterAuthorizeOk, AfterDispenseFail
<1>6. \A u \in Tasks : u # t => task'[u] = task[u]
  BY <1>4, Waited DEF AfterAuthorizeOk, AfterDispenseFail
<1>7. /\ task'[t].pc \in {"dispense", "reverse"} /\ task'[t].res = "pending"
      /\ task'[t].pan = w.pan /\ task'[t].amount = w.amount
  BY <1>3, <1>4, <1>5 DEF Waiting
<1>8. Owing(task[t]) /\ Owing(task'[t])
  BY <1>1, <1>7 DEF Owing
<1> QED
  BY <1>1, <1>6, <1>7, <1>8, DebitKept

(* The host debits what the handler then owes; the dispenser or the        *)
(* reversal settles it.                                                    *)
LEMMA DebitPayment ==
    ASSUME AppInv, OrderInv, DebitInv, NEW t \in Tasks,
           HostApproves(t) \/ Dispense(t) \/ ReverseTransaction(t)
    PROVE  DebitInv'
<1> DEFINE w == task[t]
           acct == AccountOf[w.pan]
<1>1. PICK op \in {"authorize", "dispense", "reverse"} : Pending(t, op)
  BY DEF HostApproves, Dispense, ReverseTransaction
<1>2. Running(t) /\ w.pc = op /\ w.res = "pending" /\ op \in Ops
  BY <1>1, PendingRuns DEF Ops, Pending
<1>3. /\ Withdrawing(w) /\ StateSound
      /\ \A u \in Tasks : u # t => ~ Owing(task[u])
  BY <1>2, Alone, OwingRuns DEF Scene
<1>4. session # NoSession /\ session.cardPan = w.pan /\ w.pan \in Cards /\ w \in Waiting
  BY <1>2, <1>3, ActiveTask DEF Withdrawing, At, Open, AppInv, SessionOK, Session
<1>5. acct \in Accounts /\ w.amount \in Nat /\ w.amount # 0
  BY <1>3, <1>4, AppAssumption, LedgerAssumption, SubmittedAssumption DEF Withdrawing, Waiting
<1>6. op = "reverse" => w.account = acct
  <2>1. op = "reverse" => session.state = "DISPENSING" /\ w.account = session.accountId
    BY <1>2, <1>3 DEF Withdrawing, At
  <2> QED
    BY <1>3, <1>4, <2>1 DEF StateSound, SessionSound, AfterPin
<1>7. op = "reverse" => w.account # NoAccount
  BY <1>5, <1>6, AppAssumption
<1>8. Resolve(t, "ok")
  BY <1>2, <1>5, <1>7 DEF HostApproves, Dispense, ReverseTransaction, Pending
<1>9. /\ task'[t].pc = op /\ task'[t].res = "ok" /\ task'[t].pan = w.pan
      /\ task'[t].amount = w.amount
      /\ \A u \in Tasks : u # t => task'[u] = task[u]
  BY <1>2, <1>8, Resolved DEF Results
<1>10. /\ balance \in [Accounts -> Int] /\ cash \in [Accounts -> Int]
       /\ InitialBalance \in [Accounts -> Nat]
  BY LedgerAssumption DEF AppInv, LedgerTypeOK, OtherOK
<1>11. /\ op = "authorize" => /\ balance' = [balance EXCEPT ![acct] = balance[acct] - w.amount]
                              /\ cash' = cash
       /\ op = "dispense" => /\ cash' = [cash EXCEPT ![acct] = cash[acct] + w.amount]
                             /\ balance' = balance
       /\ op = "reverse" => /\ balance' = [balance EXCEPT ![acct] = balance[acct] + w.amount]
                            /\ cash' = cash
  <2>1. op = "authorize" => HostApproves(t)
    BY <1>2 DEF HostApproves, Dispense, ReverseTransaction, Pending
  <2>2. op = "dispense" => Dispense(t)
    BY <1>2 DEF HostApproves, Dispense, ReverseTransaction, Pending
  <2>3. op = "reverse" => ReverseTransaction(t)
    BY <1>2 DEF HostApproves, Dispense, ReverseTransaction, Pending
  <2>4. HostApproves(t) => /\ balance' = [balance EXCEPT ![acct] = balance[acct] - w.amount]
                           /\ cash' = cash
    BY DEF HostApproves, Approve, Debit, otherVars, historyVars
  <2>5. Dispense(t) => /\ cash' = [cash EXCEPT ![acct] = cash[acct] + w.amount]
                       /\ balance' = balance
    BY <1>5 DEF Dispense, ledgerVars
  <2>6. op = "reverse" => /\ balance' = [balance EXCEPT ![acct] = balance[acct] + w.amount]
                          /\ cash' = cash
    BY <1>5, <1>6, <1>7, <2>3 DEF ReverseTransaction, Credit, otherVars, historyVars
  <2> QED
    BY <2>1, <2>2, <2>4, <2>5, <2>6
<1> HIDE DEF w, acct
<1>12. CASE op = "authorize"
  <2>1. \A u \in Tasks : ~ Owing(task[u])
    BY <1>2, <1>3, <1>12 DEF Owing, w
  <2>2. \A a \in Accounts : balance[a] + cash[a] = InitialBalance[a]
    BY <2>1 DEF DebitInv
  <2>3. \A a \in Accounts :
           balance'[a] + cash'[a] + (IF a = acct THEN w.amount ELSE 0) = InitialBalance[a]
    BY <1>5, <1>10, <1>11, <1>12, <2>2
  <2>4. \A u \in Tasks : Owing(task'[u]) <=> u = t
    BY <1>3, <1>9, <1>12 DEF Owing
  <2>5. AccountOf[task'[t].pan] = acct /\ task'[t].amount = w.amount
    BY <1>9 DEF acct
  <2>6. \A u \in Tasks : Owing(task'[u]) => \A a \in Accounts :
           balance'[a] + cash'[a] + (IF a = AccountOf[task'[u].pan] THEN task'[u].amount ELSE 0)
              = InitialBalance[a]
    BY <2>3, <2>4, <2>5
  <2> QED
    BY <2>4, <2>6 DEF DebitInv
<1>13. CASE op \in {"dispense", "reverse"}
  <2>1. Owing(task[t])
    BY <1>2, <1>13 DEF Owing, w
  <2>2. \A a \in Accounts :
           balance[a] + cash[a] + (IF a = acct THEN w.amount ELSE 0) = InitialBalance[a]
    BY <2>1 DEF DebitInv, w, acct
  <2>3. \A a \in Accounts : balance'[a] + cash'[a] = InitialBalance[a]
    BY <1>5, <1>10, <1>11, <1>13, <2>2
  <2>4. \A u \in Tasks : ~ Owing(task'[u])
    BY <1>3, <1>9, <1>13 DEF Owing
  <2> QED
    BY <2>3, <2>4 DEF DebitInv
<1> QED
  BY <1>1, <1>12, <1>13

LEMMA DebitStep == AppInv /\ Orderly /\ OrderInv /\ DebitInv /\ [Next]_vars => DebitInv'
<1> SUFFICES ASSUME AppInv, Orderly, OrderInv, DebitInv, [Next]_vars PROVE DebitInv'
  OBVIOUS
<1>1. ASSUME NEW t \in Tasks, Request(t) \/ IdleTimeout(t) \/ Fail(t) PROVE DebitInv'
  BY <1>1, DebitQuiet, DebitConfirm DEF Request, QuietAction
<1>2. ASSUME NEW t \in Tasks, Effect(t) PROVE DebitInv'
  BY <1>2, DebitQuiet, DebitPad, DebitPayment DEF Effect, QuietAction
<1>3. ASSUME NEW t \in Tasks, Continue(t) PROVE DebitInv'
  BY <1>3, DebitQuiet, DebitHandOver DEF Continue, QuietAction
<1>4. CASE UNCHANGED vars
  BY <1>4, DebitKept DEF vars, ledgerVars, otherVars, historyVars
<1> QED
  BY <1>1, <1>2, <1>3, <1>4, DebitPad DEF Next

(* In ERROR only the handler that ends the session runs.                   *)
LEMMA ErrorStays ==
    ASSUME AppInv, Orderly, OrderInv, session # NoSession, session.state = "ERROR", [Next]_vars
    PROVE  session' = NoSession \/ session' = session
<1>1. ~ MayAct
  <2>1. ~ AtRest
    BY DEF AtRest, TryingPin, At
  <2> QED
    BY <2>1, RestOpen DEF OrderInv
<1>2. ASSUME NEW t \in Tasks, Request(t) \/ IdleTimeout(t) PROVE FALSE
  BY <1>1, <1>2 DEF Request, InsertCard, BeginPinEntry, SelectTransaction, ConfirmTransaction,
     CancelTransaction, IdleTimeout
<1>3. ~ (Keys \/ CancelEntry \/ \E amt \in Amounts : SubmitAmount(amt))
  BY <1>1 DEF Keys, PressDigits, PressClear, PressEnter, CancelEntry, SubmitAmount
<1>4. ASSUME NEW t \in Tasks, Fail(t) \/ Effect(t) PROVE session' = session
  BY <1>4 DEF Fail, Effect, CreateRow, EndRow, ReadTrack, LeaveReader, PrintForm, ArmPinEntry,
     Authenticate, VerifyPin, HostRetainCard, GetBalance, HostApproves, HostDeclines, Dispense,
     ReverseTransaction, appVars
<1>5. ASSUME NEW t \in Tasks, Continue(t) PROVE session' = NoSession \/ session' = session
  <2>1. task[t].pc \in Ops /\ task[t].res # "pending"
    BY <1>5 DEF Continue, Reject, AfterCreateRow, AfterReadTrack, AfterAuthenticate, AfterGetPin,
       AfterVerifyPinOk, AfterVerifyPinNo, AfterRetainDev, AfterRetainHost, AfterGetBalance,
       AfterAuthorizeOk, AfterAuthorizeNo, AfterDispenseOk, AfterDispenseFail, AfterReverse,
       AfterPrint, AfterEject, AfterEndRow, Resumes, Ops
  <2>2. Scene(task[t])
    BY <2>1, ResumedRuns, Alone
  <2>3. task[t].pc \in {"eject", "endRow"}
    BY <2>1, <2>2 DEF Scene, Arriving, Verifying, Retaining, Withdrawing, TryingPin, At, Ops
  <2>4. Reject(t) \/ AfterEject(t) \/ AfterEndRow(t)
    BY <1>5, <2>3 DEF Continue, AfterCreateRow, AfterReadTrack, AfterAuthenticate, AfterGetPin,
       AfterVerifyPinOk, AfterVerifyPinNo, AfterRetainDev, AfterRetainHost, AfterGetBalance,
       AfterAuthorizeOk, AfterAuthorizeNo, AfterDispenseOk, AfterDispenseFail, AfterReverse,
       AfterPrint, Resumes
  <2> QED
    BY <2>4 DEF Reject, AfterEject, AfterEndRow, appVars
<1>6. CASE UNCHANGED vars
  BY <1>6 DEF vars, appVars
<1> QED
  BY <1>2, <1>3, <1>4, <1>5, <1>6 DEF Next

-----------------------------------------------------------------------------
(***************************************************************************)
(* A session reaches the menu, and anything after it, only on its own      *)
(* card's PIN, and is confirmed only with a withdrawal and an amount.      *)
(***************************************************************************)
THEOREM PinComesFirst == ASSUME Orderly PROVE Spec => []PinBeforeMenu
<1>1. OrderInv => PinBeforeMenu
  BY DEF OrderInv, StateSound, SessionSound, PinBeforeMenu, ConfirmReady, InState
<1>2. AppInv /\ OrderInv /\ [Next]_vars => OrderInv'
  BY OrderStep
<1> QED
  BY <1>1, <1>2, AppInit, AppStep, OrderInit, PTL DEF Spec

(***************************************************************************)
(* endSession's update reaches the row of every session that is over, and  *)
(* at rest a card in the reader is that of the current session.            *)
(***************************************************************************)
THEOREM RowsAreClosed == ASSUME Orderly PROVE Spec => []RowsClosed
<1>1. OrderInv => RowsClosed
  BY DEF OrderInv, StateSound, RowIsOwn, RowsClosed
<1>2. AppInv /\ OrderInv /\ [Next]_vars => OrderInv'
  BY OrderStep
<1> QED
  BY <1>1, <1>2, AppInit, AppStep, OrderInit, PTL DEF Spec

(***************************************************************************)
(* retainCard keeps only cards with MAX_PIN_ATTEMPTS wrong PINs, although  *)
(* the application counts per session and the host per card.               *)
(***************************************************************************)
THEOREM RetainedFairly == ASSUME Orderly PROVE Spec => []RetainedAfterTries
<1>1. OrderInv => RetainedAfterTries
  BY DEF OrderInv, StateSound
<1>2. AppInv /\ OrderInv /\ [Next]_vars => OrderInv'
  BY OrderStep
<1> QED
  BY <1>1, <1>2, AppInit, AppStep, OrderInit, PTL DEF Spec

(***************************************************************************)
(* processWithdrawal: once no withdrawal is under way, every account is    *)
(* down by exactly the cash it gave out, failed authorizations and failed  *)
(* dispenses included.                                                     *)
(***************************************************************************)
THEOREM DebitsMatchCash == ASSUME Orderly PROVE Spec => []DebitMatchesCash
<1>1. DebitInv => DebitMatchesCash
  BY DEF DebitInv, DebitMatchesCash, Settling, Owing
<1>2. AppInv /\ OrderInv /\ [Next]_vars => OrderInv'
  BY OrderStep
<1>3. AppInv /\ OrderInv /\ DebitInv /\ [Next]_vars => DebitInv'
  BY DebitStep
<1> QED
  BY <1>1, <1>2, <1>3, AppInit, AppStep, OrderInit, DebitInit, PTL DEF Spec

(***************************************************************************)
(* A session that markError put in ERROR is only ended.                    *)
(***************************************************************************)
THEOREM ErrorEndsSession == ASSUME Orderly PROVE Spec => ErrorIsSink
<1> DEFINE Sink == session # NoSession /\ session.state = "ERROR" =>
               session' = NoSession \/ session'.id # session.id \/ session'.state = "ERROR"
<1>1. AppInv /\ OrderInv /\ [Next]_vars => [Sink]_vars
  BY ErrorStays
<1>2. AppInv /\ OrderInv /\ [Next]_vars => OrderInv'
  BY OrderStep
<1> QED
  BY <1>1, <1>2, AppInit, AppStep, OrderInit, PTL DEF Spec, ErrorIsSink
=============================================================================
