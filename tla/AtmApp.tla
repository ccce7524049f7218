------------------------------- MODULE AtmApp -------------------------------
(***************************************************************************)
(* AtmAppService: the customer session of the ATM, driven by REST calls,   *)
(* by the answers of devices, host and database, and by the idle timer.    *)
(*                                                                         *)
(* A handler (onCardInserted, beginPinEntry, selectTransaction, ...) is an *)
(* async function: it runs without interruption up to an await, and other  *)
(* handlers run while it waits.  task[t] is one handler that waits: pc     *)
(* names the operation it awaits, res its outcome so far.  Each operation  *)
(* takes two steps: it takes effect ("the outcome is known", res leaves    *)
(* "pending"), and the handler continues with it.  An await of something   *)
(* that is already settled (safeEject with no card in the reader) is no    *)
(* interruption.                                                           *)
(*                                                                         *)
(* Every handler reads this.session again after an await, and this.session *)
(* may by then be null or the session of the next customer: the model      *)
(* keeps, in a task, only what the code keeps in locals and arguments.     *)
(*                                                                         *)
(* The host's authorizeWithdrawal and reverseTransaction are single steps  *)
(* on the ledger: HostEmulator is proved to implement them.                *)
(***************************************************************************)
EXTENDS HostLedger, FiniteSets

CONSTANTS
    Tasks,              \* slots: handlers that may be waiting at once
    Cards,              \* PANs of the virtual cards
    AccountOf,          \* the account of each card
    Refused,            \* cards that authenticate declines from the start
    Txns,               \* transaction types that are asked for
    MaxPinAttempts,     \* MAX_PIN_ATTEMPTS, and the host's limit of 3
    MaxSessions,        \* bound: sessions started
    MaxAuthorizations,  \* bound: calls of authorizeWithdrawal
    FaultyOps,          \* operations that may fail
    MaxFaults,          \* bound: failures
    SlowOps,            \* operations during which people and timers may act
    NoCard, NoTask, NoAccount, NoSession

ASSUME AppAssumption ==
    /\ AccountOf \in [Cards -> Accounts]
    /\ Refused \subseteq Cards
    /\ Txns \subseteq {"WITHDRAWAL", "BALANCE", "TRANSFER", "DEPOSIT"}
    /\ MaxPinAttempts \in Nat \ {0}
    /\ MaxSessions \in Nat
    /\ MaxAuthorizations \in Nat
    /\ 1 .. MaxAuthorizations \subseteq Stans
    /\ MaxFaults \in Nat
    /\ NoCard \notin Cards
    /\ NoTask \notin Tasks
    /\ NoAccount \notin Accounts

(* submitAmount refuses any other amount before it is withdrawn.           *)
ASSUME SubmittedAssumption == Amounts \subseteq Nat \ {0}

VARIABLES
    session,         \* AtmAppService.session
    idleTimer,       \* the session id the armed idleTimer captured, or 0
    lastId,          \* newSessionId
    task,            \* the handlers that wait
    reader,          \* IDC: the card in the reader
    entry,           \* PIN: the handler whose GET_PIN is active
    pinBuffer,       \* PIN: what was typed
    cardStatus,      \* VirtualCard.status
    failedPinCount,  \* VirtualCard.failedPinCount
    sessionRow,      \* the AtmSession row of each session
    stanCounter,     \* HostEmulatorService.stanCounter
    faults,          \* failures so far
    cash,            \* history: money dispensed, per account
    paid,            \* history: the STANs whose dispense succeeded
    proved           \* history: sessions whose own PIN the host accepted

appVars == <<session, idleTimer, lastId>>
deviceVars == <<reader, entry, pinBuffer>>
cardVars == <<cardStatus, failedPinCount, sessionRow>>
historyVars == <<cash, paid, proved>>
otherVars == <<deviceVars, cardVars, stanCounter, faults, historyVars>>
vars == <<ledgerVars, appVars, task, otherVars>>

Ids == 1 .. MaxSessions

(* Variant: the confirmation screen is not watched.                        *)
IDLE_TIMEOUT_STATES_NoConfirm ==
    {"CARD_INSERTED", "PIN_ENTRY", "PIN_VERIFIED", "MAIN_MENU", "AMOUNT_ENTRY"}

(* States that wait for the customer; the idle timer runs only in these.   *)
IDLE_TIMEOUT_STATES ==
    {"CARD_INSERTED", "PIN_ENTRY", "PIN_VERIFIED", "MAIN_MENU", "AMOUNT_ENTRY", "CONFIRM"}

(* States of a session whose PIN was accepted.                             *)
AfterPin == {"PIN_VERIFIED", "MAIN_MENU", "AMOUNT_ENTRY", "CONFIRM",
             "PROCESSING", "DISPENSING", "PRINTING", "EJECTING"}

AtmState == IDLE_TIMEOUT_STATES \cup AfterPin \cup {"ERROR"}

Ops == {"createRow", "readTrack", "authenticate", "getPin", "verifyPin", "retainDev",
        "retainHost", "getBalance", "authorize", "dispense", "reverse", "print",
        "eject", "endRow"}

(* What the PIN pad's buffer can hold: nothing, fewer than minLen digits,  *)
(* some wrong PIN, or the PIN of a card.                                   *)
Typed == {"short", "wrong"} \cup Cards
Buffer == {"none"} \cup Typed

Session == [id : Ids, state : AtmState, cardPan : Cards, accountId : Accounts \cup {NoAccount},
            selectedTxn : Txns \cup {"none"}, amount : Amounts \cup {0},
            failedPinAttempts : Nat]

ASSUME SessionAssumption == NoSession \notin Session

Idle == [pc |-> "idle", res |-> "ok"]

Waiting == [pc : Ops, res : {"pending", "ok", "no", "exceeded", "fail"},
            sid : Ids \cup {0}, pan : Cards \cup {NoCard}, typed : Buffer,
            account : Accounts \cup {NoAccount}, amount : Amounts \cup {0},
            stanNo : Stans \cup {0}]

TypeOK ==
    /\ LedgerTypeOK
    /\ session \in Session \cup {NoSession}
    /\ idleTimer \in Ids \cup {0}
    /\ lastId \in Nat
    /\ task \in [Tasks -> Waiting \cup {Idle}]
    /\ reader \in Cards \cup {NoCard}
    /\ entry \in Tasks \cup {NoTask}
    /\ pinBuffer \in Buffer
    /\ cardStatus \in [Cards -> {"ACTIVE", "REFUSED", "RETAINED"}]
    /\ failedPinCount \in [Cards -> Nat]
    /\ sessionRow \in [Ids -> {"none", "open", "ended"}]
    /\ stanCounter \in Nat
    /\ faults \in Nat
    /\ cash \in [Accounts -> Int]
    /\ paid \subseteq Stans
    /\ proved \subseteq Ids

Init ==
    /\ LedgerInit
    /\ session = NoSession
    /\ idleTimer = 0
    /\ lastId = 0
    /\ task = [t \in Tasks |-> Idle]
    /\ reader = NoCard
    /\ entry = NoTask
    /\ pinBuffer = "none"
    /\ cardStatus = [p \in Cards |-> IF p \in Refused THEN "REFUSED" ELSE "ACTIVE"]
    /\ failedPinCount = [p \in Cards |-> 0]
    /\ sessionRow = [i \in Ids |-> "none"]
    /\ stanCounter = 1
    /\ faults = 0
    /\ cash = [a \in Accounts |-> 0]
    /\ paid = {}
    /\ proved = {}

-----------------------------------------------------------------------------
(* What a handler does between two awaits.                                 *)

(* A handler waits for op; the arguments it passed are filled in by EXCEPT.*)
Await(op) == [pc |-> op, res |-> "pending", sid |-> 0, pan |-> NoCard, typed |-> "none",
              account |-> NoAccount, amount |-> 0, stanNo |-> 0]

Wait(t, w) == task' = [task EXCEPT ![t] = w]

(* The handler returns, or throws, or rejects with a TypeError.            *)
Finish(t) == task' = [task EXCEPT ![t] = Idle]

(* The handler is due to continue after op, whose outcome is r.            *)
Resumes(t, op, r) == task[t].pc = op /\ task[t].res = r

(* The idle timer after armIdleTimer(st) for session s.                    *)
Armed(s, st) == IF st \in IDLE_TIMEOUT_STATES THEN s.id ELSE 0

(* transitionTo(st), with s the session after the assignments before it.   *)
Enter(s, st) ==
    /\ session' = [s EXCEPT !.state = st]
    /\ idleTimer' = Armed(s, st)

transitionTo(st) ==
    IF session = NoSession THEN UNCHANGED <<session, idleTimer>> ELSE Enter(session, st)

(* safeEject, then endSession up to its await.  With no card and no        *)
(* session there is nothing to do.                                         *)
EjectAndEnd(t) ==
    Wait(t, IF reader # NoCard THEN Await("eject")
            ELSE IF session = NoSession THEN Idle
            ELSE [Await("endRow") EXCEPT !.sid = session.id])

(* Variant of markError: the card is not ejected.                          *)
markError_NoEject(t) ==
    /\ transitionTo("ERROR")
    /\ Wait(t, IF session = NoSession THEN Idle
               ELSE [Await("endRow") EXCEPT !.sid = session.id])

markError(t) ==
    /\ transitionTo("ERROR")
    /\ IF session = NoSession THEN Finish(t) ELSE EjectAndEnd(t)

(* Nothing runs but handlers whose customer is typing a PIN.               *)
MachineIdle ==
    \A t \in Tasks : task[t].pc = "idle" \/ (entry = t /\ task[t].res = "pending")

(* A request, a key or a timer may come now.                               *)
MayAct ==
    \A t \in Tasks : \/ task[t].pc \in SlowOps \cup {"idle"}
                     \/ entry = t /\ task[t].res = "pending"

InState(st) == session # NoSession /\ session.state = st

-----------------------------------------------------------------------------
(* The requests, up to their first await.                                  *)

InsertCard(t, p) ==
    /\ MayAct
    /\ task[t].pc = "idle"
    /\ session = NoSession
    /\ lastId < MaxSessions
    /\ lastId' = lastId + 1
    /\ session' = [id |-> lastId + 1, state |-> "CARD_INSERTED", cardPan |-> p,
                   accountId |-> NoAccount, selectedTxn |-> "none", amount |-> 0,
                   failedPinAttempts |-> 0]
    /\ Wait(t, [Await("createRow") EXCEPT !.sid = lastId + 1, !.pan = p])
    /\ UNCHANGED <<ledgerVars, idleTimer, otherVars>>

(* The ATM screen asks once per session at a time (autoPinStartedFor).     *)
BeginPinEntry(t) ==
    /\ MayAct
    /\ task[t].pc = "idle"
    /\ InState("PIN_ENTRY")
    /\ "getPin" \in SlowOps \/ \A u \in Tasks : task[u].pc = "getPin" => task[u].sid # session.id
    /\ Wait(t, [Await("getPin") EXCEPT !.sid = session.id])
    /\ UNCHANGED <<ledgerVars, appVars, otherVars>>

(* WITHDRAWAL has no await; BALANCE is processBalance; the others end the  *)
(* session.                                                                *)
SelectTransaction(t, txn) ==
    /\ MayAct
    /\ task[t].pc = "idle"
    /\ InState("MAIN_MENU")
    /\ LET s == [session EXCEPT !.selectedTxn = txn] IN
       CASE txn = "WITHDRAWAL" -> Enter(s, "AMOUNT_ENTRY") /\ UNCHANGED task
         [] txn = "BALANCE" ->
               Enter(s, "PROCESSING") /\ Wait(t, [Await("getBalance") EXCEPT !.pan = s.cardPan])
         [] OTHER -> Enter(s, "ERROR") /\ EjectAndEnd(t)
    /\ UNCHANGED <<ledgerVars, lastId, otherVars>>

SubmitAmount(amt) ==
    /\ MayAct
    /\ InState("AMOUNT_ENTRY")
    /\ Enter([session EXCEPT !.amount = amt], "CONFIRM")
    /\ UNCHANGED <<ledgerVars, lastId, task, otherVars>>

(* confirmTransaction and processWithdrawal; authorizeWithdrawal draws its *)
(* STAN before it first waits.                                             *)
ConfirmTransaction(t) ==
    /\ MayAct
    /\ task[t].pc = "idle"
    /\ InState("CONFIRM")
    /\ stanCounter <= MaxAuthorizations
    /\ CASE session.selectedTxn # "WITHDRAWAL" -> markError(t) /\ UNCHANGED stanCounter
         [] session.selectedTxn = "WITHDRAWAL" /\ session.amount = 0 ->
               Enter(session, "PROCESSING") /\ UNCHANGED <<task, stanCounter>>
         [] OTHER ->
               /\ Enter(session, "PROCESSING")
               /\ Wait(t, [Await("authorize") EXCEPT !.pan = session.cardPan,
                              !.amount = session.amount, !.stanNo = stanCounter])
               /\ stanCounter' = stanCounter + 1
    /\ UNCHANGED <<ledgerVars, lastId, deviceVars, cardVars, faults, historyVars>>

CancelTransaction(t) ==
    /\ MayAct
    /\ task[t].pc = "idle"
    /\ session # NoSession
    /\ EjectAndEnd(t)
    /\ idleTimer' = IF reader # NoCard THEN idleTimer ELSE 0
    /\ UNCHANGED <<ledgerVars, session, lastId, otherVars>>

(* The idle timer fires: its callback, and handleIdleTimeout.              *)
IdleTimeout(t) ==
    /\ MayAct
    /\ task[t].pc = "idle"
    /\ idleTimer # 0
    /\ IF session # NoSession /\ session.id = idleTimer
       THEN Enter(session, "ERROR") /\ EjectAndEnd(t)
       ELSE idleTimer' = 0 /\ UNCHANGED <<session, task>>
    /\ UNCHANGED <<ledgerVars, lastId, otherVars>>

-----------------------------------------------------------------------------
(* The operations a handler awaits take effect.                            *)

Pending(t, op) == task[t].pc = op /\ task[t].res = "pending"

Resolve(t, r) == task' = [task EXCEPT ![t].res = r]

(* A device answers with an error, or the database or the host fails, and  *)
(* nothing has changed.  A device looks for an injected error before it    *)
(* starts, so an armed PIN entry does not fail.                            *)
Fail(t) ==
    /\ faults < MaxFaults
    /\ faults' = faults + 1
    /\ task[t].pc \in FaultyOps
    /\ task[t].res = "pending"
    /\ entry # t
    /\ Resolve(t, "fail")
    /\ UNCHANGED <<ledgerVars, appVars, deviceVars, cardVars, stanCounter, historyVars>>

(* prisma.atmSession.create                                                *)
CreateRow(t) ==
    /\ Pending(t, "createRow")
    /\ Resolve(t, "ok")
    /\ sessionRow' = [sessionRow EXCEPT ![task[t].sid] = "open"]
    /\ UNCHANGED <<ledgerVars, appVars, deviceVars, cardStatus, failedPinCount, stanCounter, faults,
                   historyVars>>

(* prisma.atmSession.update in endSession rejects when there is no row.    *)
EndRow(t) ==
    /\ Pending(t, "endRow")
    /\ IF sessionRow[task[t].sid] = "none"
       THEN Resolve(t, "fail") /\ UNCHANGED sessionRow
       ELSE Resolve(t, "ok") /\ sessionRow' = [sessionRow EXCEPT ![task[t].sid] = "ended"]
    /\ UNCHANGED <<ledgerVars, appVars, deviceVars, cardStatus, failedPinCount, stanCounter, faults,
                   historyVars>>

ReadTrack(t) ==
    /\ Pending(t, "readTrack")
    /\ Resolve(t, IF reader # NoCard THEN "ok" ELSE "fail")
    /\ UNCHANGED <<ledgerVars, appVars, otherVars>>

(* EJECT_CARD and RETAIN_CARD empty the reader, or fail on an empty one.   *)
LeaveReader(t) ==
    /\ Pending(t, "eject") \/ Pending(t, "retainDev")
    /\ Resolve(t, IF reader # NoCard THEN "ok" ELSE "fail")
    /\ reader' = NoCard
    /\ UNCHANGED <<ledgerVars, appVars, entry, pinBuffer, cardVars, stanCounter, faults, historyVars>>

PrintForm(t) ==
    /\ Pending(t, "print")
    /\ Resolve(t, "ok")
    /\ UNCHANGED <<ledgerVars, appVars, otherVars>>

(* The EPP arms the entry of t; an entry that was active is superseded.    *)
ArmPinEntry(t) ==
    /\ Pending(t, "getPin")
    /\ entry # t
    /\ entry' = t
    /\ pinBuffer' = "none"
    /\ task' = [u \in Tasks |-> IF u = entry THEN [task[u] EXCEPT !.res = "fail"] ELSE task[u]]
    /\ UNCHANGED <<ledgerVars, appVars, reader, cardVars, stanCounter, faults, historyVars>>

(* Digit keys, one or several; CLEAR.  A buffer of four to six digits is   *)
(* somebody's PIN or nobody's, and one more digit makes it another.        *)
PressDigits(typed) ==
    /\ MayAct
    /\ entry # NoTask
    /\ pinBuffer # typed
    /\ typed = "short" => pinBuffer = "none"
    /\ pinBuffer' = typed
    /\ UNCHANGED <<ledgerVars, appVars, task, reader, entry, cardVars, stanCounter, faults, historyVars>>

PressClear ==
    /\ MayAct
    /\ entry # NoTask
    /\ pinBuffer # "none"
    /\ pinBuffer' = "none"
    /\ UNCHANGED <<ledgerVars, appVars, task, reader, entry, cardVars, stanCounter, faults, historyVars>>

(* ENTER with at least minLen digits: terminateEntry keeps the buffer.     *)
PressEnter ==
    /\ MayAct
    /\ entry # NoTask
    /\ pinBuffer \notin {"none", "short"}
    /\ Resolve(entry, "ok")
    /\ entry' = NoTask
    /\ UNCHANGED <<ledgerVars, appVars, reader, pinBuffer, cardVars, stanCounter, faults, historyVars>>

(* cancelEntry: the CANCEL key, or the entry's own time-out.               *)
CancelEntry ==
    /\ MayAct
    /\ entry # NoTask
    /\ Resolve(entry, "fail")
    /\ entry' = NoTask
    /\ pinBuffer' = "none"
    /\ UNCHANGED <<ledgerVars, appVars, reader, cardVars, stanCounter, faults, historyVars>>

Authenticate(t) ==
    /\ Pending(t, "authenticate")
    /\ Resolve(t, IF cardStatus[task[t].pan] = "ACTIVE" THEN "ok" ELSE "no")
    /\ UNCHANGED <<ledgerVars, appVars, otherVars>>

VerifyPin(t) ==
    /\ Pending(t, "verifyPin")
    /\ LET p == task[t].pan IN
       IF task[t].typed = p
       THEN /\ Resolve(t, "ok")
            /\ failedPinCount' = [failedPinCount EXCEPT ![p] = 0]
            /\ proved' = proved \cup {task[t].sid}
       ELSE /\ Resolve(t, IF failedPinCount[p] + 1 >= MaxPinAttempts THEN "exceeded" ELSE "no")
            /\ failedPinCount' = [failedPinCount EXCEPT ![p] = @ + 1]
            /\ UNCHANGED proved
    /\ UNCHANGED <<ledgerVars, appVars, deviceVars, cardStatus, sessionRow, stanCounter, faults, cash, paid>>

HostRetainCard(t) ==
    /\ Pending(t, "retainHost")
    /\ Resolve(t, "ok")
    /\ cardStatus' = [cardStatus EXCEPT ![task[t].pan] = "RETAINED"]
    /\ UNCHANGED <<ledgerVars, appVars, deviceVars, failedPinCount, sessionRow, stanCounter, faults,
                   historyVars>>

GetBalance(t) ==
    /\ Pending(t, "getBalance")
    /\ Resolve(t, "ok")
    /\ UNCHANGED <<ledgerVars, appVars, otherVars>>

HostApproves(t) ==
    /\ Pending(t, "authorize")
    /\ Approve(AccountOf[task[t].pan], task[t].amount, task[t].stanNo)
    /\ Resolve(t, "ok")
    /\ UNCHANGED <<appVars, otherVars>>

HostDeclines(t) ==
    /\ Pending(t, "authorize")
    /\ ~ Approvable(AccountOf[task[t].pan], task[t].amount)
    /\ Resolve(t, "no")
    /\ UNCHANGED <<ledgerVars, appVars, otherVars>>

(* DISPENSE with present: true.  An undefined amount is refused.           *)
Dispense(t) ==
    /\ Pending(t, "dispense")
    /\ IF task[t].amount = 0
       THEN Resolve(t, "fail") /\ UNCHANGED <<cash, paid>>
       ELSE /\ Resolve(t, "ok")
            /\ cash' = [cash EXCEPT ![AccountOf[task[t].pan]] = @ + task[t].amount]
            /\ paid' = paid \cup {task[t].stanNo}
    /\ UNCHANGED <<ledgerVars, appVars, deviceVars, cardVars, stanCounter, faults, proved>>

(* reverseTransaction; with an undefined account or amount it rejects.     *)
ReverseTransaction(t) ==
    /\ Pending(t, "reverse")
    /\ IF task[t].account = NoAccount \/ task[t].amount = 0
       THEN Resolve(t, "fail") /\ UNCHANGED ledgerVars
       ELSE Resolve(t, "ok") /\ Credit(task[t].account, task[t].amount, task[t].stanNo)
    /\ UNCHANGED <<appVars, otherVars>>

-----------------------------------------------------------------------------
(* A handler continues after an await.                                     *)

(* The database or the host rejects, and so does the handler.              *)
Reject(t) ==
    /\ \E op \in {"createRow", "authenticate", "verifyPin", "retainHost", "getBalance",
                   "reverse", "endRow"} : Resumes(t, op, "fail")
    /\ Finish(t)
    /\ UNCHANGED <<ledgerVars, appVars, otherVars>>

(* onCardInserted: notifyState arms the timer, and the card goes into the  *)
(* reader whatever became of the session.                                  *)
AfterCreateRow(t) ==
    /\ Resumes(t, "createRow", "ok")
    /\ IF reader = NoCard
       THEN /\ reader' = task[t].pan
            /\ idleTimer' = IF session = NoSession THEN idleTimer ELSE Armed(session, session.state)
            /\ Wait(t, [task[t] EXCEPT !.pc = "readTrack", !.res = "pending"])
            /\ UNCHANGED session
       ELSE markError(t) /\ UNCHANGED reader
    /\ UNCHANGED <<ledgerVars, lastId, entry, pinBuffer, cardVars, stanCounter, faults, historyVars>>

AfterReadTrack(t) ==
    /\ \/ /\ Resumes(t, "readTrack", "ok")
          /\ Wait(t, [task[t] EXCEPT !.pc = "authenticate", !.res = "pending"])
          /\ UNCHANGED <<session, idleTimer>>
       \/ Resumes(t, "readTrack", "fail") /\ markError(t)
    /\ UNCHANGED <<ledgerVars, lastId, otherVars>>

(* The account is stored in the session that onCardInserted created; the   *)
(* state changes in the one that is current.                               *)
AfterAuthenticate(t) ==
    /\ \/ /\ Resumes(t, "authenticate", "ok")
          /\ IF session # NoSession /\ session.id = task[t].sid
             THEN Enter([session EXCEPT !.accountId = AccountOf[task[t].pan]], "PIN_ENTRY")
             ELSE transitionTo("PIN_ENTRY")
          /\ Finish(t)
       \/ Resumes(t, "authenticate", "no") /\ markError(t)
    /\ UNCHANGED <<ledgerVars, lastId, otherVars>>

(* verifyPinBuffer up to its await.  XfsManager.execute never rejects, so  *)
(* a cancelled entry gets here too, with an empty buffer.                  *)
AfterGetPin(t) ==
    /\ task[t].pc = "getPin" /\ task[t].res # "pending"
    /\ IF session = NoSession \/ pinBuffer = "none"
       THEN Finish(t)
       ELSE Wait(t, [Await("verifyPin") EXCEPT !.pan = session.cardPan, !.typed = pinBuffer,
                        !.sid = session.id])
    /\ pinBuffer' = IF session = NoSession THEN pinBuffer ELSE "none"
    /\ UNCHANGED <<ledgerVars, appVars, reader, entry, cardVars, stanCounter, faults, historyVars>>

AfterVerifyPinOk(t) ==
    /\ Resumes(t, "verifyPin", "ok")
    /\ transitionTo("MAIN_MENU")
    /\ Finish(t)
    /\ UNCHANGED <<ledgerVars, lastId, otherVars>>

(* Variants of AfterVerifyPinNo: the refusal falls through to the menu;    *)
(* the card is kept one attempt early.                                     *)
AfterVerifyPinNo_FallsThrough(t) ==
    /\ Resumes(t, "verifyPin", "no") \/ Resumes(t, "verifyPin", "exceeded")
    /\ transitionTo("MAIN_MENU")
    /\ Finish(t)
    /\ UNCHANGED <<ledgerVars, lastId, otherVars>>

AfterVerifyPinNo_OneEarly(t) ==
    /\ Resumes(t, "verifyPin", "no") \/ Resumes(t, "verifyPin", "exceeded")
    /\ IF session = NoSession
       THEN Finish(t) /\ UNCHANGED session
       ELSE /\ session' = [session EXCEPT !.failedPinAttempts = @ + 1]
            /\ IF session'.failedPinAttempts >= MaxPinAttempts - 1
               THEN Wait(t, Await("retainDev"))
               ELSE Finish(t)
    /\ UNCHANGED <<ledgerVars, idleTimer, lastId, otherVars>>

(* A wrong PIN; the last one calls retainCard.                             *)
AfterVerifyPinNo(t) ==
    /\ Resumes(t, "verifyPin", "no") \/ Resumes(t, "verifyPin", "exceeded")
    /\ IF session = NoSession
       THEN Finish(t) /\ UNCHANGED session
       ELSE /\ session' = [session EXCEPT !.failedPinAttempts = @ + 1]
            /\ IF \/ session'.failedPinAttempts >= MaxPinAttempts
                  \/ task[t].res = "exceeded"
               THEN Wait(t, Await("retainDev"))
               ELSE Finish(t)
    /\ UNCHANGED <<ledgerVars, idleTimer, lastId, otherVars>>

(* retainCard, after the device's answer, whatever it is.                  *)
AfterRetainDev(t) ==
    /\ task[t].pc = "retainDev" /\ task[t].res # "pending"
    /\ IF session = NoSession
       THEN Finish(t)
       ELSE Wait(t, [Await("retainHost") EXCEPT !.pan = session.cardPan])
    /\ UNCHANGED <<ledgerVars, appVars, otherVars>>

(* retainCard ends the session without an eject.                           *)
AfterRetainHost(t) ==
    /\ Resumes(t, "retainHost", "ok")
    /\ transitionTo("ERROR")
    /\ IF session = NoSession
       THEN Finish(t)
       ELSE Wait(t, [Await("endRow") EXCEPT !.sid = session.id])
    /\ UNCHANGED <<ledgerVars, lastId, otherVars>>

AfterGetBalance(t) ==
    /\ Resumes(t, "getBalance", "ok")
    /\ transitionTo("PRINTING")
    /\ IF session = NoSession THEN Finish(t) ELSE Wait(t, Await("print"))
    /\ UNCHANGED <<ledgerVars, lastId, otherVars>>

(* processWithdrawal after authorizeWithdrawal: without a session, storing *)
(* the STAN throws.  The dispense is of the current session's amount.      *)
AfterAuthorizeOk(t) ==
    /\ Resumes(t, "authorize", "ok")
    /\ transitionTo("DISPENSING")
    /\ IF session = NoSession
       THEN Finish(t)
       ELSE Wait(t, [task[t] EXCEPT !.pc = "dispense", !.res = "pending",
                        !.amount = session.amount])
    /\ UNCHANGED <<ledgerVars, lastId, otherVars>>

AfterAuthorizeNo(t) ==
    /\ Resumes(t, "authorize", "no") \/ Resumes(t, "authorize", "fail")
    /\ markError(t)
    /\ UNCHANGED <<ledgerVars, lastId, otherVars>>

(* Variant of AfterDispenseOk: the result is tested the wrong way round.   *)
AfterDispenseOk_Reverses(t) ==
    /\ Resumes(t, "dispense", "ok")
    /\ IF session = NoSession
       THEN Finish(t)
       ELSE Wait(t, [task[t] EXCEPT !.pc = "reverse", !.res = "pending",
                        !.account = session.accountId, !.amount = session.amount])
    /\ UNCHANGED <<ledgerVars, appVars, otherVars>>

(* The receipt: its fields need a session with an amount.                  *)
AfterDispenseOk(t) ==
    /\ Resumes(t, "dispense", "ok")
    /\ transitionTo("PRINTING")
    /\ IF session = NoSession \/ session.amount = 0 THEN Finish(t) ELSE Wait(t, Await("print"))
    /\ UNCHANGED <<ledgerVars, lastId, otherVars>>

(* Variant of AfterDispenseFail: nothing is reversed.                      *)
AfterDispenseFail_NoReversal(t) ==
    /\ Resumes(t, "dispense", "fail")
    /\ markError(t)
    /\ UNCHANGED <<ledgerVars, lastId, otherVars>>

(* The reversal is of the STAN that was authorized, with the account and   *)
(* the amount of the current session.                                      *)
AfterDispenseFail(t) ==
    /\ Resumes(t, "dispense", "fail")
    /\ IF session = NoSession
       THEN Finish(t)
       ELSE Wait(t, [task[t] EXCEPT !.pc = "reverse", !.res = "pending",
                        !.account = session.accountId, !.amount = session.amount])
    /\ UNCHANGED <<ledgerVars, appVars, otherVars>>

AfterReverse(t) ==
    /\ Resumes(t, "reverse", "ok")
    /\ markError(t)
    /\ UNCHANGED <<ledgerVars, lastId, otherVars>>

(* A receipt that did not print changes nothing.                           *)
AfterPrint(t) ==
    /\ task[t].pc = "print" /\ task[t].res # "pending"
    /\ transitionTo("EJECTING")
    /\ EjectAndEnd(t)
    /\ UNCHANGED <<ledgerVars, lastId, otherVars>>

(* Variants of AfterEject: the row is not updated; the eject is shown.     *)
AfterEject_NoUpdate(t) ==
    /\ task[t].pc = "eject" /\ task[t].res # "pending"
    /\ session' = NoSession
    /\ idleTimer' = 0
    /\ Finish(t)
    /\ UNCHANGED <<ledgerVars, lastId, otherVars>>

AfterEject_Ejecting(t) ==
    /\ task[t].pc = "eject" /\ task[t].res # "pending"
    /\ transitionTo("EJECTING")
    /\ Wait(t, IF session = NoSession THEN Idle
               ELSE [Await("endRow") EXCEPT !.sid = session.id])
    /\ UNCHANGED <<ledgerVars, lastId, otherVars>>

(* endSession up to its await, after an eject that may have failed.        *)
AfterEject(t) ==
    /\ task[t].pc = "eject" /\ task[t].res # "pending"
    /\ IF session = NoSession
       THEN Finish(t) /\ UNCHANGED idleTimer
       ELSE Wait(t, [Await("endRow") EXCEPT !.sid = session.id]) /\ idleTimer' = 0
    /\ UNCHANGED <<ledgerVars, session, lastId, otherVars>>

(* Variant of AfterEndRow: the timer, cleared before the await, is not     *)
(* cleared again.                                                          *)
AfterEndRow_KeepsTimer(t) ==
    /\ Resumes(t, "endRow", "ok")
    /\ session' = NoSession
    /\ Finish(t)
    /\ UNCHANGED <<ledgerVars, idleTimer, lastId, otherVars>>

(* endSession after its await: whichever session is current is over.       *)
AfterEndRow(t) ==
    /\ Resumes(t, "endRow", "ok")
    /\ session' = NoSession
    /\ idleTimer' = IF session = NoSession THEN idleTimer ELSE 0
    /\ Finish(t)
    /\ UNCHANGED <<ledgerVars, lastId, otherVars>>

-----------------------------------------------------------------------------
Request(t) ==
    \/ \E p \in Cards : InsertCard(t, p)
    \/ BeginPinEntry(t)
    \/ \E txn \in Txns : SelectTransaction(t, txn)
    \/ ConfirmTransaction(t)
    \/ CancelTransaction(t)

Keys ==
    \/ \E typed \in Typed : PressDigits(typed)
    \/ PressClear
    \/ PressEnter

Effect(t) ==
    \/ CreateRow(t) \/ EndRow(t) \/ ReadTrack(t) \/ LeaveReader(t) \/ PrintForm(t)
    \/ ArmPinEntry(t) \/ Authenticate(t) \/ VerifyPin(t) \/ HostRetainCard(t)
    \/ GetBalance(t) \/ HostApproves(t) \/ HostDeclines(t) \/ Dispense(t)
    \/ ReverseTransaction(t)

Continue(t) ==
    \/ Reject(t) \/ AfterCreateRow(t) \/ AfterReadTrack(t) \/ AfterAuthenticate(t)
    \/ AfterGetPin(t) \/ AfterVerifyPinOk(t) \/ AfterVerifyPinNo(t) \/ AfterRetainDev(t)
    \/ AfterRetainHost(t) \/ AfterGetBalance(t) \/ AfterAuthorizeOk(t) \/ AfterAuthorizeNo(t)
    \/ AfterDispenseOk(t) \/ AfterDispenseFail(t) \/ AfterReverse(t) \/ AfterPrint(t)
    \/ AfterEject(t) \/ AfterEndRow(t)

Next ==
    \/ \E t \in Tasks :
          Request(t) \/ IdleTimeout(t) \/ Fail(t) \/ Effect(t) \/ Continue(t)
    \/ \E amt \in Amounts : SubmitAmount(amt)
    \/ Keys
    \/ CancelEntry

Spec == Init /\ [][Next]_vars

-----------------------------------------------------------------------------
(***************************************************************************)
(* Fairness: devices, host and database answer, and an answered handler    *)
(* continues (weak fairness).  setTimeout fires at its time whatever else  *)
(* goes on: the idle timer and the PIN entry's own time-out happen if they *)
(* are due again and again (strong fairness).  Nothing is assumed of the   *)
(* customer.                                                               *)
(***************************************************************************)
Fairness ==
    /\ \A t \in Tasks : WF_vars(Effect(t)) /\ WF_vars(Continue(t))
    /\ SF_vars(\E t \in Tasks : IdleTimeout(t))
    /\ SF_vars(CancelEntry)

LiveSpec == Spec /\ Fairness

-----------------------------------------------------------------------------
(***************************************************************************)
(* The idle watchdog, under every interleaving of requests, cancellations  *)
(* and time-outs: when the timer is armed, the session it was armed for is *)
(* still the current one, and in a state that waits for the customer.  It  *)
(* never fires into a dispense or into the next customer's session.        *)
(***************************************************************************)
TimerOwner ==
    idleTimer # 0 =>
        /\ session # NoSession
        /\ session.id = idleTimer
        /\ session.state \in IDLE_TIMEOUT_STATES

(***************************************************************************)
(* No STAN is both dispensed and reversed: processWithdrawal reverses only *)
(* what its own dispense did not pay, however sessions overlap.            *)
(***************************************************************************)
NeverPaidAndReversed ==
    \A a \in Accounts, d \in Days : \A i \in DOMAIN rows[a][d] :
        rows[a][d][i].status = "REVERSED" => rows[a][d][i].stanNo \notin paid

(* A withdrawal is under way.                                              *)
Settling == \E t \in Tasks : task[t].pc \in {"authorize", "dispense", "reverse"}

(***************************************************************************)
(* "customer is not debited for cash they didn't get": when no withdrawal  *)
(* is under way, each account is down by exactly the cash it gave out.     *)
(***************************************************************************)
DebitMatchesCash ==
    ~ Settling => \A a \in Accounts : balance[a] + cash[a] = InitialBalance[a]

(* confirmTransaction in CONFIRM always has a withdrawal with an amount:   *)
(* its other branches, one of which would leave the session in PROCESSING  *)
(* with no timer, are never taken.                                         *)
ConfirmReady ==
    InState("CONFIRM") => session.selectedTxn = "WITHDRAWAL" /\ session.amount # 0

(***************************************************************************)
(* "card insert -> PIN -> menu -> amount -> confirm -> dispense": a        *)
(* session gets to the menu and past it only on its own card's PIN, and to *)
(* CONFIRM only through the menu and the amount.                           *)
(***************************************************************************)
PinBeforeMenu ==
    /\ session # NoSession /\ session.state \in AfterPin => session.id \in proved
    /\ ConfirmReady

(* A card in the reader belongs to the session in progress.                *)
CardHasSession == reader # NoCard => session # NoSession /\ session.cardPan = reader

(***************************************************************************)
(* "The session is persisted to AtmSession on start/end": the row of a     *)
(* session that is over has been ended, and once the machine has come to   *)
(* rest its card is not in the reader any more, after cancel and time-out  *)
(* too.                                                                    *)
(***************************************************************************)
RowsClosed ==
    /\ \A i \in Ids : sessionRow[i] = "open" => session # NoSession /\ session.id = i
    /\ MachineIdle => CardHasSession

(***************************************************************************)
(* "card retention after 3 wrong PINs": only a card with that many wrong   *)
(* PINs is retained, stale entries of an earlier session included.         *)
(***************************************************************************)
RetainedAfterTries ==
    \A p \in Cards : cardStatus[p] = "RETAINED" => failedPinCount[p] >= MaxPinAttempts

(***************************************************************************)
(* "ERROR as a sink state that routes back to IDLE via eject": a session   *)
(* in ERROR never leaves it for another state.                             *)
(***************************************************************************)
ErrorIsSink ==
    [][ session # NoSession /\ session.state = "ERROR" =>
           session' = NoSession \/ session'.id # session.id \/ session'.state = "ERROR" ]_vars

(***************************************************************************)
(* "Auto-cancel session if no transition within this window": every        *)
(* session ends, whatever the customer leaves undone.                      *)
(***************************************************************************)
SessionEnds ==
    \A i \in Ids : session # NoSession /\ session.id = i
                     ~> session = NoSession \/ session.id # i

(***************************************************************************)
(* A card that goes into the reader comes out again.                       *)
(***************************************************************************)
CardComesOut == reader # NoCard ~> reader = NoCard

=============================================================================
