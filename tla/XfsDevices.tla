----------------------------- MODULE XfsDevices -----------------------------
(***************************************************************************)
(* The virtual devices other than the cash dispenser (card reader, PIN     *)
(* pad, receipt printer, sensors) behind XfsManagerService.execute.  Every *)
(* command first waits a delay that the operator may change between two    *)
(* commands, so that they run in any order; an injected error strikes the  *)
(* first to wake up.  No command of one device touches another, so that a  *)
(* behaviour is about one of them, `device`.                               *)
(***************************************************************************)
EXTENDS Integers, Sequences, FiniteSets

CONSTANTS
    Calls,      \* the commands sent
    Cards,      \* cards that may be inserted
    MinLen, MaxLen,  \* PinGetPinPayload.minLen, maxLen
    BlockMin,   \* buildIso0PinBlock: the shortest PIN it takes
    Capacity,   \* the printer's paper
    History,    \* PtrDeviceService.HISTORY_LIMIT
    Sensors,
    NoCall, NoCard

ASSUME DevicesAssumption ==
    /\ MinLen \in Nat /\ MaxLen \in Nat /\ MinLen <= MaxLen /\ BlockMin \in Nat
    /\ Capacity \in Nat /\ History \in Nat
    /\ NoCall \notin Calls /\ NoCard \notin Cards

Readings == {"CLOSED", "OPEN"}

(* The commands each device tells apart; "OTHER" stands for the ones that  *)
(* change nothing that is modelled (SET_INDICATOR: the indicators are left *)
(* out) and the unsupported ones, "UNKNOWN" for an unknown hService.       *)
Commands == [IDC |-> {"READ_TRACK", "EJECT_CARD", "RETAIN_CARD", "RESET", "OTHER"},
             PIN |-> {"GET_PIN", "GET_DATA", "GET_PINBLOCK", "RESET", "OTHER"},
             PTR |-> {"PRINT_FORM", "RAW_DATA", "RESET", "OTHER"},
             SIU |-> {"ENABLE_EVENTS", "DISABLE_EVENTS", "RESET", "OTHER"}]

VARIABLES
    device,        \* the device this behaviour is about
    call,          \* the commands: where each is, and its response
    injectedError, \* an injected error is waiting
    card,          \* IDC: the card in the reader
    entry,         \* PIN: the command whose entry is active
    pinBuffer,     \* PIN: for each buffered digit, the entry it was typed for
    paper,         \* PTR: paperLevel
    history,       \* PTR: the receipts remembered
    presented,     \* PTR: receipts whose take timer runs
    siu,           \* SIU: sensors, operator mode, events on or off
    told,          \* what somebody who listens to the events knows of card, sensors
    silent         \* history: a RESET, or events were disabled

idcVars == <<card>>
pinVars == <<entry, pinBuffer>>
ptrVars == <<paper, history, presented>>
tellVars == <<told, silent>>
vars == <<device, call, injectedError, idcVars, pinVars, ptrVars, siu, tellVars>>

Default == [sensors |-> [s \in Sensors |-> "CLOSED"], mode |-> "NORMAL", events |-> TRUE]

TypeOK ==
    /\ \A c \in Calls : /\ call[c].phase \in {"new", "delay", "entry", "log", "done"}
                        /\ call[c].phase \in {"log", "done"} <=> call[c].result # "none"
    /\ card \in Cards \union {NoCard}
    /\ entry \in Calls \union {NoCall}
    /\ \A c \in Calls : call[c].phase = "entry" <=> entry = c
    /\ pinBuffer \in Seq(Calls) /\ Len(pinBuffer) <= MaxLen
    /\ paper \in 0 .. Capacity /\ Len(history) <= History /\ presented \subseteq Calls
    /\ siu.sensors \in [Sensors -> Readings]

Init ==
    /\ device \in DOMAIN Commands
    /\ call = [c \in Calls |-> [cmd |-> "none", phase |-> "new", result |-> "none",
                                digits |-> <<>>]]
    /\ injectedError = FALSE
    /\ card = NoCard
    /\ entry = NoCall
    /\ pinBuffer = <<>>
    /\ paper = Capacity
    /\ history = <<>>
    /\ presented = {}
    /\ siu = Default
    /\ told = [card |-> NoCard, sensors |-> Default.sensors]
    /\ silent = FALSE

-----------------------------------------------------------------------------
(* XfsManagerService.execute: to the device's delay, or at once an error.  *)
Execute(c, cmd) ==
    /\ call[c].phase = "new"
    /\ call' = [call EXCEPT ![c] = IF cmd = "UNKNOWN"
                                   THEN [@ EXCEPT !.cmd = cmd, !.phase = "log", !.result = "error"]
                                   ELSE [@ EXCEPT !.cmd = cmd, !.phase = "delay"]]
    /\ UNCHANGED <<device, injectedError, idcVars, pinVars, ptrVars, siu, tellVars>>

(* persistCommandLog, whose failure is swallowed, then the response.       *)
PersistCommandLog(c) ==
    /\ call[c].phase = "log"
    /\ call' = [call EXCEPT ![c].phase = "done"]
    /\ UNCHANGED <<device, injectedError, idcVars, pinVars, ptrVars, siu, tellVars>>

Settled(calls, c, result, digits) ==
    [calls EXCEPT ![c].phase = "log", ![c].result = result, ![c].digits = digits]

Answer(c, ok) == call' = Settled(call, c, IF ok THEN "ok" ELSE "error", <<>>)

(* The delay of a command that is not RESET is over, and no error waits.   *)
Runs(c, cmd) ==
    /\ call[c].phase = "delay" /\ call[c].cmd = cmd
    /\ ~ injectedError
    /\ UNCHANGED <<device, injectedError>>

ThrowInjected(c) ==
    /\ call[c].phase = "delay" /\ call[c].cmd # "RESET"
    /\ injectedError /\ injectedError' = FALSE
    /\ Answer(c, FALSE)
    /\ UNCHANGED <<device, idcVars, pinVars, ptrVars, siu, tellVars>>

Other(c) ==
    /\ Runs(c, "OTHER")
    /\ \E ok \in BOOLEAN : Answer(c, ok)
    /\ UNCHANGED <<idcVars, pinVars, ptrVars, siu, tellVars>>

(* cancelEntry rejects the promise of the active entry; its digits go.     *)
Cancelled(calls) == IF entry = NoCall THEN calls ELSE Settled(calls, entry, "error", <<>>)

(* RESET always runs.  It tells nobody.                                    *)
Reset(c) ==
    /\ call[c].phase = "delay" /\ call[c].cmd = "RESET"
    /\ injectedError' = FALSE
    /\ silent' = TRUE
    /\ call' = Settled(Cancelled(call), c, "ok", <<>>)
    /\ entry' = NoCall
    /\ pinBuffer' = <<>>
    /\ card' = NoCard
    /\ siu' = Default
    /\ UNCHANGED <<device, ptrVars, told>>

-----------------------------------------------------------------------------
(* The card reader.                                                        *)
InsertCard(k) ==
    /\ device = "IDC" /\ card = NoCard
    /\ card' = k
    /\ told' = [told EXCEPT !.card = k]
    /\ UNCHANGED <<device, call, injectedError, pinVars, ptrVars, siu, silent>>

ReadTrack(c) ==
    /\ Runs(c, "READ_TRACK")
    /\ Answer(c, card # NoCard)
    /\ UNCHANGED <<idcVars, pinVars, ptrVars, siu, tellVars>>

(* Variant: the card leaves without MEDIA_REMOVED.                         *)
CardLeaves_Untold(c) ==
    /\ Runs(c, "EJECT_CARD") \/ Runs(c, "RETAIN_CARD")
    /\ Answer(c, card # NoCard)
    /\ card' = NoCard
    /\ UNCHANGED <<pinVars, ptrVars, siu, tellVars>>

(* ejectCard and retainCard.                                               *)
CardLeaves(c) ==
    /\ Runs(c, "EJECT_CARD") \/ Runs(c, "RETAIN_CARD")
    /\ Answer(c, card # NoCard)
    /\ card' = NoCard
    /\ told' = IF card = NoCard THEN told ELSE [told EXCEPT !.card = NoCard]
    /\ UNCHANGED <<pinVars, ptrVars, siu, silent>>

-----------------------------------------------------------------------------
(* Variant: an entry takes over without settling the one before.           *)
BeginEntry_NoCancel(c) ==
    /\ Runs(c, "GET_PIN") \/ Runs(c, "GET_DATA")
    /\ call' = [call EXCEPT ![c].phase = "entry"]
    /\ entry' = c
    /\ pinBuffer' = <<>>
    /\ UNCHANGED <<idcVars, ptrVars, siu, tellVars>>

(* Variant: the digits of the entry before are kept.                       *)
BeginEntry_KeepsBuffer(c) ==
    /\ Runs(c, "GET_PIN") \/ Runs(c, "GET_DATA")
    /\ call' = [Cancelled(call) EXCEPT ![c].phase = "entry"]
    /\ entry' = c
    /\ UNCHANGED <<pinBuffer, idcVars, ptrVars, siu, tellVars>>

(* beginPinEntry and beginDataEntry supersede the active entry.            *)
BeginEntry(c) ==
    /\ Runs(c, "GET_PIN") \/ Runs(c, "GET_DATA")
    /\ call' = [Cancelled(call) EXCEPT ![c].phase = "entry"]
    /\ entry' = c
    /\ pinBuffer' = <<>>
    /\ UNCHANGED <<idcVars, ptrVars, siu, tellVars>>

(* A key, or the timer, acts only on an active entry.                       *)
EntryActive ==
    /\ entry # NoCall
    /\ UNCHANGED <<device, injectedError, idcVars, ptrVars, siu, tellVars>>

(* terminateEntry with these digits: a PIN stays in the buffer, only its   *)
(* length is told; data is handed over.                                    *)
TerminateEntry(digits) ==
    /\ entry' = NoCall
    /\ IF call[entry].cmd = "GET_PIN"
       THEN /\ call' = Settled(call, entry, "ok", <<>>)
            /\ pinBuffer' = digits
       ELSE /\ call' = Settled(call, entry, "ok", digits)
            /\ pinBuffer' = <<>>

PressDigit(autoEnd) ==
    /\ EntryActive
    /\ Len(pinBuffer) < MaxLen
    /\ LET typed == Append(pinBuffer, entry)
       IN  IF autoEnd /\ Len(typed) = MaxLen
           THEN TerminateEntry(typed)
           ELSE pinBuffer' = typed /\ UNCHANGED <<call, entry>>

PressEnter ==
    /\ EntryActive
    /\ Len(pinBuffer) >= MinLen
    /\ TerminateEntry(pinBuffer)

PressClear ==
    /\ EntryActive
    /\ pinBuffer' = <<>>
    /\ UNCHANGED <<call, entry>>

(* CANCEL, or the entry's 60 s are over.                                   *)
CancelEntry ==
    /\ EntryActive
    /\ call' = Cancelled(call)
    /\ entry' = NoCall
    /\ pinBuffer' = <<>>

(* GET_PINBLOCK takes whatever is buffered, also in the middle of an entry;*)
(* a key it does not find, or digits too few, leave the buffer alone.      *)
GetPinBlock(c) ==
    /\ Runs(c, "GET_PINBLOCK")
    /\ \/ /\ pinBuffer # <<>> /\ Len(pinBuffer) >= BlockMin
          /\ call' = Settled(call, c, "ok", pinBuffer)
          /\ pinBuffer' = <<>>
       \/ /\ Answer(c, FALSE)
          /\ UNCHANGED pinBuffer
    /\ UNCHANGED <<entry, idcVars, ptrVars, siu, tellVars>>

(* extractEnteredPin, for the ATM app's verification.                      *)
ExtractEnteredPin ==
    /\ pinBuffer # <<>>
    /\ pinBuffer' = <<>>
    /\ UNCHANGED <<device, call, injectedError, entry, idcVars, ptrVars, siu, tellVars>>

-----------------------------------------------------------------------------
(* printForm and printRaw; only a form is presented.                       *)
PrintReceipt(c) ==
    /\ Runs(c, "PRINT_FORM") \/ Runs(c, "RAW_DATA")
    /\ Answer(c, paper > 0)
    /\ IF paper > 0
       THEN /\ paper' = paper - 1
            /\ history' = LET h == Append(history, c)
                          IN  IF Len(h) > History THEN Tail(h) ELSE h
            /\ presented' = presented \union {x \in {c} : call[c].cmd = "PRINT_FORM"}
       ELSE UNCHANGED ptrVars
    /\ UNCHANGED <<idcVars, pinVars, siu, tellVars>>

(* The take timer of a receipt: MEDIA_TAKEN.                               *)
MediaTaken(c) ==
    /\ c \in presented
    /\ presented' = presented \ {c}
    /\ UNCHANGED <<device, call, injectedError, paper, history, idcVars, pinVars, siu, tellVars>>

ReplenishPaper ==
    /\ device = "PTR" /\ paper' = Capacity
    /\ UNCHANGED <<device, call, injectedError, history, presented, idcVars, pinVars, siu,
                   tellVars>>

-----------------------------------------------------------------------------
(* The sensors.  The operator switch also sets the operator mode; with the *)
(* events disabled the reading changes and nobody is told.                 *)
SetSensor(s, state) ==
    /\ device = "SIU" /\ siu.sensors[s] # state
    /\ siu' = [siu EXCEPT !.sensors[s] = state,
                          !.mode = CASE s # "OPERATOR_SWITCH" -> @
                                     [] s = "OPERATOR_SWITCH" /\ state = "OPEN" -> "SUPERVISOR"
                                     [] OTHER -> "NORMAL"]
    /\ told' = IF siu.events THEN [told EXCEPT !.sensors[s] = state] ELSE told
    /\ UNCHANGED <<device, call, injectedError, idcVars, pinVars, ptrVars, silent>>

SetOperatorMode(mode) ==
    /\ device = "SIU" /\ siu' = [siu EXCEPT !.mode = mode]
    /\ UNCHANGED <<device, call, injectedError, idcVars, pinVars, ptrVars, tellVars>>

SwitchEvents(c) ==
    /\ \/ Runs(c, "ENABLE_EVENTS") /\ siu' = [siu EXCEPT !.events = TRUE] /\ UNCHANGED silent
       \/ Runs(c, "DISABLE_EVENTS") /\ siu' = [siu EXCEPT !.events = FALSE] /\ silent' = TRUE
    /\ Answer(c, TRUE)
    /\ UNCHANGED <<idcVars, pinVars, ptrVars, told>>

-----------------------------------------------------------------------------
InjectError ==
    /\ injectedError' = TRUE
    /\ UNCHANGED <<device, call, idcVars, pinVars, ptrVars, siu, tellVars>>

(* clearError, and reset of the admin controller.                          *)
ClearError ==
    /\ injectedError' = FALSE
    /\ UNCHANGED <<device, call, idcVars, pinVars, ptrVars, siu, tellVars>>

(* A command's delay is over.                                              *)
Wake(c) ==
    \/ ThrowInjected(c) \/ Reset(c) \/ Other(c)
    \/ ReadTrack(c) \/ CardLeaves(c)
    \/ BeginEntry(c) \/ GetPinBlock(c)
    \/ PrintReceipt(c)
    \/ SwitchEvents(c)

Next ==
    \/ \E c \in Calls : \/ \E cmd \in Commands[device] \union {"UNKNOWN"} : Execute(c, cmd)
                        \/ PersistCommandLog(c) \/ Wake(c) \/ MediaTaken(c)
    \/ \E k \in Cards : InsertCard(k)
    \/ \E autoEnd \in BOOLEAN : PressDigit(autoEnd)
    \/ PressEnter \/ PressClear \/ CancelEntry \/ ExtractEnteredPin
    \/ ReplenishPaper
    \/ \E s \in Sensors, state \in Readings : SetSensor(s, state)
    \/ \E mode \in {"NORMAL", "SUPERVISOR"} : SetOperatorMode(mode)
    \/ InjectError \/ ClearError

Spec == Init /\ [][Next]_vars

(* The event loop goes on: timers fire, promises that settled continue.    *)
EventLoop == CancelEntry \/ \E c \in Calls : Wake(c) \/ PersistCommandLog(c) \/ MediaTaken(c)

LiveSpec == Spec /\ WF_vars(EventLoop)

-----------------------------------------------------------------------------
(* What stays in the buffer between entries is a PIN that was accepted:    *)
(* never the digits of an entry that was cancelled, superseded or timed    *)
(* out, nor those of a data entry.                                         *)
BufferIsAcceptedPin ==
    entry = NoCall =>
        \A i \in DOMAIN pinBuffer : /\ call[pinBuffer[i]].cmd = "GET_PIN"
                                    /\ call[pinBuffer[i]].result = "ok"

(* "digits never leave the device": a GET_DATA hands over only what was    *)
(* typed for itself, also when it superseded a PIN entry or follows one    *)
(* whose digits are still buffered; a PIN block holds the digits of one    *)
(* entry, never of two; only an accepted PIN outlives its entry.  (It says *)
(* nothing of PIN_EVT.KEY, which tells every listener each key.)           *)
DigitsStayApart ==
    /\ BufferIsAcceptedPin
    /\ \A c \in Calls :
          /\ call[c].cmd = "GET_DATA" => \A i \in DOMAIN call[c].digits : call[c].digits[i] = c
          /\ \A i, j \in DOMAIN call[c].digits : call[c].digits[i] = call[c].digits[j]

(* Who follows the device's events knows where the card is and what the    *)
(* sensors read, as long as nobody sent a RESET or disabled the events.    *)
ListenerIsRight == ~ silent => told.card = card /\ told.sensors = siu.sensors

(* Every command is answered, also an entry that is superseded or whose    *)
(* customer walks away.                                                    *)
EveryCallAnswered == \A c \in Calls : call[c].phase = "delay" ~> call[c].phase = "done"
=============================================================================
