------------------------------ MODULE AtmScreen ------------------------------
(***************************************************************************)
(* The customer's screen in the browser: useAtmSocket and AtmScreen.  The  *)
(* screen learns of the session only from the frames the gateway           *)
(* broadcasts, and acts on it by REST calls, several of which may be under *)
(* way: a call names no session, and its answer comes late or not at all.  *)
(*                                                                         *)
(* The server starts, changes and ends sessions when it likes: customers,  *)
(* consoles, macros and the idle timer all drive it (module AtmApp).  A    *)
(* session is there before a frame tells of it, while its row is written,  *)
(* and for good when the row cannot be; a server that is started again     *)
(* forgets its session and tells nobody.  Of the PIN pad (module           *)
(* XfsDevices) only the open entry is here.  WORKING stands for the states *)
(* in which the screen has nothing to press.  An effect of a render runs   *)
(* with the frame that caused it (React may batch several frames into one  *)
(* render); error texts, the stars shown for digits and the amount typed   *)
(* are left out.                                                           *)
(***************************************************************************)
EXTENDS Integers, Sequences

CONSTANTS
    Slots,       \* wrapped calls under way at once
    MaxVisit,    \* bound: sessions of the server
    MaxBacklog,  \* bound: frames under way
    MaxClick,    \* bound: keys and buttons pressed
    MaxLoss      \* bound: connections lost, pages loaded again, servers started again

ASSUME ScreenAssumption ==
    /\ MaxVisit \in Nat /\ MaxBacklog \in Nat
    /\ MaxClick \in Nat /\ MaxLoss \in Nat

Visits == 1 .. MaxVisit

(* Where AtmAppService takes a session from each state.                    *)
Successors ==
    [CARD_INSERTED |-> {"PIN_ENTRY", "WORKING"},
     PIN_ENTRY     |-> {"MAIN_MENU", "WORKING"},
     MAIN_MENU     |-> {"AMOUNT_ENTRY", "WORKING"},
     AMOUNT_ENTRY  |-> {"CONFIRM"},
     CONFIRM       |-> {"WORKING"},
     WORKING       |-> {}]

Nobody == [id |-> 0, state |-> "IDLE"]

VARIABLES
    atm,        \* the server's session, or Nobody
    visits,     \* sessions so far
    rowOf,      \* onCardInserted of each session at its atmSession.create
    untold,     \* history: no frame has told of the server's session yet
    linked,     \* useAtmSocket.connected
    frames,     \* frames under way to the screen
    shown,      \* useAtmSocket.session, or Nobody for null
    gate,       \* autoPinStartedFor, or 0 for null
    pinBusy,
    busy,
    menuView,
    overlay,    \* overlayMsg # null
    begin,      \* the begin-pin call made for each session
    key,        \* the press-key calls under way
    wrapped,    \* the calls made through wrap
    entry,      \* the begin-pin call whose GET_PIN is open on the pad, or 0
    behind,     \* history: since the last frame came, one was lost or the server forgot
    clicks,     \* keys and buttons pressed
    losses,     \* connections lost, pages loaded again, servers started again
    gap,        \* history: the same since the screen was last idle
    opener,     \* history: the session in which the view or overlay was opened
    hushed      \* history: what last closed the keypad

serverVars == <<atm, visits, rowOf, untold>>
linkVars == <<linked, frames, behind, gap>>
viewVars == <<shown, gate, menuView, overlay, opener>>
padVars == <<pinBusy, begin, key, entry, hushed>>
callVars == <<busy, wrapped>>
bounds == <<clicks, losses>>
screenVars == <<serverVars, linkVars, viewVars, padVars, callVars, bounds>>

KeysSent == {"digit", "ENTER", "CANCEL"}

ScreenInit ==
    /\ atm = Nobody /\ visits = 0
    /\ rowOf = [v \in Visits |-> "none"] /\ untold = FALSE
    /\ linked = FALSE /\ frames = <<>> /\ behind = FALSE /\ gap = FALSE
    /\ shown = Nobody /\ gate = 0 /\ menuView = "MAIN" /\ overlay = FALSE /\ opener = 0
    /\ pinBusy = FALSE /\ begin = [v \in Visits |-> "none"]
    /\ key = [k \in KeysSent |-> "none"] /\ entry = 0 /\ hushed = "nothing"
    /\ busy = FALSE /\ wrapped = [s \in Slots |-> "none"]
    /\ clicks = 0 /\ losses = 0

-----------------------------------------------------------------------------
(* The server.                                                             *)

(* socket.io keeps no frame for a client that is away.                     *)
Emit(new) ==
    IF linked
    THEN /\ Len(frames) + Len(new) <= MaxBacklog
         /\ frames' = frames \o new
         /\ UNCHANGED <<behind, gap>>
    ELSE /\ behind' = TRUE /\ gap' = TRUE
         /\ UNCHANGED frames

(* onCardInserted sets this.session and writes its row, before any frame.  *)
SessionStarts ==
    /\ atm = Nobody /\ visits < MaxVisit
    /\ visits' = visits + 1
    /\ atm' = [id |-> visits', state |-> "CARD_INSERTED"]
    /\ rowOf' = [rowOf EXCEPT ![visits'] = "pending"]
    /\ untold' = TRUE
    /\ UNCHANGED <<linkVars, viewVars, padVars, callVars, bounds>>

(* The row is written: notifyState tells of the session there is by now,   *)
(* if there is one.                                                        *)
RowWritten(v) ==
    /\ rowOf[v] = "pending"
    /\ rowOf' = [rowOf EXCEPT ![v] = "written"]
    /\ \/ atm # Nobody /\ Emit(<<atm>>) /\ untold' = FALSE
       \/ atm = Nobody /\ UNCHANGED <<frames, behind, gap, untold>>
    /\ UNCHANGED <<atm, visits, linked, viewVars, padVars, callVars, bounds>>

(* The create rejects: this.session stays as it is.                        *)
RowRefused(v) ==
    /\ rowOf[v] = "pending"
    /\ rowOf' = [rowOf EXCEPT ![v] = "refused"]
    /\ UNCHANGED <<atm, visits, untold, linkVars, viewVars, padVars, callVars, bounds>>

(* onCardInserted goes on to PIN_ENTRY only after the row it made was      *)
(* written; the session may be another one by then.                        *)
transitionTo(next) ==
    /\ atm # Nobody /\ next \in Successors[atm.state]
    /\ next = "PIN_ENTRY" => \E v \in Visits : rowOf[v] = "written"
    /\ atm' = [atm EXCEPT !.state = next]
    /\ untold' = FALSE
    /\ Emit(<<atm'>>)
    /\ UNCHANGED <<visits, rowOf, linked, viewVars, padVars, callVars, bounds>>

(* Variant: nobody is told that the session is over.                       *)
endSession_Untold ==
    /\ atm # Nobody
    /\ atm' = Nobody /\ untold' = FALSE
    /\ Emit(<<[atm EXCEPT !.state = "ENDED"]>>)
    /\ UNCHANGED <<visits, rowOf, linked, viewVars, padVars, callVars, bounds>>

endSession ==
    /\ atm # Nobody
    /\ atm' = Nobody /\ untold' = FALSE
    /\ Emit(<<[atm EXCEPT !.state = "ENDED"], Nobody>>)
    /\ UNCHANGED <<visits, rowOf, linked, viewVars, padVars, callVars, bounds>>

(* The server's process is started again: its session, its pad and the     *)
(* connections are gone, and no frame says so.                             *)
ServerRestarts ==
    /\ losses < MaxLoss /\ losses' = losses + 1
    /\ atm' = Nobody /\ untold' = FALSE
    /\ rowOf' = [v \in Visits |-> IF rowOf[v] = "pending" THEN "refused" ELSE rowOf[v]]
    /\ entry' = 0
    /\ linked' = FALSE /\ frames' = <<>>
    /\ behind' = (behind \/ frames # <<>> \/ shown # Nobody)
    /\ gap' = (gap \/ frames # <<>> \/ shown # Nobody)
    /\ UNCHANGED <<visits, viewVars, pinBusy, begin, key, hushed, callVars, clicks>>

-----------------------------------------------------------------------------
(* The socket.                                                             *)

Connect ==
    /\ ~ linked
    /\ linked' = TRUE
    /\ UNCHANGED <<serverVars, frames, behind, gap, viewVars, padVars, callVars, bounds>>

Disconnect ==
    /\ losses < MaxLoss /\ losses' = losses + 1
    /\ linked
    /\ linked' = FALSE
    /\ behind' = (behind \/ frames # <<>>)
    /\ gap' = (gap \/ frames # <<>>)
    /\ frames' = <<>>
    /\ UNCHANGED <<serverVars, viewVars, padVars, callVars, clicks>>

(* Variant: the keypad is not opened.                                      *)
AutoPin_Closed(next) ==
    IF next.state = "PIN_ENTRY" /\ gate # next.id
    THEN /\ gate' = next.id
         /\ begin' = [begin EXCEPT ![next.id] = "sent"]
         /\ UNCHANGED <<pinBusy, hushed>>
    ELSE /\ gate' = IF next = Nobody THEN 0 ELSE gate
         /\ UNCHANGED <<pinBusy, begin, hushed>>

(* The effects on [state, session.id] and [session]: begin-pin is posted   *)
(* once for a session that waits for its PIN.                              *)
AutoPin(next) ==
    IF next.state = "PIN_ENTRY" /\ gate # next.id
    THEN /\ gate' = next.id
         /\ pinBusy' = TRUE /\ hushed' = "nothing"
         /\ begin' = [begin EXCEPT ![next.id] = "sent"]
    ELSE /\ gate' = IF next = Nobody THEN 0 ELSE gate
         /\ UNCHANGED <<pinBusy, begin, hushed>>

(* Variant: the overlay stays.                                             *)
ResetView_KeepsOverlay(next) ==
    /\ menuView' = IF next.state \in {"IDLE", "ENDED"} THEN "MAIN" ELSE menuView
    /\ gap' = (gap /\ next.state \notin {"IDLE", "ENDED"})
    /\ UNCHANGED <<overlay, opener>>

(* The effect on [state].                                                  *)
ResetView(next) ==
    IF next.state \in {"IDLE", "ENDED"}
    THEN menuView' = "MAIN" /\ overlay' = FALSE /\ gap' = FALSE /\ UNCHANGED opener
    ELSE UNCHANGED <<menuView, overlay, gap, opener>>

(* atm.stateChanged brings a session, atm.sessionEnded none.               *)
FrameComes ==
    /\ frames # <<>>
    /\ shown' = Head(frames)
    /\ frames' = Tail(frames)
    /\ behind' = FALSE
    /\ AutoPin(Head(frames))
    /\ ResetView(Head(frames))
    /\ UNCHANGED <<serverVars, linked, key, entry, callVars, bounds>>

(* The page is loaded again: its state and the answers it waits for are    *)
(* gone, and nothing asks the server for its session.                      *)
Reload ==
    /\ losses < MaxLoss /\ losses' = losses + 1
    /\ linked' = FALSE /\ frames' = <<>>
    /\ behind' = (behind \/ frames # <<>> \/ shown # Nobody)
    /\ gap' = FALSE
    /\ shown' = Nobody /\ gate' = 0 /\ menuView' = "MAIN" /\ overlay' = FALSE
    /\ pinBusy' = FALSE /\ hushed' = "reload"
    /\ begin' = [v \in Visits |-> "none"] /\ key' = [k \in KeysSent |-> "none"]
    /\ busy' = FALSE /\ wrapped' = [s \in Slots |-> "none"]
    /\ UNCHANGED <<serverVars, entry, opener, clicks>>

-----------------------------------------------------------------------------
(* The PIN pad.                                                            *)

(* The call whose entry is open gets its answer.                           *)
Answered(calls) ==
    IF entry # 0 /\ calls[entry] = "open" THEN [calls EXCEPT ![entry] = "back"] ELSE calls

(* The server takes a begin-pin: refused unless some session waits for its *)
(* PIN, else its GET_PIN supersedes the entry that is open.                *)
BeginPin(v) ==
    /\ begin[v] = "sent"
    /\ IF atm.state = "PIN_ENTRY"
       THEN entry' = v /\ begin' = [Answered(begin) EXCEPT ![v] = "open"]
       ELSE begin' = [begin EXCEPT ![v] = "back"] /\ UNCHANGED entry
    /\ UNCHANGED <<serverVars, linkVars, viewVars, pinBusy, key, hushed, callVars, bounds>>

(* A time-out, or a key of a console or a macro, closes the entry.         *)
EntryEnds ==
    /\ entry # 0
    /\ entry' = 0
    /\ begin' = Answered(begin)
    /\ UNCHANGED <<serverVars, linkVars, viewVars, pinBusy, key, hushed, callVars, bounds>>

Click == clicks < MaxClick /\ clicks' = clicks + 1

(* The fetch fails or is aborted by api's timer; an open entry stays open. *)
BeginFails(v) ==
    /\ begin[v] \in {"sent", "open"}
    /\ begin' = [begin EXCEPT ![v] = "none"]
    /\ pinBusy' = FALSE
    /\ hushed' = IF v = gate THEN "own" ELSE "late"
    /\ UNCHANGED <<serverVars, linkVars, viewVars, key, entry, callVars, bounds>>

(* The answer comes: the finally closes the keypad, whoever is using it.   *)
BeginReturns(v) ==
    /\ begin[v] = "back"
    /\ begin' = [begin EXCEPT ![v] = "none"]
    /\ pinBusy' = FALSE
    /\ hushed' = IF v = gate THEN "own" ELSE "late"
    /\ UNCHANGED <<serverVars, linkVars, viewVars, key, entry, callVars, bounds>>

(* pressKey drops every key but CANCEL while the keypad is closed.  CANCEL *)
(* is always sent to the pad: the branch that would cancel the session is  *)
(* never reached.                                                          *)
pressKey(k) ==
    /\ Click
    /\ key[k] = "none"
    /\ pinBusy \/ k = "CANCEL"
    /\ key' = [key EXCEPT ![k] = "sent"]
    /\ UNCHANGED <<serverVars, linkVars, viewVars, pinBusy, begin, entry, hushed, callVars, losses>>

(* The pad takes a key: CANCEL closes the entry, ENTER closes it when the  *)
(* PIN is long enough.  With no entry open the key is lost.                *)
PadTakes(k) ==
    /\ key[k] = "sent"
    /\ key' = [key EXCEPT ![k] = "back"]
    /\ \/ k # "CANCEL" /\ UNCHANGED <<entry, begin>>
       \/ k # "digit" /\ entry' = 0 /\ begin' = Answered(begin)
    /\ UNCHANGED <<serverVars, linkVars, viewVars, pinBusy, hushed, callVars, bounds>>

KeyReturns(k) ==
    /\ key[k] = "back"
    /\ key' = [key EXCEPT ![k] = "none"]
    /\ IF k = "CANCEL" THEN pinBusy' = FALSE /\ hushed' = "cancel"
       ELSE UNCHANGED <<pinBusy, hushed>>
    /\ UNCHANGED <<serverVars, linkVars, viewVars, begin, entry, callVars, bounds>>

-----------------------------------------------------------------------------
(* The buttons.                                                            *)

(* The states in which each button is drawn.                               *)
ShownIn ==
    [insert  |-> {"IDLE"},
     balance |-> {"MAIN_MENU"},
     submit  |-> {"AMOUNT_ENTRY"},
     confirm |-> {"CONFIRM"},
     cancel  |-> {"PIN_ENTRY", "MAIN_MENU", "AMOUNT_ENTRY", "CONFIRM"}]

(* wrap: the call is made with busy set ...                                *)
wrap(s, op) ==
    /\ wrapped[s] = "none"
    /\ wrapped' = [wrapped EXCEPT ![s] = op]
    /\ busy' = TRUE

(* ... the second call of a quick amount follows the first ...             *)
QuickGoesOn(s) ==
    /\ wrapped[s] = "quick"
    /\ wrapped' = [wrapped EXCEPT ![s] = "submit-amount"]
    /\ UNCHANGED <<serverVars, linkVars, viewVars, padVars, busy, bounds>>

(* ... and busy is cleared by the first call that is answered or fails.    *)
WrapEnds(s) ==
    /\ wrapped[s] # "none"
    /\ wrapped' = [wrapped EXCEPT ![s] = "none"]
    /\ busy' = FALSE
    /\ UNCHANGED <<serverVars, linkVars, viewVars, padVars, bounds>>

insertCard(s) ==
    /\ Click
    /\ shown.state \in ShownIn.insert /\ ~ busy
    /\ wrap(s, "insert-card")
    /\ UNCHANGED <<serverVars, linkVars, viewVars, padVars, losses>>

submitCustomAmount(s) ==
    /\ Click
    /\ shown.state \in ShownIn.submit
    /\ wrap(s, "submit-amount")
    /\ UNCHANGED <<serverVars, linkVars, viewVars, padVars, losses>>

confirmSession(s) ==
    /\ Click
    /\ shown.state \in ShownIn.confirm
    /\ wrap(s, "confirm")
    /\ UNCHANGED <<serverVars, linkVars, viewVars, padVars, losses>>

cancelSession(s) ==
    /\ Click
    /\ shown.state \in ShownIn.cancel
    /\ wrap(s, "cancel")
    /\ UNCHANGED <<serverVars, linkVars, viewVars, padVars, losses>>

balanceInquiry(s) ==
    /\ Click
    /\ shown.state \in ShownIn.balance
    /\ wrap(s, "select-transaction")
    /\ UNCHANGED <<serverVars, linkVars, viewVars, padVars, losses>>

FdkOf(view) ==
    IF view = "SUB" THEN {"CEK SALDO", "TRANSFER", "KEMBALI"}
    ELSE {"300.000", "UANG ELEKTRONIK", "JUMLAH LAIN", "MENU LAINNYA"}

(* The function keys lit now.                                              *)
fdks == IF shown.state = "MAIN_MENU" THEN FdkOf(menuView) ELSE {}

(* selectFdk: TRANSFER stands for the three menu items that show a notice, *)
(* 300.000 for the four quick amounts.                                     *)
selectFdk(s, label) ==
    /\ Click
    /\ label \in fdks
    /\ \/ /\ label \in {"TRANSFER", "UANG ELEKTRONIK"}
          /\ overlay' = TRUE /\ opener' = shown.id
          /\ UNCHANGED <<menuView, busy, wrapped>>
       \/ /\ label \in {"MENU LAINNYA", "KEMBALI"}
          /\ menuView' = IF label = "KEMBALI" THEN "MAIN" ELSE "SUB"
          /\ opener' = shown.id
          /\ UNCHANGED <<overlay, busy, wrapped>>
       \/ /\ label = "CEK SALDO"
          /\ menuView' = "MAIN"
          /\ wrap(s, "select-transaction")
          /\ UNCHANGED <<overlay, opener>>
       \/ /\ label \in {"300.000", "JUMLAH LAIN"}
          /\ wrap(s, IF label = "300.000" THEN "quick" ELSE "select-transaction")
          /\ UNCHANGED <<menuView, overlay, opener>>
    /\ UNCHANGED <<serverVars, linkVars, shown, gate, padVars, losses>>

DismissOverlay ==
    /\ Click
    /\ overlay
    /\ overlay' = FALSE
    /\ UNCHANGED <<serverVars, linkVars, shown, gate, menuView, opener, padVars, callVars, losses>>

ScreenNext ==
    \/ SessionStarts
    \/ \E v \in Visits : RowWritten(v) \/ RowRefused(v)
    \/ \E next \in DOMAIN Successors : transitionTo(next)
    \/ endSession
    \/ ServerRestarts
    \/ Connect
    \/ Disconnect
    \/ FrameComes
    \/ Reload
    \/ \E v \in Visits : BeginPin(v) \/ BeginFails(v) \/ BeginReturns(v)
    \/ EntryEnds
    \/ \E k \in KeysSent : pressKey(k) \/ PadTakes(k) \/ KeyReturns(k)
    \/ \E s \in Slots :
        \/ insertCard(s)
        \/ submitCustomAmount(s)
        \/ confirmSession(s)
        \/ cancelSession(s)
        \/ balanceInquiry(s)
        \/ \E label \in FdkOf("MAIN") \union FdkOf("SUB") : selectFdk(s, label)
        \/ QuickGoesOn(s)
        \/ WrapEnds(s)
    \/ DismissOverlay

ScreenSpec == ScreenInit /\ [][ScreenNext]_screenVars

-----------------------------------------------------------------------------
(* The session that the frames have told of.                               *)
Told == IF untold THEN Nobody ELSE atm

(***************************************************************************)
(* Once the frames under way have come, the screen shows the session the   *)
(* server has, and none when it has none: the first frame after a lost     *)
(* connection, a page loaded again or a server started again puts it       *)
(* right.  It shows none, too, while the server has one that it told       *)
(* nobody of: a card is in, and its row is still being written, or could   *)
(* not be.                                                                 *)
(***************************************************************************)
ScreenCatchesUp ==
    /\ frames = <<>> /\ ~ behind => shown = Told
    /\ untold => atm.state = "CARD_INSERTED" /\ rowOf[atm.id] # "written"

(* The keypad is open, and the buttons busy, only while the screen waits   *)
(* for the answer to some call.                                            *)
KeypadHasWaiter ==
    /\ pinBusy => \E v \in Visits : begin[v] # "none"
    /\ busy => \E s \in Slots : wrapped[s] # "none"

(* No failure, abort or late answer leaves the keypad open or the buttons  *)
(* busy.  While the pad waits for the digits of the begin-pin that the     *)
(* screen made for the session it shows, keys are not dropped; only the    *)
(* late answer to an earlier session's begin-pin or a CANCEL closes the    *)
(* keypad early.                                                           *)
KeypadFollows ==
    /\ KeypadHasWaiter
    /\ entry # 0 /\ entry = gate /\ begin[entry] = "open" /\ ~ pinBusy =>
          hushed \in {"late", "cancel"}

(* The sub-menu and the notices of one customer are gone when the next one *)
(* sees the screen, unless the frames of the session's end were lost.      *)
MenuBelongs == (menuView = "SUB" \/ overlay) /\ ~ gap => opener = shown.id
=============================================================================
