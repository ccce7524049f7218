---------------------------- MODULE MacroRecorder ----------------------------
(***************************************************************************)
(* MacroRecorderService: what a user does at the ATM becomes the steps of  *)
(* a macro; and MacrosController, where the console creates, edits and     *)
(* deletes macros.  startRecording, stopRecording and update each have one *)
(* await, at which other requests and the user's actions come in between.  *)
(*                                                                         *)
(* A user action is a token: <<"digits", n>> for n digit keys in a row,    *)
(* <<"key", k>> for a control key, <<"act", op>> for a card insertion, a   *)
(* menu choice, an amount, a confirmation or a cancellation.  A step is    *)
(* the token it stands for, or <<"pin", n>> (EnterPin, recorded for n      *)
(* digits: a PIN, then ENTER) or <<"check", e>> (a checkpoint, which       *)
(* presses nothing).                                                       *)
(***************************************************************************)
EXTENDS Integers, Sequences, SequencesExt

CONSTANTS
    Macros,     \* ids of macros
    Requests,   \* requests of the console in progress at once
    Acts,       \* the operations other than keys
    Runs,       \* lengths of the digit runs a user types
    Checkpoints, \* EVENT_TO_CHECKPOINT: checkpoints of device events
    Unsupported, \* those of them that MacroRunnerService refuses to execute
    MaxAction,  \* bound: user actions
    MaxEvent,   \* bound: device events with a checkpoint
    MaxSession, \* bound: recordings
    MaxEdit     \* bound: macros created, edited and deleted by hand, together

ASSUME RecorderAssumption ==
    /\ Runs \subseteq Nat \ {0}
    /\ Unsupported \subseteq Checkpoints
    /\ MaxAction \in Nat
    /\ MaxEvent \in Nat
    /\ MaxSession \in Nat
    /\ MaxEdit \in Nat

ControlKeys == {"ENTER", "CLEAR"}
None == [n |-> 0]

VARIABLES
    active,    \* this.active; n numbers the recordings, `did' is history
    request,   \* startRecording, stopRecording and update calls at their await
    macro,     \* Macro rows: their steps, who wrote them, what the user had done (history)
    sessions,  \* recordings so far
    noOverlap, \* history: no two requests have overlapped
    actions,   \* user actions so far
    events,    \* device events so far
    macroEdits \* macros created, edited and deleted so far

counters == <<actions, events, macroEdits>>
recorderVars == <<active, request, macro, sessions, noOverlap, counters>>

NoRequest == [op |-> "none"]

RecorderTypeOK ==
    /\ active = None \/
       (active.macro \in Macros /\ active.n \in 1 .. MaxSession /\ active.digits \in Nat)
    /\ \A r \in Requests : request[r].op \in {"none", "start", "stop", "update"}
    /\ sessions \in 0 .. MaxSession
    /\ noOverlap \in BOOLEAN
    /\ actions \in 0 .. MaxAction
    /\ events \in 0 .. MaxEvent
    /\ macroEdits \in 0 .. MaxEdit

(* A row as the console or the recorder writes it.                         *)
Written(by, steps, did) == [exists |-> TRUE, by |-> by, steps |-> steps, did |-> did]

NoMacro == [Written("console", <<>>, <<>>) EXCEPT !.exists = FALSE]

RecorderInit ==
    /\ active = None
    /\ request = [r \in Requests |-> NoRequest]
    /\ macro \in [Macros -> {Written("console", <<>>, <<>>), NoMacro}]
    /\ sessions = 0
    /\ noOverlap = TRUE
    /\ actions = 0
    /\ events = 0
    /\ macroEdits = 0

-----------------------------------------------------------------------------
IsPinShape(n) == n >= 4 /\ n <= 12

(* Variant: the digits stay in the buffer.                                 *)
flushDigitBuffer_Keeps(rec) ==
    IF rec.digits = 0 THEN rec
    ELSE [rec EXCEPT !.absorb = IsPinShape(rec.digits),
                     !.steps = Append(@, <<IF IsPinShape(rec.digits) THEN "pin" ELSE "digits",
                                           rec.digits>>)]

(* A run of 4 to 12 digits becomes EnterPin and absorbs the next ENTER;    *)
(* any other run becomes KeyPressed(digits).                               *)
flushDigitBuffer(rec) ==
    IF rec.digits = 0 THEN rec
    ELSE IF IsPinShape(rec.digits)
         THEN [rec EXCEPT !.digits = 0, !.absorb = TRUE,
                          !.steps = Append(@, <<"pin", rec.digits>>)]
         ELSE [rec EXCEPT !.digits = 0, !.steps = Append(@, <<"digits", rec.digits>>)]

pushStep(rec, step) == [rec EXCEPT !.steps = Append(@, step)]

(* What a control key does to the recording.                               *)
PressControl(rec, k) ==
    LET flushed == flushDigitBuffer(rec) IN
    IF k = "ENTER" /\ flushed.absorb
    THEN [flushed EXCEPT !.absorb = FALSE]
    ELSE pushStep([flushed EXCEPT !.absorb = FALSE], <<"key", k>>)

(* One more action of the user, while a recording is active.               *)
Recorded == active # None /\ actions < MaxAction /\ actions' = actions + 1
Did(rec, token) == [rec EXCEPT !.did = Append(@, token)]

(* onUserAction, KEY_PRESS of n digits one after the other.                *)
PressDigits(n) ==
    /\ Recorded
    /\ active' = Did([active EXCEPT !.digits = @ + n], <<"digits", n>>)
    /\ UNCHANGED <<request, macro, sessions, noOverlap, events, macroEdits>>

(* onUserAction, KEY_PRESS of another key.                                 *)
PressKey(k) ==
    /\ Recorded
    /\ active' = Did(PressControl(active, k), <<"key", k>>)
    /\ UNCHANGED <<request, macro, sessions, noOverlap, events, macroEdits>>

(* onUserAction, any other kind.                                           *)
UserAct(op) ==
    /\ Recorded
    /\ active' = Did(pushStep(flushDigitBuffer(active), <<"act", op>>), <<"act", op>>)
    /\ UNCHANGED <<request, macro, sessions, noOverlap, events, macroEdits>>

(* onXfsEvent: an event with a checkpoint.                                 *)
DeviceEvent(e) ==
    /\ active # None /\ events < MaxEvent
    /\ active' = pushStep(flushDigitBuffer(active), <<"check", e>>)
    /\ events' = events + 1
    /\ UNCHANGED <<request, macro, sessions, noOverlap, actions, macroEdits>>

-----------------------------------------------------------------------------
Overlapping(r) == \E q \in Requests \ {r} : request[q].op \in {"start", "stop"}

(* Variant: a recording in progress does not stop another from starting.   *)
StartRecording_Unchecked(r, m) ==
    /\ request[r] = NoRequest /\ sessions < MaxSession
    /\ request' = [request EXCEPT ![r] = [op |-> "start", macro |-> m]]
    /\ noOverlap' = (noOverlap /\ ~ Overlapping(r))
    /\ sessions' = sessions + 1
    /\ UNCHANGED <<active, macro, counters>>

(* startRecording looks at `active', then awaits the macro's row ...       *)
StartRecording(r, m) ==
    /\ request[r] = NoRequest /\ sessions < MaxSession
    /\ active = None
    /\ request' = [request EXCEPT ![r] = [op |-> "start", macro |-> m]]
    /\ noOverlap' = (noOverlap /\ ~ Overlapping(r))
    /\ sessions' = sessions + 1
    /\ UNCHANGED <<active, macro, counters>>

(* ... and writes it without looking again.                                *)
RecordingStarts(r) ==
    /\ request[r].op = "start" /\ macro[request[r].macro].exists
    /\ active' = [n |-> sessions, macro |-> request[r].macro, steps |-> <<>>, digits |-> 0,
                  absorb |-> FALSE, did |-> <<>>]
    /\ request' = [request EXCEPT ![r] = NoRequest]
    /\ UNCHANGED <<macro, sessions, noOverlap, counters>>

(* stopRecording flushes the digits and sends off a copy of the steps ...  *)
StopRecording(r) ==
    /\ request[r] = NoRequest
    /\ active # None
    /\ active' = flushDigitBuffer(active)
    /\ request' = [request EXCEPT ![r] = [op |-> "stop", macro |-> active.macro, n |-> active.n,
                                          steps |-> active'.steps, did |-> active.did]]
    /\ noOverlap' = (noOverlap /\ ~ Overlapping(r))
    /\ UNCHANGED <<macro, sessions, counters>>

(* ... and forgets the recording, whichever it is, when they are saved.    *)
StepsSaved(r) ==
    /\ request[r].op = "stop" /\ macro[request[r].macro].exists
    /\ macro' = [macro EXCEPT ![request[r].macro] =
                                Written("recorder", request[r].steps, request[r].did)]
    /\ active' = None
    /\ request' = [request EXCEPT ![r] = NoRequest]
    /\ UNCHANGED <<sessions, noOverlap, counters>>

(* The macro's row is gone, or the database fails: so does the request.  A *)
(* recording whose row was deleted cannot be stopped.                      *)
RequestFails(r) ==
    /\ request[r] # NoRequest
    /\ request' = [request EXCEPT ![r] = NoRequest]
    /\ UNCHANGED <<active, macro, sessions, noOverlap, counters>>

-----------------------------------------------------------------------------
(* The steps a request of the console brings: none named, a list, or what  *)
(* optionalStepArray refuses.                                              *)
NoSteps == << <<"not named">> >>
Malformed == << <<"malformed">> >>
ByHand == {<<>>} \union {<< <<"act", op>> >> : op \in Acts}
optionalStepArray(v) == v # Malformed

Edit == macroEdits < MaxEdit /\ macroEdits' = macroEdits + 1

(* MacrosController.create: no steps named means none.                     *)
CreateMacro(m, v) ==
    /\ Edit /\ ~ macro[m].exists
    /\ optionalStepArray(v)
    /\ macro' = [macro EXCEPT ![m] = Written("console", IF v = NoSteps THEN <<>> ELSE v, <<>>)]
    /\ UNCHANGED <<active, request, sessions, noOverlap, actions, events>>

(* MacrosController.update looks the row up ...                            *)
UpdateMacro(r, m) ==
    /\ Edit /\ request[r] = NoRequest /\ macro[m].exists
    /\ request' = [request EXCEPT ![r] = [op |-> "update", macro |-> m]]
    /\ UNCHANGED <<active, macro, sessions, noOverlap, actions, events>>

(* ... and writes what was named over whatever is there by now.            *)
MacroUpdated(r, v) ==
    LET m == request[r].macro IN
    /\ request[r].op = "update" /\ macro[m].exists
    /\ optionalStepArray(v)
    /\ macro' = IF v = NoSteps THEN macro ELSE [macro EXCEPT ![m] = Written("console", v, <<>>)]
    /\ request' = [request EXCEPT ![r] = NoRequest]
    /\ UNCHANGED <<active, sessions, noOverlap, counters>>

(* MacrosController.remove.                                                *)
RemoveMacro(m) ==
    /\ Edit /\ macro[m].exists
    /\ macro' = [macro EXCEPT ![m] = NoMacro]
    /\ UNCHANGED <<active, request, sessions, noOverlap, actions, events>>

RecorderNext ==
    \/ \E n \in Runs : PressDigits(n)
    \/ \E k \in ControlKeys : PressKey(k)
    \/ \E op \in Acts : UserAct(op)
    \/ \E e \in Checkpoints : DeviceEvent(e)
    \/ \E r \in Requests :
        \/ \E m \in Macros : StartRecording(r, m)
        \/ RecordingStarts(r)
        \/ StopRecording(r)
        \/ StepsSaved(r)
        \/ RequestFails(r)
        \/ \E m \in Macros : UpdateMacro(r, m)
        \/ \E v \in ByHand \union {NoSteps, Malformed} : MacroUpdated(r, v)
    \/ \E m \in Macros :
        \/ \E v \in ByHand \union {NoSteps, Malformed} : CreateMacro(m, v)
        \/ RemoveMacro(m)

RecorderSpec == RecorderInit /\ [][RecorderNext]_recorderVars

-----------------------------------------------------------------------------
(* A user's action counts as the step that replays it.                     *)
Enter == <<"key", "ENTER">>
PressesEnter(step) == step[1] = "pin" \/ step = Enter

(* What the steps stand for, ENTERs aside, with one more of them: digits   *)
(* typed in a row are one run, and a checkpoint presses nothing.           *)
Joined(typed, step) ==
    IF step[1] = "check" \/ step = Enter THEN typed
    ELSE IF step[1] \notin {"digits", "pin"} THEN Append(typed, step)
    ELSE IF typed # <<>> /\ Last(typed)[1] = "digits"
         THEN Append(Front(typed), <<"digits", Last(typed)[2] + step[2]>>)
         ELSE Append(typed, <<"digits", step[2]>>)

Typed(steps) ==
    LET typed[n \in 0 .. Len(steps)] ==
            IF n = 0 THEN <<>> ELSE Joined(typed[n - 1], steps[n])
    IN  typed[Len(steps)]

Enters(steps) == Cardinality({i \in DOMAIN steps : PressesEnter(steps[i])})

Covers(steps, did) == Typed(steps) = Typed(did) /\ Enters(steps) >= Enters(did)

(* resolveKey: Card.pin is the demo PIN, six digits, whatever was typed    *)
(* when the step was recorded.                                             *)
DemoPin == 6
executeStep(step) == IF step[1] = "pin" THEN <<"pin", DemoPin>> ELSE step

(* The runner: a step it does not know fails and is the last.              *)
StopsAt(steps) == {i \in DOMAIN steps : steps[i][1] = "check" /\ steps[i][2] \in Unsupported}
Replay(steps) ==
    [i \in 1 .. (IF StopsAt(steps) = {} THEN Len(steps) ELSE Min(StopsAt(steps)) - 1) |->
        executeStep(steps[i])]

OnlyDemoPins(steps) ==
    \A i \in DOMAIN steps : steps[i][1] = "pin" => steps[i][2] = DemoPin

(***************************************************************************)
(* The steps the recorder saved last stand for all that the user had done  *)
(* when stopRecording was called, in the same order: no digit, key or      *)
(* choice is dropped or moved by the coalescing of digit runs, by the      *)
(* checkpoints in between or by a second stop, and an ENTER left out is    *)
(* pressed by an EnterPin.  The runner, when no step fails on the ATM,     *)
(* does all of it again, provided that every run saved as an EnterPin was  *)
(* the demo PIN and that no card was retained and no notes were taken: it  *)
(* knows no step for the checkpoints of these two events and stops there.  *)
(***************************************************************************)
DoneAgain(steps, did) ==
    /\ Covers(steps, did)
    /\ StopsAt(steps) = {} /\ OnlyDemoPins(steps) => Covers(Replay(steps), did)

ReplayCovers ==
    \A m \in Macros : macro[m].by = "recorder" => DoneAgain(macro[m].steps, macro[m].did)

(* As long as no two requests overlap, a recording ends only when the stop *)
(* that read it has saved it.                                              *)
EndsOnlySaved ==
    [][ active # None /\ active'.n # active.n /\ noOverlap =>
            \E r \in Requests :
                /\ request[r].op = "stop" /\ request[r].n = active.n
                /\ macro'[active.macro].did = request[r].did ]_recorderVars

=============================================================================
