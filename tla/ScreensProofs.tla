--------------------------- MODULE ScreensProofs ---------------------------
(***************************************************************************)
(* Proofs about what people start at the screens, for any sessions,        *)
(* recordings, suites, requests of the console and bounds.                 *)
(*                                                                         *)
(* AtmScreen: the screen catches up with the server, the keypad follows    *)
(* the entry, and a menu belongs to the session that opened it.            *)
(* MacroRecorder: a recording ends only when it has been saved, and its    *)
(* replay does what the user did.                                          *)
(* Suites: its types, the verdicts of suite runs, the clean slate of each  *)
(* macro, and the schedules.                                               *)
(***************************************************************************)
EXTENDS AtmScreen, MacroRecorder, Suites, Sums, SequenceTheorems, TLAPS

-----------------------------------------------------------------------------
(***************************************************************************)
(* The customer's screen: AtmScreen.                                       *)
(***************************************************************************)
Rest == {"IDLE", "ENDED"}

(* A session as the gateway sends it, or Nobody.                           *)
Session == [id : 0 .. MaxVisit, state : DOMAIN Successors \union Rest]

Frame == {f \in Session : f.state # "IDLE" => f.id \in Visits}

ScreenTypeOK ==
    /\ atm \in Frame /\ visits \in 0 .. MaxVisit
    /\ atm.state = "IDLE" => atm = Nobody
    /\ atm.state # "ENDED"
    /\ linked \in BOOLEAN /\ behind \in BOOLEAN /\ gap \in BOOLEAN
    /\ frames \in Seq(Frame) /\ shown \in Frame
    /\ gate \in 0 .. MaxVisit /\ opener \in 0 .. MaxVisit
    /\ menuView \in {"MAIN", "SUB"} /\ overlay \in BOOLEAN
    /\ pinBusy \in BOOLEAN /\ busy \in BOOLEAN
    /\ begin \in [Visits -> {"none", "sent", "open", "back"}]
    /\ key \in [KeysSent -> {"none", "sent", "back"}]
    /\ wrapped \in [Slots -> {"none", "insert-card", "submit-amount", "confirm", "cancel",
                              "select-transaction", "quick"}]
    /\ entry \in 0 .. MaxVisit
    /\ hushed \in {"nothing", "own", "late", "cancel", "reload"}
    /\ rowOf \in [Visits -> {"none", "pending", "written", "refused"}]
    /\ untold \in BOOLEAN

(* Between two customers a frame tells that the first one is gone.         *)
Follows(x, y) == x.id = y.id \/ x.state \in Rest \/ y.state \in Rest

(* The frames under way lead from what is shown to what the server told;   *)
(* only a gap breaks the chain, at its beginning.                          *)
Stream ==
    /\ frames # <<>> => linked /\ frames[Len(frames)] = Told
    /\ \A i \in 1 .. Len(frames) - 1 : Follows(frames[i], frames[i + 1])
    /\ ~ gap /\ frames # <<>> => Follows(shown, frames[1])
    /\ behind => gap \/ shown.state \in Rest

(* A screen at rest has no menu open.                                      *)
RestingView == shown.state \in Rest => menuView = "MAIN" /\ ~ overlay

(* While a begin-pin is under way for the session that is shown, only a    *)
(* late answer or a CANCEL has closed the keypad.                          *)
GateKept ==
    gate \in Visits /\ begin[gate] # "none" /\ ~ pinBusy => hushed \in {"late", "cancel"}

FrameInv == Stream /\ ScreenCatchesUp /\ RestingView /\ MenuBelongs
PadInv == KeypadHasWaiter /\ GateKept
ScreenInv == ScreenTypeOK /\ FrameInv /\ PadInv

-----------------------------------------------------------------------------
LEMMA NoFrames == <<>> \in Seq(Frame) /\ Len(<<>>) = 0
OBVIOUS

LEMMA NobodyRests == Nobody \in Frame /\ Nobody.state = "IDLE" /\ Nobody.id = 0
BY ScreenAssumption DEF Nobody, Frame, Session, Rest

LEMMA ScreenStarts == ScreenInit => ScreenInv
<1> SUFFICES ASSUME ScreenInit PROVE ScreenInv
  OBVIOUS
<1> USE ScreenAssumption
<1>1. ScreenTypeOK
  <2>1. /\ atm \in Frame /\ shown \in Frame /\ atm.state = "IDLE" /\ atm = Nobody
        /\ frames \in Seq(Frame)
    BY NobodyRests, NoFrames DEF ScreenInit
  <2>2. /\ linked \in BOOLEAN /\ behind \in BOOLEAN /\ gap \in BOOLEAN
        /\ overlay \in BOOLEAN /\ pinBusy \in BOOLEAN /\ busy \in BOOLEAN /\ untold \in BOOLEAN
    BY Zenon DEF ScreenInit
  <2>3. /\ begin \in [Visits -> {"none", "sent", "open", "back"}]
        /\ key \in [KeysSent -> {"none", "sent", "back"}]
        /\ wrapped \in [Slots -> {"none", "insert-card", "submit-amount", "confirm", "cancel",
                                  "select-transaction", "quick"}]
        /\ rowOf \in [Visits -> {"none", "pending", "written", "refused"}]
    BY DEF ScreenInit
  <2>4. /\ visits \in 0 .. MaxVisit /\ gate \in 0 .. MaxVisit /\ opener \in 0 .. MaxVisit
        /\ entry \in 0 .. MaxVisit /\ menuView \in {"MAIN", "SUB"}
        /\ hushed \in {"nothing", "own", "late", "cancel", "reload"}
    BY DEF ScreenInit
  <2> QED
    BY <2>1, <2>2, <2>3, <2>4 DEF ScreenTypeOK
<1>2. FrameInv
  <2>1. Told = Nobody /\ ~ untold /\ shown = Nobody /\ frames = <<>> /\ menuView = "MAIN" /\ ~ overlay
    BY DEF ScreenInit, Told
  <2>2. ~ behind
    BY DEF ScreenInit
  <2> QED
    BY <2>1, <2>2, NobodyRests, NoFrames
    DEF FrameInv, Stream, ScreenCatchesUp, RestingView, MenuBelongs, Rest
<1>3. PadInv
  BY DEF ScreenInit, PadInv, KeypadHasWaiter, GateKept, Visits
<1> QED
  BY <1>1, <1>2, <1>3 DEF ScreenInv

-----------------------------------------------------------------------------
(* The steps of the server that send frames ...                            *)
Speaks ==
    \/ endSession
    \/ \E next \in DOMAIN Successors : transitionTo(next)
    \/ atm # Nobody /\ \E v \in Visits : RowWritten(v)

(* ... and the ones about a session it has not told of.                    *)
Quiet ==
    \/ SessionStarts
    \/ \E v \in Visits : RowRefused(v)
    \/ atm = Nobody /\ \E v \in Visits : RowWritten(v)

ToldOf == untold => atm.state = "CARD_INSERTED" /\ rowOf[atm.id] # "written"

LEMMA ToldOne == ScreenTypeOK => Told \in Frame
BY NobodyRests DEF ScreenTypeOK, Told

(* What is sent ends with the state it leaves behind, and follows from     *)
(* what was told before.                                                   *)
LEMMA Sends ==
    ASSUME ScreenTypeOK, Speaks
    PROVE  /\ atm' \in Frame
           /\ atm'.state = "IDLE" => atm' = Nobody
           /\ atm'.state # "ENDED"
           /\ visits' \in 0 .. MaxVisit
           /\ rowOf' \in [Visits -> {"none", "pending", "written", "refused"}]
           /\ untold' = FALSE
           /\ UNCHANGED <<linked, viewVars, padVars, callVars, bounds>>
           /\ \E new \in Seq(Frame) :
                 /\ Emit(new)
                 /\ Len(new) \in {1, 2} /\ new[Len(new)] = atm'
                 /\ Follows(Told, new[1])
                 /\ Len(new) = 2 => Follows(new[1], new[2])
<1> USE ScreenAssumption
<1>0. Told = atm \/ Told.state \in Rest
  BY NobodyRests DEF Told, Rest
<1>1. ASSUME NEW v \in Visits, atm # Nobody, RowWritten(v)
      PROVE  /\ atm' = atm /\ visits' = visits /\ untold' = FALSE
             /\ rowOf' \in [Visits -> {"none", "pending", "written", "refused"}]
             /\ UNCHANGED <<linked, viewVars, padVars, callVars, bounds>>
             /\ Emit(<<atm>>)
  BY <1>1 DEF RowWritten, ScreenTypeOK
<1>2. ASSUME NEW next \in DOMAIN Successors, transitionTo(next)
      PROVE  /\ atm' \in Frame /\ atm'.state # "IDLE" /\ atm'.state # "ENDED" /\ atm'.id = atm.id
             /\ visits' = visits /\ rowOf' = rowOf /\ untold' = FALSE
             /\ UNCHANGED <<linked, viewVars, padVars, callVars, bounds>>
             /\ Emit(<<atm'>>)
  <2>1. /\ atm # Nobody /\ atm.state # "IDLE" /\ atm.id \in Visits
        /\ atm' = [atm EXCEPT !.state = next] /\ visits' = visits
    BY <1>2 DEF transitionTo, ScreenTypeOK, Frame
  <2>2. atm' \in Frame /\ atm'.state = next /\ atm'.id = atm.id
    BY <2>1 DEF Frame, Session, ScreenTypeOK
  <2>3. next # "IDLE" /\ next # "ENDED"
    BY DEF Successors
  <2>4. Emit(<<atm'>>) /\ UNCHANGED <<rowOf, linked, viewVars, padVars, callVars, bounds>> /\ untold' = FALSE
    BY <1>2 DEF transitionTo
  <2> QED
    BY <2>1, <2>2, <2>3, <2>4
<1>3. ASSUME NEW f \in Frame, atm' = f, Emit(<<f>>), Follows(Told, f)
      PROVE  \E new \in Seq(Frame) :
                 /\ Emit(new)
                 /\ Len(new) \in {1, 2} /\ new[Len(new)] = atm'
                 /\ Follows(Told, new[1])
                 /\ Len(new) = 2 => Follows(new[1], new[2])
  <2> DEFINE new == <<f>>
  <2>1. new \in Seq(Frame) /\ Len(new) = 1 /\ new[1] = atm' /\ Emit(new) /\ Follows(Told, new[1])
    BY <1>3
  <2> HIDE DEF new
  <2>2. Len(new) \in {1, 2} /\ new[Len(new)] = atm' /\ (Len(new) = 2 => Follows(new[1], new[2]))
    BY <2>1
  <2> QED
    BY <2>1, <2>2, Zenon
<1>4. CASE atm # Nobody /\ \E v \in Visits : RowWritten(v)
  <2>1. /\ atm' = atm /\ visits' = visits /\ untold' = FALSE
        /\ rowOf' \in [Visits -> {"none", "pending", "written", "refused"}]
        /\ UNCHANGED <<linked, viewVars, padVars, callVars, bounds>>
        /\ Emit(<<atm>>)
    BY <1>1, <1>4
  <2>2. atm \in Frame /\ Follows(Told, atm)
    BY <1>0 DEF ScreenTypeOK, Follows
  <2> QED
    BY <1>3, <2>1, <2>2 DEF ScreenTypeOK
<1>5. CASE \E next \in DOMAIN Successors : transitionTo(next)
  <2>1. /\ atm' \in Frame /\ atm'.state # "IDLE" /\ atm'.state # "ENDED" /\ atm'.id = atm.id
        /\ visits' = visits /\ rowOf' = rowOf /\ untold' = FALSE
        /\ UNCHANGED <<linked, viewVars, padVars, callVars, bounds>>
        /\ Emit(<<atm'>>)
    BY <1>2, <1>5
  <2>2. Follows(Told, atm')
    BY <1>0, <2>1 DEF Follows
  <2> QED
    BY <1>3, <2>1, <2>2 DEF ScreenTypeOK
<1>6. CASE endSession
  <2> DEFINE last == [atm EXCEPT !.state = "ENDED"]
             new == <<last, Nobody>>
  <2>1. atm # Nobody /\ atm.id \in Visits /\ atm' = Nobody /\ visits' = visits
    BY <1>6 DEF endSession, ScreenTypeOK, Frame
  <2>2. last \in Frame /\ last.state = "ENDED"
    BY <2>1 DEF Frame, Session, ScreenTypeOK, Rest
  <2>5. /\ Emit(new) /\ UNCHANGED <<rowOf, linked, viewVars, padVars, callVars, bounds>>
        /\ untold' = FALSE
    BY <1>6 DEF endSession, last
  <2> HIDE DEF last
  <2>3. new \in Seq(Frame) /\ Len(new) = 2 /\ new[1] = last /\ new[2] = Nobody
    BY <2>2, NobodyRests
  <2>4. Follows(Told, new[1]) /\ Follows(new[1], new[2])
    BY <2>2, <2>3 DEF Follows, Rest
  <2> QED
    BY <2>1, <2>3, <2>4, <2>5, NobodyRests DEF ScreenTypeOK
<1> QED
  BY <1>4, <1>5, <1>6 DEF Speaks

(* What the server does in silence leaves all that it told as it was.      *)
LEMMA Silent ==
    ASSUME ScreenTypeOK, ToldOf, Quiet
    PROVE  /\ atm' \in Frame
           /\ atm'.state = "IDLE" => atm' = Nobody
           /\ atm'.state # "ENDED"
           /\ visits' \in 0 .. MaxVisit
           /\ rowOf' \in [Visits -> {"none", "pending", "written", "refused"}]
           /\ untold' \in BOOLEAN
           /\ ToldOf' /\ Told' = Told
           /\ UNCHANGED <<linked, frames, behind, gap, viewVars, padVars, callVars, bounds>>
<1> USE ScreenAssumption
<1>1. CASE SessionStarts
  <2>1. /\ atm = Nobody /\ visits' \in Visits /\ visits' \in 0 .. MaxVisit
        /\ atm' = [id |-> visits', state |-> "CARD_INSERTED"] /\ untold' = TRUE
        /\ rowOf' = [rowOf EXCEPT ![visits'] = "pending"]
        /\ UNCHANGED <<linked, frames, behind, gap, viewVars, padVars, callVars, bounds>>
    BY <1>1 DEF SessionStarts, ScreenTypeOK, Visits, linkVars
  <2>2. atm' \in Frame /\ atm'.state = "CARD_INSERTED" /\ atm'.id = visits'
    BY <2>1 DEF Frame, Session, Successors
  <2>3. /\ rowOf' \in [Visits -> {"none", "pending", "written", "refused"}]
        /\ rowOf'[visits'] = "pending"
    BY <2>1 DEF ScreenTypeOK
  <2>4. Told = Nobody /\ Told' = Nobody
    BY <2>1 DEF Told
  <2>5. ToldOf'
    BY <2>2, <2>3 DEF ToldOf
  <2> QED
    BY <2>1, <2>2, <2>3, <2>4, <2>5
<1>2. CASE \E v \in Visits : RowRefused(v)
  <2>1. PICK v \in Visits : RowRefused(v)
    BY <1>2
  <2>2. /\ UNCHANGED <<atm, visits, untold, linked, frames, behind, gap>>
        /\ UNCHANGED <<viewVars, padVars, callVars, bounds>>
        /\ rowOf' = [rowOf EXCEPT ![v] = "refused"]
    BY <2>1 DEF RowRefused, linkVars
  <2>3. rowOf' \in [Visits -> {"none", "pending", "written", "refused"}]
    BY <2>2 DEF ScreenTypeOK
  <2>4. untold => atm.id \in Visits
    BY DEF ToldOf, ScreenTypeOK, Frame
  <2>5. untold => rowOf'[atm.id] # "written"
    BY <2>2, <2>4 DEF ToldOf, ScreenTypeOK
  <2>6. Told' = Told /\ ToldOf'
    BY <2>2, <2>5 DEF Told, ToldOf
  <2> QED
    BY <2>2, <2>3, <2>6 DEF ScreenTypeOK
<1>3. CASE atm = Nobody /\ \E v \in Visits : RowWritten(v)
  <2>1. PICK v \in Visits : RowWritten(v)
    BY <1>3
  <2>2. /\ UNCHANGED <<atm, visits, untold, linked, frames, behind, gap>>
        /\ UNCHANGED <<viewVars, padVars, callVars, bounds>>
        /\ rowOf' = [rowOf EXCEPT ![v] = "written"]
    BY <1>3, <2>1 DEF RowWritten
  <2>3. rowOf' \in [Visits -> {"none", "pending", "written", "refused"}]
    BY <2>2 DEF ScreenTypeOK
  <2>4. ~ untold
    BY <1>3, NobodyRests DEF ToldOf
  <2>5. Told' = Told /\ ToldOf'
    BY <2>2, <2>4 DEF Told, ToldOf
  <2> QED
    BY <2>2, <2>3, <2>5 DEF ScreenTypeOK
<1> QED
  BY <1>1, <1>2, <1>3 DEF Quiet

(* Emitting appends, or is missed.                                         *)
LEMMA Appended ==
    ASSUME ScreenTypeOK, NEW new \in Seq(Frame), Len(new) \in {1, 2}, Emit(new)
    PROVE  /\ frames' \in Seq(Frame)
           /\ \/ /\ linked /\ behind' = behind /\ gap' = gap
                 /\ Len(frames') = Len(frames) + Len(new) /\ Len(frames) \in Nat
                 /\ \A i \in 1 .. Len(frames) : frames'[i] = frames[i]
                 /\ \A i \in 1 .. Len(new) : frames'[Len(frames) + i] = new[i]
              \/ /\ ~ linked /\ behind' = TRUE /\ gap' = TRUE /\ frames' = frames
<1>0. frames \in Seq(Frame) /\ Len(frames) \in Nat
  BY DEF ScreenTypeOK
<1>1. CASE linked
  <2>1. frames' = frames \o new /\ behind' = behind /\ gap' = gap
    BY <1>1 DEF Emit
  <2>2. /\ frames \o new \in Seq(Frame) /\ Len(frames \o new) = Len(frames) + Len(new)
        /\ \A i \in 1 .. Len(frames) + Len(new) :
              (frames \o new)[i] = IF i <= Len(frames) THEN frames[i] ELSE new[i - Len(frames)]
    BY <1>0, ConcatProperties
  <2>3. \A i \in 1 .. Len(frames) : frames'[i] = frames[i]
    BY <1>0, <2>1, <2>2
  <2>4. \A i \in 1 .. Len(new) : frames'[Len(frames) + i] = new[i]
    BY <1>0, <2>1, <2>2
  <2> QED
    BY <1>0, <1>1, <2>1, <2>2, <2>3, <2>4
<1>2. CASE ~ linked
  BY <1>0, <1>2 DEF Emit
<1> QED
  BY <1>1, <1>2

(* Whatever the server sends, the stream still leads from what is shown to *)
(* what the server has.                                                    *)
LEMMA ServerStep ==
    ASSUME ScreenTypeOK, FrameInv, Speaks
    PROVE  FrameInv'
<1> USE ScreenAssumption
<1>1. PICK new \in Seq(Frame) :
         /\ Emit(new)
         /\ Len(new) \in {1, 2} /\ new[Len(new)] = atm'
         /\ Follows(Told, new[1])
         /\ Len(new) = 2 => Follows(new[1], new[2])
  BY Sends
<1>2. UNCHANGED <<linked, shown, menuView, overlay, opener>> /\ untold' = FALSE /\ Told' = atm'
  BY Sends DEF viewVars, Told
<1>3. /\ frames \in Seq(Frame) /\ Len(frames) \in Nat
      /\ frames # <<>> => Len(frames) > 0
  BY DEF ScreenTypeOK
<1>4. CASE ~ linked
  <2>1. behind' = TRUE /\ gap' = TRUE /\ frames' = frames
    BY <1>1, <1>4, Appended
  <2>2. frames = <<>>
    BY <1>4 DEF FrameInv, Stream
  <2> QED
    BY <1>2, <2>1, <2>2 DEF FrameInv, Stream, ScreenCatchesUp, RestingView, MenuBelongs
<1>5. CASE linked
  <2>1. /\ behind' = behind /\ gap' = gap
        /\ Len(frames') = Len(frames) + Len(new)
        /\ \A i \in 1 .. Len(frames) : frames'[i] = frames[i]
        /\ \A i \in 1 .. Len(new) : frames'[Len(frames) + i] = new[i]
    BY <1>1, <1>5, Appended
  <2>2. frames' # <<>>
    BY <1>1, <1>3, <2>1
  <2>3. frames'[Len(frames')] = atm'
    BY <1>1, <2>1
  <2>4. ~ gap' => Follows(shown', frames'[1])
    <3>1. CASE frames = <<>>
      <4>1. frames'[1] = new[1]
        BY <1>1, <1>3, <2>1, <3>1
      <4>2. ~ gap => shown = Told \/ shown.state \in Rest
        BY <3>1 DEF FrameInv, Stream, ScreenCatchesUp
      <4> QED
        BY <1>1, <1>2, <2>1, <4>1, <4>2 DEF Follows
    <3>2. CASE frames # <<>>
      <4>1. frames'[1] = frames[1]
        BY <1>3, <2>1, <3>2
      <4> QED
        BY <1>2, <2>1, <3>2, <4>1 DEF FrameInv, Stream, Follows
    <3> QED
      BY <3>1, <3>2
  <2>5. ASSUME NEW i \in 1 .. Len(frames') - 1 PROVE Follows(frames'[i], frames'[i + 1])
    <3>1. CASE i < Len(frames)
      <4>1. i \in 1 .. Len(frames) - 1 /\ frames'[i] = frames[i] /\ frames'[i + 1] = frames[i + 1]
        BY <1>3, <2>1, <3>1, SMTT(30)
      <4> QED
        BY <4>1 DEF FrameInv, Stream
    <3>2. CASE i = Len(frames)
      <4>1. frames'[i] = frames[i] /\ frames'[i + 1] = new[1] /\ frames # <<>>
        BY <1>1, <1>3, <2>1, <3>2
      <4> QED
        BY <1>1, <3>2, <4>1 DEF FrameInv, Stream
    <3>3. CASE i > Len(frames)
      <4>1. Len(new) = 2 /\ i = Len(frames) + 1
        BY <1>1, <1>3, <2>1, <3>3
      <4>2. frames'[i] = new[1] /\ frames'[i + 1] = new[2]
        BY <1>3, <2>1, <4>1
      <4> QED
        BY <1>1, <4>1, <4>2
    <3> QED
      BY <1>3, <3>1, <3>2, <3>3
  <2>6. Stream'
    <3>1. behind' => gap' \/ shown'.state \in Rest
      BY <1>2, <2>1 DEF FrameInv, Stream
    <3> QED
      BY <1>2, <1>5, <2>3, <2>4, <2>5, <3>1 DEF Stream
  <2> QED
    BY <1>2, <2>1, <2>2, <2>6 DEF FrameInv, ScreenCatchesUp, RestingView, MenuBelongs
<1> QED
  BY <1>4, <1>5

(* What is left of the stream when its first frame has come.               *)
LEMMA Taken ==
    ASSUME ScreenTypeOK, FrameComes
    PROVE  /\ frames # <<>> /\ Len(frames) \in Nat /\ Len(frames) >= 1
           /\ shown' = frames[1] /\ shown' \in Frame
           /\ frames' \in Seq(Frame) /\ Len(frames') = Len(frames) - 1
           /\ \A i \in 1 .. Len(frames') : frames'[i] = frames[i + 1]
           /\ frames' # <<>> => Len(frames') >= 1
           /\ frames' = <<>> => Len(frames') = 0
<1>1. frames \in Seq(Frame) /\ frames # <<>> /\ shown' = Head(frames) /\ frames' = Tail(frames)
  BY DEF FrameComes, ScreenTypeOK
<1>2. Len(frames) \in Nat /\ Len(frames) >= 1 /\ Head(frames) = frames[1] /\ frames[1] \in Frame
  BY <1>1
<1>3. frames' \in Seq(Frame) /\ Len(frames') = Len(frames) - 1
  BY <1>1
<1>4. \A i \in 1 .. Len(frames') : frames'[i] = frames[i + 1]
  BY <1>1, <1>3
<1>5. (frames' # <<>> => Len(frames') >= 1) /\ (frames' = <<>> => Len(frames') = 0)
  BY <1>3
<1> QED
  BY <1>1, <1>2, <1>3, <1>4, <1>5

LEMMA ComesStep ==
    ASSUME ScreenTypeOK, FrameInv, FrameComes
    PROVE  FrameInv'
<1> USE ScreenAssumption
<1>1. UNCHANGED <<atm, rowOf, untold, linked>> /\ behind' = FALSE /\ Told' = Told
  BY DEF FrameComes, serverVars, Told
<1>2. Stream'
  <2>1. frames' # <<>> => linked' /\ frames'[Len(frames')] = Told'
    BY <1>1, Taken DEF FrameInv, Stream
  <2>2. \A i \in 1 .. Len(frames') - 1 : Follows(frames'[i], frames'[i + 1])
    <3> SUFFICES ASSUME NEW i \in 1 .. Len(frames') - 1 PROVE Follows(frames'[i], frames'[i + 1])
      OBVIOUS
    <3>1. i + 1 \in 1 .. Len(frames) - 1 /\ frames'[i] = frames[i + 1] /\ frames'[i + 1] = frames[(i + 1) + 1]
      BY Taken
    <3> QED
      BY <3>1 DEF FrameInv, Stream
  <2>3. frames' # <<>> => Follows(shown', frames'[1])
    <3> SUFFICES ASSUME frames' # <<>> PROVE Follows(shown', frames'[1])
      OBVIOUS
    <3>1. 1 \in 1 .. Len(frames) - 1 /\ frames'[1] = frames[1 + 1] /\ shown' = frames[1]
      BY Taken
    <3> QED
      BY <3>1 DEF FrameInv, Stream
  <2> QED
    BY <1>1, <2>1, <2>2, <2>3 DEF Stream
<1>3. ScreenCatchesUp'
  <2> SUFFICES ASSUME frames' = <<>> PROVE shown' = Told'
    BY <1>1 DEF FrameInv, ScreenCatchesUp
  <2>1. Len(frames) = 1 /\ shown' = frames[1] /\ frames # <<>>
    BY Taken
  <2> QED
    BY <1>1, <2>1 DEF FrameInv, Stream
<1>4. ResetView(shown')
  BY DEF FrameComes
<1>5. CASE shown'.state \in Rest
  <2>1. menuView' = "MAIN" /\ overlay' = FALSE
    BY <1>4, <1>5 DEF ResetView, Rest
  <2> QED
    BY <1>2, <1>3, <2>1 DEF FrameInv, RestingView, MenuBelongs
<1>6. CASE shown'.state \notin Rest
  <2>1. UNCHANGED <<menuView, overlay, gap, opener>>
    BY <1>4, <1>6 DEF ResetView, Rest
  <2>2. ~ gap => Follows(shown, shown')
    BY Taken DEF FrameInv, Stream
  <2>3. ~ gap => shown.id = shown'.id \/ shown.state \in Rest
    BY <1>6, <2>2 DEF Follows
  <2>4. MenuBelongs'
    BY <2>1, <2>3 DEF FrameInv, RestingView, MenuBelongs
  <2> QED
    BY <1>2, <1>3, <1>6, <2>4 DEF FrameInv, RestingView
<1> QED
  BY <1>5, <1>6

LEMMA FrameStep ==
    ASSUME ScreenTypeOK, FrameInv, [ScreenNext]_screenVars
    PROVE  FrameInv'
<1> USE ScreenAssumption
<1>1. CASE Speaks
  BY <1>1, ServerStep
<1>1a. CASE Quiet
  <2>1. ToldOf
    BY DEF FrameInv, ScreenCatchesUp, ToldOf
  <2>2. ToldOf' /\ Told' = Told /\ UNCHANGED <<linked, frames, behind, gap, viewVars>>
    BY <1>1a, <2>1, Silent
  <2> QED
    BY <2>2 DEF ToldOf, viewVars, FrameInv, Stream, ScreenCatchesUp, RestingView, MenuBelongs
<1>1b. CASE ServerRestarts
  <2>1. /\ Told' = Nobody /\ ~ untold' /\ frames' = <<>>
        /\ UNCHANGED <<shown, menuView, overlay, opener>>
        /\ behind \/ frames # <<>> \/ shown # Nobody => behind'
        /\ behind' => behind \/ frames # <<>> \/ shown # Nobody
        /\ gap \/ frames # <<>> \/ shown # Nobody => gap'
    BY <1>1b DEF ServerRestarts, Told, viewVars
  <2>2. Len(frames') = 0 /\ Nobody.state \in Rest
    BY <2>1, NobodyRests DEF Rest
  <2>3. Stream'
    BY <2>1, <2>2 DEF FrameInv, Stream
  <2> QED
    BY <2>1, <2>3 DEF FrameInv, ScreenCatchesUp, RestingView, MenuBelongs
<1>2. CASE FrameComes
  BY <1>2, ComesStep
<1>3. CASE Connect
  <2>1. /\ linked' = TRUE /\ Told' = Told
        /\ UNCHANGED <<atm, rowOf, untold, frames, behind, gap, shown, menuView, overlay, opener>>
    BY <1>3 DEF Connect, serverVars, viewVars, Told
  <2> QED
    BY <2>1 DEF FrameInv, Stream, ScreenCatchesUp, RestingView, MenuBelongs
<1>4. CASE Disconnect
  <2>1. /\ frames' = <<>> /\ UNCHANGED <<atm, rowOf, untold, shown, menuView, overlay, opener>>
        /\ Told' = Told
        /\ behind \/ frames # <<>> => behind'
        /\ behind' => behind \/ frames # <<>>
        /\ gap \/ frames # <<>> => gap'
    BY <1>4 DEF Disconnect, serverVars, viewVars, Told
  <2>2. Len(frames') = 0
    BY <2>1
  <2>3. behind' => gap' \/ shown.state \in Rest
    BY <2>1 DEF FrameInv, Stream
  <2>4. Stream'
    BY <2>1, <2>2, <2>3 DEF Stream
  <2> QED
    BY <2>1, <2>4 DEF FrameInv, ScreenCatchesUp, RestingView, MenuBelongs
<1>5. CASE Reload
  <2>1. /\ frames' = <<>> /\ shown' = Nobody /\ menuView' = "MAIN" /\ overlay' = FALSE
        /\ UNCHANGED <<atm, rowOf, untold>> /\ Told' = Told
        /\ behind \/ frames # <<>> \/ shown # Nobody => behind'
    BY <1>5 DEF Reload, serverVars, Told
  <2>2. Len(frames') = 0 /\ shown'.state \in Rest
    BY <2>1, NobodyRests DEF Rest
  <2>3. Stream' /\ RestingView' /\ MenuBelongs'
    BY <2>1, <2>2 DEF Stream, RestingView, MenuBelongs
  <2>4. ScreenCatchesUp'
    BY <2>1 DEF FrameInv, ScreenCatchesUp
  <2> QED
    BY <2>3, <2>4 DEF FrameInv
<1>6. CASE DismissOverlay \/ \E s \in Slots, label \in FdkOf("MAIN") \union FdkOf("SUB") : selectFdk(s, label)
  <2>0. UNCHANGED <<serverVars, linkVars, shown>>
    BY <1>6 DEF DismissOverlay, selectFdk
  <2>1. UNCHANGED <<atm, rowOf, untold, linked, frames, behind, gap, shown>> /\ Told' = Told
    BY <2>0 DEF serverVars, linkVars, Told
  <2>2. Stream' /\ ScreenCatchesUp'
    BY <2>1 DEF FrameInv, Stream, ScreenCatchesUp
  <2>3. CASE DismissOverlay
    <3>1. overlay' = FALSE /\ UNCHANGED <<menuView, opener>>
      BY <2>3 DEF DismissOverlay
    <3> QED
      BY <2>1, <2>2, <3>1 DEF FrameInv, RestingView, MenuBelongs
  <2>4. CASE ~ DismissOverlay
    <3>1. shown.state \notin Rest
      BY <1>6, <2>4 DEF selectFdk, fdks, Rest
    <3>2. \/ opener' = shown.id
          \/ opener' = opener /\ overlay' = overlay /\ (menuView' = menuView \/ menuView' = "MAIN")
      BY <1>6, <2>4 DEF selectFdk
    <3>3. RestingView'
      BY <2>1, <3>1 DEF RestingView
    <3>4. MenuBelongs'
      BY <2>1, <3>2 DEF FrameInv, MenuBelongs
    <3> QED
      BY <2>2, <3>3, <3>4 DEF FrameInv
  <2> QED
    BY <2>3, <2>4
<1>7. CASE \/ UNCHANGED screenVars \/ EntryEnds
           \/ \E v \in Visits : BeginPin(v) \/ BeginFails(v) \/ BeginReturns(v)
           \/ \E k \in KeysSent : pressKey(k) \/ PadTakes(k) \/ KeyReturns(k)
           \/ \E s \in Slots : \/ insertCard(s) \/ submitCustomAmount(s) \/ confirmSession(s)
                               \/ cancelSession(s) \/ balanceInquiry(s) \/ QuickGoesOn(s) \/ WrapEnds(s)
  <2>1. /\ UNCHANGED <<atm, rowOf, untold, linked, frames, behind, gap>>
        /\ UNCHANGED <<shown, menuView, overlay, opener>>
        /\ Told' = Told
    BY <1>7 DEF Told, screenVars, EntryEnds, BeginPin, BeginFails, BeginReturns, pressKey, PadTakes, KeyReturns,
                insertCard, submitCustomAmount, confirmSession, cancelSession, balanceInquiry, QuickGoesOn,
                WrapEnds, serverVars, linkVars, viewVars
  <2> QED
    BY <2>1 DEF FrameInv, Stream, ScreenCatchesUp, RestingView, MenuBelongs
<1> QED
  BY <1>1, <1>1a, <1>1b, <1>2, <1>3, <1>4, <1>5, <1>6, <1>7 DEF ScreenNext, Speaks, Quiet

-----------------------------------------------------------------------------
(* What a frame does to the keypad.                                        *)
LEMMA AutoPinFacts ==
    ASSUME ScreenTypeOK, FrameComes
    PROVE  /\ gate' \in 0 .. MaxVisit
           /\ pinBusy' \in BOOLEAN
           /\ begin' \in [Visits -> {"none", "sent", "open", "back"}]
           /\ hushed' \in {"nothing", "own", "late", "cancel", "reload"}
           /\ \/ gate' \in Visits /\ pinBusy' = TRUE /\ begin'[gate'] = "sent"
              \/ gate' \in {0, gate} /\ UNCHANGED <<pinBusy, begin, hushed>>
<1> USE ScreenAssumption
<1> DEFINE f == frames[1]
<1>1. f \in Frame /\ AutoPin(f)
  BY Taken DEF FrameComes
<1> HIDE DEF f
<1>2. CASE f.state = "PIN_ENTRY" /\ gate # f.id
  <2>1. f.id \in Visits
    BY <1>1, <1>2 DEF Frame
  <2>2. gate' = f.id /\ pinBusy' = TRUE /\ hushed' = "nothing" /\ begin' = [begin EXCEPT ![f.id] = "sent"]
    BY <1>1, <1>2 DEF AutoPin
  <2>3. pinBusy' \in BOOLEAN
    BY <2>2, Zenon
  <2>4. begin' \in [Visits -> {"none", "sent", "open", "back"}] /\ begin'[f.id] = "sent"
    BY <2>1, <2>2 DEF ScreenTypeOK
  <2>5. f.id \in 0 .. MaxVisit
    BY <2>1 DEF Visits
  <2> QED
    BY <2>1, <2>2, <2>3, <2>4, <2>5
<1>3. CASE ~ (f.state = "PIN_ENTRY" /\ gate # f.id)
  <2>1. gate' \in {0, gate} /\ UNCHANGED <<pinBusy, begin, hushed>>
    BY <1>1, <1>3 DEF AutoPin
  <2>2. /\ gate \in 0 .. MaxVisit /\ 0 \in 0 .. MaxVisit /\ pinBusy \in BOOLEAN
        /\ begin \in [Visits -> {"none", "sent", "open", "back"}]
        /\ hushed \in {"nothing", "own", "late", "cancel", "reload"}
    BY DEF ScreenTypeOK
  <2> QED
    BY <2>1, <2>2
<1> QED
  BY <1>2, <1>3

(* What the pad does to the calls made for it: none is taken back.         *)
LEMMA PadFacts ==
    ASSUME ScreenTypeOK,
           \/ EntryEnds
           \/ \E v \in Visits : BeginPin(v)
           \/ \E k \in KeysSent : PadTakes(k)
    PROVE  /\ begin' \in [Visits -> {"none", "sent", "open", "back"}]
           /\ entry' \in 0 .. MaxVisit
           /\ \A v \in Visits : begin'[v] = "none" <=> begin[v] = "none"
           /\ UNCHANGED <<pinBusy, hushed, gate, busy, wrapped>>
<1> USE ScreenAssumption
<1>1. /\ Answered(begin) \in [Visits -> {"none", "sent", "open", "back"}]
      /\ \A v \in Visits : Answered(begin)[v] = "none" <=> begin[v] = "none"
  BY DEF Answered, ScreenTypeOK
<1>2. UNCHANGED <<pinBusy, hushed, gate, busy, wrapped>>
  BY DEF EntryEnds, BeginPin, PadTakes, viewVars, callVars
<1>3. ASSUME NEW v \in Visits, BeginPin(v)
      PROVE  /\ begin' \in [Visits -> {"none", "sent", "open", "back"}]
             /\ entry' \in 0 .. MaxVisit
             /\ \A u \in Visits : begin'[u] = "none" <=> begin[u] = "none"
  <2>1. CASE atm.state = "PIN_ENTRY"
    <3>1. begin[v] = "sent" /\ entry' = v /\ begin' = [Answered(begin) EXCEPT ![v] = "open"]
      BY <1>3, <2>1 DEF BeginPin
    <3> QED
      BY <1>1, <3>1 DEF Visits
  <2>2. CASE atm.state # "PIN_ENTRY"
    <3>1. begin[v] = "sent" /\ entry' = entry /\ begin' = [begin EXCEPT ![v] = "back"]
      BY <1>3, <2>2 DEF BeginPin
    <3> QED
      BY <3>1 DEF ScreenTypeOK
  <2> QED
    BY <2>1, <2>2
<1>4. CASE EntryEnds \/ \E k \in KeysSent : PadTakes(k)
  <2>1. (entry' = 0 /\ begin' = Answered(begin)) \/ (entry' = entry /\ begin' = begin)
    BY <1>4 DEF EntryEnds, PadTakes
  <2>2. /\ begin \in [Visits -> {"none", "sent", "open", "back"}]
        /\ entry \in 0 .. MaxVisit /\ 0 \in 0 .. MaxVisit
    BY DEF ScreenTypeOK
  <2>3. CASE entry' = 0 /\ begin' = Answered(begin)
    BY <1>1, <1>2, <2>2, <2>3
  <2>4. CASE entry' = entry /\ begin' = begin
    BY <1>2, <2>2, <2>4
  <2> QED
    BY <2>1, <2>3, <2>4
<1> QED
  BY <1>2, <1>3, <1>4

(* Every step keeps the types: only sessions with an id ask for a PIN.      *)
LEMMA TypeStep ==
    ASSUME ScreenTypeOK, ToldOf, [ScreenNext]_screenVars
    PROVE  ScreenTypeOK'
<1> USE ScreenAssumption
<1>1. CASE Speaks
  <2>1. /\ atm' \in Frame /\ visits' \in 0 .. MaxVisit
        /\ atm'.state = "IDLE" => atm' = Nobody
        /\ atm'.state # "ENDED"
        /\ rowOf' \in [Visits -> {"none", "pending", "written", "refused"}]
        /\ untold' = FALSE
        /\ UNCHANGED <<linked, viewVars, padVars, callVars, bounds>>
    BY <1>1, Sends
  <2>2. PICK new \in Seq(Frame) : Emit(new) /\ Len(new) \in {1, 2}
    BY <1>1, Sends
  <2>3. frames' \in Seq(Frame)
    BY <2>2, Appended
  <2>4. behind' \in BOOLEAN /\ gap' \in BOOLEAN
    BY <2>2, Zenon DEF Emit, ScreenTypeOK
  <2>5. untold' \in BOOLEAN
    BY <2>1, Zenon
  <2> QED
    BY <2>1, <2>3, <2>4, <2>5 DEF ScreenTypeOK, viewVars, padVars, callVars
<1>1a. CASE Quiet
  <2>1. /\ atm' \in Frame /\ visits' \in 0 .. MaxVisit
        /\ atm'.state = "IDLE" => atm' = Nobody
        /\ atm'.state # "ENDED"
        /\ rowOf' \in [Visits -> {"none", "pending", "written", "refused"}]
        /\ untold' \in BOOLEAN
        /\ UNCHANGED <<linked, frames, behind, gap, viewVars, padVars, callVars, bounds>>
    BY <1>1a, Silent
  <2> QED
    BY <2>1 DEF ScreenTypeOK, viewVars, padVars, callVars
<1>1b. CASE ServerRestarts
  <2>1. /\ linked' \in BOOLEAN /\ behind' \in BOOLEAN /\ gap' \in BOOLEAN /\ untold' \in BOOLEAN
    BY <1>1b, Zenon DEF ServerRestarts
  <2>2. frames' \in Seq(Frame) /\ atm' \in Frame /\ atm'.state = "IDLE" /\ atm' = Nobody
    BY <1>1b, NoFrames, NobodyRests DEF ServerRestarts
  <2>3. entry' \in 0 .. MaxVisit /\ rowOf' \in [Visits -> {"none", "pending", "written", "refused"}]
    BY <1>1b DEF ServerRestarts, ScreenTypeOK
  <2> QED
    BY <1>1b, <2>1, <2>2, <2>3 DEF ServerRestarts, ScreenTypeOK, viewVars, callVars
<1>2. CASE Connect
  <2>1. linked' \in BOOLEAN
    BY <1>2, Zenon DEF Connect
  <2> QED
    BY <1>2, <2>1 DEF Connect, ScreenTypeOK, serverVars, viewVars, padVars, callVars
<1>3. CASE Disconnect
  <2>1. linked' \in BOOLEAN /\ behind' \in BOOLEAN /\ gap' \in BOOLEAN
    BY <1>3, Zenon DEF Disconnect
  <2>2. frames' \in Seq(Frame)
    BY <1>3, NoFrames DEF Disconnect
  <2> QED
    BY <1>3, <2>1, <2>2 DEF Disconnect, ScreenTypeOK, serverVars, viewVars, padVars, callVars
<1>4. CASE FrameComes
  <2>1. behind' \in BOOLEAN
    BY <1>4, Zenon DEF FrameComes
  <2>2. menuView' \in {"MAIN", "SUB"} /\ opener' = opener
    BY <1>4 DEF FrameComes, ResetView, ScreenTypeOK
  <2>3. overlay' \in BOOLEAN /\ gap' \in BOOLEAN
    BY <1>4, Zenon DEF FrameComes, ResetView, ScreenTypeOK
  <2>4. UNCHANGED <<atm, visits, rowOf, untold, linked, key, entry, busy, wrapped>>
    BY <1>4 DEF FrameComes, serverVars, callVars
  <2>5. shown' \in Frame /\ frames' \in Seq(Frame)
    BY <1>4, Taken
  <2>6. /\ gate' \in 0 .. MaxVisit /\ pinBusy' \in BOOLEAN
        /\ begin' \in [Visits -> {"none", "sent", "open", "back"}]
        /\ hushed' \in {"nothing", "own", "late", "cancel", "reload"}
    BY <1>4, AutoPinFacts
  <2> QED
    BY <2>1, <2>2, <2>3, <2>4, <2>5, <2>6 DEF ScreenTypeOK
<1>5. CASE Reload
  <2>1. /\ linked' \in BOOLEAN /\ behind' \in BOOLEAN /\ gap' \in BOOLEAN
        /\ overlay' \in BOOLEAN /\ pinBusy' \in BOOLEAN /\ busy' \in BOOLEAN
    BY <1>5, Zenon DEF Reload
  <2>2. frames' \in Seq(Frame) /\ shown' \in Frame
    BY <1>5, NoFrames, NobodyRests DEF Reload
  <2>3. /\ begin' \in [Visits -> {"none", "sent", "open", "back"}]
        /\ key' \in [KeysSent -> {"none", "sent", "back"}]
        /\ wrapped' \in [Slots -> {"none", "insert-card", "submit-amount", "confirm", "cancel",
                                   "select-transaction", "quick"}]
    BY <1>5 DEF Reload
  <2>4. /\ gate' \in 0 .. MaxVisit /\ menuView' \in {"MAIN", "SUB"}
        /\ hushed' \in {"nothing", "own", "late", "cancel", "reload"}
    BY <1>5 DEF Reload
  <2>5. UNCHANGED <<atm, visits, rowOf, untold, entry, opener>>
    BY <1>5 DEF Reload, serverVars
  <2> QED
    BY <2>1, <2>2, <2>3, <2>4, <2>5 DEF ScreenTypeOK
<1>6. CASE EntryEnds \/ (\E v \in Visits : BeginPin(v)) \/ (\E k \in KeysSent : PadTakes(k))
  <2>1. /\ begin' \in [Visits -> {"none", "sent", "open", "back"}]
        /\ entry' \in 0 .. MaxVisit
    BY <1>6, PadFacts
  <2>2. key' \in [KeysSent -> {"none", "sent", "back"}]
    BY <1>6 DEF EntryEnds, BeginPin, PadTakes, ScreenTypeOK
  <2>3. /\ UNCHANGED <<atm, visits, rowOf, untold, linked, frames, behind, gap>>
        /\ UNCHANGED <<shown, gate, menuView, overlay, opener>>
        /\ UNCHANGED <<pinBusy, hushed, busy, wrapped>>
    BY <1>6 DEF EntryEnds, BeginPin, PadTakes, serverVars, linkVars, viewVars, callVars
  <2> QED
    BY <2>1, <2>2, <2>3 DEF ScreenTypeOK
<1>7. ASSUME NEW v \in Visits, BeginFails(v) \/ BeginReturns(v) PROVE ScreenTypeOK'
  <2>1. pinBusy' \in BOOLEAN
    BY <1>7, Zenon DEF BeginFails, BeginReturns
  <2>2. /\ begin' \in [Visits -> {"none", "sent", "open", "back"}]
        /\ hushed' \in {"nothing", "own", "late", "cancel", "reload"}
    BY <1>7 DEF BeginFails, BeginReturns, ScreenTypeOK
  <2>3. /\ UNCHANGED <<atm, visits, rowOf, untold, linked, frames, behind, gap>>
        /\ UNCHANGED <<shown, gate, menuView, overlay, opener>>
        /\ UNCHANGED <<key, entry, busy, wrapped>>
    BY <1>7 DEF BeginFails, BeginReturns, serverVars, linkVars, viewVars, callVars
  <2> QED
    BY <2>1, <2>2, <2>3 DEF ScreenTypeOK
<1>8. ASSUME NEW k \in KeysSent, pressKey(k) \/ KeyReturns(k) PROVE ScreenTypeOK'
  <2>1. pinBusy' \in BOOLEAN
    BY <1>8, Zenon DEF pressKey, KeyReturns, ScreenTypeOK
  <2>2. /\ key' \in [KeysSent -> {"none", "sent", "back"}]
        /\ hushed' \in {"nothing", "own", "late", "cancel", "reload"}
    BY <1>8 DEF pressKey, KeyReturns, ScreenTypeOK
  <2>3. /\ UNCHANGED <<atm, visits, rowOf, untold, linked, frames, behind, gap>>
        /\ UNCHANGED <<shown, gate, menuView, overlay, opener>>
        /\ UNCHANGED <<begin, entry, busy, wrapped>>
    BY <1>8 DEF pressKey, KeyReturns, serverVars, linkVars, viewVars, callVars
  <2> QED
    BY <2>1, <2>2, <2>3 DEF ScreenTypeOK
<1>9. ASSUME NEW s \in Slots,
             \/ insertCard(s) \/ submitCustomAmount(s) \/ confirmSession(s) \/ cancelSession(s)
             \/ balanceInquiry(s) \/ QuickGoesOn(s) \/ WrapEnds(s)
      PROVE  ScreenTypeOK'
  <2>1. busy' \in BOOLEAN
    BY <1>9, Zenon DEF insertCard, submitCustomAmount, confirmSession, cancelSession, balanceInquiry,
                       QuickGoesOn, WrapEnds, wrap, ScreenTypeOK
  <2>2. wrapped' \in [Slots -> {"none", "insert-card", "submit-amount", "confirm", "cancel",
                                "select-transaction", "quick"}]
    BY <1>9 DEF insertCard, submitCustomAmount, confirmSession, cancelSession, balanceInquiry,
                QuickGoesOn, WrapEnds, wrap, ScreenTypeOK
  <2>3. UNCHANGED <<serverVars, linkVars, viewVars, padVars>>
    BY <1>9 DEF insertCard, submitCustomAmount, confirmSession, cancelSession, balanceInquiry,
                QuickGoesOn, WrapEnds
  <2> QED
    BY <2>1, <2>2, <2>3 DEF ScreenTypeOK, serverVars, linkVars, viewVars, padVars
<1>10. ASSUME NEW s \in Slots, NEW label \in FdkOf("MAIN") \union FdkOf("SUB"), selectFdk(s, label)
       PROVE  ScreenTypeOK'
  <2>1. overlay' \in BOOLEAN /\ busy' \in BOOLEAN
    <3>1. (overlay' = overlay \/ overlay' = TRUE) /\ (busy' = busy \/ busy' = TRUE)
      BY <1>10 DEF selectFdk, wrap
    <3> QED
      BY <3>1, Zenon DEF ScreenTypeOK
  <2>2. /\ menuView' \in {"MAIN", "SUB"}
        /\ wrapped' \in [Slots -> {"none", "insert-card", "submit-amount", "confirm", "cancel",
                                   "select-transaction", "quick"}]
    BY <1>10 DEF selectFdk, wrap, ScreenTypeOK
  <2>3. opener' \in 0 .. MaxVisit
    <3>1. shown.id \in 0 .. MaxVisit /\ opener \in 0 .. MaxVisit
      BY DEF ScreenTypeOK, Frame, Session
    <3>2. opener' = opener \/ opener' = shown.id
      BY <1>10 DEF selectFdk
    <3> QED
      BY <3>1, <3>2
  <2>4. UNCHANGED <<serverVars, linkVars, shown, gate, padVars>>
    BY <1>10 DEF selectFdk
  <2> QED
    BY <2>1, <2>2, <2>3, <2>4 DEF ScreenTypeOK, serverVars, linkVars, padVars
<1>11. CASE DismissOverlay
  <2>1. overlay' \in BOOLEAN
    BY <1>11, Zenon DEF DismissOverlay
  <2> QED
    BY <1>11, <2>1 DEF DismissOverlay, ScreenTypeOK, serverVars, linkVars, padVars, callVars
<1>12. CASE UNCHANGED screenVars
  BY <1>12 DEF screenVars, ScreenTypeOK, serverVars, linkVars, viewVars, padVars, callVars
<1> QED
  BY <1>1, <1>1a, <1>1b, <1>2, <1>3, <1>4, <1>5, <1>6, <1>7, <1>8, <1>9, <1>10, <1>11, <1>12
  DEF ScreenNext, Speaks, Quiet

(* The keypad is closed by the answer that ends the last wait for it.      *)
LEMMA PadStep ==
    ASSUME ScreenTypeOK, PadInv, [ScreenNext]_screenVars
    PROVE  PadInv'
<1> USE ScreenAssumption
<1>1. CASE FrameComes
  <2>1. UNCHANGED <<busy, wrapped>>
    BY <1>1 DEF FrameComes, callVars
  <2>2. CASE gate' \in Visits /\ pinBusy' = TRUE /\ begin'[gate'] = "sent"
    <3>1. KeypadHasWaiter'
      BY <2>1, <2>2 DEF PadInv, KeypadHasWaiter
    <3> QED
      BY <2>2, <3>1 DEF PadInv, GateKept
  <2>3. CASE gate' \in {0, gate} /\ UNCHANGED <<pinBusy, begin, hushed>>
    <3>1. 0 \notin Visits
      BY DEF Visits
    <3> QED
      BY <2>1, <2>3, <3>1 DEF PadInv, KeypadHasWaiter, GateKept
  <2> QED
    BY <1>1, <2>2, <2>3, AutoPinFacts
<1>2. CASE EntryEnds \/ (\E v \in Visits : BeginPin(v)) \/ (\E k \in KeysSent : PadTakes(k))
  <2>1. /\ \A v \in Visits : begin'[v] = "none" <=> begin[v] = "none"
        /\ UNCHANGED <<pinBusy, hushed, gate, busy, wrapped>>
    BY <1>2, PadFacts
  <2> QED
    BY <2>1 DEF PadInv, KeypadHasWaiter, GateKept
<1>3. ASSUME NEW v \in Visits, BeginFails(v) \/ BeginReturns(v) PROVE PadInv'
  <2>1. /\ pinBusy' = FALSE /\ begin' = [begin EXCEPT ![v] = "none"]
        /\ hushed' = (IF v = gate THEN "own" ELSE "late")
        /\ UNCHANGED <<gate, busy, wrapped>>
    BY <1>3 DEF BeginFails, BeginReturns, viewVars, callVars
  <2>2. begin'[v] = "none"
    BY <2>1 DEF ScreenTypeOK
  <2> QED
    BY <2>1, <2>2 DEF PadInv, KeypadHasWaiter, GateKept
<1>4. CASE Reload
  <2>1. pinBusy' = FALSE /\ busy' = FALSE /\ gate' = 0
    BY <1>4 DEF Reload
  <2>2. 0 \notin Visits
    BY DEF Visits
  <2> QED
    BY <2>1, <2>2 DEF PadInv, KeypadHasWaiter, GateKept
<1>5. ASSUME NEW k \in KeysSent, KeyReturns(k) PROVE PadInv'
  <2>1. UNCHANGED <<begin, gate, busy, wrapped>>
    BY <1>5 DEF KeyReturns, viewVars, callVars
  <2>2. (pinBusy' = FALSE /\ hushed' = "cancel") \/ UNCHANGED <<pinBusy, hushed>>
    BY <1>5 DEF KeyReturns
  <2> QED
    BY <2>1, <2>2 DEF PadInv, KeypadHasWaiter, GateKept
<1>6. ASSUME NEW s \in Slots, WrapEnds(s) PROVE PadInv'
  <2>1. busy' = FALSE /\ UNCHANGED <<pinBusy, begin, gate, hushed>>
    BY <1>6 DEF WrapEnds, viewVars, padVars
  <2> QED
    BY <2>1 DEF PadInv, KeypadHasWaiter, GateKept
<1>7. ASSUME NEW s \in Slots,
             \/ insertCard(s) \/ submitCustomAmount(s) \/ confirmSession(s) \/ cancelSession(s)
             \/ balanceInquiry(s) \/ QuickGoesOn(s)
             \/ \E label \in FdkOf("MAIN") \union FdkOf("SUB") : selectFdk(s, label)
      PROVE  PadInv'
  <2>1. UNCHANGED <<pinBusy, begin, gate, hushed>>
    BY <1>7 DEF insertCard, submitCustomAmount, confirmSession, cancelSession, balanceInquiry,
                QuickGoesOn, selectFdk, viewVars, padVars
  <2>2. (busy' = busy /\ wrapped' = wrapped) \/ wrapped'[s] # "none"
    BY <1>7 DEF insertCard, submitCustomAmount, confirmSession, cancelSession, balanceInquiry,
                QuickGoesOn, selectFdk, wrap, ScreenTypeOK
  <2> QED
    BY <2>1, <2>2 DEF PadInv, KeypadHasWaiter, GateKept
<1>8. CASE \/ SessionStarts \/ endSession \/ (\E next \in DOMAIN Successors : transitionTo(next))
           \/ (\E v \in Visits : RowWritten(v) \/ RowRefused(v)) \/ ServerRestarts
           \/ Connect \/ Disconnect \/ DismissOverlay \/ UNCHANGED screenVars
           \/ \E k \in KeysSent : pressKey(k)
  <2>1. UNCHANGED <<pinBusy, begin, gate, hushed, busy, wrapped>>
    BY <1>8 DEF SessionStarts, endSession, transitionTo, RowWritten, RowRefused,
                ServerRestarts, Connect, Disconnect, DismissOverlay, pressKey,
                screenVars, viewVars, padVars, callVars
  <2> QED
    BY <2>1 DEF PadInv, KeypadHasWaiter, GateKept
<1> QED
  BY <1>1, <1>2, <1>3, <1>4, <1>5, <1>6, <1>7, <1>8 DEF ScreenNext

LEMMA ScreenInvariant == ScreenSpec => []ScreenInv
<1>1. ScreenInv /\ [ScreenNext]_screenVars => ScreenInv'
  BY TypeStep, FrameStep, PadStep DEF ScreenInv, FrameInv, ScreenCatchesUp, ToldOf
<1> QED
  BY <1>1, ScreenStarts, PTL DEF ScreenSpec

(* When nothing is under way and no frame was lost since the last one, the *)
(* customer sees the session that the server has told of, for any number   *)
(* of sessions, frames, lost connections and restarts; the one it has not  *)
(* told of has a card in and no row.                                       *)
THEOREM ScreenIsRight == ScreenSpec => []ScreenCatchesUp
<1>1. ScreenInv => ScreenCatchesUp
  BY DEF ScreenInv, FrameInv
<1> QED
  BY <1>1, ScreenInvariant, PTL

(* No failed, aborted or late call leaves the keypad open or the buttons   *)
(* busy, and only a late answer or a CANCEL closes the keypad on a         *)
(* customer whose PIN the pad waits for.                                   *)
THEOREM KeypadIsRight == ScreenSpec => []KeypadFollows
<1>1. ScreenInv => KeypadFollows
  <2> SUFFICES ASSUME ScreenInv PROVE KeypadFollows
    OBVIOUS
  <2>1. KeypadHasWaiter
    BY DEF ScreenInv, PadInv
  <2>2. entry # 0 => entry \in Visits
    BY ScreenAssumption DEF ScreenInv, ScreenTypeOK, Visits
  <2> QED
    BY <2>1, <2>2 DEF ScreenInv, PadInv, GateKept, KeypadFollows
<1> QED
  BY <1>1, ScreenInvariant, PTL

(* A sub-menu or notice is seen only in the session that opened it, unless *)
(* a frame was lost: the end of a session always comes between two.        *)
THEOREM MenuIsOwn == ScreenSpec => []MenuBelongs
<1>1. ScreenInv => MenuBelongs
  BY DEF ScreenInv, FrameInv
<1> QED
  BY <1>1, ScreenInvariant, PTL

-----------------------------------------------------------------------------
(***************************************************************************)
(* The recorder: MacroRecorder.                                            *)
(***************************************************************************)
Recording == {"n", "macro", "steps", "digits", "absorb", "did"}
Recorder == {"start", "stop"}

RecorderTyped ==
    /\ RecorderTypeOK
    /\ DOMAIN request = Requests /\ DOMAIN macro = Macros
    /\ active # None => DOMAIN active = Recording
    /\ \A r \in Requests :
          /\ request[r].op \in Recorder => request[r].macro \in Macros
          /\ request[r].op = "start" => sessions > 0

(* With no overlap, one start or stop is at its await at most, a start     *)
(* still finds no recording, and a stop the one it read.                   *)
OneRecorder ==
    /\ \A r, q \in Requests :
          request[r].op \in Recorder /\ request[q].op \in Recorder => r = q
    /\ \A r \in Requests :
          /\ request[r].op = "start" => active = None
          /\ request[r].op = "stop" => /\ active # None
                                       /\ request[r].n = active.n
                                       /\ request[r].macro = active.macro

RecorderInv == RecorderTyped /\ (noOverlap => OneRecorder)

(* rec is the recording x, with whatever was recorded since.               *)
Continues(rec, x) ==
    /\ DOMAIN rec = Recording
    /\ rec.n = x.n /\ rec.macro = x.macro
    /\ rec.digits \in Nat

LEMMA NotNone == \A rec : DOMAIN rec = Recording => rec # None
  BY DEF Recording, None

(* No operation on a recording makes it another one.                       *)
LEMMA FlushContinues ==
    ASSUME NEW x, NEW rec, Continues(rec, x)
    PROVE  Continues(flushDigitBuffer(rec), x)
<1>1. CASE rec.digits = 0
  BY <1>1 DEF flushDigitBuffer
<1>2. CASE rec.digits # 0 /\ IsPinShape(rec.digits)
  BY <1>2 DEF flushDigitBuffer, Continues, Recording
<1>3. CASE rec.digits # 0 /\ ~ IsPinShape(rec.digits)
  BY <1>3 DEF flushDigitBuffer, Continues, Recording
<1> QED
  BY <1>1, <1>2, <1>3

LEMMA PushContinues ==
    ASSUME NEW x, NEW rec, NEW step, Continues(rec, x)
    PROVE  Continues(pushStep(rec, step), x) /\ Continues(Did(rec, step), x)
  BY DEF pushStep, Did, Continues, Recording

LEMMA ControlContinues ==
    ASSUME NEW x, NEW rec, NEW k, Continues(rec, x)
    PROVE  Continues(PressControl(rec, k), x)
<1> DEFINE f == flushDigitBuffer(rec)
<1>1. Continues(f, x)
  BY FlushContinues
<1> HIDE DEF f
<1>2. Continues([f EXCEPT !.absorb = FALSE], x)
  BY <1>1 DEF Continues, Recording
<1>3. Continues(pushStep([f EXCEPT !.absorb = FALSE], <<"key", k>>), x)
  BY <1>2, PushContinues
<1>4. PressControl(rec, k) \in {[f EXCEPT !.absorb = FALSE],
                                pushStep([f EXCEPT !.absorb = FALSE], <<"key", k>>)}
  BY DEF PressControl, f
<1> QED
  BY <1>2, <1>3, <1>4

(* A step that only adds to the recording.                                 *)
LEMMA AddingSteps ==
    ASSUME RecorderInv, active # None, Continues(active', active),
           UNCHANGED <<request, macro, sessions, noOverlap, macroEdits>>,
           actions' \in 0 .. MaxAction, events' \in 0 .. MaxEvent
    PROVE  RecorderInv'
<1>1. active' # None /\ active'.n = active.n /\ active'.macro = active.macro
      /\ DOMAIN active' = Recording /\ active'.digits \in Nat
  BY NotNone DEF Continues
<1>2. RecorderTyped'
  BY <1>1 DEF RecorderInv, RecorderTyped, RecorderTypeOK
<1>3. ASSUME noOverlap PROVE OneRecorder'
  BY <1>1, <1>3 DEF RecorderInv, OneRecorder
<1> QED
  BY <1>2, <1>3 DEF RecorderInv

LEMMA RecordedContinues ==
    ASSUME RecorderInv, active # None
    PROVE  Continues(active, active)
  BY DEF RecorderInv, RecorderTyped, RecorderTypeOK, Continues

LEMMA DigitsStep ==
    ASSUME RecorderInv, NEW n \in Runs, PressDigits(n)
    PROVE  RecorderInv'
<1> USE RecorderAssumption
<1>1. active # None /\ actions' \in 0 .. MaxAction
  BY DEF PressDigits, Recorded, RecorderInv, RecorderTyped, RecorderTypeOK
<1>2. Continues([active EXCEPT !.digits = @ + n], active)
  BY <1>1, RecordedContinues DEF Continues, Recording
<1>3. Continues(active', active)
  BY <1>2, PushContinues DEF PressDigits
<1> QED
  BY <1>1, <1>3, AddingSteps DEF PressDigits, RecorderInv, RecorderTyped, RecorderTypeOK

LEMMA KeyStep ==
    ASSUME RecorderInv, NEW k \in ControlKeys, PressKey(k)
    PROVE  RecorderInv'
<1> USE RecorderAssumption
<1>1. active # None /\ actions' \in 0 .. MaxAction
  BY DEF PressKey, Recorded, RecorderInv, RecorderTyped, RecorderTypeOK
<1>2. Continues(PressControl(active, k), active)
  BY <1>1, RecordedContinues, ControlContinues
<1>3. Continues(active', active)
  BY <1>2, PushContinues DEF PressKey
<1> QED
  BY <1>1, <1>3, AddingSteps DEF PressKey, RecorderInv, RecorderTyped, RecorderTypeOK

LEMMA ActStep ==
    ASSUME RecorderInv, (\E op \in Acts : UserAct(op)) \/ (\E e \in Checkpoints : DeviceEvent(e))
    PROVE  RecorderInv'
<1> USE RecorderAssumption
<1>1. active # None /\ actions' \in 0 .. MaxAction /\ events' \in 0 .. MaxEvent
  <2>1. CASE \E op \in Acts : UserAct(op)
    BY <2>1 DEF UserAct, Recorded, RecorderInv, RecorderTyped, RecorderTypeOK
  <2>2. CASE \E e \in Checkpoints : DeviceEvent(e)
    BY <2>2 DEF DeviceEvent, RecorderInv, RecorderTyped, RecorderTypeOK
  <2> QED
    BY <2>1, <2>2
<1>2. Continues(flushDigitBuffer(active), active)
  BY <1>1, RecordedContinues, FlushContinues
<1>3. \A step : Continues(pushStep(flushDigitBuffer(active), step), active)
  BY <1>2, PushContinues
<1>4. Continues(active', active)
  BY <1>3, PushContinues DEF UserAct, DeviceEvent
<1> QED
  BY <1>1, <1>4, AddingSteps DEF UserAct, DeviceEvent

LEMMA StartStep ==
    ASSUME RecorderInv, NEW r \in Requests, NEW m \in Macros, StartRecording(r, m)
    PROVE  RecorderInv'
<1> USE RecorderAssumption
<1> USE DEF StartRecording
<1>1. /\ request'[r].op = "start" /\ request'[r].macro = m
      /\ \A q \in Requests \ {r} : request'[q] = request[q]
  BY DEF RecorderInv, RecorderTyped
<1>2. DOMAIN request' = Requests /\ sessions' \in 1 .. MaxSession /\ noOverlap' \in BOOLEAN
  BY DEF RecorderInv, RecorderTyped, RecorderTypeOK
<1>3. RecorderTyped'
  BY <1>1, <1>2 DEF RecorderInv, RecorderTyped, RecorderTypeOK, counters
<1>4. ASSUME noOverlap' PROVE OneRecorder'
  <2>1. OneRecorder /\ \A q \in Requests \ {r} : request[q].op \notin Recorder
    BY <1>4 DEF RecorderInv, Overlapping, Recorder
  <2> QED
    BY <2>1, <1>1 DEF OneRecorder, Recorder
<1> QED
  BY <1>3, <1>4 DEF RecorderInv

LEMMA StartsStep ==
    ASSUME RecorderInv, NEW r \in Requests, RecordingStarts(r)
    PROVE  RecorderInv'
<1> USE RecorderAssumption
<1> USE DEF RecordingStarts
<1>1. /\ request'[r].op = "none"
      /\ \A q \in Requests \ {r} : request'[q] = request[q]
      /\ DOMAIN request' = Requests
  BY DEF RecorderInv, RecorderTyped, NoRequest
<1>2. /\ DOMAIN active' = Recording /\ active'.n = sessions
      /\ active'.macro = request[r].macro /\ active'.digits = 0
  BY DEF Recording
<1>3. request[r].macro \in Macros /\ sessions \in 1 .. MaxSession
  BY DEF RecorderInv, RecorderTyped, RecorderTypeOK, Recorder
<1>4. RecorderTyped'
  BY <1>1, <1>2, <1>3 DEF RecorderInv, RecorderTyped, RecorderTypeOK, counters, Recorder
<1>5. ASSUME noOverlap' PROVE OneRecorder'
  <2>1. OneRecorder
    BY <1>5 DEF RecorderInv
  <2>2. \A q \in Requests : request'[q].op \notin Recorder
    BY <2>1, <1>1 DEF OneRecorder, Recorder
  <2> QED
    BY <2>2 DEF OneRecorder, Recorder
<1> QED
  BY <1>4, <1>5 DEF RecorderInv

LEMMA StopStep ==
    ASSUME RecorderInv, NEW r \in Requests, StopRecording(r)
    PROVE  RecorderInv'
<1> USE RecorderAssumption
<1> USE DEF StopRecording
<1>1. Continues(active', active)
  BY RecordedContinues, FlushContinues
<1>2. /\ active' # None /\ DOMAIN active' = Recording
      /\ active'.n = active.n /\ active'.macro = active.macro /\ active'.digits \in Nat
  BY <1>1, NotNone DEF Continues
<1>3. /\ request'[r].op = "stop" /\ request'[r].macro = active.macro /\ request'[r].n = active.n
      /\ \A q \in Requests \ {r} : request'[q] = request[q]
      /\ DOMAIN request' = Requests
  BY DEF RecorderInv, RecorderTyped
<1>4. RecorderTyped'
  BY <1>2, <1>3 DEF RecorderInv, RecorderTyped, RecorderTypeOK, counters, Recorder
<1>5. ASSUME noOverlap' PROVE OneRecorder'
  <2>1. OneRecorder /\ \A q \in Requests \ {r} : request[q].op \notin Recorder
    BY <1>5 DEF RecorderInv, Overlapping, Recorder
  <2> QED
    BY <2>1, <1>2, <1>3 DEF OneRecorder, Recorder
<1> QED
  BY <1>4, <1>5 DEF RecorderInv

LEMMA SavedStep ==
    ASSUME RecorderInv, NEW r \in Requests, StepsSaved(r)
    PROVE  RecorderInv'
<1> USE DEF StepsSaved
<1>1. /\ request'[r].op = "none"
      /\ \A q \in Requests \ {r} : request'[q] = request[q]
      /\ DOMAIN request' = Requests /\ DOMAIN macro' = Macros
  BY DEF RecorderInv, RecorderTyped, NoRequest
<1>2. RecorderTyped'
  BY <1>1 DEF RecorderInv, RecorderTyped, RecorderTypeOK, counters, Recorder
<1>3. ASSUME noOverlap' PROVE OneRecorder'
  <2>1. OneRecorder
    BY <1>3 DEF RecorderInv
  <2>2. \A q \in Requests : request'[q].op \notin Recorder
    BY <2>1, <1>1 DEF OneRecorder, Recorder
  <2> QED
    BY <2>2 DEF OneRecorder, Recorder
<1> QED
  BY <1>2, <1>3 DEF RecorderInv

(* A request that fails, or an edit by hand, leaves the recording and      *)
(* whatever starts and stops there are.                                    *)
LEMMA OtherSteps ==
    ASSUME RecorderInv,
           UNCHANGED <<active, sessions, noOverlap, actions, events>>,
           macroEdits' \in 0 .. MaxEdit,
           DOMAIN request' = Requests, DOMAIN macro' = Macros,
           \A q \in Requests : request'[q] = request[q] \/ request'[q].op \in {"none", "update"}
    PROVE  RecorderInv'
<1>1. RecorderTyped'
  BY DEF RecorderInv, RecorderTyped, RecorderTypeOK, Recorder
<1>2. ASSUME noOverlap' PROVE OneRecorder'
  BY <1>2 DEF RecorderInv, OneRecorder, Recorder
<1> QED
  BY <1>1, <1>2 DEF RecorderInv

LEMMA EditSteps ==
    ASSUME RecorderInv,
           \/ \E r \in Requests : RequestFails(r) \/ \E m \in Macros : UpdateMacro(r, m)
           \/ \E r \in Requests, v \in ByHand \union {NoSteps, Malformed} : MacroUpdated(r, v)
           \/ \E m \in Macros : RemoveMacro(m)
           \/ \E m \in Macros, v \in ByHand \union {NoSteps, Malformed} : CreateMacro(m, v)
    PROVE  RecorderInv'
<1> USE RecorderAssumption
<1>1. DOMAIN request = Requests /\ DOMAIN macro = Macros /\ macroEdits \in 0 .. MaxEdit
  BY DEF RecorderInv, RecorderTyped, RecorderTypeOK
<1>2. ASSUME NEW r \in Requests, RequestFails(r) PROVE RecorderInv'
  BY <1>1, <1>2, OtherSteps DEF RequestFails, NoRequest, counters
<1>3. ASSUME NEW r \in Requests, NEW m \in Macros, UpdateMacro(r, m) PROVE RecorderInv'
  BY <1>1, <1>3, OtherSteps DEF UpdateMacro, Edit
<1>4. ASSUME NEW r \in Requests, NEW v, MacroUpdated(r, v) PROVE RecorderInv'
  BY <1>1, <1>4, OtherSteps DEF MacroUpdated, NoRequest, counters
<1>5. ASSUME NEW m \in Macros, RemoveMacro(m) PROVE RecorderInv'
  BY <1>1, <1>5, OtherSteps DEF RemoveMacro, Edit
<1>6. ASSUME NEW m \in Macros, NEW v, CreateMacro(m, v) PROVE RecorderInv'
  BY <1>1, <1>6, OtherSteps DEF CreateMacro, Edit
<1> QED
  BY <1>2, <1>3, <1>4, <1>5, <1>6

LEMMA RecorderStep == RecorderInv /\ [RecorderNext]_recorderVars => RecorderInv'
<1> SUFFICES ASSUME RecorderInv, [RecorderNext]_recorderVars PROVE RecorderInv'
  OBVIOUS
<1>1. CASE UNCHANGED recorderVars
  <2> USE <1>1 DEF recorderVars, counters
  <2>1. RecorderTyped'
    BY DEF RecorderInv, RecorderTyped, RecorderTypeOK
  <2>2. noOverlap' => OneRecorder'
    BY DEF RecorderInv, OneRecorder
  <2> QED
    BY <2>1, <2>2 DEF RecorderInv
<1> QED
  BY <1>1, DigitsStep, KeyStep, ActStep, StartStep, StartsStep, StopStep, SavedStep, EditSteps
     DEF RecorderNext

LEMMA RecorderBegins == RecorderInit => RecorderInv
<1> USE RecorderAssumption
<1> SUFFICES ASSUME RecorderInit PROVE RecorderInv
  OBVIOUS
<1>1. \A r \in Requests : request[r].op = "none"
  BY DEF RecorderInit, NoRequest
<1> QED
  BY <1>1 DEF RecorderInit, RecorderInv, RecorderTyped, RecorderTypeOK, OneRecorder, Recorder

(* The recording, the requests and the counters of MacroRecorderService    *)
(* keep their types.                                                       *)
THEOREM RecorderTypeCorrect == RecorderSpec => []RecorderTypeOK
<1>1. RecorderInv => RecorderTypeOK
  BY DEF RecorderInv, RecorderTyped
<1> QED
  BY <1>1, RecorderBegins, RecorderStep, PTL DEF RecorderSpec

SavedOrGoesOn ==
    active # None /\ active'.n # active.n /\ noOverlap =>
        \E r \in Requests :
            /\ request[r].op = "stop" /\ request[r].n = active.n
            /\ macro'[active.macro].did = request[r].did

LEMMA RecordingEnds == RecorderInv /\ [RecorderNext]_recorderVars => [SavedOrGoesOn]_recorderVars
<1> SUFFICES ASSUME RecorderInv, RecorderNext, active # None, noOverlap, active'.n # active.n
             PROVE  \E r \in Requests :
                        /\ request[r].op = "stop" /\ request[r].n = active.n
                        /\ macro'[active.macro].did = request[r].did
  BY DEF SavedOrGoesOn
<1>0. OneRecorder /\ Continues(active, active) /\ DOMAIN macro = Macros
  BY RecordedContinues DEF RecorderInv, RecorderTyped
<1>1. \A n \in Runs : ~ PressDigits(n)
  <2> SUFFICES ASSUME NEW n \in Runs, PressDigits(n) PROVE FALSE
    OBVIOUS
  <2>1. Continues([active EXCEPT !.digits = @ + n], active)
    BY <1>0, RecorderAssumption DEF Continues, Recording
  <2>2. Continues(active', active)
    BY <2>1, PushContinues DEF PressDigits
  <2> QED
    BY <2>2 DEF Continues
<1>2. \A k \in ControlKeys : ~ PressKey(k)
  <2> SUFFICES ASSUME NEW k \in ControlKeys, PressKey(k) PROVE FALSE
    OBVIOUS
  <2>1. Continues(active', active)
    BY <1>0, ControlContinues, PushContinues DEF PressKey
  <2> QED
    BY <2>1 DEF Continues
<1>3. (\A op \in Acts : ~ UserAct(op)) /\ (\A e \in Checkpoints : ~ DeviceEvent(e))
  <2> SUFFICES ASSUME (\E op \in Acts : UserAct(op)) \/ (\E e \in Checkpoints : DeviceEvent(e)) PROVE FALSE
    OBVIOUS
  <2>1. \A step : Continues(pushStep(flushDigitBuffer(active), step), active)
    BY <1>0, FlushContinues, PushContinues
  <2>2. Continues(active', active)
    BY <2>1, PushContinues DEF UserAct, DeviceEvent
  <2> QED
    BY <2>2 DEF Continues
<1>4. \A r \in Requests : ~ RecordingStarts(r)
  BY <1>0 DEF RecordingStarts, OneRecorder
<1>5. \A r \in Requests : ~ StopRecording(r)
  <2> SUFFICES ASSUME NEW r \in Requests, StopRecording(r) PROVE FALSE
    OBVIOUS
  <2>1. Continues(active', active)
    BY <1>0, FlushContinues DEF StopRecording
  <2> QED
    BY <2>1 DEF Continues
<1>6. \E r \in Requests : StepsSaved(r)
  BY <1>1, <1>2, <1>3, <1>4, <1>5
     DEF RecorderNext, StartRecording, RequestFails, UpdateMacro, MacroUpdated, CreateMacro,
         RemoveMacro
<1>7. PICK r \in Requests : StepsSaved(r)
  BY <1>6
<1>8. request[r].op = "stop" /\ request[r].n = active.n /\ request[r].macro = active.macro
  BY <1>7, <1>0 DEF StepsSaved, OneRecorder
<1>9. active.macro \in Macros
  BY <1>7, <1>8 DEF RecorderInv, RecorderTyped, Recorder
<1>10. macro'[active.macro] = Written("recorder", request[r].steps, request[r].did)
  BY <1>7, <1>8, <1>9, <1>0 DEF StepsSaved
<1>11. macro'[active.macro].did = request[r].did
  BY <1>10 DEF Written
<1> QED
  BY <1>8, <1>11

(* Without overlapping requests, a recording is ended only by the          *)
(* stopRecording that read it, once its row holds what the user had done:  *)
(* `this.active = null' after the await never forgets another recording.   *)
THEOREM RecordingEndsOnlySaved == RecorderSpec => EndsOnlySaved
<1>1. RecorderInv /\ [RecorderNext]_recorderVars => [SavedOrGoesOn]_recorderVars
  BY RecordingEnds
<1> QED
  BY <1>1, RecorderBegins, RecorderStep, PTL DEF RecorderSpec, EndsOnlySaved, SavedOrGoesOn

-----------------------------------------------------------------------------
(***************************************************************************)
(* What a recording types when it is replayed: ReplayCovers.               *)
(***************************************************************************)
(* Typed(steps) is the last value of a function that recurs over the       *)
(* lengths of the steps: it exists, and only the steps it has read matter. *)
TypedStep(f, steps, n) == IF n = 0 THEN <<>> ELSE Joined(f[n - 1], steps[n])
Types(f, steps, N) == f = [n \in 0 .. N |-> TypedStep(f, steps, n)]
TypedOf(steps, N) == CHOOSE f : Types(f, steps, N)

LEMMA TypedIsLast ==
    ASSUME NEW steps
    PROVE  Typed(steps) = TypedOf(steps, Len(steps))[Len(steps)]
BY DEF Typed, TypedOf, Types, TypedStep

LEMMA TypedExists ==
    ASSUME NEW steps, NEW N \in Nat
    PROVE  Types(TypedOf(steps, N), steps, N)
<1> DEFINE Bad == {n \in Nat : ~ \E f : Types(f, steps, n)}
<1>1. ASSUME Bad # {} PROVE FALSE
  <2>1. PICK n \in Bad : \A m \in Bad : n <= m
    <3>1. Bad \subseteq Nat
      OBVIOUS
    <3> HIDE DEF Bad
    <3> QED
      BY <1>1, <3>1, LeastNatural
  <2>2. n \in Nat /\ ~ \E f : Types(f, steps, n)
    BY <2>1
  <2>3. CASE n = 0
    <3> DEFINE f == [i \in 0 .. 0 |-> <<>>]
    <3>1. Types(f, steps, 0)
      BY DEF Types, TypedStep
    <3> QED
      BY <2>2, <2>3, <3>1
  <2>4. CASE n # 0
    <3>1. n - 1 \in Nat /\ n - 1 \notin Bad
      <4>1. n - 1 \in Nat /\ ~ n <= n - 1
        BY <2>2, <2>4
      <4> HIDE DEF Bad
      <4> QED
        BY <2>1, <4>1
    <3>2. PICK f : Types(f, steps, n - 1)
      BY <3>1
    <3> DEFINE g == [i \in 0 .. n |-> IF i = n THEN TypedStep(f, steps, n) ELSE f[i]]
    <3>3. \A i \in 0 .. n - 1 : f[i] = TypedStep(f, steps, i)
      BY <3>2 DEF Types
    <3>4. ASSUME NEW i \in 0 .. n PROVE g[i] = TypedStep(g, steps, i)
      <4>1. i # 0 => i - 1 \in 0 .. n /\ i - 1 # n /\ g[i - 1] = f[i - 1]
        BY <2>2
      <4>2. TypedStep(g, steps, i) = TypedStep(f, steps, i)
        BY <4>1 DEF TypedStep
      <4>3. i # n => i \in 0 .. n - 1
        BY <2>2
      <4> QED
        BY <3>3, <4>2, <4>3
    <3>5. Types(g, steps, n)
      BY <3>4 DEF Types
    <3> QED
      BY <2>2, <3>5
  <2> QED
    BY <2>3, <2>4
<1>2. \E f : Types(f, steps, N)
  BY <1>1
<1> QED
  BY <1>2 DEF TypedOf

LEMMA TypedAgrees ==
    ASSUME NEW s, NEW t, NEW M \in Nat, NEW N \in Nat, M <= N, \A i \in 1 .. M : s[i] = t[i]
    PROVE  TypedOf(s, M)[M] = TypedOf(t, N)[M]
<1> DEFINE f == TypedOf(s, M)
           g == TypedOf(t, N)
           Bad == {n \in 0 .. M : f[n] # g[n]}
<1>1. /\ \A n \in 0 .. M : f[n] = TypedStep(f, s, n)
      /\ \A n \in 0 .. N : g[n] = TypedStep(g, t, n)
  <2>1. Types(f, s, M) /\ Types(g, t, N)
    BY TypedExists
  <2> HIDE DEF f, g
  <2> QED
    BY <2>1 DEF Types
<1> HIDE DEF f, g
<1>2. ASSUME Bad # {} PROVE FALSE
  <2>1. PICK n \in Bad : \A m \in Bad : n <= m
    <3>1. Bad \subseteq Nat
      OBVIOUS
    <3> HIDE DEF Bad
    <3> QED
      BY <1>2, <3>1, LeastNatural
  <2>2. n \in 0 .. M /\ f[n] # g[n]
    BY <2>1
  <2>3. n # 0
    BY <1>1, <2>2 DEF TypedStep
  <2>4. n - 1 \in 0 .. M /\ ~ n <= n - 1
    BY <2>2, <2>3
  <2>5. f[n - 1] = g[n - 1]
    BY <2>1, <2>4
  <2>6. s[n] = t[n]
    BY <2>2, <2>3
  <2> QED
    BY <1>1, <2>2, <2>3, <2>5, <2>6 DEF TypedStep
<1>3. M \in 0 .. M
  OBVIOUS
<1> QED
  BY <1>2, <1>3 DEF f, g

LEMMA TypedEmpty == Typed(<<>>) = <<>>
<1>1. Types(TypedOf(<<>>, 0), <<>>, 0)
  BY TypedExists
<1>2. TypedOf(<<>>, 0)[0] = <<>>
  BY <1>1 DEF Types, TypedStep
<1> QED
  BY <1>2, TypedIsLast

LEMMA TypedAppend ==
    ASSUME NEW S, NEW steps \in Seq(S), NEW x \in S
    PROVE  Typed(Append(steps, x)) = Joined(Typed(steps), x)
<1> DEFINE t == Append(steps, x)
           N == Len(steps)
<1>1. N \in Nat /\ Len(t) = N + 1 /\ t[N + 1] = x /\ \A i \in 1 .. N : steps[i] = t[i]
  BY AppendProperties
<1>2. Types(TypedOf(t, N + 1), t, N + 1)
  BY <1>1, TypedExists
<1> HIDE DEF t, N
<1>3. TypedOf(t, N + 1)[N + 1] = Joined(TypedOf(t, N + 1)[N], x)
  <2> DEFINE g == TypedOf(t, N + 1)
  <2> HIDE DEF g
  <2>1. g[N + 1] = TypedStep(g, t, N + 1)
    BY <1>1, <1>2 DEF Types, g
  <2>2. N + 1 # 0 /\ (N + 1) - 1 = N
    BY <1>1
  <2> QED
    BY <1>1, <2>1, <2>2 DEF TypedStep, g
<1>4. TypedOf(t, N + 1)[N] = TypedOf(steps, N)[N]
  BY <1>1, TypedAgrees
<1> QED
  BY <1>1, <1>3, <1>4, TypedIsLast DEF t, N

-----------------------------------------------------------------------------
MacroSteps == ({"digits", "pin"} \X Nat) \union ({"key"} \X ControlKeys) \union ({"act"} \X Acts)
                  \union ({"check"} \X Checkpoints)

LEMMA JoinedTyped ==
    ASSUME NEW typed \in Seq(MacroSteps), NEW step \in MacroSteps
    PROVE  Joined(typed, step) \in Seq(MacroSteps)
<1>1. CASE step[1] = "check" \/ step = Enter
  BY <1>1 DEF Joined
<1>2. CASE step[1] \notin {"digits", "pin", "check"} /\ step # Enter
  BY <1>2 DEF Joined
<1>3. CASE step[1] \in {"digits", "pin"}
  <2>1. step # Enter /\ step[2] \in Nat /\ <<"digits", step[2]>> \in MacroSteps
    BY <1>3 DEF MacroSteps, Enter
  <2>2. CASE typed # <<>> /\ Last(typed)[1] = "digits"
    <3>1. Front(typed) \in Seq(MacroSteps)
      BY SubSeqProperties DEF Front
    <3>2. typed[Len(typed)] \in MacroSteps
      BY <2>2
    <3>3. <<"digits", Last(typed)[2] + step[2]>> \in MacroSteps
      BY <2>1, <2>2, <3>2 DEF MacroSteps, Last
    <3> QED
      BY <1>3, <2>1, <2>2, <3>1, <3>3 DEF Joined
  <2>3. CASE ~ (typed # <<>> /\ Last(typed)[1] = "digits")
    BY <1>3, <2>1, <2>3 DEF Joined
  <2> QED
    BY <2>2, <2>3
<1> QED
  BY <1>1, <1>2, <1>3

LEMMA FrontLast ==
    ASSUME NEW S, NEW s \in Seq(S), NEW x \in S
    PROVE  Front(Append(s, x)) = s /\ Last(Append(s, x)) = x /\ Append(s, x) # <<>>
<1>1. Append(s, x) \in Seq(S) /\ Len(Append(s, x)) = Len(s) + 1 /\ Append(s, x)[Len(s) + 1] = x
  BY AppendProperties
<1>2. Front(Append(s, x)) = s
  <2>1. Front(Append(s, x)) = SubSeq(Append(s, x), 1, Len(s))
    BY <1>1 DEF Front
  <2>2. Append(s, x) = s \o <<x>>
    OBVIOUS
  <2>3. SubSeq(Append(s, x), 1, Len(s)) = SubSeq(s, 1, Len(s))
    BY AppendProperties, SubSeqProperties
  <2> QED
    BY <2>1, <2>3, SubSeqFull
<1> QED
  BY <1>1, <1>2 DEF Last

(* Two runs of digits are one, whether typed or entered as a PIN.          *)
LEMMA RunsJoin ==
    ASSUME NEW typed \in Seq(MacroSteps), NEW a \in Nat, NEW b \in Nat
    PROVE  /\ Joined(Joined(typed, <<"digits", a>>), <<"digits", b>>)
                = Joined(typed, <<"digits", a + b>>)
           /\ Joined(typed, <<"pin", a>>) = Joined(typed, <<"digits", a>>)
<1> DEFINE Merged(n) == IF typed # <<>> /\ Last(typed)[1] = "digits"
                        THEN Append(Front(typed), <<"digits", Last(typed)[2] + n>>)
                        ELSE Append(typed, <<"digits", n>>)
<1>1. \A n \in Nat : /\ Joined(typed, <<"digits", n>>) = Merged(n)
                     /\ Joined(typed, <<"pin", n>>) = Merged(n)
  BY DEF Joined, Enter
<1>2. CASE typed # <<>> /\ Last(typed)[1] = "digits"
  <2>1. PICK d \in Nat : d = Last(typed)[2]
    <3>1. typed[Len(typed)] \in MacroSteps
      BY <1>2
    <3> QED
      BY <1>2, <3>1 DEF Last, MacroSteps
  <2>2. Front(typed) \in Seq(MacroSteps)
    BY SubSeqProperties DEF Front
  <2>3. <<"digits", d + a>> \in MacroSteps
    BY <2>1 DEF MacroSteps
  <2>4. Merged(a) = Append(Front(typed), <<"digits", d + a>>)
    BY <1>2, <2>1
  <2>5. Merged(a + b) = Append(Front(typed), <<"digits", d + (a + b)>>)
    BY <1>2, <2>1
  <2> HIDE DEF Merged
  <2>6. Front(Merged(a)) = Front(typed) /\ Last(Merged(a)) = <<"digits", d + a>> /\ Merged(a) # <<>>
    BY <2>2, <2>3, <2>4, FrontLast
  <2>7. Joined(Merged(a), <<"digits", b>>) = Append(Front(typed), <<"digits", (d + a) + b>>)
    BY <2>6 DEF Joined, Enter
  <2>8. (d + a) + b = d + (a + b) /\ a + b \in Nat
    BY <2>1
  <2> QED
    BY <1>1, <2>5, <2>7, <2>8
<1>3. CASE ~ (typed # <<>> /\ Last(typed)[1] = "digits")
  <2>1. Merged(a) = Append(typed, <<"digits", a>>) /\ Merged(a + b) = Append(typed, <<"digits", a + b>>)
    BY <1>3
  <2>2. <<"digits", a>> \in MacroSteps
    BY DEF MacroSteps
  <2> HIDE DEF Merged
  <2>3. Front(Merged(a)) = typed /\ Last(Merged(a)) = <<"digits", a>> /\ Merged(a) # <<>>
    BY <2>1, <2>2, FrontLast
  <2>4. Joined(Merged(a), <<"digits", b>>) = Append(typed, <<"digits", a + b>>)
    BY <2>3 DEF Joined, Enter
  <2>5. a + b \in Nat
    OBVIOUS
  <2> QED
    BY <1>1, <2>1, <2>4, <2>5
<1> QED
  BY <1>2, <1>3

LEMMA EntersEmpty == Enters(<<>>) = 0
BY FS_EmptySet DEF Enters

LEMMA EntersAppend ==
    ASSUME NEW S, NEW steps \in Seq(S), NEW x \in S
    PROVE  /\ Enters(steps) \in Nat
           /\ Enters(Append(steps, x)) = Enters(steps) + IF PressesEnter(x) THEN 1 ELSE 0
<1> DEFINE t == Append(steps, x)
           N == Len(steps)
           A == {i \in DOMAIN steps : PressesEnter(steps[i])}
           B == {i \in DOMAIN t : PressesEnter(t[i])}
<1>1. /\ N \in Nat /\ DOMAIN steps = 1 .. N /\ DOMAIN t = 1 .. N + 1
      /\ t[N + 1] = x /\ \A i \in 1 .. N : t[i] = steps[i]
  BY AppendProperties
<1>2. IsFiniteSet(A)
  <2>1. IsFiniteSet(1 .. N)
    BY <1>1, FS_Interval
  <2> QED
    BY <1>1, <2>1, FS_Subset
<1>3. N + 1 \notin A
  BY <1>1
<1>4. CASE PressesEnter(x)
  <2>1. B = A \union {N + 1}
    BY <1>1, <1>4
  <2> QED
    BY <1>2, <1>3, <1>4, <2>1, FS_AddElement, FS_CardinalityType DEF Enters
<1>5. CASE ~ PressesEnter(x)
  <2>1. B = A
    BY <1>1, <1>5
  <2>2. Enters(steps) \in Nat
    BY <1>2, FS_CardinalityType DEF Enters
  <2>3. Enters(t) = Enters(steps)
    BY <2>1 DEF Enters
  <2> QED
    BY <1>5, <2>2, <2>3
<1> QED
  BY <1>4, <1>5

(* The steps recorded so far do what the user did, the digits still in the *)
(* buffer included, and an ENTER to be absorbed has been pressed ahead.    *)
Faithful(rec) ==
    /\ DOMAIN rec = Recording
    /\ rec.steps \in Seq(MacroSteps) /\ rec.did \in Seq(MacroSteps)
    /\ rec.digits \in Nat /\ rec.absorb \in BOOLEAN
    /\ Typed(rec.steps) \in Seq(MacroSteps)
    /\ Typed(rec.did) = IF rec.digits = 0 THEN Typed(rec.steps)
                        ELSE Joined(Typed(rec.steps), <<"digits", rec.digits>>)
    /\ Enters(rec.steps) >= Enters(rec.did)
    /\ rec.absorb = TRUE => Enters(rec.steps) >= Enters(rec.did) + 1

CoverInv ==
    /\ active # None => Faithful(active)
    /\ \A r \in Requests :
          request[r].op = "stop" => DoneAgain(request[r].steps, request[r].did)
    /\ ReplayCovers

LEMMA NewIsFaithful ==
    ASSUME NEW n, NEW m
    PROVE  Faithful([n |-> n, macro |-> m, steps |-> <<>>, digits |-> 0, absorb |-> FALSE,
                     did |-> <<>>])
<1>1. PICK rec : rec = [n |-> n, macro |-> m, steps |-> <<>>, digits |-> 0, absorb |-> FALSE,
                        did |-> <<>>]
  OBVIOUS
<1>2. /\ DOMAIN rec = Recording /\ rec.steps = <<>> /\ rec.did = <<>> /\ rec.digits = 0
      /\ rec.absorb = FALSE
  BY <1>1 DEF Recording
<1>3. <<>> \in Seq(MacroSteps)
  OBVIOUS
<1>4. rec.absorb \in BOOLEAN /\ rec.absorb # TRUE
  BY <1>2
<1>5. Typed(rec.steps) = <<>> /\ Typed(rec.did) = <<>> /\ Enters(rec.steps) = 0 /\ Enters(rec.did) = 0
  BY <1>2, TypedEmpty, EntersEmpty
<1>6. /\ Typed(rec.did) = Typed(rec.steps) /\ Typed(rec.steps) \in Seq(MacroSteps)
      /\ Enters(rec.steps) >= Enters(rec.did)
  BY <1>3, <1>5
<1>7. rec.steps \in Seq(MacroSteps) /\ rec.did \in Seq(MacroSteps) /\ rec.digits \in Nat
  BY <1>2, <1>3
<1>8. Faithful(rec)
  BY <1>2, <1>4, <1>6, <1>7 DEF Faithful
<1> QED
  BY <1>1, <1>8

(* One more step, of the recording or of the user.                         *)
LEMMA OneMore ==
    ASSUME NEW steps \in Seq(MacroSteps), Typed(steps) \in Seq(MacroSteps), NEW step \in MacroSteps
    PROVE  /\ Append(steps, step) \in Seq(MacroSteps)
           /\ Typed(Append(steps, step)) = Joined(Typed(steps), step)
           /\ Typed(Append(steps, step)) \in Seq(MacroSteps)
           /\ Enters(steps) \in Nat
           /\ Enters(Append(steps, step)) = Enters(steps) + IF PressesEnter(step) THEN 1 ELSE 0
<1>1. Typed(Append(steps, step)) = Joined(Typed(steps), step)
  BY TypedAppend
<1>2. Joined(Typed(steps), step) \in Seq(MacroSteps)
  BY JoinedTyped
<1>3. /\ Enters(steps) \in Nat
      /\ Enters(Append(steps, step)) = Enters(steps) + IF PressesEnter(step) THEN 1 ELSE 0
  BY EntersAppend
<1> QED
  BY <1>1, <1>2, <1>3

LEMMA FaithfulTyped ==
    ASSUME NEW rec, Faithful(rec)
    PROVE  /\ Typed(rec.did) \in Seq(MacroSteps)
           /\ Enters(rec.steps) \in Nat /\ Enters(rec.did) \in Nat
<1>1. <<"digits", rec.digits>> \in MacroSteps
  BY DEF Faithful, MacroSteps
<1>2. Typed(rec.did) \in Seq(MacroSteps)
  BY <1>1, JoinedTyped DEF Faithful
<1> QED
  BY <1>1, <1>2, EntersAppend DEF Faithful

LEMMA FlushIsFaithful ==
    ASSUME NEW rec, Faithful(rec)
    PROVE  /\ Faithful(flushDigitBuffer(rec))
           /\ flushDigitBuffer(rec).digits = 0
           /\ flushDigitBuffer(rec).did = rec.did
<1>0. /\ Typed(rec.did) \in Seq(MacroSteps) /\ Typed(rec.steps) \in Seq(MacroSteps)
      /\ Enters(rec.steps) \in Nat /\ Enters(rec.did) \in Nat
      /\ rec.digits \in Nat /\ rec.steps \in Seq(MacroSteps) /\ rec.did \in Seq(MacroSteps)
      /\ Enters(rec.steps) >= Enters(rec.did)
  BY FaithfulTyped DEF Faithful
<1>1. CASE rec.digits = 0
  BY <1>1 DEF flushDigitBuffer
<1>2. CASE rec.digits # 0 /\ IsPinShape(rec.digits)
  <2> DEFINE p == <<"pin", rec.digits>>
  <2>1. p \in MacroSteps /\ PressesEnter(p)
    BY <1>0 DEF MacroSteps, PressesEnter
  <2>2. PICK f : f = flushDigitBuffer(rec)
    OBVIOUS
  <2>3. f = [rec EXCEPT !.digits = 0, !.absorb = TRUE, !.steps = Append(rec.steps, p)]
    BY <1>2, <2>2 DEF flushDigitBuffer
  <2>4. /\ DOMAIN f = Recording /\ f.digits = 0 /\ f.absorb = TRUE /\ f.did = rec.did
        /\ f.steps = Append(rec.steps, p)
    BY <2>3 DEF Faithful, Recording
  <2>5. Typed(f.steps) = Joined(Typed(rec.steps), p) /\ Typed(f.steps) \in Seq(MacroSteps)
        /\ f.steps \in Seq(MacroSteps) /\ Enters(f.steps) = Enters(rec.steps) + 1
    BY <1>0, <2>1, <2>4, OneMore
  <2>6. Joined(Typed(rec.steps), p) = Joined(Typed(rec.steps), <<"digits", rec.digits>>)
    BY <1>0, RunsJoin
  <2>7. Typed(f.did) = Typed(f.steps)
    BY <1>2, <2>4, <2>5, <2>6 DEF Faithful
  <2>8. Enters(f.steps) >= Enters(f.did) /\ Enters(f.steps) >= Enters(f.did) + 1
    BY <1>0, <2>4, <2>5
  <2>9. f.digits \in Nat /\ f.did \in Seq(MacroSteps)
    BY <1>0, <2>4
  <2>10. f.absorb \in BOOLEAN
    BY <2>4
  <2>11. Faithful(f)
    BY <2>4, <2>5, <2>7, <2>8, <2>9, <2>10 DEF Faithful
  <2> QED
    BY <2>2, <2>4, <2>11
<1>3. CASE rec.digits # 0 /\ ~ IsPinShape(rec.digits)
  <2> DEFINE p == <<"digits", rec.digits>>
  <2>1. p \in MacroSteps /\ ~ PressesEnter(p)
    BY <1>0 DEF MacroSteps, PressesEnter, Enter
  <2>2. PICK f : f = flushDigitBuffer(rec)
    OBVIOUS
  <2>3. f = [rec EXCEPT !.digits = 0, !.steps = Append(rec.steps, p)]
    BY <1>3, <2>2 DEF flushDigitBuffer
  <2>4. /\ DOMAIN f = Recording /\ f.digits = 0 /\ f.absorb = rec.absorb /\ f.did = rec.did
        /\ f.steps = Append(rec.steps, p)
    BY <2>3 DEF Faithful, Recording
  <2>5. Typed(f.steps) = Joined(Typed(rec.steps), p) /\ Typed(f.steps) \in Seq(MacroSteps)
        /\ f.steps \in Seq(MacroSteps) /\ Enters(f.steps) = Enters(rec.steps)
    BY <1>0, <2>1, <2>4, OneMore
  <2>7. Typed(f.did) = Typed(f.steps)
    BY <1>3, <2>4, <2>5 DEF Faithful
  <2>8. Faithful(f)
    BY <1>0, <2>4, <2>5, <2>7 DEF Faithful
  <2> QED
    BY <2>2, <2>4, <2>8
<1> QED
  BY <1>1, <1>2, <1>3

(* A step of the user's is recorded as it is.                              *)
LEMMA PushIsFaithful ==
    ASSUME NEW f, Faithful(f), f.digits = 0, NEW s \in MacroSteps
    PROVE  Faithful(Did(pushStep(f, s), s))
<1>1. PICK g : g = Did(pushStep(f, s), s)
  OBVIOUS
<1>2. /\ DOMAIN g = Recording /\ g.digits = 0 /\ g.absorb = f.absorb
      /\ g.steps = Append(f.steps, s) /\ g.did = Append(f.did, s)
  BY <1>1 DEF Faithful, Recording, Did, pushStep
<1>3. Typed(f.did) = Typed(f.steps) /\ Typed(f.did) \in Seq(MacroSteps)
  BY DEF Faithful
<1>4. /\ Typed(g.steps) = Joined(Typed(f.steps), s) /\ Typed(g.steps) \in Seq(MacroSteps)
      /\ g.steps \in Seq(MacroSteps) /\ Enters(f.steps) \in Nat
      /\ Enters(g.steps) = Enters(f.steps) + IF PressesEnter(s) THEN 1 ELSE 0
  BY <1>2, OneMore DEF Faithful
<1>5. /\ Typed(g.did) = Joined(Typed(f.did), s) /\ g.did \in Seq(MacroSteps) /\ Enters(f.did) \in Nat
      /\ Enters(g.did) = Enters(f.did) + IF PressesEnter(s) THEN 1 ELSE 0
  BY <1>2, <1>3, OneMore DEF Faithful
<1>6. Faithful(g)
  BY <1>2, <1>3, <1>4, <1>5 DEF Faithful
<1> QED
  BY <1>1, <1>6

(* A checkpoint presses nothing.                                           *)
LEMMA CheckIsFaithful ==
    ASSUME NEW f, Faithful(f), f.digits = 0, NEW op \in Checkpoints
    PROVE  Faithful(pushStep(f, <<"check", op>>))
<1> DEFINE s == <<"check", op>>
<1>1. PICK g : g = pushStep(f, s)
  OBVIOUS
<1>2. /\ DOMAIN g = Recording /\ g.digits = 0 /\ g.absorb = f.absorb
      /\ g.steps = Append(f.steps, s) /\ g.did = f.did
  BY <1>1 DEF Faithful, Recording, pushStep
<1>3. s \in MacroSteps /\ ~ PressesEnter(s) /\ Joined(Typed(f.steps), s) = Typed(f.steps)
  BY DEF MacroSteps, PressesEnter, Enter, Joined
<1>4. /\ Typed(g.steps) = Typed(f.steps) /\ g.steps \in Seq(MacroSteps)
      /\ Enters(f.steps) \in Nat /\ Enters(g.steps) = Enters(f.steps)
  BY <1>2, <1>3, OneMore DEF Faithful
<1>5. Faithful(g)
  BY <1>2, <1>4 DEF Faithful
<1> QED
  BY <1>1, <1>5

LEMMA DigitsAreFaithful ==
    ASSUME NEW rec, Faithful(rec), NEW n \in Nat \ {0}
    PROVE  Faithful(Did([rec EXCEPT !.digits = @ + n], <<"digits", n>>))
<1> DEFINE s == <<"digits", n>>
<1>1. PICK g : g = Did([rec EXCEPT !.digits = @ + n], s)
  OBVIOUS
<1>2. /\ DOMAIN g = Recording /\ g.digits = rec.digits + n /\ g.absorb = rec.absorb
      /\ g.steps = rec.steps /\ g.did = Append(rec.did, s)
  BY <1>1 DEF Faithful, Recording, Did
<1>3. s \in MacroSteps /\ ~ PressesEnter(s)
  BY DEF MacroSteps, PressesEnter, Enter
<1>4. /\ Typed(g.did) = Joined(Typed(rec.did), s) /\ g.did \in Seq(MacroSteps)
      /\ Enters(rec.did) \in Nat /\ Enters(g.did) = Enters(rec.did)
  <2>1. rec.did \in Seq(MacroSteps) /\ Typed(rec.did) \in Seq(MacroSteps) /\ Enters(rec.did) \in Nat
    BY FaithfulTyped DEF Faithful
  <2>2. Enters(g.did) = Enters(rec.did) + 0
    BY <1>2, <1>3, <2>1, OneMore
  <2> QED
    BY <1>2, <1>3, <2>1, <2>2, OneMore
<1>5. rec.digits \in Nat /\ Typed(rec.steps) \in Seq(MacroSteps)
  BY DEF Faithful
<1>6. Typed(g.did) = Joined(Typed(g.steps), <<"digits", g.digits>>)
  <2>1. CASE rec.digits = 0
    <3>1. g.digits = n /\ Typed(rec.did) = Typed(rec.steps)
      BY <1>2, <2>1 DEF Faithful
    <3> QED
      BY <1>2, <1>4, <3>1
  <2>2. CASE rec.digits # 0
    <3>1. Typed(rec.did) = Joined(Typed(rec.steps), <<"digits", rec.digits>>)
      BY <2>2 DEF Faithful
    <3>2. Joined(Joined(Typed(rec.steps), <<"digits", rec.digits>>), <<"digits", n>>)
            = Joined(Typed(rec.steps), <<"digits", rec.digits + n>>)
      BY <1>5, RunsJoin
    <3> QED
      BY <1>2, <1>4, <3>1, <3>2
  <2> QED
    BY <2>1, <2>2
<1>7. g.digits \in Nat \ {0}
  BY <1>2, <1>5
<1>8. Faithful(g)
  BY <1>2, <1>4, <1>6, <1>7 DEF Faithful
<1> QED
  BY <1>1, <1>8

LEMMA KeyIsFaithful ==
    ASSUME NEW rec, Faithful(rec), NEW k \in ControlKeys
    PROVE  Faithful(Did(PressControl(rec, k), <<"key", k>>))
<1> DEFINE s == <<"key", k>>
<1>1. PICK f : f = flushDigitBuffer(rec)
  OBVIOUS
<1>2. Faithful(f) /\ f.digits = 0
  BY <1>1, FlushIsFaithful
<1>3. PICK h : h = [f EXCEPT !.absorb = FALSE]
  OBVIOUS
<1>4. /\ DOMAIN h = Recording /\ h.digits = 0 /\ h.absorb = FALSE /\ h.steps = f.steps
      /\ h.did = f.did
  BY <1>2, <1>3 DEF Faithful, Recording
<1>5. s \in MacroSteps
  BY DEF MacroSteps
<1>6. Enters(f.steps) \in Nat /\ Enters(f.did) \in Nat /\ Typed(f.did) = Typed(f.steps)
  BY <1>2, FaithfulTyped DEF Faithful
<1>7. CASE k = "ENTER" /\ f.absorb = TRUE
  <2>1. PICK g : g = Did(h, s)
    OBVIOUS
  <2>2. Did(PressControl(rec, k), s) = g
    BY <1>1, <1>3, <1>7, <2>1 DEF PressControl
  <2>3. /\ DOMAIN g = Recording /\ g.digits = 0 /\ g.absorb = FALSE /\ g.steps = f.steps
        /\ g.did = Append(f.did, s)
    BY <1>4, <2>1 DEF Did, Recording
  <2>4. PressesEnter(s) /\ Joined(Typed(f.did), s) = Typed(f.did)
    BY <1>7 DEF PressesEnter, Enter, Joined
  <2>5. /\ Typed(g.did) = Typed(f.did) /\ g.did \in Seq(MacroSteps)
        /\ Enters(g.did) = Enters(f.did) + 1
    BY <1>2, <1>5, <1>6, <2>3, <2>4, OneMore DEF Faithful
  <2>6. Enters(f.steps) >= Enters(f.did) + 1
    BY <1>2, <1>7 DEF Faithful
  <2>7. Faithful(g)
    BY <1>2, <1>6, <2>3, <2>5, <2>6 DEF Faithful
  <2> QED
    BY <2>2, <2>7
<1>8. CASE ~ (k = "ENTER" /\ f.absorb = TRUE)
  <2>1. Enters(f.steps) >= Enters(f.did)
    BY <1>2, <1>6 DEF Faithful
  <2>2. Faithful(h)
    BY <1>2, <1>4, <1>6, <2>1 DEF Faithful
  <2>3. f.absorb \in BOOLEAN
    BY <1>2 DEF Faithful
  <2>4. PressControl(rec, k) = pushStep(h, s)
    BY <1>1, <1>3, <1>8, <2>3 DEF PressControl
  <2> QED
    BY <1>4, <1>5, <2>2, <2>4, PushIsFaithful
<1> QED
  BY <1>7, <1>8
-----------------------------------------------------------------------------
(* A runner that stops nowhere, and whose PIN is the one that was typed,   *)
(* does the very steps of the macro.                                       *)
LEMMA RunnerDoesSteps ==
    ASSUME NEW steps \in Seq(MacroSteps), StopsAt(steps) = {}, OnlyDemoPins(steps)
    PROVE  Replay(steps) = steps
<1>1. ASSUME NEW i \in 1 .. Len(steps) PROVE executeStep(steps[i]) = steps[i]
  <2>1. steps[i] \in MacroSteps
    OBVIOUS
  <2>2. steps[i][1] = "pin" => steps[i][2] = DemoPin
    BY DEF OnlyDemoPins
  <2>3. steps[i] = <<steps[i][1], steps[i][2]>>
    BY <2>1 DEF MacroSteps
  <2> QED
    BY <2>2, <2>3 DEF executeStep
<1>2. Replay(steps) = [i \in 1 .. Len(steps) |-> executeStep(steps[i])]
  BY DEF Replay
<1>3. steps = [i \in 1 .. Len(steps) |-> steps[i]]
  OBVIOUS
<1> QED
  BY <1>1, <1>2, <1>3

LEMMA CoverBegins == RecorderInit => CoverInv
<1> SUFFICES ASSUME RecorderInit PROVE CoverInv
  OBVIOUS
<1>1. \A r \in Requests : request[r].op = "none"
  BY DEF RecorderInit, NoRequest
<1>2. \A m \in Macros : macro[m].by = "console"
  BY DEF RecorderInit, NoMacro, Written
<1> QED
  BY <1>1, <1>2 DEF RecorderInit, CoverInv, ReplayCovers

LEMMA CoverStep ==
    ASSUME CoverInv, DOMAIN request = Requests, DOMAIN macro = Macros, [RecorderNext]_recorderVars
    PROVE  CoverInv'
<1>1. ASSUME active' # None => Faithful(active'), UNCHANGED <<request, macro>> PROVE CoverInv'
  BY <1>1 DEF CoverInv, ReplayCovers
<1>2. CASE UNCHANGED recorderVars
  BY <1>1, <1>2 DEF recorderVars, CoverInv
<1>3. ASSUME NEW n \in Runs, PressDigits(n) PROVE CoverInv'
  <2>1. n \in Nat \ {0} /\ Faithful(active)
    BY <1>3, RecorderAssumption DEF PressDigits, Recorded, CoverInv
  <2> QED
    BY <1>1, <1>3, <2>1, DigitsAreFaithful DEF PressDigits
<1>4. ASSUME NEW k \in ControlKeys, PressKey(k) PROVE CoverInv'
  BY <1>1, <1>4, KeyIsFaithful DEF PressKey, Recorded, CoverInv
<1>5. ASSUME NEW op \in Acts, UserAct(op) PROVE CoverInv'
  <2>1. <<"act", op>> \in MacroSteps
    BY DEF MacroSteps
  <2>2. Faithful(flushDigitBuffer(active)) /\ flushDigitBuffer(active).digits = 0
    BY <1>5, FlushIsFaithful DEF UserAct, Recorded, CoverInv
  <2> QED
    BY <1>1, <1>5, <2>1, <2>2, PushIsFaithful DEF UserAct
<1>6. ASSUME NEW op \in Checkpoints, DeviceEvent(op) PROVE CoverInv'
  <2>2. Faithful(flushDigitBuffer(active)) /\ flushDigitBuffer(active).digits = 0
    BY <1>6, FlushIsFaithful DEF DeviceEvent, CoverInv
  <2> QED
    BY <1>1, <1>6, <2>2, CheckIsFaithful DEF DeviceEvent
<1>7. ASSUME NEW r \in Requests, request' = [request EXCEPT ![r] = NoRequest],
             active' # None => Faithful(active'), ReplayCovers'
      PROVE  CoverInv'
  <2>1. \A q \in Requests : request'[q].op = "stop" => request'[q] = request[q]
    BY <1>7 DEF NoRequest
  <2> QED
    BY <1>7, <2>1 DEF CoverInv
<1>8. ASSUME NEW r \in Requests, NEW m \in Macros, StartRecording(r, m) \/ UpdateMacro(r, m)
      PROVE  CoverInv'
  <2>1. PICK x : request' = [request EXCEPT ![r] = x] /\ x.op # "stop"
    BY <1>8 DEF StartRecording, UpdateMacro
  <2>2. \A q \in Requests : request'[q].op = "stop" => request'[q] = request[q]
    BY <2>1
  <2> QED
    BY <1>8, <2>2 DEF CoverInv, ReplayCovers, StartRecording, UpdateMacro
<1>9. ASSUME NEW r \in Requests, RecordingStarts(r) PROVE CoverInv'
  <2>1. Faithful(active')
    BY <1>9, NewIsFaithful DEF RecordingStarts
  <2>2. ReplayCovers'
    BY <1>9 DEF RecordingStarts, CoverInv, ReplayCovers
  <2> QED
    BY <1>7, <1>9, <2>1, <2>2 DEF RecordingStarts
<1>10. ASSUME NEW r \in Requests, StopRecording(r) PROVE CoverInv'
  <2>1. Faithful(active') /\ active'.digits = 0 /\ active'.did = active.did
    BY <1>10, FlushIsFaithful DEF StopRecording, CoverInv
  <2>2. DoneAgain(active'.steps, active.did)
    <3>1. Enters(active'.steps) \in Nat /\ Enters(active'.did) \in Nat
      BY <2>1, FaithfulTyped
    <3>2. Covers(active'.steps, active.did) /\ active'.steps \in Seq(MacroSteps)
      BY <2>1, <3>1 DEF Faithful, Covers
    <3> QED
      BY <3>2, RunnerDoesSteps DEF DoneAgain
  <2>3. PICK x : /\ request' = [request EXCEPT ![r] = x]
                 /\ x.steps = active'.steps /\ x.did = active.did
    <3>1. PICK x : x = [op |-> "stop", macro |-> active.macro, n |-> active.n,
                        steps |-> active'.steps, did |-> active.did]
      OBVIOUS
    <3>2. x.steps = active'.steps /\ x.did = active.did
      BY <3>1
    <3>3. request' = [request EXCEPT ![r] = x]
      BY <1>10, <3>1 DEF StopRecording
    <3> QED
      BY <3>2, <3>3
  <2>4. request'[r] = x /\ \A q \in Requests \ {r} : request'[q] = request[q]
    BY <2>3
  <2>5. ReplayCovers'
    BY <1>10 DEF StopRecording, CoverInv, ReplayCovers
  <2> QED
    BY <2>1, <2>2, <2>3, <2>4, <2>5 DEF CoverInv
<1>11. ASSUME NEW r \in Requests, StepsSaved(r) PROVE CoverInv'
  <2>1. DoneAgain(request[r].steps, request[r].did)
    BY <1>11 DEF StepsSaved, CoverInv
  <2>2. PICK w : /\ w = Written("recorder", request[r].steps, request[r].did)
                 /\ macro' = [macro EXCEPT ![request[r].macro] = w]
    BY <1>11 DEF StepsSaved
  <2>3. w.steps = request[r].steps /\ w.did = request[r].did
    BY <2>2 DEF Written
  <2>4. \A m \in Macros : macro'[m] = macro[m] \/ macro'[m] = w
    BY <2>2
  <2>5. ReplayCovers'
    BY <2>1, <2>3, <2>4 DEF CoverInv, ReplayCovers
  <2> QED
    BY <1>7, <1>11, <2>5 DEF StepsSaved
<1>12. ASSUME NEW r \in Requests, RequestFails(r) PROVE CoverInv'
  <2>1. ReplayCovers'
    BY <1>12 DEF RequestFails, CoverInv, ReplayCovers
  <2> QED
    BY <1>7, <1>12, <2>1 DEF RequestFails, CoverInv
<1>13. ASSUME \A m \in Macros : macro'[m] = macro[m] \/ macro'[m].by # "recorder"
       PROVE  ReplayCovers'
  BY <1>13 DEF CoverInv, ReplayCovers
<1>14. ASSUME NEW r \in Requests, NEW v, MacroUpdated(r, v) PROVE CoverInv'
  <2>1. \A m \in Macros : macro'[m] = macro[m] \/ macro'[m].by = "console"
    BY <1>14 DEF MacroUpdated, Written
  <2> QED
    BY <1>7, <1>13, <1>14, <2>1 DEF MacroUpdated, CoverInv
<1>15. ASSUME NEW m \in Macros, RemoveMacro(m) \/ \E v : CreateMacro(m, v) PROVE CoverInv'
  <2>1. NoMacro.by = "console" /\ \A v : Written("console", v, <<>>).by = "console"
    BY DEF NoMacro, Written
  <2>2. PICK w : macro' = [macro EXCEPT ![m] = w] /\ w.by = "console"
    BY <1>15, <2>1 DEF RemoveMacro, CreateMacro
  <2>3. \A d \in Macros : macro'[d] = macro[d] \/ macro'[d].by = "console"
    BY <2>2
  <2> QED
    BY <1>13, <1>15, <2>3 DEF RemoveMacro, CreateMacro, CoverInv
<1> QED
  BY <1>2, <1>3, <1>4, <1>5, <1>6, <1>8, <1>9, <1>10, <1>11, <1>12, <1>14, <1>15
     DEF RecorderNext

(***************************************************************************)
(* A macro that the recorder saved last holds all that the user did, for   *)
(* runs of any length and any number of recordings, and whether or not     *)
(* requests overlapped; and the runner does it again unless a PIN step was *)
(* recorded for another PIN than the demo one, or a checkpoint that it     *)
(* refuses was.                                                            *)
(***************************************************************************)
THEOREM ReplayIsComplete == RecorderSpec => []ReplayCovers
<1>1. RecorderInv => DOMAIN request = Requests /\ DOMAIN macro = Macros
  BY DEF RecorderInv, RecorderTyped
<1>2. RecorderInv /\ CoverInv /\ [RecorderNext]_recorderVars => RecorderInv' /\ CoverInv'
  BY <1>1, RecorderStep, CoverStep
<1>3. CoverInv => ReplayCovers
  BY DEF CoverInv
<1> QED
  BY <1>2, <1>3, RecorderBegins, CoverBegins, PTL DEF RecorderSpec

-----------------------------------------------------------------------------
(***************************************************************************)
(* Suites and their schedules: Suites.                                     *)
(***************************************************************************)
Kinds == {"Insert", "Act", "Check"}
Verdicts == {"PASSED", "FAILED"}
Runners == [pc : {"free", "slate", "begin", "step", "final", "end"},
            suite : SuiteIds \union {NoSuite}, i : Nat, row : Nat, overall : Verdicts,
            steps : Seq(Kinds), run : Nat, status : Verdicts]
Rows == [suite : SuiteIds, status : Verdicts \union {"RUNNING"}, results : Seq(Verdicts)]
Jobs == [added : 0 .. MaxRequest, done : 0 .. MaxRequest]
Schedules == SUBSET (SuiteIds \X Crons)
Syncs == [pc : {"none", "read", "apply"}, wanted : Schedules, stale : Schedules]

(* The runs: what a runner knows of its suite agrees with the row it is    *)
(* filling in, which is its own, and a job is waiting, being run or done,  *)
(* never lost.                                                             *)
RunnersTyped ==
    /\ runner \in [Actors -> Runners]
    /\ nextRun \in Nat \ {0}
    /\ \A r \in Actors :
        /\ runner[r].run < nextRun
        /\ runner[r].pc = "free" => runner[r] = Free
        /\ ~ InSuite(runner[r]) => runner[r].pc \in {"free", "step"}
    /\ runner[Worker].pc # "free" => InSuite(runner[Worker])

RowOfSuite(j) ==
    /\ j.suite \in SuiteIds
    /\ j.row \in DOMAIN rows
    /\ rows[j.row].suite = j.suite
    /\ rows[j.row].status = "RUNNING"
    /\ Len(rows[j.row].results) = j.i - 1
    /\ j.pc \in {"slate", "begin", "step"} => j.i \in 1 .. Len(MacroIds[j.suite])
    /\ j.pc \in {"final", "end"} => j.i = Len(MacroIds[j.suite]) + 1
    /\ j.overall = "PASSED" <=>
          \A n \in DOMAIN rows[j.row].results : rows[j.row].results[n] = "PASSED"

RowsApart ==
    \A q, r \in Actors :
        InSuite(runner[q]) /\ InSuite(runner[r]) /\ runner[q].row = runner[r].row => q = r

RowMatches ==
    /\ \A r \in Actors : InSuite(runner[r]) => RowOfSuite(runner[r])
    /\ RowsApart

Busy == IF runner[Worker].pc = "free" THEN 0 ELSE 1

JobsKept ==
    /\ queue \in Seq(SuiteIds) /\ jobs \in Jobs
    /\ manual \in Nat /\ edits \in Nat /\ restarts \in 0 .. MaxRestart
    /\ jobs.done + Len(queue) + Busy = jobs.added

RunInv == RunnersTyped /\ rows \in Seq(Rows) /\ RowMatches /\ VerdictIsRight /\ JobsKept

(* The ATM's session: as long as nothing is disturbed, a runner of a suite *)
(* runs it alone, on the session its macro opened or on none.              *)
SlateOf(r) ==
    InSuite(runner[r]) =>
        /\ \A q \in Actors \ {r} : runner[q].pc = "free"
        /\ runner[r].pc = "begin" => session = 0
        /\ runner[r].pc = "step" => session \in {0, runner[r].run}

SlateInv ==
    /\ session \in Nat /\ session < nextRun
    /\ disturbed \in BOOLEAN /\ foreign \in BOOLEAN
    /\ CleanSlate
    /\ ~ disturbed => \A r \in Actors : SlateOf(r)

(* The schedules: as long as nothing comes between, a sync in progress has *)
(* left to add what is missing and to remove what is too much.             *)
PlanTyped ==
    /\ suite \in [SuiteIds -> [exists : BOOLEAN, enabled : BOOLEAN, cron : Crons \union {NoCron}]]
    /\ repeatables \in Schedules
    /\ sync \in [Actors -> Syncs]
    /\ \A r \in Actors : sync[r].pc = "none" => sync[r] = NoSync
    /\ whole \in BOOLEAN

Unwanted(x) == x[1] \notin Wanted
Complete(missing, extra) ==
    /\ WantedJobs \subseteq repeatables \union missing
    /\ \A x \in repeatables : Unwanted(x) => x \in extra
    /\ \A x \in extra : Unwanted(x)
    /\ \A w \in missing : ~ Unwanted(w)

PlanRight ==
    whole /\ ~ inline =>
        /\ \A q, r \in Actors : sync[q].pc # "none" /\ sync[r].pc # "none" => q = r
        /\ \A r \in Actors : sync[r].pc = "apply" => Complete(sync[r].wanted, sync[r].stale)
        /\ (\A r \in Actors : sync[r].pc = "none") => Complete({}, {})

PlanInv == PlanTyped /\ PlanRight

SuitesInv == RunInv /\ SlateInv /\ PlanInv

-----------------------------------------------------------------------------
(* The schedules.                                                          *)

LEMMA WantedPairs ==
    ASSUME PlanTyped
    PROVE  /\ WantedJobs \in Schedules
           /\ \A w \in WantedJobs : w[1] \in Wanted
<1>1. \A s \in Wanted : s \in SuiteIds /\ suite[s].cron \in Crons
  BY DEF PlanTyped, Wanted, NoCron
<1>2. WantedJobs \in Schedules
  BY <1>1 DEF WantedJobs, Schedules
<1>3. ASSUME NEW w \in WantedJobs PROVE w[1] \in Wanted
  <2>1. PICK s \in Wanted : w = <<s, suite[s].cron>>
    BY DEF WantedJobs
  <2> QED
    BY <2>1
<1> QED
  BY <1>2, <1>3

LEMMA NoSyncTyped ==
    /\ NoSync \in Syncs /\ NoSync.pc = "none"
    /\ Reading \in Syncs /\ Reading.pc = "read" /\ Reading # NoSync
BY DEF NoSync, Reading, Syncs, Schedules

LEMMA PlanInit == Init => PlanInv
<1> SUFFICES ASSUME Init PROVE PlanInv
  OBVIOUS
<1>1. PlanTyped
  BY NoSyncTyped DEF Init, PlanTyped, Schedules
<1>2. \A r \in Actors : sync[r].pc = "none"
  BY NoSyncTyped DEF Init
<1>3. Wanted = {}
  BY DEF Wanted, Init
<1>4. repeatables = {} /\ WantedJobs = {}
  BY <1>3 DEF WantedJobs, Init
<1>5. Complete({}, {})
  BY <1>4 DEF Complete
<1> QED
  BY <1>1, <1>2, <1>5 DEF PlanInv, PlanRight

(* A sync begins: of a request of the console or, alone, of the boot.      *)
LEMMA BeginKeepsPlan ==
    ASSUME PlanTyped', NEW r \in Actors, sync'[r] = Reading,
           whole' => \A q \in Actors \ {r} : sync'[q] = NoSync
    PROVE  PlanInv'
<1>1. \A q \in Actors : whole' /\ sync'[q].pc # "none" => q = r
  BY NoSyncTyped
<1>2. sync'[r].pc = "read"
  BY NoSyncTyped
<1>3. PlanRight'
  BY <1>1, <1>2 DEF PlanRight
<1> QED
  BY <1>3 DEF PlanInv

LEMMA EditKeepsPlan ==
    ASSUME PlanInv, NEW r \in Consoles, NEW s \in SuiteIds,
           NEW row \in [exists : BOOLEAN, enabled : BOOLEAN, cron : Crons \union {NoCron}],
           EditSuite(r, s, row)
    PROVE  PlanInv'
<1>1. r \in Actors /\ suite' = [suite EXCEPT ![s] = row] /\ UNCHANGED <<repeatables, inline>>
  BY DEF EditSuite, Actors
<1>2. suite' \in [SuiteIds -> [exists : BOOLEAN, enabled : BOOLEAN, cron : Crons \union {NoCron}]]
  BY <1>1 DEF PlanInv, PlanTyped
<1>3. CASE inline
  <2>1. UNCHANGED <<sync, whole>>
    BY <1>3 DEF EditSuite, BeginSync
  <2>2. PlanTyped'
    BY <1>1, <1>2, <2>1 DEF PlanInv, PlanTyped
  <2> QED
    BY <1>1, <1>3, <2>2 DEF PlanInv, PlanRight
<1>4. CASE ~ inline
  <2>1. /\ sync' = [sync EXCEPT ![r] = Reading]
        /\ whole' = \A q \in Actors \ {r} : sync[q] = NoSync
    BY <1>4 DEF EditSuite, BeginSync
  <2>2. whole' \in BOOLEAN
    BY <2>1, Zenon
  <2>3. sync'[r] = Reading /\ \A q \in Actors \ {r} : sync'[q] = sync[q]
    BY <1>1, <2>1 DEF PlanInv, PlanTyped
  <2>4. sync' \in [Actors -> Syncs]
    BY <2>1, NoSyncTyped DEF PlanInv, PlanTyped
  <2>5. PlanTyped'
    BY <1>1, <1>2, <2>2, <2>3, <2>4, NoSyncTyped DEF PlanInv, PlanTyped
  <2>6. whole' => \A q \in Actors \ {r} : sync'[q] = NoSync
    BY <2>1, <2>3
  <2> QED
    BY <1>1, <2>3, <2>5, <2>6, BeginKeepsPlan
<1> QED
  BY <1>3, <1>4

(* What the controller writes is a row.                                    *)
LEMMA ControllerKeepsPlan ==
    ASSUME PlanInv, NEW r \in Consoles, NEW s \in SuiteIds,
           \/ \E e \in Enabling, c \in CronTexts :
                CreateSuite(r, s, e, c) \/ UpdateSuite(r, s, e, c)
           \/ RemoveSuite(r, s)
    PROVE  PlanInv'
<1> DEFINE Row == [exists : BOOLEAN, enabled : BOOLEAN, cron : Crons \union {NoCron}]
<1>1. \A c \in CronTexts : validateCron(c).ok =>
        validateCron(c).cron \in Crons \union {NoCron, NotNamed}
  BY DEF CronTexts, validateCron
<1>2. ASSUME NEW e \in Enabling, NEW c \in CronTexts, CreateSuite(r, s, e, c) PROVE PlanInv'
  <2>1. Named(validateCron(c).cron, NoCron) \in Crons \union {NoCron}
    BY <1>1, <1>2 DEF CreateSuite, Named
  <2>2. (Named(e, "on") = "on") \in BOOLEAN
    BY Zenon
  <2>3. [exists |-> TRUE, enabled |-> Named(e, "on") = "on",
         cron |-> Named(validateCron(c).cron, NoCron)] \in Row
    BY <2>1, <2>2
  <2> QED
    BY <1>2, <2>3, EditKeepsPlan DEF CreateSuite
<1>3. ASSUME NEW e \in Enabling, NEW c \in CronTexts, UpdateSuite(r, s, e, c) PROVE PlanInv'
  <2>1. suite[s].enabled \in BOOLEAN /\ suite[s].cron \in Crons \union {NoCron}
    BY DEF PlanInv, PlanTyped
  <2>2. Named(validateCron(c).cron, suite[s].cron) \in Crons \union {NoCron}
    BY <1>1, <1>3, <2>1 DEF UpdateSuite, Named
  <2>3. (IF e = NotNamed THEN suite[s].enabled ELSE e = "on") \in BOOLEAN
    BY <2>1, Zenon
  <2>4. [exists |-> TRUE, cron |-> Named(validateCron(c).cron, suite[s].cron),
         enabled |-> IF e = NotNamed THEN suite[s].enabled ELSE e = "on"] \in Row
    BY <2>2, <2>3
  <2> QED
    BY <1>3, <2>4, EditKeepsPlan DEF UpdateSuite
<1>4. CASE RemoveSuite(r, s)
  <2>1. Deleted \in Row
    BY DEF Deleted
  <2> QED
    BY <1>4, <2>1, EditKeepsPlan DEF RemoveSuite
<1> QED
  BY <1>2, <1>3, <1>4

(* One sync moves on: the others, the rows and the history stay.           *)
SyncMoves(r, y) ==
    /\ sync' = [sync EXCEPT ![r] = y]
    /\ UNCHANGED <<suite, whole, inline>>

LEMMA MovesKeepsPlan ==
    ASSUME PlanInv, NEW r \in Actors, NEW y \in Syncs, SyncMoves(r, y), sync[r].pc # "none",
           repeatables' \in Schedules, y.pc \in {"apply", "none"},
           y.pc = "none" => y = NoSync,
           y.pc = "apply" /\ whole /\ ~ inline => Complete(sync[r].wanted, sync[r].stale)',
           y.pc = "none" /\ whole /\ ~ inline => Complete({}, {})'
    PROVE  PlanInv'
<1>1. sync'[r] = y /\ \A q \in Actors : q # r => sync'[q] = sync[q]
  BY DEF SyncMoves, PlanInv, PlanTyped
<1>2. sync' \in [Actors -> Syncs] /\ UNCHANGED <<suite, whole, inline>>
  BY DEF SyncMoves, PlanInv, PlanTyped
<1>3. PlanTyped'
  BY <1>1, <1>2 DEF PlanInv, PlanTyped
<1>4. ASSUME whole', ~ inline' PROVE PlanRight'
  <2>1. \A q \in Actors : q # r => sync'[q].pc = "none"
    BY <1>1, <1>2, <1>4 DEF PlanInv, PlanRight
  <2>2. CASE y.pc = "none"
    <3>1. Complete({}, {})'
      BY <1>2, <1>4, <2>2
    <3>2. \A q \in Actors : sync'[q].pc = "none"
      BY <1>1, <2>1, <2>2
    <3> QED
      BY <3>1, <3>2 DEF PlanRight
  <2>3. CASE y.pc = "apply"
    <3>1. Complete(sync[r].wanted, sync[r].stale)'
      BY <1>2, <1>4, <2>3
    <3>2. \A q \in Actors : sync'[q].pc # "none" => q = r
      BY <2>1
    <3> QED
      BY <1>1, <2>3, <3>1, <3>2 DEF PlanRight
  <2> QED
    BY <2>2, <2>3
<1> QED
  BY <1>3, <1>4 DEF PlanInv, PlanRight

(* What was read says what is missing and what is too much ...             *)
LEMMA ReadKeepsPlan ==
    ASSUME PlanInv, NEW r \in Actors, ReadPlan(r)
    PROVE  PlanInv'
<1> DEFINE extra == {x \in repeatables : x[1] \notin Wanted}
           y == [pc |-> "apply", wanted |-> WantedJobs, stale |-> extra]
<1>1. sync[r].pc = "read" /\ SyncMoves(r, y) /\ UNCHANGED <<suite, repeatables>>
  BY DEF ReadPlan, SyncMoves, syncUnchanged
<1>2. repeatables \in Schedules /\ extra \in Schedules
  BY DEF PlanInv, PlanTyped, Schedules
<1>3. WantedJobs \in Schedules
  BY WantedPairs DEF PlanInv
<1>4. y \in Syncs /\ y.pc = "apply" /\ y.wanted = WantedJobs /\ y.stale = extra
  BY <1>2, <1>3 DEF Syncs
<1>5. Complete(WantedJobs, extra)
  BY WantedPairs DEF PlanInv, Complete, Unwanted
<1> HIDE DEF y
<1>6. sync'[r].wanted = WantedJobs /\ sync'[r].stale = extra
  BY <1>1, <1>4 DEF SyncMoves, PlanInv, PlanTyped
<1>7. Complete(sync[r].wanted, sync[r].stale)'
  BY <1>1, <1>5, <1>6 DEF SyncMoves, Complete, Unwanted, WantedJobs, Wanted
<1> QED
  BY <1>1, <1>2, <1>4, <1>7, MovesKeepsPlan

(* ... each call of the queue brings it nearer ...                         *)
LEMMA RemoveKeepsPlan ==
    ASSUME PlanInv, NEW r \in Actors, RemoveStale(r)
    PROVE  PlanInv'
<1>1. PICK x \in sync[r].stale :
        /\ repeatables' = repeatables \ {x}
        /\ sync' = [sync EXCEPT ![r].stale = @ \ {x}]
  BY DEF RemoveStale
<1> DEFINE y == [sync[r] EXCEPT !.stale = @ \ {x}]
<1>2. sync[r].pc = "apply" /\ sync[r] \in Syncs
  BY DEF RemoveStale, PlanInv, PlanTyped
<1>3. y \in Syncs /\ y.pc = "apply" /\ y.wanted = sync[r].wanted /\ y.stale = sync[r].stale \ {x}
  BY <1>2 DEF Syncs, Schedules
<1>4. SyncMoves(r, y)
  BY <1>1 DEF RemoveStale, SyncMoves, syncUnchanged
<1>5. repeatables' \in Schedules
  BY <1>1 DEF PlanInv, PlanTyped, Schedules
<1>6. sync'[r] = y
  BY <1>4 DEF SyncMoves, PlanInv, PlanTyped
<1>7. ASSUME whole, ~ inline PROVE Complete(sync[r].wanted, sync[r].stale)'
  <2>1. Complete(sync[r].wanted, sync[r].stale)
    BY <1>2, <1>7 DEF PlanInv, PlanRight
  <2>2. x \notin WantedJobs
    BY <2>1, WantedPairs DEF PlanInv, Complete, Unwanted
  <2>3. WantedJobs' = WantedJobs /\ Wanted' = Wanted
    BY <1>4 DEF SyncMoves, WantedJobs, Wanted
  <2> HIDE DEF y
  <2> QED
    BY <1>1, <1>3, <1>6, <2>1, <2>2, <2>3 DEF Complete, Unwanted
<1> HIDE DEF y
<1> QED
  BY <1>2, <1>3, <1>4, <1>5, <1>7, MovesKeepsPlan

LEMMA AddKeepsPlan ==
    ASSUME PlanInv, NEW r \in Actors, AddWanted(r)
    PROVE  PlanInv'
<1>1. PICK w \in sync[r].wanted :
        /\ repeatables' = repeatables \union {w}
        /\ sync' = [sync EXCEPT ![r].wanted = @ \ {w}]
  BY DEF AddWanted
<1> DEFINE y == [sync[r] EXCEPT !.wanted = @ \ {w}]
<1>2. sync[r].pc = "apply" /\ sync[r] \in Syncs
  BY DEF AddWanted, PlanInv, PlanTyped
<1>3. y \in Syncs /\ y.pc = "apply" /\ y.wanted = sync[r].wanted \ {w} /\ y.stale = sync[r].stale
  BY <1>2 DEF Syncs, Schedules
<1>4. SyncMoves(r, y)
  BY <1>1 DEF AddWanted, SyncMoves, syncUnchanged
<1>5. repeatables' \in Schedules
  BY <1>1, <1>2 DEF PlanInv, PlanTyped, Schedules, Syncs
<1>6. sync'[r] = y
  BY <1>4 DEF SyncMoves, PlanInv, PlanTyped
<1>7. ASSUME whole, ~ inline PROVE Complete(sync[r].wanted, sync[r].stale)'
  <2>1. Complete(sync[r].wanted, sync[r].stale)
    BY <1>2, <1>7 DEF PlanInv, PlanRight
  <2>2. ~ Unwanted(w)
    BY <2>1 DEF Complete
  <2>3. WantedJobs' = WantedJobs /\ Wanted' = Wanted
    BY <1>4 DEF SyncMoves, WantedJobs, Wanted
  <2> HIDE DEF y
  <2> QED
    BY <1>1, <1>3, <1>6, <2>1, <2>2, <2>3 DEF Complete, Unwanted
<1> HIDE DEF y
<1> QED
  BY <1>2, <1>3, <1>4, <1>5, <1>7, MovesKeepsPlan

(* ... until there is nothing left to do.                                  *)
LEMMA EndKeepsPlan ==
    ASSUME PlanInv, NEW r \in Actors, SyncEnds(r)
    PROVE  PlanInv'
<1>1. /\ sync[r].pc = "apply" /\ sync[r].stale = {} /\ sync[r].wanted = {}
      /\ SyncMoves(r, NoSync) /\ repeatables' = repeatables
  BY DEF SyncEnds, SyncMoves, syncUnchanged
<1>2. repeatables' \in Schedules
  BY <1>1 DEF PlanInv, PlanTyped
<1>3. ASSUME whole, ~ inline PROVE Complete({}, {})'
  <2>1. Complete({}, {})
    BY <1>1, <1>3 DEF PlanInv, PlanRight
  <2> QED
    BY <1>1, <2>1 DEF SyncMoves, Complete, Unwanted, WantedJobs, Wanted
<1> QED
  BY <1>1, <1>2, <1>3, NoSyncTyped, MovesKeepsPlan

(* A refused call is remembered; a boot begins afresh.                     *)
LEMMA RejectKeepsPlan ==
    ASSUME PlanInv, (\E r \in Consoles : SyncRejects(r)) \/ BootRejects
    PROVE  PlanInv'
<1>1. whole' = FALSE /\ UNCHANGED <<suite, repeatables>>
  BY DEF SyncRejects, BootRejects, Gone, syncUnchanged
<1>2. sync' \in [Actors -> Syncs] /\ \A q \in Actors : sync'[q].pc = "none" => sync'[q] = NoSync
  <2>1. CASE BootRejects
    BY <2>1, NoSyncTyped DEF BootRejects
  <2>2. CASE \E r \in Consoles : SyncRejects(r)
    BY <2>2, NoSyncTyped DEF SyncRejects, PlanInv, PlanTyped
  <2> QED
    BY <2>1, <2>2
<1>3. PlanTyped'
  BY <1>1, <1>2 DEF PlanInv, PlanTyped
<1> QED
  BY <1>1, <1>3 DEF PlanInv, PlanRight

LEMMA RestartKeepsPlan ==
    ASSUME PlanInv, Restart
    PROVE  PlanInv'
<1>1. /\ sync' = [q \in Actors |-> IF q = Worker /\ ~ inline THEN Reading ELSE NoSync]
      /\ whole' = TRUE /\ Worker \in Actors
      /\ UNCHANGED <<suite, repeatables, inline>>
  BY DEF Restart, Boot, Gone, Actors
<1>2. sync' \in [Actors -> Syncs]
  BY <1>1, NoSyncTyped
<1>3. PlanTyped'
  BY <1>1, <1>2, NoSyncTyped DEF PlanInv, PlanTyped
<1>4. CASE inline
  BY <1>1, <1>3, <1>4 DEF PlanInv, PlanRight
<1>5. CASE ~ inline
  <2>1. sync'[Worker] = Reading /\ \A q \in Actors \ {Worker} : sync'[q] = NoSync
    BY <1>1, <1>5
  <2> QED
    BY <1>1, <1>3, <2>1, BeginKeepsPlan
<1> QED
  BY <1>4, <1>5

-----------------------------------------------------------------------------
(* The runs of suites and macros.                                          *)

LEMMA FreeTyped ==
    /\ Free \in Runners /\ Free.pc = "free" /\ Free.run = 0 /\ Free.overall = "PASSED"
    /\ Free.suite = NoSuite /\ Free.i = 0 /\ Free.row = 0 /\ Free.steps = <<>>
    /\ Free.status = "PASSED" /\ ~ InSuite(Free)
BY DEF Free, Runners, Verdicts, InSuite

LEMMA WorkerActs == Worker \in Actors /\ \A r \in Consoles : r \in Actors /\ r # Worker
BY SuitesAssumption DEF Actors, Worker

LEMMA RunInit == Init => RunInv /\ SlateInv
<1> SUFFICES ASSUME Init PROVE RunInv /\ SlateInv
  OBVIOUS
<1> USE DEF Init
<1>1. runner \in [Actors -> Runners] /\ \A r \in Actors : runner[r] = Free
  BY FreeTyped
<1>2. RunnersTyped
  BY <1>1, FreeTyped, WorkerActs DEF RunnersTyped
<1>3. rows \in Seq(Rows) /\ DOMAIN rows = {} /\ queue \in Seq(SuiteIds) /\ Len(queue) = 0
  OBVIOUS
<1>4. runner[Worker].pc = "free"
  BY <1>1, WorkerActs, FreeTyped
<1>5. JobsKept
  BY <1>3, <1>4, SuitesAssumption DEF JobsKept, Jobs, Busy
<1>6. RowMatches /\ VerdictIsRight
  BY <1>1, <1>3, FreeTyped DEF RowMatches, RowsApart, VerdictIsRight
<1>7. disturbed \in BOOLEAN /\ foreign \in BOOLEAN /\ CleanSlate
  BY Zenon DEF CleanSlate
<1>8. SlateInv
  BY <1>1, <1>7, FreeTyped DEF SlateInv, SlateOf
<1> QED
  BY <1>2, <1>3, <1>5, <1>6, <1>8 DEF RunInv

(* One runner goes on; the others stay where they are.                     *)
OnlyGoes(r, j) ==
    /\ RunnersTyped'
    /\ runner'[r] = j
    /\ \A q \in Actors : q # r => runner'[q] = runner[q]

LEMMA OneGoesOn ==
    ASSUME RunnersTyped, NEW r \in Actors, NEW j \in Runners, GoOn(r, j),
           nextRun' \in Nat, nextRun' >= nextRun, j.run < nextRun',
           j.pc = "free" => j = Free,
           ~ InSuite(j) => j.pc \in {"free", "step"},
           r = Worker /\ j.pc # "free" => InSuite(j)
    PROVE  OnlyGoes(r, j)
<1>1. runner'[r] = j /\ \A q \in Actors : q # r => runner'[q] = runner[q]
  BY DEF RunnersTyped, GoOn
<1>2. runner' \in [Actors -> Runners]
  BY DEF RunnersTyped, GoOn
<1>3. \A q \in Actors : runner[q].run \in Nat
  BY DEF RunnersTyped, Runners
<1>4. \A q \in Actors : runner'[q].run < nextRun'
  BY <1>1, <1>3 DEF RunnersTyped
<1>5. \A q \in Actors : /\ runner'[q].pc = "free" => runner'[q] = Free
                        /\ ~ InSuite(runner'[q]) => runner'[q].pc \in {"free", "step"}
  BY <1>1 DEF RunnersTyped
<1>6. runner'[Worker].pc # "free" => InSuite(runner'[Worker])
  BY <1>1, WorkerActs DEF RunnersTyped
<1> QED
  BY <1>1, <1>2, <1>4, <1>5, <1>6 DEF RunnersTyped, OnlyGoes

(* A runner goes on within one macro, to the last cancel, or with no suite *)
(* at all: what it knows of its row stays.                                 *)
SamePlace(w, j) ==
    /\ j.suite = w.suite /\ j.i = w.i /\ j.overall = w.overall
    /\ w.pc # "free" /\ j.pc # "free"
    /\ j.pc \in {"final", "end"} <=> w.pc \in {"final", "end"}

LEMMA SameRow ==
    ASSUME RunInv, NEW r \in Actors, NEW j \in Runners, OnlyGoes(r, j), rows' = rows,
           j.row = runner[r].row,
           InSuite(j) \/ r = Worker => SamePlace(runner[r], j)
    PROVE  RowMatches' /\ VerdictIsRight' /\ rows' \in Seq(Rows) /\ Busy' = Busy
<1>1. runner'[r] = j /\ \A q \in Actors : q # r => runner'[q] = runner[q]
  BY DEF OnlyGoes
<1>2. runner[r] \in Runners
  BY DEF RunInv, RunnersTyped
<1>3. RowsApart'
  BY <1>1 DEF RunInv, RowMatches, RowsApart, InSuite
<1>4. ASSUME InSuite(j) PROVE RowOfSuite(runner[r])'
  <2>1. RowOfSuite(runner[r]) /\ SamePlace(runner[r], j)
    BY <1>4 DEF RunInv, RowMatches, InSuite
  <2>2. /\ runner[r].pc \in {"slate", "begin", "step", "final", "end"}
        /\ j.pc \in {"slate", "begin", "step", "final", "end"}
    BY <1>2, <2>1 DEF SamePlace, Runners
  <2> QED
    BY <1>1, <2>1, <2>2 DEF RowOfSuite, SamePlace
<1>5. ASSUME NEW q \in Actors, q # r, InSuite(runner[q]) PROVE RowOfSuite(runner[q])'
  <2>1. RowOfSuite(runner[q]) /\ runner'[q] = runner[q]
    BY <1>1, <1>5 DEF RunInv, RowMatches
  <2> QED
    BY <2>1 DEF RowOfSuite
<1>6. RowMatches'
  BY <1>1, <1>3, <1>4, <1>5 DEF RowMatches
<1>7. Busy' = Busy
  BY <1>1, WorkerActs DEF Busy, SamePlace
<1> QED
  BY <1>6, <1>7 DEF RunInv, VerdictIsRight

LEMMA JobsUntouched ==
    ASSUME RunInv, Busy' = Busy, UNCHANGED <<queue, jobs, edits, restarts>>, manual' \in Nat
    PROVE  JobsKept'
BY DEF RunInv, JobsKept, Jobs

(* The session after a step of runner r.                                   *)
LEMMA TouchSession ==
    ASSUME SlateInv, NEW r \in Actors, NEW kind, Touch(r, kind)
    PROVE  /\ session' \in {session, 0, runner[r].run}
           /\ foreign' \in BOOLEAN
           /\ ~ InSuite(runner[r]) => foreign' = foreign
           /\ session \in {0, runner[r].run} => foreign' = foreign
<1>1. foreign \in BOOLEAN
  BY DEF SlateInv
<1>2. CASE kind = "Insert"
  BY <1>1, <1>2 DEF Touch
<1>3. CASE kind = "Act"
  <2>1. /\ session' \in {session, 0}
        /\ foreign' = (foreign \/ (InSuite(runner[r]) /\ session \notin {runner[r].run, 0}))
    BY <1>3 DEF Touch
  <2>2. (InSuite(runner[r]) /\ session \notin {runner[r].run, 0}) \in BOOLEAN
    BY Zenon
  <2> QED
    BY <1>1, <2>1, <2>2
<1>4. CASE kind \notin {"Insert", "Act"}
  BY <1>1, <1>4 DEF Touch
<1> QED
  BY <1>2, <1>3, <1>4

LEMMA EnqueueStep ==
    ASSUME RunInv, SlateInv, NEW s \in SuiteIds, Enqueue(s)
    PROVE  RunInv' /\ SlateInv'
<1>1. /\ UNCHANGED <<runner, rows, nextRun, manual, edits, restarts, session, foreign, disturbed>>
      /\ queue' = Append(queue, s) /\ jobs' = [jobs EXCEPT !.added = @ + 1]
      /\ jobs.added + manual + edits < MaxRequest
  BY DEF Enqueue, planVars, atmVars, Room
<1>2. Len(queue') = Len(queue) + 1 /\ queue' \in Seq(SuiteIds) /\ Len(queue) \in Nat
  BY <1>1 DEF RunInv, JobsKept
<1>3. jobs' \in Jobs /\ jobs'.added = jobs.added + 1 /\ jobs'.done = jobs.done
  <2>1. jobs \in Jobs /\ jobs.added + 1 \in 0 .. MaxRequest
    BY <1>1, SuitesAssumption, SMTT(30) DEF RunInv, JobsKept, Jobs
  <2> QED
    BY <1>1, <2>1 DEF Jobs
<1>4. JobsKept'
  BY <1>1, <1>2, <1>3, SMTT(30) DEF RunInv, JobsKept, Jobs, Busy
<1>5. RunInv'
  BY <1>1, <1>4 DEF RunInv, RunnersTyped, RowMatches, RowOfSuite, RowsApart, VerdictIsRight
<1> QED
  BY <1>1, <1>5 DEF SlateInv, SlateOf, CleanSlate

(* A suite begins: its row is its own and has no results yet, and whether  *)
(* it is alone is noticed.                                                 *)
SuiteBegun(r) ==
    /\ RunnersTyped' /\ rows' \in Seq(Rows) /\ RowMatches' /\ VerdictIsRight' /\ SlateInv'
    /\ runner'[r].pc # "free"
    /\ \A q \in Actors : q # r => runner'[q] = runner[q]

LEMMA SuiteBegins ==
    ASSUME RunInv, SlateInv, NEW r \in Actors, NEW s \in SuiteIds, runner[r] = Free,
           BeginSuite(r, s), UNCHANGED <<session, foreign, nextRun>>
    PROVE  SuiteBegun(r)
<1> DEFINE j == [Free EXCEPT !.pc = Onward(s, 1), !.suite = s, !.i = 1, !.row = Len(rows) + 1]
           row == [suite |-> s, status |-> "RUNNING", results |-> <<>>]
<1>1. /\ GoOn(r, j) /\ rows' = Append(rows, row)
      /\ disturbed' = (disturbed \/ Overlap(r))
  BY DEF BeginSuite
<1>2. rows \in Seq(Rows) /\ Len(rows) \in Nat /\ DOMAIN rows = 1 .. Len(rows)
  BY DEF RunInv
<1>3. MacroIds[s] \in Seq(DOMAIN Steps) /\ Len(MacroIds[s]) \in Nat
  BY SuitesAssumption
<1>4. /\ j.pc = Onward(s, 1) /\ j.suite = s /\ j.i = 1 /\ j.row = Len(rows) + 1
      /\ j.overall = "PASSED" /\ j.run = 0 /\ j.pc \in {"slate", "final"}
  BY DEF Free, Onward
<1>5. j \in Runners
  <2>1. Onward(s, 1) \in {"slate", "final"} /\ Len(rows) + 1 \in Nat
    BY <1>2 DEF Onward
  <2> QED
    BY <2>1, FreeTyped DEF Runners
<1>6. row \in Rows /\ row.results = <<>> /\ row.status = "RUNNING" /\ row.suite = s
  BY DEF Rows
<1>7. InSuite(j) /\ j.pc # "free"
  BY <1>2, <1>4 DEF InSuite
<1> HIDE DEF j, row
<1>8. /\ rows' \in Seq(Rows) /\ DOMAIN rows' = 1 .. Len(rows) + 1
      /\ rows'[Len(rows) + 1] = row
      /\ \A n \in DOMAIN rows : n \in DOMAIN rows' /\ rows'[n] = rows[n]
  BY <1>1, <1>2, <1>6
<1>9. nextRun' \in Nat \ {0} /\ nextRun' = nextRun /\ j.run < nextRun'
  BY <1>4 DEF RunInv, RunnersTyped
<1>10. OnlyGoes(r, j)
  BY <1>1, <1>5, <1>7, <1>9, OneGoesOn DEF RunInv
<1>11. RunnersTyped' /\ runner'[r] = j /\ \A q \in Actors : q # r => runner'[q] = runner[q]
  BY <1>10 DEF OnlyGoes
<1>12. VerdictIsRight'
  <2> SUFFICES ASSUME NEW n \in DOMAIN rows', rows'[n].status # "RUNNING"
               PROVE  /\ Len(rows'[n].results) = Len(MacroIds[rows'[n].suite])
                      /\ rows'[n].status = "PASSED" <=>
                           \A i \in DOMAIN rows'[n].results : rows'[n].results[i] = "PASSED"
    BY DEF VerdictIsRight
  <2>1. n \in DOMAIN rows
    BY <1>2, <1>6, <1>8
  <2> QED
    BY <1>8, <2>1 DEF RunInv, VerdictIsRight
<1>13. RowMatches'
  <2>1. RowOfSuite(runner[r])'
    <3>1. Len(<<>>) = 0 /\ DOMAIN <<>> = {}
      OBVIOUS
    <3>2. /\ j.row \in DOMAIN rows' /\ rows'[j.row] = row /\ j.i \in Nat
          /\ Len(row.results) = j.i - 1 /\ DOMAIN row.results = {}
      BY <1>2, <1>4, <1>6, <1>8, <3>1
    <3>3. /\ j.pc \in {"slate", "begin", "step"} => j.i \in 1 .. Len(MacroIds[j.suite])
          /\ j.pc \in {"final", "end"} => j.i = Len(MacroIds[j.suite]) + 1
      BY <1>3, <1>4 DEF Onward
    <3> QED
      BY <1>4, <1>6, <1>11, <3>2, <3>3 DEF RowOfSuite
  <2>2. ASSUME NEW q \in Actors, q # r, InSuite(runner[q])
        PROVE  RowOfSuite(runner[q])' /\ runner[q].row # j.row
    <3>1. RowOfSuite(runner[q]) /\ runner'[q] = runner[q]
      BY <1>11, <2>2 DEF RunInv, RowMatches
    <3>2. runner[q].row \in DOMAIN rows
      BY <3>1 DEF RowOfSuite
    <3> QED
      BY <1>2, <1>4, <1>8, <3>1, <3>2 DEF RowOfSuite
  <2>3. RowsApart'
    BY <1>11, <2>2 DEF RunInv, RowMatches, RowsApart
  <2> QED
    BY <1>11, <2>1, <2>2, <2>3 DEF RowMatches
<1>14. SlateInv'
  <2>1. disturbed' \in BOOLEAN
    BY <1>1, Zenon
  <2>2. ~ disturbed' => ~ disturbed /\ \A q \in Actors \ {r} : runner[q] = Free
    BY <1>1 DEF Overlap
  <2>3. ~ disturbed' => \A q \in Actors : SlateOf(q)'
    <3> SUFFICES ASSUME ~ disturbed', NEW q \in Actors PROVE SlateOf(q)'
      OBVIOUS
    <3>1. CASE q = r
      BY <1>4, <1>11, <2>2, <3>1, FreeTyped DEF SlateOf
    <3>2. CASE q # r
      BY <1>11, <2>2, <3>2, FreeTyped DEF SlateOf
    <3> QED
      BY <3>1, <3>2
  <2>4. CleanSlate'
    BY <2>2 DEF SlateInv, CleanSlate
  <2> QED
    BY <1>9, <2>1, <2>3, <2>4 DEF SlateInv
<1> QED
  BY <1>7, <1>8, <1>11, <1>12, <1>13, <1>14 DEF SuiteBegun

LEMMA RunInlineStep ==
    ASSUME RunInv, SlateInv, NEW r \in Consoles, NEW s \in SuiteIds, RunInline(r, s)
    PROVE  RunInv' /\ SlateInv'
<1>1. /\ runner[r] = Free /\ BeginSuite(r, s) /\ manual' = manual + 1
      /\ UNCHANGED <<session, foreign, nextRun>> /\ UNCHANGED <<queue, jobs, edits, restarts>>
  BY DEF RunInline, planVars
<1>2. SuiteBegun(r)
  BY <1>1, SuiteBegins, WorkerActs
<1>3. Busy' = Busy
  BY <1>2, WorkerActs DEF SuiteBegun, Busy
<1>4. manual' \in Nat
  BY <1>1 DEF RunInv, JobsKept
<1>5. JobsKept'
  BY <1>1, <1>3, <1>4, JobsUntouched
<1> QED
  BY <1>2, <1>5 DEF SuiteBegun, RunInv

LEMMA RunSuiteStep ==
    ASSUME RunInv, SlateInv, RunSuite
    PROVE  RunInv' /\ SlateInv'
<1> DEFINE s == Head(queue)
<1>1. /\ runner[Worker] = Free /\ queue # <<>> /\ queue' = Tail(queue)
      /\ UNCHANGED <<session, foreign, nextRun>> /\ UNCHANGED <<manual, edits, restarts>>
  BY DEF RunSuite, planVars
<1>2. /\ s \in SuiteIds /\ queue' \in Seq(SuiteIds)
      /\ Len(queue) \in Nat \ {0} /\ Len(queue') = Len(queue) - 1
  BY <1>1 DEF RunInv, JobsKept
<1>3. runner[Worker].pc = "free"
  BY <1>1, FreeTyped
<1>4. CASE suite[s].exists
  <2>1. BeginSuite(Worker, s) /\ UNCHANGED jobs
    BY <1>4 DEF RunSuite
  <2>2. SuiteBegun(Worker)
    BY <1>1, <1>2, <2>1, SuiteBegins, WorkerActs
  <2>3. Busy = 0 /\ Busy' = 1
    BY <1>3, <2>2 DEF SuiteBegun, Busy
  <2>4. JobsKept'
    BY <1>1, <1>2, <2>1, <2>3 DEF RunInv, JobsKept, Jobs
  <2> QED
    BY <2>2, <2>4 DEF SuiteBegun, RunInv
<1>5. CASE ~ suite[s].exists
  <2>1. jobs' = [jobs EXCEPT !.done = @ + 1] /\ UNCHANGED <<runner, rows, disturbed>>
    BY <1>5 DEF RunSuite
  <2>2. /\ jobs.done + Len(queue) = jobs.added /\ jobs.done \in Nat
        /\ jobs.added \in 0 .. MaxRequest
    BY <1>3 DEF RunInv, JobsKept, Jobs, Busy
  <2>3. jobs \in Jobs /\ jobs.done + 1 \in 0 .. MaxRequest
    BY <1>2, <2>2, SuitesAssumption, SMTT(30) DEF RunInv, JobsKept
  <2>4. jobs' \in Jobs /\ jobs'.added = jobs.added /\ jobs'.done = jobs.done + 1
    BY <2>1, <2>3 DEF Jobs
  <2>5. JobsKept'
    BY <1>1, <1>2, <1>3, <2>1, <2>2, <2>3, <2>4 DEF RunInv, JobsKept, Busy
  <2>6. RunInv'
    BY <1>1, <2>1, <2>5 DEF RunInv, RunnersTyped, RowMatches, RowOfSuite, RowsApart, VerdictIsRight
  <2> QED
    BY <1>1, <2>1, <2>6 DEF SlateInv, SlateOf, CleanSlate
<1> QED
  BY <1>4, <1>5

(* A runner goes on, and what it knows of the session still holds of it:   *)
(* the slate stays clean.                                                  *)
LEMMA SlateGoesOn ==
    ASSUME RunInv, SlateInv, NEW r \in Actors, NEW j \in Runners, OnlyGoes(r, j),
           session' \in Nat, session' < nextRun', disturbed' \in BOOLEAN, foreign' \in BOOLEAN,
           ~ disturbed' => ~ disturbed /\ foreign' = foreign,
           InSuite(j) => InSuite(runner[r]),
           ~ disturbed' /\ ~ InSuite(j) /\ runner[r].pc = "free" =>
                \A q \in Actors \ {r} : runner[q].pc = "free",
           InSuite(j) /\ j.pc = "begin" /\ ~ disturbed' => session' = 0,
           InSuite(j) /\ j.pc = "step" /\ ~ disturbed' => session' \in {0, j.run}
    PROVE  SlateInv'
<1>1. /\ runner'[r] = j /\ runner[r] \in Runners
      /\ \A q \in Actors : q # r => runner'[q] = runner[q]
  BY DEF OnlyGoes, RunInv, RunnersTyped
<1>2. CleanSlate'
  BY DEF SlateInv, CleanSlate
<1>3. ASSUME ~ disturbed', NEW q \in Actors, InSuite(runner'[q]) PROVE SlateOf(q)'
  <2>1. SlateOf(r) /\ SlateOf(q)
    BY <1>3 DEF SlateInv
  <2>2. CASE q = r
    BY <1>1, <1>3, <2>1, <2>2 DEF SlateOf
  <2>3. CASE q # r
    <3>1. runner'[q] = runner[q] /\ InSuite(runner[q])
      BY <1>1, <1>3, <2>3
    <3>2. runner[r].pc = "free"
      BY <2>1, <2>3, <3>1 DEF SlateOf
    <3>3. ~ InSuite(runner[r])
      BY <3>2, FreeTyped DEF RunInv, RunnersTyped
    <3>4. runner[q].pc = "free"
      BY <1>3, <2>3, <3>2, <3>3
    <3>5. runner[q] = Free
      BY <3>4 DEF RunInv, RunnersTyped
    <3> QED
      BY <3>1, <3>5, FreeTyped
  <2> QED
    BY <2>2, <2>3
<1>4. \A q \in Actors : ~ disturbed' => SlateOf(q)'
  BY <1>3 DEF SlateOf
<1> QED
  BY <1>2, <1>4 DEF SlateInv

LEMMA SafeCancelStep ==
    ASSUME RunInv, SlateInv, NEW r \in Actors, SafeCancel(r)
    PROVE  RunInv' /\ SlateInv'
<1> DEFINE w == runner[r]
           pc == IF w.pc = "slate" THEN "begin" ELSE "end"
           j == [w EXCEPT !.pc = pc]
<1>1. /\ w.pc \in {"slate", "final"} /\ GoOn(r, j)
      /\ \/ session' = 0 /\ UNCHANGED disturbed
         \/ session # 0 /\ UNCHANGED session /\ disturbed' = TRUE
      /\ UNCHANGED <<foreign, nextRun, rows, manual>> /\ UNCHANGED <<queue, jobs, edits, restarts>>
  BY DEF SafeCancel, planVars
<1>2. w \in Runners /\ w.run < nextRun /\ nextRun \in Nat \ {0} /\ InSuite(w)
  BY <1>1 DEF RunInv, RunnersTyped
<1>3. /\ j \in Runners /\ j.pc = pc /\ j.run = w.run
      /\ j.suite = w.suite /\ j.row = w.row /\ j.i = w.i /\ j.overall = w.overall
  BY <1>2 DEF Runners
<1>4. pc \in {"begin", "end"} /\ (pc = "end" <=> w.pc = "final")
  BY <1>1
<1> HIDE DEF j, pc
<1>5. InSuite(j)
  BY <1>2, <1>3 DEF InSuite
<1>6. OnlyGoes(r, j)
  BY <1>1, <1>2, <1>3, <1>4, <1>5, OneGoesOn DEF RunInv
<1>7. SamePlace(w, j)
  BY <1>1, <1>3, <1>4 DEF SamePlace
<1>8. RowMatches' /\ VerdictIsRight' /\ rows' \in Seq(Rows) /\ Busy' = Busy
  BY <1>1, <1>3, <1>6, <1>7, SameRow
<1>9. JobsKept'
  BY <1>1, <1>8, JobsUntouched DEF RunInv, JobsKept
<1>10. /\ disturbed' \in BOOLEAN /\ foreign' \in BOOLEAN
       /\ ~ disturbed' => ~ disturbed /\ foreign' = foreign /\ session' = 0
       /\ session' \in Nat /\ session' < nextRun'
  <2>1. disturbed \in BOOLEAN /\ foreign \in BOOLEAN /\ session \in Nat /\ session < nextRun
    BY DEF SlateInv
  <2>2. CASE session' = 0 /\ disturbed' = disturbed
    BY <1>1, <1>2, <2>1, <2>2
  <2>3. CASE session' = session /\ disturbed' = TRUE
    BY <1>1, <1>2, <2>1, <2>3
  <2> QED
    BY <1>1, <2>2, <2>3
<1>11. SlateInv'
  BY <1>2, <1>3, <1>4, <1>5, <1>6, <1>10, SlateGoesOn
<1> QED
  BY <1>6, <1>8, <1>9, <1>11 DEF OnlyGoes, RunInv

(* A macro's run is one that no session belongs to yet.                    *)
MacroBegun(r, j, k) ==
    /\ OnlyGoes(r, k) /\ nextRun' = nextRun + 1 /\ nextRun \in Nat \ {0}
    /\ k.pc = "step" /\ k.run = nextRun
    /\ k.suite = j.suite /\ k.row = j.row /\ k.i = j.i /\ k.overall = j.overall

LEMMA RunOfMacro ==
    ASSUME RunInv, NEW r \in Actors, NEW m \in DOMAIN Steps, NEW j \in Runners, RunMacro(r, m, j),
           r = Worker => InSuite(j)
    PROVE  \E k \in Runners : MacroBegun(r, j, k)
<1> DEFINE k == [j EXCEPT !.pc = "step", !.steps = Steps[m], !.run = nextRun, !.status = "PASSED"]
<1>1. GoOn(r, k) /\ nextRun' = nextRun + 1 /\ nextRun \in Nat \ {0}
  BY DEF RunMacro, RunInv, RunnersTyped
<1>2. Steps[m] \in Seq(Kinds)
  BY SuitesAssumption DEF Kinds
<1>3. /\ k \in Runners /\ k.pc = "step" /\ k.run = nextRun
      /\ k.suite = j.suite /\ k.row = j.row /\ k.i = j.i /\ k.overall = j.overall
  BY <1>1, <1>2 DEF Runners, Verdicts
<1> HIDE DEF k
<1>4. r = Worker => InSuite(k)
  BY <1>3 DEF InSuite
<1>5. nextRun' \in Nat /\ nextRun' >= nextRun /\ k.run < nextRun'
  BY <1>1, <1>3
<1>6. OnlyGoes(r, k)
  BY <1>1, <1>3, <1>4, <1>5, OneGoesOn DEF RunInv
<1>7. MacroBegun(r, j, k)
  BY <1>1, <1>3, <1>6 DEF MacroBegun
<1> QED
  BY <1>3, <1>7, Zenon

LEMMA BeginMacroStep ==
    ASSUME RunInv, SlateInv, NEW r \in Actors, BeginMacro(r)
    PROVE  RunInv' /\ SlateInv'
<1> DEFINE w == runner[r]
<1>1. /\ w.pc = "begin" /\ RunMacro(r, MacroIds[w.suite][w.i], w)
      /\ UNCHANGED <<session, foreign, disturbed, rows, manual>>
      /\ UNCHANGED <<queue, jobs, edits, restarts>>
  BY DEF BeginMacro, planVars, atmVars
<1>2. w \in Runners /\ InSuite(w)
  BY <1>1 DEF RunInv, RunnersTyped
<1>3. RowOfSuite(w)
  BY <1>2 DEF RunInv, RowMatches
<1>4. w.suite \in SuiteIds /\ w.i \in 1 .. Len(MacroIds[w.suite])
  BY <1>1, <1>3 DEF RowOfSuite
<1>5. MacroIds[w.suite] \in Seq(DOMAIN Steps)
  BY <1>4, SuitesAssumption
<1>6. MacroIds[w.suite][w.i] \in DOMAIN Steps
  BY <1>4, <1>5
<1>7. PICK k \in Runners : MacroBegun(r, w, k)
  BY <1>1, <1>2, <1>6, RunOfMacro
<1>8. OnlyGoes(r, k) /\ SamePlace(w, k) /\ k.row = w.row /\ InSuite(k)
  BY <1>1, <1>2, <1>7 DEF MacroBegun, SamePlace, InSuite
<1>9. RowMatches' /\ VerdictIsRight' /\ rows' \in Seq(Rows) /\ Busy' = Busy
  BY <1>1, <1>8, SameRow
<1>10. JobsKept'
  BY <1>1, <1>9, JobsUntouched DEF RunInv, JobsKept
<1>11. ~ disturbed => session = 0
  BY <1>1, <1>2 DEF SlateInv, SlateOf
<1>12. /\ session' \in Nat /\ session' < nextRun' /\ disturbed' \in BOOLEAN
       /\ foreign' \in BOOLEAN
  BY <1>1, <1>7 DEF SlateInv, MacroBegun
<1>13. SlateInv'
  BY <1>1, <1>2, <1>7, <1>8, <1>11, <1>12, SlateGoesOn DEF MacroBegun
<1> QED
  BY <1>8, <1>9, <1>10, <1>13 DEF OnlyGoes, RunInv

(* A macro from the console beside a suite is noticed.                     *)
LEMMA RunFromConsoleStep ==
    ASSUME RunInv, SlateInv, NEW r \in Consoles, NEW m \in DOMAIN Steps, RunFromConsole(r, m)
    PROVE  RunInv' /\ SlateInv'
<1>1. /\ runner[r] = Free /\ RunMacro(r, m, Free) /\ manual' = manual + 1
      /\ disturbed' = (disturbed \/ Overlap(r))
      /\ UNCHANGED <<session, foreign, rows>> /\ UNCHANGED <<queue, jobs, edits, restarts>>
  BY DEF RunFromConsole, planVars
<1>2. r \in Actors /\ r # Worker
  BY WorkerActs
<1>3. PICK k \in Runners : MacroBegun(r, Free, k)
  BY <1>1, <1>2, RunOfMacro, FreeTyped
<1>4. OnlyGoes(r, k) /\ k.row = runner[r].row /\ ~ InSuite(k) /\ ~ InSuite(runner[r])
  BY <1>1, <1>3, FreeTyped DEF MacroBegun, InSuite
<1>5. RowMatches' /\ VerdictIsRight' /\ rows' \in Seq(Rows) /\ Busy' = Busy
  BY <1>1, <1>2, <1>4, SameRow
<1>6. manual' \in Nat
  BY <1>1 DEF RunInv, JobsKept
<1>7. JobsKept'
  BY <1>1, <1>5, <1>6, JobsUntouched
<1>8. disturbed' \in BOOLEAN
  BY <1>1, Zenon
<1>9. ~ disturbed' => ~ disturbed /\ \A q \in Actors \ {r} : runner[q] = Free
  BY <1>1 DEF Overlap
<1>10. ~ disturbed' => \A q \in Actors \ {r} : runner[q].pc = "free"
  BY <1>9, FreeTyped
<1>11. session' \in Nat /\ session' < nextRun' /\ foreign' \in BOOLEAN /\ foreign' = foreign
  BY <1>1, <1>3 DEF SlateInv, MacroBegun
<1>12. SlateInv'
  BY <1>2, <1>4, <1>8, <1>9, <1>10, <1>11, SlateGoesOn
<1> QED
  BY <1>4, <1>5, <1>7, <1>12 DEF OnlyGoes, RunInv

(* A step of a macro: a suite's acts on its own session, as long as        *)
(* nothing is disturbed.                                                   *)
LEMMA MacroStepStep ==
    ASSUME RunInv, SlateInv, NEW r \in Actors, StepPasses(r) \/ StepFails(r)
    PROVE  RunInv' /\ SlateInv'
<1> DEFINE w == runner[r]
<1>1. /\ w.pc = "step" /\ w.steps # <<>> /\ Touch(r, Head(w.steps))
      /\ UNCHANGED <<disturbed, nextRun, rows, manual>> /\ UNCHANGED <<queue, jobs, edits, restarts>>
  BY DEF StepPasses, StepFails, planVars
<1>2. /\ w \in Runners /\ w.run < nextRun /\ nextRun \in Nat \ {0} /\ w.run \in Nat
      /\ r = Worker => InSuite(w)
  BY <1>1 DEF RunInv, RunnersTyped, Runners
<1>3. PICK j \in Runners :
        /\ GoOn(r, j) /\ j.pc = "step" /\ j.run = w.run
        /\ j.suite = w.suite /\ j.row = w.row /\ j.i = w.i /\ j.overall = w.overall
  <2>1. CASE StepPasses(r)
    <3> DEFINE j == [w EXCEPT !.steps = Tail(@)]
    <3>1. GoOn(r, j)
      BY <2>1 DEF StepPasses
    <3>2. Tail(w.steps) \in Seq(Kinds)
      BY <1>1, <1>2 DEF Runners
    <3>3. /\ j \in Runners /\ j.pc = "step" /\ j.run = w.run
          /\ j.suite = w.suite /\ j.row = w.row /\ j.i = w.i /\ j.overall = w.overall
      BY <1>1, <1>2, <3>2 DEF Runners
    <3> HIDE DEF j
    <3> QED
      BY <3>1, <3>3, Zenon
  <2>2. CASE StepFails(r)
    <3> DEFINE j == [w EXCEPT !.status = "FAILED", !.steps = <<>>]
    <3>1. GoOn(r, j)
      BY <2>2 DEF StepFails
    <3>2. <<>> \in Seq(Kinds) /\ "FAILED" \in Verdicts
      BY DEF Verdicts
    <3>3. /\ j \in Runners /\ j.pc = "step" /\ j.run = w.run
          /\ j.suite = w.suite /\ j.row = w.row /\ j.i = w.i /\ j.overall = w.overall
      BY <1>1, <1>2, <3>2 DEF Runners
    <3> HIDE DEF j
    <3> QED
      BY <3>1, <3>3, Zenon
  <2> QED
    BY <2>1, <2>2
<1>4. /\ InSuite(j) <=> InSuite(w)
      /\ j.run < nextRun' /\ nextRun' \in Nat /\ nextRun' >= nextRun
  BY <1>1, <1>2, <1>3 DEF InSuite
<1>5. OnlyGoes(r, j)
  BY <1>2, <1>3, <1>4, OneGoesOn DEF RunInv
<1>6. SamePlace(w, j)
  BY <1>1, <1>3 DEF SamePlace
<1>7. RowMatches' /\ VerdictIsRight' /\ rows' \in Seq(Rows) /\ Busy' = Busy
  BY <1>1, <1>3, <1>5, <1>6, SameRow
<1>8. JobsKept'
  BY <1>1, <1>7, JobsUntouched DEF RunInv, JobsKept
<1>9. /\ session' \in {session, 0, w.run} /\ foreign' \in BOOLEAN
      /\ ~ InSuite(w) => foreign' = foreign
      /\ session \in {0, w.run} => foreign' = foreign
  BY <1>1, TouchSession
<1>10. ~ disturbed /\ InSuite(w) => session \in {0, w.run}
  BY <1>1 DEF SlateInv, SlateOf
<1>11. /\ session' \in Nat /\ session' < nextRun'
       /\ disturbed' \in BOOLEAN /\ disturbed' = disturbed
  BY <1>1, <1>2, <1>9 DEF SlateInv
<1>12. /\ ~ disturbed' => foreign' = foreign
       /\ InSuite(j) /\ ~ disturbed' => session' \in {0, j.run}
  BY <1>3, <1>4, <1>9, <1>10, <1>11
<1>13. SlateInv'
  BY <1>1, <1>3, <1>4, <1>5, <1>9, <1>11, <1>12, SlateGoesOn
<1> QED
  BY <1>5, <1>7, <1>8, <1>13 DEF OnlyGoes, RunInv

LEMMA ConsoleMacroEndsStep ==
    ASSUME RunInv, SlateInv, NEW r \in Consoles, ConsoleMacroEnds(r)
    PROVE  RunInv' /\ SlateInv'
<1>1. /\ GoOn(r, Free) /\ ~ InSuite(runner[r]) /\ runner[r].pc = "step"
      /\ UNCHANGED <<session, foreign, disturbed, nextRun, rows, manual>>
      /\ UNCHANGED <<queue, jobs, edits, restarts>>
  BY DEF ConsoleMacroEnds, planVars, atmVars
<1>2. nextRun \in Nat \ {0} /\ r \in Actors /\ r # Worker
  BY WorkerActs DEF RunInv, RunnersTyped
<1>3. OnlyGoes(r, Free)
  BY <1>1, <1>2, FreeTyped, OneGoesOn DEF RunInv
<1>4. runner[r].row = Free.row
  BY <1>1, FreeTyped DEF InSuite
<1>5. RowMatches' /\ VerdictIsRight' /\ rows' \in Seq(Rows) /\ Busy' = Busy
  BY <1>1, <1>2, <1>3, <1>4, FreeTyped, SameRow
<1>6. JobsKept'
  BY <1>1, <1>5, JobsUntouched DEF RunInv, JobsKept
<1>7. SlateInv'
  BY <1>1, <1>2, <1>3, FreeTyped, SlateGoesOn DEF SlateInv
<1> QED
  BY <1>3, <1>5, <1>6, <1>7 DEF OnlyGoes, RunInv

(* A row after one of its fields was written: the others stay.             *)
LEMMA VerdictWritten ==
    ASSUME rows \in Seq(Rows), NEW n \in DOMAIN rows, NEW row \in Rows,
           rows' = [rows EXCEPT ![n] = row]
    PROVE  /\ rows' \in Seq(Rows) /\ DOMAIN rows' = DOMAIN rows
           /\ rows'[n] = row
           /\ \A k \in DOMAIN rows : k # n => rows'[k] = rows[k]
BY DEF Rows

LEMMA SuiteMacroEndsStep ==
    ASSUME RunInv, SlateInv, NEW r \in Actors, SuiteMacroEnds(r)
    PROVE  RunInv' /\ SlateInv'
<1> DEFINE w == runner[r]
<1>1. /\ w.pc = "step" /\ InSuite(w)
      /\ UNCHANGED <<session, foreign, disturbed, nextRun, manual>>
      /\ UNCHANGED <<queue, jobs, edits, restarts>>
  BY DEF SuiteMacroEnds, planVars, atmVars
<1>2. PICK status \in {w.status, "FAILED"} :
        /\ rows' = [rows EXCEPT ![w.row].results = Append(@, status)]
        /\ GoOn(r, [w EXCEPT !.overall = IF status # "PASSED" THEN "FAILED" ELSE @,
                                  !.i = @ + 1, !.pc = Onward(w.suite, w.i + 1)])
  BY DEF SuiteMacroEnds
<1>3. w \in Runners /\ w.run < nextRun /\ nextRun \in Nat \ {0}
  BY DEF RunInv, RunnersTyped
<1>4. status \in Verdicts
  BY <1>3 DEF Runners, Verdicts
<1>5. /\ w.suite \in SuiteIds /\ w.row \in DOMAIN rows
      /\ rows[w.row].suite = w.suite /\ rows[w.row].status = "RUNNING"
      /\ Len(rows[w.row].results) = w.i - 1
      /\ w.i \in 1 .. Len(MacroIds[w.suite])
      /\ w.overall = "PASSED" <=>
            \A n \in DOMAIN rows[w.row].results : rows[w.row].results[n] = "PASSED"
  <2>1. RowOfSuite(w)
    BY <1>1 DEF RunInv, RowMatches
  <2> QED
    BY <1>1, <2>1 DEF RowOfSuite
<1>6. MacroIds[w.suite] \in Seq(DOMAIN Steps) /\ Len(MacroIds[w.suite]) \in Nat
  BY <1>5, SuitesAssumption
<1> DEFINE overall == IF status # "PASSED" THEN "FAILED" ELSE w.overall
           j == [w EXCEPT !.overall = overall, !.i = w.i + 1, !.pc = Onward(w.suite, w.i + 1)]
           results == Append(rows[w.row].results, status)
           row == [rows[w.row] EXCEPT !.results = results]
<1>7. rows[w.row] \in Rows /\ rows[w.row].results \in Seq(Verdicts)
  <2>1. rows[w.row] \in Rows
    BY <1>5 DEF RunInv
  <2> QED
    BY <2>1 DEF Rows
<1>8. /\ results \in Seq(Verdicts) /\ Len(results) = w.i
      /\ DOMAIN results = 1 .. w.i /\ results[w.i] = status
      /\ \A n \in DOMAIN rows[w.row].results : results[n] = rows[w.row].results[n]
      /\ DOMAIN rows[w.row].results = 1 .. w.i - 1
  <2>1. ASSUME NEW old \in Seq(Verdicts), NEW i \in Nat, Len(old) = i - 1
        PROVE  LET new == Append(old, status) IN
               /\ new \in Seq(Verdicts) /\ Len(new) = i /\ DOMAIN new = 1 .. i /\ new[i] = status
               /\ \A n \in DOMAIN old : new[n] = old[n]
               /\ DOMAIN old = 1 .. i - 1
    BY <1>4, <2>1
  <2>2. w.i \in Nat
    BY <1>5
  <2> QED
    BY <1>5, <1>7, <2>1, <2>2
<1>9. overall \in Verdicts
  BY <1>3 DEF Verdicts, Runners
<1>10. overall = "PASSED" <=> \A n \in DOMAIN results : results[n] = "PASSED"
  <2>1. overall = "PASSED" <=> status = "PASSED" /\ w.overall = "PASSED"
    BY <1>4 DEF Verdicts
  <2>2. \A n \in DOMAIN results : n = w.i \/ n \in DOMAIN rows[w.row].results
    BY <1>5, <1>8
  <2>3. w.i \in DOMAIN results /\ \A n \in DOMAIN rows[w.row].results : n \in DOMAIN results
    BY <1>5, <1>8
  <2> HIDE DEF overall, results
  <2> QED
    BY <1>5, <1>8, <2>1, <2>2, <2>3
<1>11. Onward(w.suite, w.i + 1) \in {"slate", "final"} /\ w.i + 1 \in Nat
  BY <1>5 DEF Onward
<1> HIDE DEF overall, results
<1>12. /\ j \in Runners /\ j.overall = overall /\ j.i = w.i + 1
       /\ j.pc = Onward(w.suite, w.i + 1)
       /\ j.suite = w.suite /\ j.row = w.row /\ j.run = w.run
  BY <1>3, <1>9, <1>11 DEF Runners
<1>13. row \in Rows /\ row.results = results /\ row.suite = w.suite /\ row.status = "RUNNING"
  BY <1>5, <1>7, <1>8 DEF Rows
<1>14. rows' = [rows EXCEPT ![w.row] = row] /\ GoOn(r, j)
  BY <1>2 DEF results, overall
<1> HIDE DEF j, row
<1>15. /\ rows' \in Seq(Rows) /\ DOMAIN rows' = DOMAIN rows /\ rows'[w.row] = row
       /\ \A k \in DOMAIN rows : k # w.row => rows'[k] = rows[k]
  BY <1>5, <1>13, <1>14, VerdictWritten DEF RunInv
<1>16. InSuite(j) /\ j.pc \in {"slate", "final"}
  BY <1>1, <1>11, <1>12 DEF InSuite
<1>17. OnlyGoes(r, j)
  BY <1>1, <1>3, <1>12, <1>14, <1>16, OneGoesOn DEF RunInv
<1>18. RunnersTyped' /\ runner'[r] = j /\ \A q \in Actors : q # r => runner'[q] = runner[q]
  BY <1>17 DEF OnlyGoes
<1>19. RowOfSuite(runner[r])'
  <2>1. /\ j.pc \in {"slate", "begin", "step"} => j.i \in 1 .. Len(MacroIds[j.suite])
        /\ j.pc \in {"final", "end"} => j.i = Len(MacroIds[j.suite]) + 1
    <3>1. w.i \in Nat /\ w.i >= 1
      BY <1>5
    <3>2. CASE w.i + 1 <= Len(MacroIds[w.suite])
      BY <1>6, <1>12, <3>1, <3>2 DEF Onward
    <3>3. CASE ~ (w.i + 1 <= Len(MacroIds[w.suite]))
      <4>1. w.i = Len(MacroIds[w.suite])
        BY <1>5, <1>6, <3>3
      <4> QED
        BY <1>6, <1>12, <3>1, <3>3, <4>1 DEF Onward
    <3> QED
      BY <3>2, <3>3
  <2>2. Len(results) = j.i - 1
    BY <1>5, <1>8, <1>12
  <2> QED
    BY <1>5, <1>10, <1>12, <1>13, <1>15, <1>18, <2>1, <2>2, ZenonT(40) DEF RowOfSuite
<1>20. RowMatches'
  <2>1. ASSUME NEW q \in Actors, q # r, InSuite(runner[q]) PROVE RowOfSuite(runner[q])'
    <3>1. RowOfSuite(runner[q]) /\ runner'[q] = runner[q] /\ runner[q].row # w.row
      BY <1>1, <1>18, <2>1 DEF RunInv, RowMatches, RowsApart
    <3>2. rows'[runner[q].row] = rows[runner[q].row]
      BY <1>15, <3>1 DEF RowOfSuite
    <3> QED
      BY <1>15, <3>1, <3>2 DEF RowOfSuite
  <2>2. RowsApart'
    BY <1>1, <1>12, <1>18 DEF RunInv, RowMatches, RowsApart
  <2> QED
    BY <1>18, <1>19, <2>1, <2>2 DEF RowMatches
<1>21. VerdictIsRight'
  BY <1>13, <1>15 DEF RunInv, VerdictIsRight
<1>22. Busy' = Busy
  BY <1>1, <1>16, <1>18, WorkerActs DEF Busy
<1>23. JobsKept'
  BY <1>1, <1>22, JobsUntouched DEF RunInv, JobsKept
<1>24. SlateInv'
  BY <1>1, <1>3, <1>12, <1>16, <1>17, SlateGoesOn DEF SlateInv
<1> QED
  BY <1>15, <1>18, <1>20, <1>21, <1>23, <1>24 DEF RunInv

(* The verdict that is written is the one of the results in the row.       *)
LEMMA SuiteEndsStep ==
    ASSUME RunInv, SlateInv, NEW r \in Actors, SuiteEnds(r)
    PROVE  RunInv' /\ SlateInv'
<1> DEFINE w == runner[r]
           row == [rows[w.row] EXCEPT !.status = w.overall]
<1>1. /\ w.pc = "end" /\ GoOn(r, Free)
      /\ jobs' = IF r = Worker THEN [jobs EXCEPT !.done = @ + 1] ELSE jobs
      /\ rows' = [rows EXCEPT ![w.row] = row] \/ rows' = rows
      /\ UNCHANGED <<session, foreign, disturbed, nextRun>>
      /\ UNCHANGED <<queue, manual, edits, restarts>>
  BY DEF SuiteEnds, planVars, atmVars
<1>2. nextRun \in Nat \ {0} /\ w \in Runners /\ InSuite(w)
  BY <1>1 DEF RunInv, RunnersTyped
<1>3. OnlyGoes(r, Free)
  BY <1>1, <1>2, FreeTyped, OneGoesOn DEF RunInv
<1>4. RunnersTyped' /\ runner'[r] = Free /\ \A q \in Actors : q # r => runner'[q] = runner[q]
  BY <1>3 DEF OnlyGoes
<1>5. /\ w.row \in DOMAIN rows /\ w.suite \in SuiteIds
      /\ rows[w.row].suite = w.suite
      /\ Len(rows[w.row].results) = w.i - 1
      /\ w.i = Len(MacroIds[w.suite]) + 1
      /\ w.overall = "PASSED" <=>
            \A n \in DOMAIN rows[w.row].results : rows[w.row].results[n] = "PASSED"
  <2>1. RowOfSuite(w)
    BY <1>2 DEF RunInv, RowMatches
  <2> QED
    BY <1>1, <2>1 DEF RowOfSuite
<1>6. Len(MacroIds[w.suite]) \in Nat /\ rows[w.row] \in Rows /\ w.overall \in Verdicts
  BY <1>2, <1>5, SuitesAssumption DEF RunInv, Runners
<1>7. /\ row \in Rows /\ row.suite = w.suite /\ row.results = rows[w.row].results
      /\ row.status = w.overall
  BY <1>5, <1>6 DEF Rows
<1> HIDE DEF row
<1>8. /\ rows' \in Seq(Rows) /\ DOMAIN rows' = DOMAIN rows
      /\ rows'[w.row] \in {row, rows[w.row]}
      /\ \A k \in DOMAIN rows : k # w.row => rows'[k] = rows[k]
  <2>1. CASE rows' = rows
    BY <2>1 DEF RunInv
  <2>2. CASE rows' = [rows EXCEPT ![w.row] = row]
    BY <1>5, <1>7, <2>2, VerdictWritten DEF RunInv
  <2> QED
    BY <1>1, <2>1, <2>2
<1>9. VerdictIsRight'
  <2>1. Len(row.results) = Len(MacroIds[row.suite])
    BY <1>5, <1>6, <1>7
  <2>2. row.status = "PASSED" <=> \A i \in DOMAIN row.results : row.results[i] = "PASSED"
    BY <1>5, <1>7
  <2> SUFFICES ASSUME NEW n \in DOMAIN rows', rows'[n].status # "RUNNING"
               PROVE  /\ Len(rows'[n].results) = Len(MacroIds[rows'[n].suite])
                      /\ rows'[n].status = "PASSED" <=>
                           \A i \in DOMAIN rows'[n].results : rows'[n].results[i] = "PASSED"
    BY <1>8 DEF VerdictIsRight
  <2>3. CASE rows'[n] = rows[n]
    BY <1>8, <2>3 DEF RunInv, VerdictIsRight
  <2>4. CASE rows'[n] = row
    BY <2>1, <2>2, <2>4
  <2> QED
    BY <1>8, <2>3, <2>4
<1>10. RowMatches'
  <2>1. ASSUME NEW q \in Actors, InSuite(runner'[q])
        PROVE  RowOfSuite(runner[q])' /\ q # r
    <3>1. q # r
      BY <1>4, <2>1, FreeTyped
    <3>2. RowOfSuite(runner[q]) /\ runner'[q] = runner[q] /\ runner[q].row # w.row
      BY <1>2, <1>4, <2>1, <3>1 DEF RunInv, RowMatches, RowsApart
    <3>3. rows'[runner[q].row] = rows[runner[q].row]
      BY <1>8, <3>2 DEF RowOfSuite
    <3> QED
      BY <1>8, <3>1, <3>2, <3>3 DEF RowOfSuite
  <2>2. RowsApart'
    BY <1>4, <2>1 DEF RunInv, RowMatches, RowsApart
  <2> QED
    BY <2>1, <2>2 DEF RowMatches
<1>11. JobsKept'
  <2>1. /\ jobs \in Jobs /\ queue \in Seq(SuiteIds) /\ Len(queue) \in Nat
        /\ jobs.done + Len(queue) + Busy = jobs.added
    BY DEF RunInv, JobsKept
  <2>2. CASE r = Worker
    <3>1. Busy = 1 /\ Busy' = 0
      BY <1>1, <1>4, <2>2, FreeTyped DEF Busy
    <3>2. jobs.done + 1 \in 0 .. MaxRequest
      BY <2>1, <3>1, SuitesAssumption DEF Jobs
    <3>3. jobs' \in Jobs /\ jobs'.added = jobs.added /\ jobs'.done = jobs.done + 1
      BY <1>1, <2>1, <2>2, <3>2 DEF Jobs
    <3> QED
      BY <1>1, <2>1, <3>1, <3>3 DEF RunInv, JobsKept, Jobs
  <2>3. CASE r # Worker
    <3>1. Busy' = Busy
      BY <1>4, <2>3, WorkerActs DEF Busy
    <3>2. manual' \in Nat /\ UNCHANGED <<queue, jobs, edits, restarts>>
      BY <1>1, <2>3 DEF RunInv, JobsKept
    <3> QED
      BY <3>1, <3>2, JobsUntouched
  <2> QED
    BY <2>2, <2>3
<1>12. SlateInv'
  BY <1>1, <1>2, <1>3, FreeTyped, SlateGoesOn DEF SlateInv
<1> QED
  BY <1>4, <1>8, <1>9, <1>10, <1>11, <1>12 DEF RunInv

(* The process is gone, for good or to restart: every runner is free, and  *)
(* the job the worker was at waits again.                                  *)
LEMMA GoneStep ==
    ASSUME RunInv, SlateInv, Gone, restarts' \in 0 .. MaxRestart
    PROVE  RunInv' /\ SlateInv'
<1>1. /\ runner' = [r \in Actors |-> Free] /\ session' = 0
      /\ queue' = IF runner[Worker] = Free THEN queue ELSE Append(queue, runner[Worker].suite)
      /\ UNCHANGED <<foreign, disturbed, nextRun, rows>> /\ UNCHANGED <<jobs, manual, edits>>
  BY DEF Gone
<1>2. nextRun \in Nat \ {0}
  BY DEF RunInv, RunnersTyped
<1>3. \A r \in Actors : runner'[r] = Free
  BY <1>1
<1>4. RunnersTyped' /\ runner'[Worker].pc = "free"
  BY <1>1, <1>2, <1>3, FreeTyped, WorkerActs DEF RunnersTyped
<1>5. /\ queue' \in Seq(SuiteIds) /\ Len(queue) \in Nat
      /\ Len(queue') = Len(queue) + Busy
  <2>1. queue \in Seq(SuiteIds)
    BY DEF RunInv, JobsKept
  <2>2. CASE runner[Worker].pc = "free"
    BY <1>1, <2>1, <2>2, WorkerActs DEF RunInv, RunnersTyped, Busy
  <2>3. CASE runner[Worker].pc # "free"
    <3>1. RowOfSuite(runner[Worker])
      BY <2>3, WorkerActs DEF RunInv, RunnersTyped, RowMatches
    <3>2. runner[Worker] # Free /\ runner[Worker].suite \in SuiteIds
      BY <2>3, <3>1, FreeTyped DEF RowOfSuite
    <3> QED
      BY <1>1, <2>1, <2>3, <3>2 DEF Busy
  <2> QED
    BY <2>2, <2>3
<1>6. JobsKept'
  BY <1>1, <1>4, <1>5 DEF RunInv, JobsKept, Busy, Jobs
<1>7. RowMatches' /\ VerdictIsRight' /\ rows' \in Seq(Rows)
  BY <1>1, <1>3, FreeTyped DEF RunInv, RowMatches, RowsApart, VerdictIsRight
<1>8. SlateInv'
  BY <1>1, <1>2, <1>3, FreeTyped DEF SlateInv, SlateOf, CleanSlate
<1> QED
  BY <1>4, <1>6, <1>7, <1>8 DEF RunInv

-----------------------------------------------------------------------------
(* Steps that concern the schedules alone.                                 *)
LEMMA PlanOnlyStep ==
    ASSUME RunInv, SlateInv, edits' \in Nat,
           UNCHANGED <<queue, runner, atmVars, nextRun, rows, jobs, manual, restarts>>
    PROVE  RunInv' /\ SlateInv'
<1>1. /\ UNCHANGED <<runner, session, foreign, disturbed, nextRun, rows>>
      /\ UNCHANGED <<queue, jobs, manual, restarts>>
  BY DEF atmVars
<1>2. RunInv'
  BY <1>1 DEF RunInv, RunnersTyped, RowMatches, RowOfSuite, RowsApart, VerdictIsRight, JobsKept, Busy
<1>3. SlateInv'
  BY <1>1 DEF SlateInv, SlateOf, CleanSlate
<1> QED
  BY <1>2, <1>3

LEMMA EditsCount ==
    ASSUME RunInv, SlateInv, NEW r \in Consoles, NEW s \in SuiteIds, NEW row, EditSuite(r, s, row)
    PROVE  RunInv' /\ SlateInv'
<1>1. edits' \in Nat
  BY DEF EditSuite, RunInv, JobsKept
<1> QED
  BY <1>1, PlanOnlyStep DEF EditSuite

LEMMA SyncOnlyStep ==
    ASSUME RunInv, SlateInv, NEW r \in Actors,
           ReadPlan(r) \/ RemoveStale(r) \/ AddWanted(r) \/ SyncEnds(r) \/ SyncRejects(r)
    PROVE  RunInv' /\ SlateInv'
<1>1. syncUnchanged' = syncUnchanged
  BY DEF ReadPlan, RemoveStale, AddWanted, SyncEnds, SyncRejects
<1>2. edits' = edits /\ UNCHANGED <<queue, runner, atmVars, nextRun, rows, jobs, manual, restarts>>
  BY <1>1 DEF syncUnchanged
<1>3. edits' \in Nat
  BY <1>2 DEF RunInv, JobsKept
<1> QED
  BY <1>2, <1>3, PlanOnlyStep

LEMMA SuitesInit == Init => SuitesInv
BY RunInit, PlanInit DEF SuitesInv

LEMMA PlanUntouched ==
    ASSUME PlanInv, UNCHANGED planVars
    PROVE  PlanInv'
<1>1. UNCHANGED <<suite, repeatables, sync, whole, inline>>
  BY DEF planVars
<1> QED
  BY <1>1 DEF PlanInv, PlanTyped, PlanRight, Complete, Unwanted, WantedJobs, Wanted

LEMMA SuiteStepKeeps ==
    ASSUME SuitesInv, NEW r \in Actors, SuiteStep(r)
    PROVE  SuitesInv'
<1>1. UNCHANGED planVars
  BY DEF SuiteStep, SafeCancel, BeginMacro, StepPasses, StepFails, SuiteMacroEnds, SuiteEnds
<1>2. RunInv' /\ SlateInv'
  BY SafeCancelStep, BeginMacroStep, MacroStepStep, SuiteMacroEndsStep, SuiteEndsStep
  DEF SuitesInv, SuiteStep
<1> QED
  BY <1>1, <1>2, PlanUntouched, SMTT(30) DEF SuitesInv

LEMMA SuitesStep == SuitesInv /\ [Next]_vars => SuitesInv'
<1> SUFFICES ASSUME SuitesInv, [Next]_vars PROVE SuitesInv'
  OBVIOUS
<1>0. RunInv /\ SlateInv /\ PlanInv
  BY DEF SuitesInv
<1>1. ASSUME NEW s \in SuiteIds, RunNow(s) \/ JobDue(s) PROVE SuitesInv'
  <2>1. Enqueue(s) /\ UNCHANGED planVars
    BY <1>1 DEF RunNow, JobDue, Enqueue
  <2> QED
    BY <1>0, <2>1, EnqueueStep, PlanUntouched DEF SuitesInv
<1>2. CASE WorkerStep
  <2>1. CASE RunSuite
    <3>1. UNCHANGED planVars
      BY <2>1 DEF RunSuite
    <3> QED
      BY <1>0, <2>1, <3>1, RunSuiteStep, PlanUntouched DEF SuitesInv
  <2>2. CASE SuiteStep(Worker)
    BY <2>2, WorkerActs, SuiteStepKeeps
  <2> QED
    BY <1>2, <2>1, <2>2 DEF WorkerStep
<1>3. ASSUME NEW r \in Consoles,
             \/ \E m \in DOMAIN Steps : RunFromConsole(r, m)
             \/ \E s \in SuiteIds : RunInline(r, s)
             \/ ConsoleMacroEnds(r)
      PROVE  SuitesInv'
  <2>1. UNCHANGED planVars
    BY <1>3 DEF RunFromConsole, RunInline, ConsoleMacroEnds
  <2>2. RunInv' /\ SlateInv'
    BY <1>0, <1>3, RunFromConsoleStep, RunInlineStep, ConsoleMacroEndsStep
  <2> QED
    BY <1>0, <2>1, <2>2, PlanUntouched DEF SuitesInv
<1>4. ASSUME NEW r \in Consoles, SuiteStep(r) PROVE SuitesInv'
  BY <1>4, WorkerActs, SuiteStepKeeps
<1>5. ASSUME NEW r \in Consoles, NEW s \in SuiteIds,
             \/ \E e \in Enabling, c \in CronTexts :
                  CreateSuite(r, s, e, c) \/ UpdateSuite(r, s, e, c)
             \/ RemoveSuite(r, s)
      PROVE  SuitesInv'
  <2>1. \E row : EditSuite(r, s, row)
    BY <1>5 DEF CreateSuite, UpdateSuite, RemoveSuite
  <2>2. RunInv' /\ SlateInv'
    BY <1>0, <2>1, EditsCount
  <2>3. PlanInv'
    BY <1>0, <1>5, ControllerKeepsPlan
  <2> QED
    BY <2>2, <2>3 DEF SuitesInv
<1>6. ASSUME NEW r \in Actors, ReadPlan(r) \/ RemoveStale(r) \/ AddWanted(r) \/ SyncEnds(r)
      PROVE  SuitesInv'
  <2>1. PlanInv'
    BY <1>0, <1>6, ReadKeepsPlan, RemoveKeepsPlan, AddKeepsPlan, EndKeepsPlan
  <2> QED
    BY <1>0, <1>6, <2>1, SyncOnlyStep DEF SuitesInv
<1>7. ASSUME NEW r \in Consoles, SyncRejects(r) PROVE SuitesInv'
  <2>1. PlanInv'
    BY <1>0, <1>7, RejectKeepsPlan
  <2> QED
    BY <1>0, <1>7, <2>1, WorkerActs, SyncOnlyStep DEF SuitesInv
<1>8. CASE IdleTimeout
  <2>1. /\ session' = 0 /\ UNCHANGED planVars /\ edits' = edits
        /\ UNCHANGED <<runner, foreign, disturbed, nextRun, rows>>
        /\ UNCHANGED <<queue, jobs, manual, restarts>>
    BY <1>8 DEF IdleTimeout, planVars
  <2>2. nextRun \in Nat \ {0}
    BY <1>0 DEF RunInv, RunnersTyped
  <2>3. RunInv'
    BY <1>0, <2>1 DEF RunInv, RunnersTyped, RowMatches, RowOfSuite, RowsApart, VerdictIsRight,
                      JobsKept, Busy
  <2>4. SlateInv'
    BY <1>0, <2>1, <2>2 DEF SlateInv, SlateOf, CleanSlate
  <2> QED
    BY <1>0, <2>1, <2>3, <2>4, PlanUntouched DEF SuitesInv
<1>9. CASE BootRejects
  <2>1. Gone /\ restarts' = restarts
    BY <1>9 DEF BootRejects
  <2>2. restarts' \in 0 .. MaxRestart
    BY <1>0, <2>1 DEF RunInv, JobsKept
  <2> QED
    BY <1>0, <1>9, <2>1, <2>2, GoneStep, RejectKeepsPlan DEF SuitesInv
<1>10. CASE Restart
  <2>1. Gone /\ restarts < MaxRestart /\ restarts' = restarts + 1
    BY <1>10 DEF Restart, Boot
  <2>2. restarts' \in 0 .. MaxRestart
    BY <1>0, <2>1, SuitesAssumption DEF RunInv, JobsKept
  <2> QED
    BY <1>0, <1>10, <2>1, <2>2, GoneStep, RestartKeepsPlan DEF SuitesInv
<1>11. CASE UNCHANGED vars
  <2>1. /\ UNCHANGED planVars /\ edits' = edits
        /\ UNCHANGED <<queue, runner, atmVars, nextRun, rows, jobs, manual, restarts>>
    BY <1>11 DEF vars, planVars
  <2>2. edits' \in Nat
    BY <1>0, <2>1 DEF RunInv, JobsKept
  <2> QED
    BY <1>0, <2>1, <2>2, PlanOnlyStep, PlanUntouched DEF SuitesInv
<1> QED
  BY <1>1, <1>2, <1>3, <1>4, <1>5, <1>6, <1>7, <1>8, <1>9, <1>10, <1>11 DEF Next

(* Runners, rows, jobs and schedules keep their types; in particular no    *)
(* more jobs are done than were ever enqueued, restarts included.          *)
THEOREM SuitesTypeCorrect == Spec => []TypeOK
<1>1. SuitesInv => TypeOK
  <2> SUFFICES ASSUME SuitesInv PROVE TypeOK
    OBVIOUS
  <2>1. \A r \in Actors : runner[r].pc \in {"free", "slate", "begin", "step", "final", "end"}
    BY DEF SuitesInv, RunInv, RunnersTyped, Runners
  <2>2. session \in 0 .. nextRun - 1
    BY DEF SuitesInv, RunInv, RunnersTyped, SlateInv
  <2>3. \A i \in DOMAIN rows : rows[i].status \in {"RUNNING", "PASSED", "FAILED"}
    <3>1. \A i \in DOMAIN rows : rows[i] \in Rows
      BY DEF SuitesInv, RunInv
    <3> QED
      BY <3>1 DEF Rows, Verdicts
  <2>4. jobs.added \in 0 .. MaxRequest /\ jobs.done \in 0 .. jobs.added
    <3>1. /\ jobs.added \in 0 .. MaxRequest /\ jobs.done \in Nat
          /\ jobs.done + Len(queue) + Busy = jobs.added /\ queue \in Seq(SuiteIds)
      BY DEF SuitesInv, RunInv, JobsKept, Jobs
    <3>2. Busy \in Nat /\ Len(queue) \in Nat
      BY <3>1 DEF Busy
    <3> QED
      BY <3>1, <3>2
  <2> QED
    BY <2>1, <2>2, <2>3, <2>4 DEF TypeOK, SuitesInv, RunInv, JobsKept, PlanInv, PlanTyped, Schedules
<1> QED
  BY <1>1, SuitesInit, SuitesStep, PTL DEF Spec

(* A suite's verdict is PASSED exactly when each of its macros ran and     *)
(* passed, for suites of any length, whatever runs beside them.            *)
THEOREM VerdictsAreRight == Spec => []VerdictIsRight
<1>1. SuitesInv => VerdictIsRight
  BY DEF SuitesInv, RunInv
<1> QED
  BY <1>1, SuitesInit, SuitesStep, PTL DEF Spec

(* Unless two runs overlap or a cancel fails, no step of a suite acts on   *)
(* the session of another macro.                                           *)
THEOREM SlateIsClean == Spec => []CleanSlate
<1>1. SuitesInv => CleanSlate
  BY DEF SuitesInv, SlateInv
<1> QED
  BY <1>1, SuitesInit, SuitesStep, PTL DEF Spec

(* After a sync that nothing came between, no overlap and no refused call, *)
(* each wanted suite has its repeatable job and no other suite has one,    *)
(* whatever earlier syncs had left behind.                                 *)
THEOREM SchedulesFollow == Spec => []SchedulesMatch
<1>1. SuitesInv => SchedulesMatch
  <2> SUFFICES ASSUME SuitesInv, whole, ~ inline, \A r \in Actors : sync[r] = NoSync
               PROVE  /\ WantedJobs \subseteq repeatables
                      /\ \A x \in repeatables : x[1] \in Wanted
    BY DEF SchedulesMatch
  <2>1. \A r \in Actors : sync[r].pc = "none"
    BY NoSyncTyped
  <2>2. Complete({}, {})
    BY <2>1 DEF SuitesInv, PlanInv, PlanRight
  <2> QED
    BY <2>2 DEF Complete, Unwanted
<1> QED
  BY <1>1, SuitesInit, SuitesStep, PTL DEF Spec
=============================================================================
