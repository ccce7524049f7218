-------------------------- MODULE XfsDevicesProofs --------------------------
(***************************************************************************)
(* Proofs about the devices, for any commands, cards, sensors, lengths of  *)
(* PINs, paper, cassettes and denominations.                               *)
(*                                                                         *)
(* XfsDevices: its types, that digits typed for one entry never get into   *)
(* what another command hands over, and that whoever follows the events    *)
(* knows the card and the sensors.                                         *)
(* CdmDevice: that no note is lost, that only notes that were shown count  *)
(* as taken, that the greedy mix is exact, and, for notes in the           *)
(* proportions of the default cassettes, that no mix has fewer notes.      *)
(***************************************************************************)
EXTENDS XfsDevices, CdmDevice, Sums, SequenceTheorems, TLAPS

AllCommands == {"none", "UNKNOWN"} \union UNION {Commands[d] : d \in DOMAIN Commands}

CallRecord ==
    [cmd : AllCommands, phase : {"new", "delay", "entry", "log", "done"},
     result : {"none", "ok", "error"}, digits : Seq(Calls)]

(* A command has a result, and may have digits, from its answer on.        *)
CallsTyped ==
    /\ device \in DOMAIN Commands
    /\ call \in [Calls -> CallRecord]
    /\ \A c \in Calls : /\ call[c].phase \in {"log", "done"} <=> call[c].result # "none"
                        /\ call[c].result = "none" => call[c].digits = <<>>

(* One entry at most is active, of a command that makes one, and what is   *)
(* buffered meanwhile was typed for it.                                    *)
EntryTyped ==
    /\ entry \in Calls \union {NoCall}
    /\ \A c \in Calls : call[c].phase = "entry" <=> entry = c
    /\ pinBuffer \in Seq(Calls) /\ Len(pinBuffer) <= MaxLen
    /\ entry # NoCall => /\ call[entry].cmd \in {"GET_PIN", "GET_DATA"}
                         /\ \A i \in 1 .. Len(pinBuffer) : pinBuffer[i] = entry

(* The buffer never mixes the digits of two entries, active or not.        *)
OneEntryBuffered == \A i, j \in 1 .. Len(pinBuffer) : pinBuffer[i] = pinBuffer[j]

PinInv == CallsTyped /\ EntryTyped /\ OneEntryBuffered /\ DigitsStayApart

(* The device's other state.                                               *)
OthersTyped ==
    /\ card \in Cards \union {NoCard}
    /\ paper \in 0 .. Capacity
    /\ history \in Seq(Calls) /\ Len(history) <= History
    /\ presented \subseteq Calls
    /\ siu \in [sensors : [Sensors -> Readings], mode : {"NORMAL", "SUPERVISOR"}, events : BOOLEAN]
    /\ told \in [card : Cards \union {NoCard}, sensors : [Sensors -> Readings]]
    /\ silent \in BOOLEAN

(* Events are disabled by a command only, and that one is remembered.      *)
EventsOn == ~ silent => siu.events

DeviceInv == PinInv /\ OthersTyped /\ EventsOn /\ ListenerIsRight

-----------------------------------------------------------------------------
LEMMA DomainOfSeq ==
    ASSUME NEW S, NEW s \in Seq(S)
    PROVE  DOMAIN s = 1 .. Len(s) /\ Len(s) \in Nat /\ \A i \in 1 .. Len(s) : s[i] \in S
OBVIOUS

LEMMA NoDigits ==
    ASSUME NEW S
    PROVE  <<>> \in Seq(S) /\ Len(<<>>) = 0 /\ DOMAIN <<>> = {}
OBVIOUS

LEMMA DigitsInit == Init => DeviceInv
<1> SUFFICES ASSUME Init PROVE DeviceInv
  OBVIOUS
<1> USE DevicesAssumption DEF Init
<1>1. \A c \in Calls : call[c].cmd = "none" /\ call[c].phase = "new" /\ call[c].result = "none"
                       /\ call[c].digits = <<>>
  OBVIOUS
<1>2. call \in [Calls -> CallRecord]
  BY DEF CallRecord, AllCommands
<1>3. CallsTyped
  BY <1>1, <1>2 DEF CallsTyped
<1>4. EntryTyped /\ OneEntryBuffered
  BY <1>1 DEF EntryTyped, OneEntryBuffered
<1>5. DigitsStayApart
  BY <1>1 DEF DigitsStayApart, BufferIsAcceptedPin
<1>6. OthersTyped
  <2>1. /\ siu \in [sensors : [Sensors -> Readings], mode : {"NORMAL", "SUPERVISOR"}, events : BOOLEAN]
        /\ siu.sensors \in [Sensors -> Readings]
    BY DEF Default, Readings
  <2>2. told \in [card : Cards \union {NoCard}, sensors : [Sensors -> Readings]]
    BY <2>1
  <2>3. history \in Seq(Calls) /\ Len(history) <= History
    BY NoDigits
  <2>4. card \in Cards \union {NoCard} /\ paper \in 0 .. Capacity /\ presented \subseteq Calls
    OBVIOUS
  <2>5. silent \in BOOLEAN
    BY Zenon
  <2> HIDE DEF Init
  <2> QED
    BY <2>1, <2>2, <2>3, <2>4, <2>5 DEF OthersTyped
<1>7. EventsOn /\ ListenerIsRight
  BY DEF EventsOn, ListenerIsRight, Default
<1> QED
  BY <1>3, <1>4, <1>5, <1>6, <1>7 DEF DeviceInv, PinInv

(* Settled changes one command, which has its answer then.                 *)
LEMMA SettledFacts ==
    ASSUME NEW calls \in [Calls -> CallRecord], NEW c \in Calls,
           NEW r \in {"ok", "error"}, NEW d \in Seq(Calls)
    PROVE  /\ Settled(calls, c, r, d) \in [Calls -> CallRecord]
           /\ Settled(calls, c, r, d)[c].cmd = calls[c].cmd
           /\ Settled(calls, c, r, d)[c].phase = "log"
           /\ Settled(calls, c, r, d)[c].result = r
           /\ Settled(calls, c, r, d)[c].digits = d
           /\ \A x \in Calls : x # c => Settled(calls, c, r, d)[x] = calls[x]
BY ZenonT(40) DEF Settled, CallRecord

(* The answer to a command other than the active entry's, whose digits, if *)
(* it hands over any, are of one entry, and its own when it is a data      *)
(* entry.                                                                  *)
LEMMA SettleStep ==
    ASSUME PinInv, NEW c \in Calls, call[c].phase = "delay",
           NEW r \in {"ok", "error"}, NEW d \in {<<>>, pinBuffer},
           d = <<>> \/ call[c].cmd # "GET_DATA",
           call' = Settled(call, c, r, d), device' = device, entry' = entry,
           pinBuffer' = pinBuffer \/ pinBuffer' = <<>>
    PROVE  PinInv'
<1> USE DevicesAssumption
<1>0. d \in Seq(Calls)
  BY NoDigits DEF PinInv, EntryTyped
<1>1. /\ call' \in [Calls -> CallRecord]
      /\ call'[c].cmd = call[c].cmd /\ call'[c].phase = "log"
      /\ call'[c].result = r /\ call'[c].digits = d
      /\ \A x \in Calls : x # c => call'[x] = call[x]
  BY <1>0, SettledFacts DEF PinInv, CallsTyped
<1>2. call[c].result = "none" /\ entry # c
  BY DEF PinInv, CallsTyped, EntryTyped, CallRecord
<1>3. CallsTyped'
  BY <1>1 DEF PinInv, CallsTyped
<1>4. pinBuffer' \in Seq(Calls) /\ Len(pinBuffer') <= MaxLen
  <2>1. pinBuffer \in Seq(Calls) /\ Len(pinBuffer) <= MaxLen
    BY DEF PinInv, EntryTyped
  <2>2. <<>> \in Seq(Calls) /\ Len(<<>>) <= MaxLen
    OBVIOUS
  <2>3. CASE pinBuffer' = pinBuffer
    BY <2>1, <2>3
  <2>4. CASE pinBuffer' = <<>>
    BY <2>2, <2>4
  <2> QED
    BY <2>3, <2>4
<1>5. /\ pinBuffer' = pinBuffer \/ Len(pinBuffer') = 0
      /\ Len(pinBuffer) \in Nat /\ DOMAIN pinBuffer = 1 .. Len(pinBuffer)
      /\ DOMAIN pinBuffer' = 1 .. Len(pinBuffer')
  BY <1>4, DomainOfSeq DEF PinInv, EntryTyped
<1>6. \A x \in Calls : call'[x].phase = "entry" <=> entry' = x
  BY <1>1, <1>2 DEF PinInv, EntryTyped
<1>7. EntryTyped'
  BY <1>1, <1>2, <1>4, <1>5, <1>6 DEF PinInv, EntryTyped
<1>8. OneEntryBuffered'
  BY <1>5 DEF PinInv, OneEntryBuffered
<1>9. BufferIsAcceptedPin'
  <2>1. \A i \in DOMAIN pinBuffer : entry = NoCall => pinBuffer[i] # c
    BY <1>2 DEF PinInv, DigitsStayApart, BufferIsAcceptedPin
  <2>2. \A i \in DOMAIN pinBuffer : pinBuffer[i] \in Calls
    BY DomainOfSeq DEF PinInv, EntryTyped
  <2> QED
    BY <1>1, <1>5, <2>1, <2>2 DEF PinInv, DigitsStayApart, BufferIsAcceptedPin
<1>10. \A i, j \in DOMAIN d : d[i] = d[j]
  BY <1>5 DEF PinInv, OneEntryBuffered
<1>11. call[c].cmd = "GET_DATA" => \A i \in DOMAIN d : d[i] = c
  BY NoDigits
<1>12. DigitsStayApart'
  BY <1>1, <1>9, <1>10, <1>11 DEF PinInv, DigitsStayApart
<1> QED
  BY <1>3, <1>7, <1>8, <1>12 DEF PinInv

(* A new command, and the log of an answered one, leave every entry alone. *)
LEMMA BookkeepingStep ==
    ASSUME PinInv, NEW c \in Calls,
           PersistCommandLog(c) \/ \E cmd \in Commands[device] \union {"UNKNOWN"} : Execute(c, cmd)
    PROVE  PinInv'
<1> USE DevicesAssumption
<1>1. /\ call' \in [Calls -> CallRecord]
      /\ \A x \in Calls : x # c => call'[x] = call[x]
      /\ call'[c].digits = call[c].digits
      /\ call'[c].phase # "entry" /\ call[c].phase # "entry"
      /\ call'[c].phase \in {"log", "done"} <=> call'[c].result # "none"
      /\ UNCHANGED <<device, entry, pinBuffer>>
      /\ call[c].result = "none" => call[c].digits = <<>>
      /\ call[c].result # "none" => call'[c].cmd = call[c].cmd /\ call'[c].result = call[c].result
  <2>0. call \in [Calls -> CallRecord] /\ device \in DOMAIN Commands
    BY DEF PinInv, CallsTyped
  <2>1. CASE PersistCommandLog(c)
    BY <2>0, <2>1 DEF PersistCommandLog, PinInv, CallsTyped, CallRecord, pinVars
  <2>2. ASSUME NEW cmd \in Commands[device] \union {"UNKNOWN"}, Execute(c, cmd)
        PROVE  <1>1!:
    <3>1. cmd \in AllCommands
      BY <2>0, <2>2, Zenon DEF AllCommands
    <3>2. call[c].phase = "new" /\ call[c].result = "none"
      BY <2>0, <2>2 DEF Execute, PinInv, CallsTyped
    <3>3. PICK k \in CallRecord : /\ call' = [call EXCEPT ![c] = k] /\ k.digits = call[c].digits
                                  /\ \/ k.phase = "log" /\ k.result = "error"
                                     \/ k.phase = "delay" /\ k.result = "none"
      <4>1. CASE cmd = "UNKNOWN"
        <5> DEFINE k == [call[c] EXCEPT !.cmd = cmd, !.phase = "log", !.result = "error"]
        <5>1. k \in CallRecord /\ k.digits = call[c].digits /\ k.phase = "log" /\ k.result = "error"
          BY <2>0, <3>1 DEF CallRecord
        <5>2. call' = [call EXCEPT ![c] = k]
          BY <2>2, <4>1 DEF Execute
        <5> QED
          BY <5>1, <5>2
      <4>2. CASE cmd # "UNKNOWN"
        <5> DEFINE k == [call[c] EXCEPT !.cmd = cmd, !.phase = "delay"]
        <5>1. k \in CallRecord /\ k.digits = call[c].digits /\ k.phase = "delay" /\ k.result = "none"
          BY <2>0, <3>1, <3>2 DEF CallRecord
        <5>2. call' = [call EXCEPT ![c] = k]
          BY <2>2, <4>2 DEF Execute
        <5> QED
          BY <5>1, <5>2
      <4> QED
        BY <4>1, <4>2
    <3>4. call' \in [Calls -> CallRecord] /\ call'[c] = k /\ \A x \in Calls : x # c => call'[x] = call[x]
      BY <2>0, <3>3
    <3>5. call[c].digits = <<>>
      BY <3>2 DEF PinInv, CallsTyped
    <3> QED
      BY <2>2, <3>2, <3>3, <3>4, <3>5 DEF Execute, pinVars
  <2> QED
    BY <2>1, <2>2
<1>2. CallsTyped'
  <2>1. call'[c].result = "none" => call'[c].digits = <<>>
    BY <1>1
  <2> QED
    BY <1>1, <2>1 DEF PinInv, CallsTyped
<1>3. EntryTyped'
  BY <1>1 DEF PinInv, EntryTyped
<1>4. BufferIsAcceptedPin'
  <2>1. \A i \in DOMAIN pinBuffer : pinBuffer[i] \in Calls
    BY DomainOfSeq DEF PinInv, EntryTyped
  <2> QED
    BY <1>1, <2>1 DEF PinInv, DigitsStayApart, BufferIsAcceptedPin
<1>5. ASSUME NEW x \in Calls
      PROVE  /\ call'[x].cmd = "GET_DATA" => \A i \in DOMAIN call'[x].digits : call'[x].digits[i] = x
             /\ \A i, j \in DOMAIN call'[x].digits : call'[x].digits[i] = call'[x].digits[j]
  <2>1. CASE x = c /\ call[c].result = "none"
    BY <1>1, <2>1, NoDigits
  <2>2. CASE ~ (x = c /\ call[c].result = "none")
    BY <1>1, <2>2 DEF PinInv, DigitsStayApart
  <2> QED
    BY <2>1, <2>2
<1> QED
  BY <1>1, <1>2, <1>3, <1>4, <1>5 DEF PinInv, OneEntryBuffered, DigitsStayApart

(* Cancelled answers the active entry, if there is one, without digits.    *)
LEMMA CancelledFacts ==
    ASSUME PinInv
    PROVE  /\ Cancelled(call) \in [Calls -> CallRecord]
           /\ \A x \in Calls : Cancelled(call)[x].phase # "entry"
           /\ \A x \in Calls : x # entry => Cancelled(call)[x] = call[x]
           /\ \A x \in Calls : x = entry =>
                 /\ Cancelled(call)[x].phase = "log" /\ Cancelled(call)[x].result = "error"
                 /\ Cancelled(call)[x].digits = <<>> /\ Cancelled(call)[x].cmd = call[x].cmd
<1> USE DevicesAssumption
<1>1. CASE entry = NoCall
  BY <1>1 DEF Cancelled, PinInv, CallsTyped, EntryTyped
<1>2. CASE entry # NoCall
  <2>1. entry \in Calls /\ Cancelled(call) = Settled(call, entry, "error", <<>>)
    BY <1>2 DEF Cancelled, PinInv, EntryTyped
  <2>2. call \in [Calls -> CallRecord] /\ <<>> \in Seq(Calls) /\ "error" \in {"ok", "error"}
    BY NoDigits DEF PinInv, CallsTyped
  <2>3. /\ Cancelled(call) \in [Calls -> CallRecord]
        /\ Cancelled(call)[entry].cmd = call[entry].cmd
        /\ Cancelled(call)[entry].phase = "log"
        /\ Cancelled(call)[entry].result = "error"
        /\ Cancelled(call)[entry].digits = <<>>
        /\ \A x \in Calls : x # entry => Cancelled(call)[x] = call[x]
    <3> DEFINE n == Settled(call, entry, "error", <<>>)
    <3>1. /\ n \in [Calls -> CallRecord]
          /\ n[entry].cmd = call[entry].cmd /\ n[entry].phase = "log"
          /\ n[entry].result = "error" /\ n[entry].digits = <<>>
          /\ \A x \in Calls : x # entry => n[x] = call[x]
      <4>1. entry \in Calls
        BY <2>1
      <4>2. n \in [Calls -> CallRecord]
        BY <2>2, <4>1, ZenonT(40) DEF Settled, CallRecord
      <4>3. n[entry] = [call[entry] EXCEPT !.phase = "log", !.result = "error", !.digits = <<>>]
        BY <2>2, <4>1 DEF Settled, CallRecord
      <4>4. call[entry] \in CallRecord
        BY <2>2, <4>1
      <4>5. \A x \in Calls : x # entry => n[x] = call[x]
        BY <2>2, <4>1 DEF Settled
      <4> HIDE DEF n
      <4> QED
        BY <4>2, <4>3, <4>4, <4>5 DEF CallRecord
    <3> HIDE DEF n
    <3> QED
      BY <2>1, <3>1 DEF n
  <2> QED
    BY <2>1, <2>3 DEF PinInv, EntryTyped
<1> QED
  BY <1>1, <1>2

(* A key or the timer ends the active entry without an answer, a RESET     *)
(* does and is answered itself, a new entry supersedes it: the buffer is   *)
(* empty then.                                                             *)
LEMMA SupersedeStep ==
    ASSUME PinInv, CancelEntry \/ \E c \in Calls : Reset(c) \/ BeginEntry(c)
    PROVE  PinInv'
<1> USE DevicesAssumption
<1>0. /\ device' = device /\ pinBuffer' = <<>>
      /\ entry' \in Calls \union {NoCall}
      /\ call' \in [Calls -> CallRecord]
      /\ \A x \in Calls : call'[x].phase = "entry" <=> entry' = x
      /\ entry' # NoCall => call'[entry'].cmd \in {"GET_PIN", "GET_DATA"}
      /\ \A x \in Calls : call'[x].cmd = call[x].cmd
      /\ \A x \in Calls : call'[x].phase \in {"log", "done"} <=> call'[x].result # "none"
      /\ \A x \in Calls : call'[x].digits = call[x].digits \/ call'[x].digits = <<>>
      /\ \A x \in Calls : call'[x].result = "none" => call[x].result = "none"
  <2> USE CancelledFacts
  <2>1. CASE CancelEntry
    BY <2>1 DEF CancelEntry, EntryActive, PinInv, CallsTyped, EntryTyped
  <2>2. ASSUME NEW c \in Calls, Reset(c) PROVE <1>0!:
    <3>1. call[c].phase = "delay" /\ c # entry /\ call' = Settled(Cancelled(call), c, "ok", <<>>)
      BY <2>2 DEF Reset, PinInv, EntryTyped
    <3>2. /\ call' \in [Calls -> CallRecord]
          /\ call'[c].cmd = call[c].cmd /\ call'[c].phase = "log"
          /\ call'[c].result = "ok" /\ call'[c].digits = <<>>
          /\ \A x \in Calls : x # c => call'[x] = Cancelled(call)[x]
      <4>1. Cancelled(call) \in [Calls -> CallRecord] /\ Cancelled(call)[c].cmd = call[c].cmd
        BY <3>1
      <4>2. <<>> \in Seq(Calls) /\ "ok" \in {"ok", "error"}
        BY NoDigits
      <4> HIDE CancelledFacts
      <4> QED
        BY <3>1, <4>1, <4>2, ZenonT(40) DEF Settled, CallRecord
    <3> QED
      BY <2>2, <3>1, <3>2 DEF Reset, PinInv, CallsTyped
  <2>3. ASSUME NEW c \in Calls, BeginEntry(c) PROVE <1>0!:
    <3>1. /\ call[c].phase = "delay" /\ c # entry /\ call[c].cmd \in {"GET_PIN", "GET_DATA"}
          /\ call' = [Cancelled(call) EXCEPT ![c].phase = "entry"]
          /\ entry' = c /\ pinBuffer' = <<>> /\ device' = device
      BY <2>3 DEF BeginEntry, Runs, PinInv, EntryTyped
    <3>2. /\ call' \in [Calls -> CallRecord]
          /\ call'[c].cmd = call[c].cmd /\ call'[c].phase = "entry"
          /\ call'[c].result = call[c].result /\ call'[c].digits = call[c].digits
          /\ \A x \in Calls : x # c => call'[x] = Cancelled(call)[x]
      BY <3>1, ZenonT(40) DEF CallRecord
    <3> QED
      BY <3>1, <3>2 DEF PinInv, CallsTyped
  <2> QED
    BY <2>1, <2>2, <2>3
<1>1. CallsTyped'
  BY <1>0 DEF PinInv, CallsTyped
<1>2. EntryTyped' /\ OneEntryBuffered' /\ BufferIsAcceptedPin'
  BY <1>0, NoDigits DEF EntryTyped, OneEntryBuffered, BufferIsAcceptedPin
<1>3. ASSUME NEW x \in Calls
      PROVE  /\ call'[x].cmd = "GET_DATA" => \A i \in DOMAIN call'[x].digits : call'[x].digits[i] = x
             /\ \A i, j \in DOMAIN call'[x].digits : call'[x].digits[i] = call'[x].digits[j]
  BY <1>0, NoDigits DEF PinInv, DigitsStayApart
<1> QED
  BY <1>1, <1>2, <1>3 DEF PinInv, DigitsStayApart

(* terminateEntry: a PIN stays in the buffer and belongs to an accepted    *)
(* entry; data is handed over and was typed for the very command.          *)
LEMMA TerminateStep ==
    ASSUME PinInv, NEW e \in Calls, entry = e, NEW digits \in Seq(Calls), Len(digits) <= MaxLen,
           \A i \in 1 .. Len(digits) : digits[i] = e,
           TerminateEntry(digits), device' = device
    PROVE  PinInv'
<1> USE DevicesAssumption
<1>1. call[e].phase = "entry" /\ call[e].cmd \in {"GET_PIN", "GET_DATA"} /\ e # NoCall
  BY DEF PinInv, EntryTyped
<1>2. PICK d \in Seq(Calls) :
         /\ call' = Settled(call, e, "ok", d)
         /\ \/ call[e].cmd = "GET_PIN" /\ d = <<>> /\ pinBuffer' = digits
            \/ call[e].cmd = "GET_DATA" /\ d = digits /\ pinBuffer' = <<>>
  <2>1. CASE call[e].cmd = "GET_PIN"
    <3>1. call' = Settled(call, e, "ok", <<>>) /\ pinBuffer' = digits
      BY <2>1 DEF TerminateEntry
    <3> QED
      BY <2>1, <3>1, NoDigits
  <2>2. CASE call[e].cmd = "GET_DATA"
    <3>1. call' = Settled(call, e, "ok", digits) /\ pinBuffer' = <<>>
      BY <2>2 DEF TerminateEntry
    <3> QED
      BY <2>2, <3>1
  <2> QED
    BY <1>1, <2>1, <2>2
<1>3. /\ call' \in [Calls -> CallRecord]
      /\ call'[e].cmd = call[e].cmd /\ call'[e].phase = "log"
      /\ call'[e].result = "ok" /\ call'[e].digits = d
      /\ \A x \in Calls : x # e => call'[x] = call[x]
  BY <1>2, SettledFacts DEF PinInv, CallsTyped
<1>4. entry' = NoCall
  BY DEF TerminateEntry
<1>5. /\ pinBuffer' \in Seq(Calls) /\ Len(pinBuffer') <= MaxLen
      /\ DOMAIN pinBuffer' = 1 .. Len(pinBuffer')
      /\ \A i \in 1 .. Len(pinBuffer') : pinBuffer'[i] = e /\ call[e].cmd = "GET_PIN"
  <2>1. CASE pinBuffer' = digits /\ call[e].cmd = "GET_PIN"
    BY <2>1
  <2>2. CASE pinBuffer' = <<>>
    BY <2>2, NoDigits
  <2> QED
    BY <1>2, <2>1, <2>2
<1>6. CallsTyped'
  BY <1>3 DEF PinInv, CallsTyped
<1>7. EntryTyped'
  BY <1>1, <1>3, <1>4, <1>5 DEF PinInv, EntryTyped
<1>8. OneEntryBuffered' /\ BufferIsAcceptedPin'
  BY <1>3, <1>5 DEF OneEntryBuffered, BufferIsAcceptedPin
<1>9. \A i \in DOMAIN d : d[i] = e
  BY <1>2, NoDigits, DomainOfSeq
<1>10. DigitsStayApart'
  BY <1>3, <1>8, <1>9 DEF PinInv, DigitsStayApart
<1> QED
  BY <1>6, <1>7, <1>8, <1>10 DEF PinInv

(* Keys go to the active entry.                                            *)
LEMMA KeyStep ==
    ASSUME PinInv, PressEnter \/ PressClear \/ \E autoEnd \in BOOLEAN : PressDigit(autoEnd)
    PROVE  PinInv'
<1> USE DevicesAssumption
<1>0. PICK e \in Calls : e = entry
  BY DEF PressEnter, PressClear, PressDigit, EntryActive, PinInv, EntryTyped
<1>1. /\ device' = device /\ e # NoCall
      /\ pinBuffer \in Seq(Calls) /\ Len(pinBuffer) <= MaxLen
      /\ \A i \in 1 .. Len(pinBuffer) : pinBuffer[i] = e
  BY <1>0 DEF PressEnter, PressClear, PressDigit, EntryActive, PinInv, EntryTyped
<1>2. CASE PressEnter
  <2>1. TerminateEntry(pinBuffer)
    BY <1>2 DEF PressEnter
  <2> QED
    BY <1>0, <1>1, <2>1, TerminateStep
<1>3. CASE PressClear
  <2>1. pinBuffer' = <<>> /\ UNCHANGED <<device, call, entry>>
    BY <1>1, <1>3 DEF PressClear
  <2> QED
    BY <1>0, <1>1, <2>1, NoDigits
    DEF PinInv, CallsTyped, EntryTyped, OneEntryBuffered, DigitsStayApart, BufferIsAcceptedPin
<1>4. ASSUME NEW autoEnd \in BOOLEAN, PressDigit(autoEnd) PROVE PinInv'
  <2> DEFINE typed == Append(pinBuffer, e)
  <2>1. Len(pinBuffer) < MaxLen
    BY <1>4 DEF PressDigit
  <2>2. /\ typed \in Seq(Calls) /\ Len(typed) <= MaxLen /\ DOMAIN typed = 1 .. Len(typed)
        /\ \A i \in 1 .. Len(typed) : typed[i] = e
    BY <1>1, <2>1
  <2>3. \/ TerminateEntry(typed)
        \/ pinBuffer' = typed /\ UNCHANGED <<call, entry>>
    BY <1>0, <1>4 DEF PressDigit
  <2> HIDE DEF typed
  <2>4. CASE TerminateEntry(typed)
    BY <1>0, <1>1, <2>2, <2>4, TerminateStep
  <2>5. CASE pinBuffer' = typed /\ UNCHANGED <<call, entry>>
    BY <1>0, <1>1, <2>2, <2>5
    DEF PinInv, CallsTyped, EntryTyped, OneEntryBuffered, DigitsStayApart, BufferIsAcceptedPin
  <2> QED
    BY <2>3, <2>4, <2>5
<1> QED
  BY <1>2, <1>3, <1>4

(* A command other than an entry is answered; the buffer is handed over in *)
(* the PIN block or kept.                                                  *)
LEMMA AnswerStep ==
    ASSUME PinInv, NEW c \in Calls,
           \/ ThrowInjected(c) \/ Other(c) \/ ReadTrack(c) \/ CardLeaves(c)
           \/ GetPinBlock(c) \/ PrintReceipt(c) \/ SwitchEvents(c)
    PROVE  PinInv'
<1>1. device' = device /\ entry' = entry /\ call[c].phase = "delay"
  BY DEF ThrowInjected, Other, ReadTrack, CardLeaves, GetPinBlock, PrintReceipt, SwitchEvents, Runs, pinVars
<1>2. CASE call' = Settled(call, c, "ok", pinBuffer) /\ pinBuffer' = <<>> /\ call[c].cmd = "GET_PINBLOCK"
  BY <1>1, <1>2, SettleStep
<1>3. CASE Answer(c, TRUE) /\ pinBuffer' = pinBuffer
  <2>1. call' = Settled(call, c, "ok", <<>>)
    BY <1>3 DEF Answer
  <2> QED
    BY <1>1, <1>3, <2>1, SettleStep
<1>4. CASE Answer(c, FALSE) /\ pinBuffer' = pinBuffer
  <2>1. call' = Settled(call, c, "error", <<>>)
    BY <1>4 DEF Answer
  <2> QED
    BY <1>1, <1>4, <2>1, SettleStep
<1>5. CASE GetPinBlock(c)
  BY <1>2, <1>4, <1>5 DEF GetPinBlock, Runs
<1>6. CASE ThrowInjected(c)
  BY <1>4, <1>6 DEF ThrowInjected, pinVars
<1>7. CASE Other(c) \/ ReadTrack(c) \/ CardLeaves(c) \/ PrintReceipt(c) \/ SwitchEvents(c)
  <2>1. pinBuffer' = pinBuffer
    BY <1>7 DEF Other, ReadTrack, CardLeaves, PrintReceipt, SwitchEvents, pinVars
  <2>2. PICK ok \in BOOLEAN : Answer(c, ok)
    <3>1. CASE Other(c)
      BY <3>1 DEF Other
    <3>2. CASE ReadTrack(c) \/ CardLeaves(c)
      <4>1. Answer(c, card # NoCard) /\ (card # NoCard) \in BOOLEAN
        BY <3>2 DEF ReadTrack, CardLeaves
      <4> QED
        BY <4>1
    <3>3. CASE PrintReceipt(c)
      <4>1. Answer(c, paper > 0) /\ (paper > 0) \in BOOLEAN
        BY <3>3 DEF PrintReceipt
      <4> QED
        BY <4>1
    <3>4. CASE SwitchEvents(c)
      BY <3>4 DEF SwitchEvents
    <3> QED
      BY <1>7, <3>1, <3>2, <3>3, <3>4
  <2> QED
    BY <1>3, <1>4, <2>1, <2>2
<1> QED
  BY <1>5, <1>6, <1>7

LEMMA PinStep == PinInv /\ [Next]_vars => PinInv'
<1> SUFFICES ASSUME PinInv, [Next]_vars PROVE PinInv'
  OBVIOUS
<1>1. ASSUME NEW c \in Calls, Wake(c) PROVE PinInv'
  BY <1>1, AnswerStep, SupersedeStep DEF Wake
<1>2. ASSUME NEW c \in Calls,
             PersistCommandLog(c) \/ \E cmd \in Commands[device] \union {"UNKNOWN"} : Execute(c, cmd)
      PROVE  PinInv'
  BY <1>2, BookkeepingStep
<1>3. CASE PressEnter \/ PressClear \/ \E autoEnd \in BOOLEAN : PressDigit(autoEnd)
  BY <1>3, KeyStep
<1>4. CASE CancelEntry
  BY <1>4, SupersedeStep
<1>5. CASE ExtractEnteredPin
  BY <1>5, NoDigits, DevicesAssumption
  DEF ExtractEnteredPin, PinInv, CallsTyped, EntryTyped, OneEntryBuffered, DigitsStayApart, BufferIsAcceptedPin
<1>6. CASE \/ \E c \in Calls : MediaTaken(c)
           \/ \E k \in Cards : InsertCard(k)
           \/ ReplenishPaper \/ InjectError \/ ClearError \/ UNCHANGED vars
           \/ \E s \in Sensors, state \in Readings : SetSensor(s, state)
           \/ \E mode \in {"NORMAL", "SUPERVISOR"} : SetOperatorMode(mode)
  <2>1. UNCHANGED <<device, call, entry, pinBuffer>>
    BY <1>6 DEF MediaTaken, InsertCard, ReplenishPaper, InjectError, ClearError, SetSensor,
                SetOperatorMode, vars, pinVars
  <2> QED
    BY <2>1 DEF PinInv, CallsTyped, EntryTyped, OneEntryBuffered, DigitsStayApart, BufferIsAcceptedPin
<1> QED
  BY <1>1, <1>2, <1>3, <1>4, <1>5, <1>6 DEF Next

-----------------------------------------------------------------------------
(* The card, the paper and the sensors, and what is told of them.          *)
LEMMA OthersStep ==
    ASSUME OthersTyped, EventsOn, ListenerIsRight, [Next]_vars
    PROVE  OthersTyped' /\ EventsOn' /\ ListenerIsRight'
<1> USE DevicesAssumption
<1> DEFINE Same == UNCHANGED <<card, paper, history, presented, siu, told, silent>>
<1>1. CASE Same
  BY <1>1 DEF OthersTyped, EventsOn, ListenerIsRight
<1>2. ASSUME NEW c \in Calls, Reset(c) PROVE OthersTyped' /\ EventsOn' /\ ListenerIsRight'
  <2>1. siu' \in [sensors : [Sensors -> Readings], mode : {"NORMAL", "SUPERVISOR"}, events : BOOLEAN]
    BY <1>2 DEF Reset, Default, Readings
  <2>2. silent' = TRUE /\ silent' \in BOOLEAN
    BY <1>2, Zenon DEF Reset
  <2> QED
    BY <1>2, <2>1, <2>2 DEF Reset, ptrVars, OthersTyped, EventsOn, ListenerIsRight
<1>3. ASSUME NEW k \in Cards, InsertCard(k) PROVE OthersTyped' /\ EventsOn' /\ ListenerIsRight'
  <2>1. /\ card' = k /\ told'.card = k /\ told'.sensors = told.sensors
        /\ told' \in [card : Cards \union {NoCard}, sensors : [Sensors -> Readings]]
        /\ UNCHANGED <<paper, history, presented, siu, silent>>
    BY <1>3 DEF InsertCard, OthersTyped, ptrVars
  <2> QED
    BY <2>1 DEF OthersTyped, EventsOn, ListenerIsRight
<1>4. ASSUME NEW c \in Calls, CardLeaves(c) PROVE OthersTyped' /\ EventsOn' /\ ListenerIsRight'
  <2>1. /\ card' = NoCard /\ told'.sensors = told.sensors
        /\ told.card = card => told'.card = NoCard
        /\ told' \in [card : Cards \union {NoCard}, sensors : [Sensors -> Readings]]
        /\ UNCHANGED <<paper, history, presented, siu, silent>>
    BY <1>4 DEF CardLeaves, OthersTyped, ptrVars
  <2> QED
    BY <2>1 DEF OthersTyped, EventsOn, ListenerIsRight
<1>5. ASSUME NEW c \in Calls, PrintReceipt(c) PROVE OthersTyped' /\ EventsOn' /\ ListenerIsRight'
  <2>1. UNCHANGED <<card, siu, told, silent>>
    BY <1>5 DEF PrintReceipt, idcVars, tellVars
  <2>2. paper' \in 0 .. Capacity /\ presented' \subseteq Calls
    BY <1>5 DEF PrintReceipt, ptrVars, OthersTyped
  <2>3. history' \in Seq(Calls) /\ Len(history') <= History
    <3> DEFINE h == Append(history, c)
    <3>1. history \in Seq(Calls) /\ Len(history) <= History /\ Len(history) \in Nat
      BY DEF OthersTyped
    <3>2. h \in Seq(Calls) /\ Len(h) = Len(history) + 1
      BY <3>1
    <3>3. Tail(h) \in Seq(Calls) /\ Len(Tail(h)) = Len(history)
      BY <3>1, <3>2
    <3>4. history' = history \/ history' = (IF Len(h) > History THEN Tail(h) ELSE h)
      BY <1>5 DEF PrintReceipt, ptrVars
    <3> HIDE DEF h
    <3> QED
      BY <3>1, <3>2, <3>3, <3>4, SMTT(30)
  <2> QED
    BY <2>1, <2>2, <2>3 DEF OthersTyped, EventsOn, ListenerIsRight
<1>6. CASE ReplenishPaper \/ \E c \in Calls : MediaTaken(c)
  <2>1. /\ UNCHANGED <<card, history, siu, told, silent>>
        /\ paper' \in 0 .. Capacity /\ presented' \subseteq Calls
    BY <1>6 DEF ReplenishPaper, MediaTaken, idcVars, tellVars, OthersTyped
  <2> QED
    BY <2>1 DEF OthersTyped, EventsOn, ListenerIsRight
<1>7. ASSUME NEW s \in Sensors, NEW state \in Readings, SetSensor(s, state)
      PROVE  OthersTyped' /\ EventsOn' /\ ListenerIsRight'
  <2> DEFINE sensors == [siu.sensors EXCEPT ![s] = state]
  <2>1. siu.sensors \in [Sensors -> Readings] /\ told.sensors \in [Sensors -> Readings]
    BY DEF OthersTyped
  <2>2. siu'.sensors = sensors /\ siu'.events = siu.events
    BY <1>7 DEF SetSensor, OthersTyped
  <2>3. siu' \in [sensors : [Sensors -> Readings], mode : {"NORMAL", "SUPERVISOR"}, events : BOOLEAN]
    BY <1>7 DEF SetSensor, OthersTyped
  <2>4. UNCHANGED <<card, paper, history, presented, silent>>
    BY <1>7 DEF SetSensor, idcVars, ptrVars
  <2>5. CASE siu.events
    <3>1. /\ told'.card = told.card /\ told'.sensors = [told.sensors EXCEPT ![s] = state]
          /\ told' \in [card : Cards \union {NoCard}, sensors : [Sensors -> Readings]]
      BY <1>7, <2>5 DEF SetSensor, OthersTyped
    <3> QED
      BY <2>2, <2>3, <2>4, <2>5, <3>1 DEF OthersTyped, EventsOn, ListenerIsRight
  <2>6. CASE ~ siu.events
    <3>1. told' = told /\ silent
      BY <1>7, <2>6 DEF SetSensor, EventsOn
    <3> QED
      BY <2>3, <2>4, <3>1 DEF OthersTyped, EventsOn, ListenerIsRight
  <2> QED
    BY <2>5, <2>6
<1>8. ASSUME NEW mode \in {"NORMAL", "SUPERVISOR"}, SetOperatorMode(mode)
      PROVE  OthersTyped' /\ EventsOn' /\ ListenerIsRight'
  <2>1. /\ siu' \in [sensors : [Sensors -> Readings], mode : {"NORMAL", "SUPERVISOR"}, events : BOOLEAN]
        /\ siu'.sensors = siu.sensors /\ siu'.events = siu.events
        /\ UNCHANGED <<card, paper, history, presented, told, silent>>
    BY <1>8 DEF SetOperatorMode, OthersTyped, idcVars, ptrVars, tellVars
  <2> QED
    BY <2>1 DEF OthersTyped, EventsOn, ListenerIsRight
<1>9. ASSUME NEW c \in Calls, SwitchEvents(c) PROVE OthersTyped' /\ EventsOn' /\ ListenerIsRight'
  <2>1. UNCHANGED <<card, paper, history, presented, told>>
    BY <1>9 DEF SwitchEvents, idcVars, ptrVars
  <2>2. CASE siu' = [siu EXCEPT !.events = TRUE] /\ silent' = silent
    <3>1. siu' \in [sensors : [Sensors -> Readings], mode : {"NORMAL", "SUPERVISOR"}, events : BOOLEAN]
      BY <2>2 DEF OthersTyped
    <3>2. siu'.sensors = siu.sensors /\ siu'.events
      BY <2>2 DEF OthersTyped
    <3> QED
      BY <2>1, <2>2, <3>1, <3>2 DEF OthersTyped, EventsOn, ListenerIsRight
  <2>3. CASE siu' = [siu EXCEPT !.events = FALSE] /\ silent' = TRUE
    <3>1. siu' \in [sensors : [Sensors -> Readings], mode : {"NORMAL", "SUPERVISOR"}, events : BOOLEAN]
      BY <2>3 DEF OthersTyped
    <3> QED
      BY <2>1, <2>3, <3>1 DEF OthersTyped, EventsOn, ListenerIsRight
  <2> QED
    BY <1>9, <2>2, <2>3 DEF SwitchEvents
<1>10. CASE \E c \in Calls : \/ \E cmd \in Commands[device] \union {"UNKNOWN"} : Execute(c, cmd)
                             \/ PersistCommandLog(c) \/ ThrowInjected(c) \/ Other(c) \/ ReadTrack(c)
                             \/ BeginEntry(c) \/ GetPinBlock(c)
  <2>1. Same
    BY <1>10 DEF Execute, PersistCommandLog, ThrowInjected, Other, ReadTrack, BeginEntry, GetPinBlock,
                 idcVars, ptrVars, tellVars
  <2> QED
    BY <1>1, <2>1
<1>11. CASE \/ PressEnter \/ PressClear \/ CancelEntry \/ ExtractEnteredPin
            \/ InjectError \/ ClearError \/ UNCHANGED vars
            \/ \E autoEnd \in BOOLEAN : PressDigit(autoEnd)
  <2>1. Same
    BY <1>11 DEF PressEnter, PressClear, CancelEntry, PressDigit, EntryActive, ExtractEnteredPin,
                 InjectError, ClearError, vars, idcVars, ptrVars, tellVars
  <2> QED
    BY <1>1, <2>1
<1> QED
  BY <1>2, <1>3, <1>4, <1>5, <1>6, <1>7, <1>8, <1>9, <1>10, <1>11 DEF Next, Wake

LEMMA DeviceInvariant == Spec => []DeviceInv
<1>1. DeviceInv /\ [Next]_vars => DeviceInv'
  BY PinStep, OthersStep DEF DeviceInv
<1> QED
  BY <1>1, DigitsInit, PTL DEF Spec

(* Every device keeps its types: one entry at most is active, no more      *)
(* digits, receipts or sheets than there is room for.                      *)
THEOREM DevicesTypeCorrect == Spec => []TypeOK
<1>1. DeviceInv => TypeOK
  BY DEF DeviceInv, PinInv, CallsTyped, EntryTyped, OthersTyped, CallRecord, TypeOK
<1> QED
  BY <1>1, DeviceInvariant, PTL

(* No command hands over digits that were typed for another one, however   *)
(* entries supersede, time out, are cancelled or are interrupted by a PIN  *)
(* block or a RESET.                                                       *)
THEOREM DigitsNeverMix == Spec => []DigitsStayApart
<1>1. DeviceInv => DigitsStayApart
  BY DEF DeviceInv, PinInv
<1> QED
  BY <1>1, DeviceInvariant, PTL

(* Events alone are enough to know the card and the sensors, for any       *)
(* sequence of commands, cards and readings without a RESET or a           *)
(* DISABLE_EVENTS.                                                         *)
THEOREM EventsTellAll == Spec => []ListenerIsRight
<1>1. DeviceInv => ListenerIsRight
  BY DEF DeviceInv
<1> QED
  BY <1>1, DeviceInvariant, PTL


-----------------------------------------------------------------------------
(***************************************************************************)
(* The cash dispenser: what a mix is worth and where its notes come from.  *)
(***************************************************************************)
LEMMA DenominationsTyped ==
    /\ IsFiniteSet(Denominations) /\ Denominations \subseteq Nat \ {0}
    /\ \A u \in Cassettes : Denom[u] \in Denominations /\ UnitFor(Denom[u]) = u
    /\ \A d \in Denominations : UnitFor(d) \in Cassettes /\ Denom[UnitFor(d)] = d
<1>1. Denominations \subseteq Nat \ {0} /\ \A u \in Cassettes : Denom[u] \in Denominations
  BY CdmAssumption DEF Denominations
<1>2. IsFiniteSet(Denominations)
  <2>1. Denom \in Surjection(Cassettes, Denominations)
    BY CdmAssumption DEF Surjection, Denominations
  <2> QED
    BY <2>1, CdmAssumption, FS_Surjection
<1>3. ASSUME NEW d \in Denominations
      PROVE  UnitFor(d) \in Cassettes /\ Denom[UnitFor(d)] = d
  <2>1. \E u \in Cassettes : Denom[u] = d
    BY DEF Denominations
  <2> QED
    BY <2>1 DEF UnitFor
<1>4. ASSUME NEW u \in Cassettes PROVE UnitFor(Denom[u]) = u
  BY <1>1, <1>3, CdmAssumption
<1> QED
  BY <1>1, <1>2, <1>3, <1>4

LEMMA MixTyped ==
    ASSUME NEW mix \in MixesOf(Nat)
    PROVE  /\ DOMAIN mix \subseteq Denominations /\ IsFiniteSet(DOMAIN mix)
           /\ mix \in [DOMAIN mix -> Nat]
           /\ IntOn(mix, DOMAIN mix)
           /\ Notes(mix) = SumFunctionOnSet(mix, DOMAIN mix)
           /\ Notes(mix) \in Nat
<1>1. DOMAIN mix \subseteq Denominations /\ mix \in [DOMAIN mix -> Nat]
  BY DEF MixesOf
<1>2. IsFiniteSet(DOMAIN mix)
  BY <1>1, DenominationsTyped, FS_Subset
<1>3. Notes(mix) = SumFunctionOnSet(mix, DOMAIN mix)
  BY DEF Notes, SumFunction
<1>4. SumFunctionOnSet(mix, DOMAIN mix) \in Nat
  BY <1>1, <1>2, SumNat
<1> QED
  BY <1>1, <1>2, <1>3, <1>4 DEF IntOn

(* The cassettes give together the notes of the mix: no two of them hold   *)
(* the same denomination.                                                  *)
LEMMA GivenTotal ==
    ASSUME NEW mix \in MixesOf(Nat)
    PROVE  SumFunctionOnSet([u \in Cassettes |-> Given(u, mix)], Cassettes) = Notes(mix)
<1> DEFINE part(T) == [u \in Cassettes |-> IF Denom[u] \in T THEN mix[Denom[u]] ELSE 0]
           G == {T \in SUBSET DOMAIN mix :
                    SumFunctionOnSet(part(T), Cassettes) = SumFunctionOnSet(mix, T)}
<1>0. /\ DOMAIN mix \subseteq Denominations /\ IsFiniteSet(DOMAIN mix)
      /\ \A d \in DOMAIN mix : mix[d] \in Nat
      /\ IsFiniteSet(Cassettes)
  BY MixTyped, CdmAssumption
<1>1. {} \in G
  <2>1. \A u \in Cassettes : part({})[u] = 0
    OBVIOUS
  <2> HIDE DEF part
  <2> QED
    BY <1>0, <2>1, SumZero, SumEmpty
<1>2. ASSUME NEW T \in SUBSET DOMAIN mix, NEW x \in T, T \ {x} \in G PROVE T \in G
  <2> DEFINE f == part(T \ {x})
             g == part(T)
             u == UnitFor(x)
  <2>1. u \in Cassettes /\ Denom[u] = x /\ \A v \in Cassettes \ {u} : Denom[v] # x
    BY <1>0, DenominationsTyped
  <2> HIDE DEF u
  <2>2. IntOn(f, Cassettes) /\ IntOn(g, Cassettes)
    BY <1>0 DEF IntOn
  <2>3. f[u] = 0 /\ g[u] = mix[x] /\ \A v \in Cassettes \ {u} : f[v] = g[v]
    BY <2>1
  <2>4. SumFunctionOnSet(f, Cassettes) = SumFunctionOnSet(mix, T \ {x})
    BY <1>2
  <2>5. IsFiniteSet(T) /\ IntOn(mix, T) /\ mix[x] \in Nat
    BY <1>0, FS_Subset DEF IntOn
  <2> HIDE DEF f, g
  <2>6. SumFunctionOnSet(g, Cassettes) = SumFunctionOnSet(f, Cassettes) - f[u] + g[u]
    BY <1>0, <2>1, <2>2, <2>3, SumChange
  <2>7. SumFunctionOnSet(mix, T) = mix[x] + SumFunctionOnSet(mix, T \ {x})
    BY <2>5, SumTakeOut
  <2>8. SumFunctionOnSet(mix, T \ {x}) \in Int
    <3>1. IsFiniteSet(T \ {x}) /\ IntOn(mix, T \ {x})
      BY <2>5, FS_RemoveElement DEF IntOn
    <3> QED
      BY <3>1, SumType
  <2>9. SumFunctionOnSet(g, Cassettes) = SumFunctionOnSet(mix, T)
    BY <2>3, <2>4, <2>5, <2>6, <2>7, <2>8
  <2> QED
    BY <2>9 DEF g
<1>3. DOMAIN mix \in G
  <2> HIDE DEF G
  <2> QED
    BY <1>0, <1>1, <1>2, SubsetInduction
<1>4. part(DOMAIN mix) = [u \in Cassettes |-> Given(u, mix)]
  BY DEF Given
<1> QED
  BY <1>3, <1>4, MixTyped

(* All notes in the units: the REJECT unit's and the cassettes'.           *)
LEMMA CountTotal ==
    ASSUME NEW c \in [Units -> Nat]
    PROVE  /\ SumFunction(c) = c["REJECT"] + SumFunctionOnSet(c, Cassettes)
           /\ SumFunctionOnSet(c, Cassettes) \in Nat
           /\ IsFiniteSet(Units) /\ IntOn(c, Units) /\ IntOn(c, Cassettes)
           /\ SumFunction(c) = SumFunctionOnSet(c, Units)
<1>1. IsFiniteSet(Cassettes) /\ "REJECT" \notin Cassettes
  BY CdmAssumption
<1>2. IsFiniteSet(Units)
  BY <1>1, FS_AddElement DEF Units
<1>3. IntOn(c, Units) /\ IntOn(c, Cassettes) /\ \A u \in Cassettes : c[u] \in Nat
  BY DEF IntOn, Units
<1>4. SumFunction(c) = SumFunctionOnSet(c, Units)
  BY DEF SumFunction
<1>5. SumFunctionOnSet(c, Cassettes \cup {"REJECT"}) = c["REJECT"] + SumFunctionOnSet(c, Cassettes)
  BY <1>1, <1>3, SumAdd DEF Units
<1>6. SumFunctionOnSet(c, Cassettes) \in Nat
  BY <1>1, <1>3, SumNat
<1> QED
  BY <1>2, <1>3, <1>4, <1>5, <1>6 DEF Units

-----------------------------------------------------------------------------
(***************************************************************************)
(* The greedy mix.  calculateMinNotesMix is the value at Spendable of a    *)
(* function that recurs over sets of cassettes: it exists (it is found for *)
(* one size after the other), and by induction over the sets its mixes are *)
(* exact and within what the cassettes hold.                               *)
(***************************************************************************)
DrawStep(g, amount, units) ==
    IF units = {} THEN [remaining |-> amount, mix |-> [d \in {} |-> 0]]
    ELSE Take(g[units \ {LastDrawn(units)}], LastDrawn(units))

Draws(g, amount, S) == g = [units \in SUBSET S |-> DrawStep(g, amount, units)]
DrawsOf(amount, S) == CHOOSE g : Draws(g, amount, S)

LEMMA MixIsDrawn ==
    ASSUME NEW amount
    PROVE  calculateMinNotesMix(amount) = DrawsOf(amount, Spendable)[Spendable]
BY DEF calculateMinNotesMix, DrawsOf, Draws, DrawStep

LEMMA LastIsDrawn ==
    ASSUME NEW s \in SUBSET Cassettes, s # {}
    PROVE  /\ LastDrawn(s) \in s /\ \A v \in s : Denom[LastDrawn(s)] <= Denom[v]
           /\ IsFiniteSet(s)
           /\ Cardinality(s) \in Nat \ {0}
           /\ Cardinality(s \ {LastDrawn(s)}) = Cardinality(s) - 1
<1> DEFINE B == {Denom[u] : u \in s}
<1>1. B \subseteq Nat /\ B # {} /\ \A u \in s : Denom[u] \in B
  BY CdmAssumption
<1>2. \A n \in B : \E u \in s : Denom[u] = n
  OBVIOUS
<1> HIDE DEF B
<1>3. PICK n \in B : \A m \in B : n <= m
  BY <1>1, LeastNatural
<1>4. \E u \in s : \A v \in s : Denom[u] <= Denom[v]
  BY <1>1, <1>2, <1>3
<1>5. LastDrawn(s) \in s /\ \A v \in s : Denom[LastDrawn(s)] <= Denom[v]
  BY <1>4 DEF LastDrawn
<1>6. IsFiniteSet(s)
  BY CdmAssumption, FS_Subset
<1>7. Cardinality(s \ {LastDrawn(s)}) = Cardinality(s) - 1 /\ IsFiniteSet(s \ {LastDrawn(s)})
  BY <1>5, <1>6, FS_RemoveElement
<1>8. Cardinality(s) \in Nat /\ Cardinality(s \ {LastDrawn(s)}) \in Nat
  BY <1>6, <1>7, FS_CardinalityType
<1> QED
  BY <1>5, <1>6, <1>7, <1>8

LEMMA DrawsExist ==
    ASSUME NEW S \in SUBSET Cassettes, NEW amount
    PROVE  Draws(DrawsOf(amount, S), amount, S)
<1> DEFINE Small(n) == {s \in SUBSET S : Cardinality(s) <= n}
           Solves(g, n) == g = [s \in Small(n) |-> DrawStep(g, amount, s)]
           Bad == {n \in Nat : ~ \E g : Solves(g, n)}
<1>0. IsFiniteSet(S)
  BY CdmAssumption, FS_Subset
<1>1. \A s \in SUBSET S : Cardinality(s) \in Nat
  BY <1>0, FS_Subset, FS_CardinalityType
<1>3. ASSUME Bad # {} PROVE FALSE
  <2>1. PICK n \in Bad : \A m \in Bad : n <= m
    <3> HIDE DEF Bad
    <3>1. Bad \subseteq Nat
      BY DEF Bad
    <3> QED
      BY <1>3, <3>1, LeastNatural
  <2>2. n \in Nat /\ ~ \E g : Solves(g, n)
    BY <2>1
  <2>3. CASE n = 0
    <3> DEFINE g == [s \in Small(0) |-> DrawStep(<< >>, amount, {})]
    <3>1. ASSUME NEW s \in Small(0) PROVE s = {}
      <4> SUFFICES ASSUME s # {} PROVE FALSE
        OBVIOUS
      <4>1. s \in SUBSET Cassettes /\ Cardinality(s) <= 0
        OBVIOUS
      <4>2. Cardinality(s) \in Nat \ {0}
        BY <4>1, LastIsDrawn
      <4> QED
        BY <4>1, <4>2
    <3>2. Solves(g, 0)
      BY <3>1 DEF DrawStep
    <3> QED
      BY <2>2, <2>3, <3>2
  <2>4. CASE n # 0
    <3>1. n - 1 \in Nat
      BY <2>2, <2>4
    <3>2. n - 1 \notin Bad
      <4> HIDE DEF Bad
      <4> QED
        BY <2>1, <2>2, <3>1
    <3>3. PICK g : Solves(g, n - 1)
      BY <3>1, <3>2
    <3> DEFINE h == [s \in Small(n) |-> IF s \in Small(n - 1) THEN g[s] ELSE DrawStep(g, amount, s)]
    <3>4. \A s \in Small(n - 1) : s \in Small(n) /\ g[s] = DrawStep(g, amount, s)
      BY <1>1, <2>2, <3>3
    <3>5. ASSUME NEW s \in Small(n), s # {} PROVE s \ {LastDrawn(s)} \in Small(n - 1)
      <4>1. s \in SUBSET Cassettes /\ Cardinality(s) <= n
        OBVIOUS
      <4>2. /\ Cardinality(s) \in Nat \ {0}
            /\ Cardinality(s \ {LastDrawn(s)}) = Cardinality(s) - 1
        BY <3>5, <4>1, LastIsDrawn
      <4> QED
        BY <2>2, <4>1, <4>2
    <3>6. ASSUME NEW s \in Small(n) PROVE DrawStep(h, amount, s) = DrawStep(g, amount, s)
      <4>1. CASE s = {}
        BY <4>1 DEF DrawStep
      <4>2. CASE s # {}
        <5>1. s \ {LastDrawn(s)} \in Small(n - 1)
          BY <3>5, <4>2
        <5>2. h[s \ {LastDrawn(s)}] = g[s \ {LastDrawn(s)}]
          <6> HIDE DEF Small
          <6> QED
            BY <3>4, <5>1
        <5> QED
          BY <4>2, <5>2 DEF DrawStep
      <4> QED
        BY <4>1, <4>2
    <3>7. Solves(h, n)
      <4>1. \A s \in Small(n) : h[s] = DrawStep(h, amount, s)
        BY <3>4, <3>6
      <4> HIDE DEF Small
      <4> QED
        BY <4>1
    <3> QED
      BY <2>2, <3>7
  <2> QED
    BY <2>3, <2>4
<1>4. Cardinality(S) \in Nat /\ \A s \in SUBSET S : Cardinality(s) <= Cardinality(S)
  BY <1>0, FS_Subset, FS_CardinalityType
<1>5. PICK g : Solves(g, Cardinality(S))
  BY <1>3, <1>4
<1>6. Small(Cardinality(S)) = SUBSET S
  BY <1>4
<1>7. Draws(g, amount, S)
  BY <1>5, <1>6 DEF Draws
<1> QED
  BY <1>7 DEF DrawsOf

(* What is drawn from some cassettes is worth what it took off the amount, *)
(* and no cassette gives more than it has.                                 *)
Exact(x, units, amount) ==
    /\ x.remaining \in Nat
    /\ x.mix \in MixesOf(Nat)
    /\ DOMAIN x.mix \subseteq {Denom[u] : u \in units}
    /\ Worth(x.mix) + x.remaining = amount
    /\ \A u \in units : Given(u, x.mix) <= count[u]

LEMMA WorthTyped ==
    ASSUME NEW mix \in MixesOf(Nat), NEW f, \A d \in DOMAIN mix : f[d] = d * mix[d]
    PROVE  /\ Worth(mix) = SumFunctionOnSet(f, DOMAIN mix)
           /\ \A d \in DOMAIN mix : f[d] \in Nat
           /\ Worth(mix) \in Nat
<1> DEFINE g == [d \in DOMAIN mix |-> d * mix[d]]
<1>0. /\ DOMAIN mix \subseteq Denominations /\ IsFiniteSet(DOMAIN mix)
      /\ \A d \in DOMAIN mix : mix[d] \in Nat /\ d \in Nat
  BY MixTyped, DenominationsTyped
<1>1. \A d \in DOMAIN mix : g[d] = d * mix[d] /\ g[d] \in Nat /\ f[d] = g[d]
  BY <1>0
<1>2. DOMAIN g = DOMAIN mix /\ Worth(mix) = SumFunction(g)
  BY DEF Worth
<1> HIDE DEF g
<1>3. Worth(mix) = SumFunctionOnSet(g, DOMAIN mix)
  BY <1>2 DEF SumFunction
<1>4. IntOn(g, DOMAIN mix)
  BY <1>1 DEF IntOn
<1>5. SumFunctionOnSet(g, DOMAIN mix) = SumFunctionOnSet(f, DOMAIN mix)
  BY <1>0, <1>1, <1>4, SumEqual
<1>6. SumFunctionOnSet(g, DOMAIN mix) \in Nat
  BY <1>0, <1>1, SumNat
<1> QED
  BY <1>1, <1>3, <1>5, <1>6

LEMMA Quotient ==
    ASSUME NEW r \in Nat, NEW d \in Nat \ {0}, NEW t \in Nat, t <= r \div d
    PROVE  t * d \in Nat /\ t * d <= r
<1>1. r \div d \in Nat /\ (r \div d) * d <= r
  OBVIOUS
<1>2. t * d <= (r \div d) * d
  BY <1>1
<1> QED
  BY <1>1, <1>2

LEMMA DrawOne ==
    ASSUME CdmTypeOK, NEW units \in SUBSET Cassettes, NEW u \in Cassettes, u \notin units,
           NEW amount \in Nat, NEW x, Exact(x, units, amount)
    PROVE  Exact(Take(x, u), units \cup {u}, amount)
<1> DEFINE D == Denom[u]
           take == Min({count[u], x.remaining \div D})
           y == [remaining |-> x.remaining - take * D,
                 mix |-> [d \in DOMAIN x.mix \cup {D} |-> IF d = D THEN take ELSE x.mix[d]]]
<1>0. /\ x.remaining \in Nat /\ x.mix \in MixesOf(Nat) /\ x.mix \in [DOMAIN x.mix -> Nat]
      /\ DOMAIN x.mix \subseteq {Denom[v] : v \in units}
      /\ Worth(x.mix) + x.remaining = amount
      /\ \A v \in units : Given(v, x.mix) <= count[v]
      /\ DOMAIN x.mix \subseteq Denominations /\ IsFiniteSet(DOMAIN x.mix)
  BY MixTyped DEF Exact
<1>1. D \in Nat \ {0} /\ count[u] \in Nat /\ D \in Denominations
  BY CdmAssumption DEF CdmTypeOK, Units, Denominations
<1>2. D \notin DOMAIN x.mix
  BY <1>0, CdmAssumption
<1>3. Take(x, u) = IF take = 0 THEN x ELSE y
  BY DEF Take
<1>4. take \in Nat /\ take <= count[u] /\ take <= x.remaining \div D
  <2>1. x.remaining \div D \in Nat
    BY <1>0, <1>1
  <2> HIDE DEF D
  <2> QED
    BY <1>1, <2>1 DEF Min
<1> HIDE DEF take
<1>5. take * D \in Nat /\ take * D <= x.remaining
  BY <1>0, <1>1, <1>4, Quotient
<1>6. CASE take = 0
  <2>1. Given(u, x.mix) = 0
    BY <1>2 DEF Given
  <2>2. \A v \in units \cup {u} : Given(v, x.mix) <= count[v]
    BY <1>0, <1>1, <2>1
  <2>3. DOMAIN x.mix \subseteq {Denom[v] : v \in units \cup {u}}
    BY <1>0
  <2>4. Exact(x, units \cup {u}, amount)
    BY <1>0, <2>2, <2>3 DEF Exact
  <2> QED
    BY <1>3, <1>6, <2>4
<1>7. CASE take # 0
  <2> DEFINE m == y.mix
  <2>1. y.remaining = x.remaining - take * D /\ y.remaining \in Nat
    BY <1>0, <1>5
  <2>2. DOMAIN m = DOMAIN x.mix \cup {D} /\ m[D] = take /\ \A d \in DOMAIN x.mix : m[d] = x.mix[d]
    BY <1>2
  <2>3. m \in [DOMAIN x.mix \cup {D} -> Nat]
    BY <1>0, <1>4
  <2>10. m = y.mix
    OBVIOUS
  <2> HIDE DEF m, y, D
  <2>4. m \in MixesOf(Nat)
    BY <1>0, <1>1, <2>3 DEF MixesOf
  <2>5. DOMAIN m \subseteq {Denom[v] : v \in units \cup {u}}
    BY <1>0, <2>2 DEF D
  <2>6. Worth(m) = D * take + Worth(x.mix) /\ Worth(x.mix) \in Nat
    <3> DEFINE f == [d \in DOMAIN m |-> d * m[d]]
    <3>1. /\ \A d \in DOMAIN m : f[d] = d * m[d]
          /\ \A d \in DOMAIN x.mix : f[d] = d * x.mix[d]
          /\ f[D] = D * take
      BY <2>2
    <3> HIDE DEF f
    <3>2. Worth(m) = SumFunctionOnSet(f, DOMAIN m) /\ \A d \in DOMAIN m : f[d] \in Nat
      BY <2>4, <3>1, WorthTyped
    <3>3. Worth(x.mix) = SumFunctionOnSet(f, DOMAIN x.mix) /\ Worth(x.mix) \in Nat
      BY <1>0, <3>1, WorthTyped
    <3>4. IntOn(f, DOMAIN x.mix \cup {D})
      BY <2>2, <3>2 DEF IntOn
    <3>5. SumFunctionOnSet(f, DOMAIN x.mix \cup {D}) = f[D] + SumFunctionOnSet(f, DOMAIN x.mix)
      BY <1>0, <1>2, <3>4, SumAdd
    <3> QED
      BY <2>2, <3>1, <3>2, <3>3, <3>5
  <2>7. Worth(m) + y.remaining = amount
    <3>1. D * take = take * D
      BY <1>1, <1>4
    <3> QED
      BY <1>0, <1>5, <2>1, <2>6, <3>1
  <2>8. ASSUME NEW v \in units \cup {u} PROVE Given(v, m) <= count[v]
    <3>1. CASE v = u
      BY <1>4, <2>2, <3>1 DEF Given, D
    <3>2. CASE v # u
      <4>1. v \in units /\ Denom[v] # D
        BY <3>2, CdmAssumption DEF D
      <4>2. Given(v, m) = Given(v, x.mix)
        BY <2>2, <4>1 DEF Given
      <4> QED
        BY <1>0, <4>1, <4>2
    <3> QED
      BY <3>1, <3>2
  <2>9. Exact(y, units \cup {u}, amount)
    BY <2>1, <2>4, <2>5, <2>7, <2>8, <2>10 DEF Exact
  <2> QED
    BY <1>3, <1>7, <2>9
<1> QED
  BY <1>6, <1>7

LEMMA NothingDrawn ==
    ASSUME NEW amount \in Nat
    PROVE  Exact([remaining |-> amount, mix |-> [d \in {} |-> 0]], {}, amount)
<1> DEFINE e == [d \in {} |-> 0]
           f == [d \in {} |-> d * e[d]]
           x == [remaining |-> amount, mix |-> e]
<1>1. x.remaining = amount /\ x.mix = e /\ DOMAIN e = {}
  OBVIOUS
<1>2. e \in MixesOf(Nat)
  <2>1. {} \in SUBSET Denominations /\ e \in [{} -> Nat]
    OBVIOUS
  <2> QED
    BY <2>1 DEF MixesOf
<1>3. Worth(e) = 0
  <2>1. DOMAIN f = {} /\ Worth(e) = SumFunction(f)
    BY DEF Worth
  <2> HIDE DEF f
  <2> QED
    BY <2>1, SumEmpty DEF SumFunction
<1> HIDE DEF e
<1>4. Exact(x, {}, amount)
  BY <1>1, <1>2, <1>3 DEF Exact
<1> QED
  BY <1>4 DEF e

LEMMA GreedyExact ==
    ASSUME CdmTypeOK, NEW amount \in Nat
    PROVE  Exact(calculateMinNotesMix(amount), Spendable, amount)
<1> DEFINE g == DrawsOf(amount, Spendable)
           Bad == {s \in SUBSET Spendable : ~ Exact(g[s], s, amount)}
<1>0. Spendable \in SUBSET Cassettes /\ IsFiniteSet(Spendable)
  BY CdmAssumption, FS_Subset DEF Spendable
<1>1. Draws(g, amount, Spendable)
  BY <1>0, DrawsExist
<1> HIDE DEF g
<1>2. \A s \in SUBSET Spendable : g[s] = DrawStep(g, amount, s)
  BY <1>1 DEF Draws
<1>3. ASSUME Bad # {} PROVE FALSE
  <2>1. PICK s \in Bad : \A t \in SUBSET s : t # s => t \notin Bad
    <3> HIDE DEF Bad
    <3>1. Bad \subseteq SUBSET Spendable
      BY DEF Bad
    <3> QED
      BY <1>0, <1>3, <3>1, MinimalSubset
  <2>2. s \in SUBSET Spendable /\ ~ Exact(g[s], s, amount)
    BY <2>1
  <2>3. CASE s = {}
    <3>1. g[s] = [remaining |-> amount, mix |-> [d \in {} |-> 0]]
      BY <1>2, <2>2, <2>3 DEF DrawStep
    <3> QED
      BY <2>2, <2>3, <3>1, NothingDrawn
  <2>4. CASE s # {}
    <3> DEFINE u == LastDrawn(s)
               t == s \ {u}
    <3>1. u \in s /\ u \in Cassettes /\ s \in SUBSET Cassettes
      BY <1>0, <2>2, <2>4, LastIsDrawn
    <3>2. g[s] = Take(g[t], u)
      BY <1>2, <2>2, <2>4 DEF DrawStep
    <3> HIDE DEF u
    <3>3. t \in SUBSET s /\ t # s /\ t \in SUBSET Spendable /\ t \cup {u} = s /\ u \notin t
      BY <2>2, <3>1
    <3>4. Exact(g[t], t, amount)
      <4> HIDE DEF t
      <4> QED
        BY <2>1, <3>3
    <3> HIDE DEF t
    <3>5. Exact(Take(g[t], u), t \cup {u}, amount)
      BY <1>0, <3>1, <3>3, <3>4, DrawOne
    <3> QED
      BY <2>2, <3>2, <3>3, <3>5
  <2> QED
    BY <2>3, <2>4
<1>4. Exact(g[Spendable], Spendable, amount)
  BY <1>3
<1> QED
  BY <1>4, MixIsDrawn DEF g

(* Every mix that dispense may use is one, and is worth the amount.        *)
LEMMA MixWorthAmount ==
    ASSUME CdmTypeOK, NEW amount \in Requested, NEW mix \in MixesFor(amount)
    PROVE  mix \in MixesOf(Nat) /\ Worth(mix) = amount
<1>1. CASE mix \in validateCustomMix[amount]
  <2>1. mix \in CustomMixes /\ Worth(mix) = amount
    BY <1>1 DEF validateCustomMix
  <2>2. PICK D \in SUBSET Denominations : mix \in [D -> CustomNotes]
    BY <2>1 DEF CustomMixes, MixesOf
  <2>3. mix \in [D -> Nat]
    BY <2>2, CdmAssumption
  <2>4. mix \in MixesOf(Nat)
    BY <2>3 DEF MixesOf
  <2> QED
    BY <2>1, <2>4
<1>2. CASE mix = calculateMinNotesMix(amount).mix /\ calculateMinNotesMix(amount).remaining = 0
  <2> DEFINE g == calculateMinNotesMix(amount)
  <2>1. Exact(g, Spendable, amount)
    BY GreedyExact, CdmAssumption
  <2> HIDE DEF g
  <2>2. g.mix \in MixesOf(Nat) /\ Worth(g.mix) + g.remaining = amount
    BY <2>1 DEF Exact
  <2>3. Worth(g.mix) \in Nat
    <3> DEFINE f == [d \in DOMAIN g.mix |-> d * g.mix[d]]
    <3>1. \A d \in DOMAIN g.mix : f[d] = d * g.mix[d]
      OBVIOUS
    <3> HIDE DEF f
    <3> QED
      BY <2>2, <3>1, WorthTyped
  <2>4. mix = g.mix /\ g.remaining = 0
    BY <1>2 DEF g
  <2> QED
    BY <2>2, <2>3, <2>4
<1> QED
  BY <1>1, <1>2 DEF MixesFor

LEMMA ExactInAll == CdmTypeOK => MixIsExact
<1> SUFFICES ASSUME CdmTypeOK, NEW amount \in Requested, calculateMinNotesMix(amount).remaining = 0
             PROVE  /\ Worth(calculateMinNotesMix(amount).mix) = amount
                    /\ Sufficient(calculateMinNotesMix(amount).mix)
    BY DEF MixIsExact
<1> DEFINE g == calculateMinNotesMix(amount)
<1>1. g.mix \in MixesFor(amount)
  BY DEF MixesFor
<1>2. Exact(g, Spendable, amount)
  BY GreedyExact, CdmAssumption
<1>3. Worth(g.mix) = amount /\ g.mix \in MixesOf(Nat)
  BY <1>1, MixWorthAmount
<1> HIDE DEF g
<1>4. ASSUME NEW d \in DOMAIN g.mix
      PROVE  status[UnitFor(d)] # "JAMMED" /\ count[UnitFor(d)] >= g.mix[d]
  <2>1. PICK u \in Spendable : Denom[u] = d
    BY <1>2 DEF Exact
  <2>2. u \in Cassettes /\ status[u] # "JAMMED" /\ UnitFor(d) = u
    BY <2>1, DenominationsTyped DEF Spendable
  <2>3. Given(u, g.mix) = g.mix[d] /\ Given(u, g.mix) <= count[u]
    BY <1>2, <2>1 DEF Exact, Given
  <2>4. g.mix[d] \in Nat /\ count[u] \in Nat
    BY <1>3, <2>2, MixTyped DEF CdmTypeOK, Units
  <2> QED
    BY <2>2, <2>3, <2>4
<1> QED
  BY <1>3, <1>4 DEF Sufficient, g

-----------------------------------------------------------------------------
(***************************************************************************)
(* The greedy mix has the fewest notes, for notes in the proportions of    *)
(* the default cassettes (CASS1 to CASS3: Rp 100,000, 50,000 and 20,000).  *)
(* For others it need not: of 40, 30 and 10, it pays 60 as 40 + 10 + 10.   *)
(***************************************************************************)
Rupiah == \E unit \in Nat \ {0} : Denominations \subseteq {10 * unit, 5 * unit, 2 * unit}

NotesAt(mix, d) == IF d \in DOMAIN mix THEN mix[d] ELSE 0

AllDrawn(x, units, d) ==
    \A u \in units : Denom[u] = d => NotesAt(x.mix, d) = count[u]

(* A larger note was left in its cassette only when what is paid without   *)
(* it is less than its worth.                                              *)
Greedy(x, units, unit) ==
    /\ AllDrawn(x, units, 10 * unit) \/
       (5 * unit) * NotesAt(x.mix, 5 * unit) + (2 * unit) * NotesAt(x.mix, 2 * unit) + x.remaining
           < 10 * unit
    /\ AllDrawn(x, units, 5 * unit) \/
       (2 * unit) * NotesAt(x.mix, 2 * unit) + x.remaining < 5 * unit

LEMMA QuotientRest ==
    ASSUME NEW r \in Nat, NEW d \in Nat \ {0}
    PROVE  r - (r \div d) * d < d
OBVIOUS

LEMMA NotesAtTyped ==
    ASSUME NEW mix \in MixesOf(Nat), NEW d
    PROVE  NotesAt(mix, d) \in Nat
BY MixTyped DEF NotesAt

(* The cassette adds this many notes of its denomination: all that it has, *)
(* or as many as go into what remains.                                     *)
Adds(x, u, take) ==
    /\ take = count[u] \/ x.remaining - take * Denom[u] < Denom[u]
    /\ take * Denom[u] \in Nat
    /\ Take(x, u).remaining = x.remaining - take * Denom[u]
    /\ \A d : NotesAt(Take(x, u).mix, d) =
                 IF d = Denom[u] THEN take ELSE NotesAt(x.mix, d)

LEMMA DrawAdds ==
    ASSUME CdmTypeOK, NEW units \in SUBSET Cassettes, NEW u \in Cassettes, u \notin units,
           NEW amount \in Nat, NEW x, Exact(x, units, amount)
    PROVE  \E take \in Nat : Adds(x, u, take)
<1> DEFINE D == Denom[u]
           take == Min({count[u], x.remaining \div D})
           y == [remaining |-> x.remaining - take * D,
                 mix |-> [d \in DOMAIN x.mix \cup {D} |-> IF d = D THEN take ELSE x.mix[d]]]
<1>0. x.remaining \in Nat /\ DOMAIN x.mix \subseteq {Denom[v] : v \in units}
  BY DEF Exact
<1>1. D \in Nat \ {0} /\ count[u] \in Nat
  BY CdmAssumption DEF CdmTypeOK, Units
<1>2. D \notin DOMAIN x.mix
  BY <1>0, CdmAssumption
<1>3. Take(x, u) = IF take = 0 THEN x ELSE y
  BY DEF Take
<1>4. take \in Nat /\ (take = count[u] \/ take = x.remaining \div D) /\ take <= x.remaining \div D
  <2>1. x.remaining \div D \in Nat
    BY <1>0, <1>1
  <2> HIDE DEF D
  <2> QED
    BY <1>1, <2>1 DEF Min
<1> HIDE DEF take
<1>5. take = count[u] \/ x.remaining - take * D < D
  <2> SUFFICES ASSUME take = x.remaining \div D PROVE x.remaining - take * D < D
    BY <1>4
  <2> HIDE DEF D
  <2> QED
    BY <1>0, <1>1, QuotientRest
<1>6. take * D \in Nat
  BY <1>0, <1>1, <1>4, Quotient
<1>7. CASE take = 0
  <2>1. Take(x, u) = x /\ take * D = 0
    BY <1>1, <1>3, <1>7
  <2>2. \A d : NotesAt(x.mix, d) = IF d = D THEN take ELSE NotesAt(x.mix, d)
    BY <1>2, <1>7 DEF NotesAt
  <2>3. x.remaining = x.remaining - take * D
    BY <1>0, <2>1
  <2> QED
    BY <1>4, <1>5, <1>6, <2>1, <2>2, <2>3 DEF Adds
<1>8. CASE take # 0
  <2>1. Take(x, u) = y
    BY <1>3, <1>8
  <2>2. y.remaining = x.remaining - take * D
    OBVIOUS
  <2>3. \A d : NotesAt(y.mix, d) = IF d = D THEN take ELSE NotesAt(x.mix, d)
    BY DEF NotesAt
  <2> HIDE DEF y
  <2> QED
    BY <1>4, <1>5, <1>6, <2>1, <2>2, <2>3 DEF Adds
<1> QED
  BY <1>7, <1>8

LEMMA DrawGreedy ==
    ASSUME CdmTypeOK, NEW units \in SUBSET Cassettes, NEW u \in Cassettes, u \notin units,
           NEW amount \in Nat, NEW x, Exact(x, units, amount),
           \A v \in units : Denom[u] <= Denom[v],
           NEW unit \in Nat \ {0}, Denominations \subseteq {10 * unit, 5 * unit, 2 * unit},
           Greedy(x, units, unit)
    PROVE  Greedy(Take(x, u), units \cup {u}, unit)
<1>0. PICK take \in Nat : Adds(x, u, take)
  BY DrawAdds
<1> DEFINE D == Denom[u]
           y == Take(x, u)
           N(d) == NotesAt(x.mix, d)
           M(d) == NotesAt(y.mix, d)
<1>1. /\ take = count[u] \/ x.remaining - take * D < D
      /\ take * D \in Nat
      /\ y.remaining = x.remaining - take * D
      /\ \A d : M(d) = IF d = D THEN take ELSE N(d)
  BY <1>0 DEF Adds
<1>2. x.remaining \in Nat /\ x.mix \in MixesOf(Nat) /\ DOMAIN x.mix \subseteq {Denom[v] : v \in units}
  BY DEF Exact
<1>3. D \in {10 * unit, 5 * unit, 2 * unit} /\ \A v \in Cassettes : Denom[v] \in Nat
  BY CdmAssumption DEF Denominations
<1>4. \A v \in units : Denom[v] # D
  BY CdmAssumption
<1>5. \A d : (\A v \in units : Denom[v] # d) => N(d) = 0
  BY <1>2 DEF NotesAt
<1>6. \A d \in Nat : d <= D => N(d) = 0
  <2> SUFFICES ASSUME NEW d \in Nat, d <= D PROVE \A v \in units : Denom[v] # d
    BY <1>5
  <2> SUFFICES ASSUME NEW v \in units, Denom[v] = d PROVE FALSE
    OBVIOUS
  <2> QED
    BY <1>3, <1>4
<1>7. \A d : N(d) \in Nat
  BY <1>2, NotesAtTyped
<1>8. ASSUME NEW d, d # D, AllDrawn(x, units, d) PROVE AllDrawn(y, units \cup {u}, d)
  BY <1>1, <1>8 DEF AllDrawn
<1>9. ASSUME take = count[u] PROVE AllDrawn(y, units \cup {u}, D)
  BY <1>1, <1>4, <1>9 DEF AllDrawn
<1>10. ASSUME NEW d \in Nat, d < D PROVE AllDrawn(y, units \cup {u}, d)
  <2> SUFFICES ASSUME NEW v \in units \cup {u}, Denom[v] = d PROVE FALSE
    BY DEF AllDrawn
  <2> QED
    BY <1>3, <1>10
<1> DEFINE a == 10 * unit
           b == 5 * unit
           c == 2 * unit
<1>11. a \in Nat /\ b \in Nat /\ c \in Nat /\ c < b /\ b < a /\ D \in {a, b, c} /\ D \in Nat
  BY <1>3
<1>12. /\ AllDrawn(x, units, a) \/ b * N(b) + c * N(c) + x.remaining < a
       /\ AllDrawn(x, units, b) \/ c * N(c) + x.remaining < b
  BY DEF Greedy
<1>13. SUFFICES /\ AllDrawn(y, units \cup {u}, a) \/ b * M(b) + c * M(c) + y.remaining < a
                /\ AllDrawn(y, units \cup {u}, b) \/ c * M(c) + y.remaining < b
  BY DEF Greedy
<1> HIDE DEF a, b, c, y, N, M
<1>14. CASE D = a
  <2>1. M(b) = 0 /\ M(c) = 0
    BY <1>1, <1>6, <1>11, <1>14
  <2>2. b * M(b) = 0 /\ c * M(c) = 0
    BY <1>11, <2>1
  <2>3. AllDrawn(y, units \cup {u}, a) \/ y.remaining < a
    BY <1>1, <1>9, <1>14
  <2>4. AllDrawn(y, units \cup {u}, b)
    BY <1>10, <1>11, <1>14
  <2>5. y.remaining \in Int
    BY <1>1, <1>2
  <2> QED
    BY <2>2, <2>3, <2>4, <2>5, <1>11
<1>15. CASE D = b
  <2>1. M(b) = take /\ M(c) = 0 /\ N(b) = 0 /\ N(c) = 0
    BY <1>1, <1>6, <1>11, <1>15
  <2>2. b * M(b) = take * D /\ c * M(c) = 0 /\ b * N(b) = 0 /\ c * N(c) = 0
    BY <1>11, <1>15, <2>1
  <2>3. AllDrawn(y, units \cup {u}, a) \/ b * M(b) + c * M(c) + y.remaining < a
    <3>1. CASE AllDrawn(x, units, a)
      <4>1. a # D
        BY <1>11, <1>15
      <4> QED
        BY <1>8, <3>1, <4>1
    <3>2. CASE b * N(b) + c * N(c) + x.remaining < a
      <4> DEFINE p == take * D
      <4>1. /\ p \in Nat /\ y.remaining = x.remaining - p /\ a \in Nat /\ x.remaining \in Nat
            /\ b * N(b) = 0 /\ c * N(c) = 0 /\ b * M(b) = p /\ c * M(c) = 0
        BY <1>1, <1>2, <1>11, <2>2
      <4> HIDE DEF p
      <4> QED
        BY <3>2, <4>1
    <3> QED
      BY <1>12, <3>1, <3>2
  <2>4. AllDrawn(y, units \cup {u}, b) \/ c * M(c) + y.remaining < b
    <3>1. AllDrawn(y, units \cup {u}, b) \/ y.remaining < b
      BY <1>1, <1>9, <1>15
    <3>2. y.remaining \in Int
      BY <1>1, <1>2
    <3> QED
      BY <2>2, <3>1, <3>2
  <2> QED
    BY <2>3, <2>4
<1>16. CASE D = c
  <2>1. M(b) = N(b) /\ M(c) = take /\ N(c) = 0
    BY <1>1, <1>6, <1>11, <1>16
  <2>2. c * M(c) = take * D /\ c * N(c) = 0 /\ b * M(b) = b * N(b) /\ b * N(b) \in Nat
    BY <1>7, <1>11, <1>16, <2>1
  <2>3. AllDrawn(y, units \cup {u}, a) \/ b * M(b) + c * M(c) + y.remaining < a
    <3>1. CASE AllDrawn(x, units, a)
      <4>1. a # D
        BY <1>11, <1>16
      <4> QED
        BY <1>8, <3>1, <4>1
    <3>2. CASE b * N(b) + c * N(c) + x.remaining < a
      BY <1>1, <1>2, <1>11, <2>2, <3>2
    <3> QED
      BY <1>12, <3>1, <3>2
  <2>4. AllDrawn(y, units \cup {u}, b) \/ c * M(c) + y.remaining < b
    <3>1. CASE AllDrawn(x, units, b)
      <4>1. b # D
        BY <1>11, <1>16
      <4> QED
        BY <1>8, <3>1, <4>1
    <3>2. CASE c * N(c) + x.remaining < b
      BY <1>1, <1>2, <1>11, <2>2, <3>2
    <3> QED
      BY <1>12, <3>1, <3>2
  <2> QED
    BY <2>3, <2>4
<1> QED
  BY <1>11, <1>14, <1>15, <1>16

LEMMA GreedyHolds ==
    ASSUME CdmTypeOK, NEW amount \in Nat,
           NEW unit \in Nat \ {0}, Denominations \subseteq {10 * unit, 5 * unit, 2 * unit}
    PROVE  Greedy(calculateMinNotesMix(amount), Spendable, unit)
<1> DEFINE g == DrawsOf(amount, Spendable)
           Good(s) == Exact(g[s], s, amount) /\ Greedy(g[s], s, unit)
           Bad == {s \in SUBSET Spendable : ~ Good(s)}
<1>0. Spendable \in SUBSET Cassettes /\ IsFiniteSet(Spendable)
  BY CdmAssumption, FS_Subset DEF Spendable
<1>1. Draws(g, amount, Spendable)
  BY <1>0, DrawsExist
<1> HIDE DEF g
<1>2. \A s \in SUBSET Spendable : g[s] = DrawStep(g, amount, s)
  BY <1>1 DEF Draws
<1>3. ASSUME Bad # {} PROVE FALSE
  <2>1. PICK s \in Bad : \A t \in SUBSET s : t # s => t \notin Bad
    <3> HIDE DEF Bad
    <3>1. Bad \subseteq SUBSET Spendable
      BY DEF Bad
    <3> QED
      BY <1>0, <1>3, <3>1, MinimalSubset
  <2>2. s \in SUBSET Spendable /\ ~ Good(s)
    BY <2>1
  <2>3. CASE s = {}
    <3>1. g[s] = [remaining |-> amount, mix |-> [d \in {} |-> 0]]
      BY <1>2, <2>2, <2>3 DEF DrawStep
    <3>2. Exact(g[s], s, amount)
      BY <2>3, <3>1, NothingDrawn
    <3>3. Greedy(g[s], s, unit)
      BY <2>3 DEF Greedy, AllDrawn
    <3> QED
      BY <2>2, <3>2, <3>3
  <2>4. CASE s # {}
    <3> DEFINE u == LastDrawn(s)
               t == s \ {u}
    <3>1. u \in s /\ u \in Cassettes /\ s \in SUBSET Cassettes /\ \A v \in s : Denom[u] <= Denom[v]
      BY <1>0, <2>2, <2>4, LastIsDrawn
    <3>2. g[s] = Take(g[t], u)
      BY <1>2, <2>2, <2>4 DEF DrawStep
    <3> HIDE DEF u
    <3>3. t \in SUBSET s /\ t # s /\ t \in SUBSET Spendable /\ t \cup {u} = s /\ u \notin t
      BY <2>2, <3>1
    <3>4. Good(t)
      <4> HIDE DEF t, Good
      <4> QED
        BY <2>1, <3>3
    <3> HIDE DEF t
    <3>5. Exact(Take(g[t], u), t \cup {u}, amount)
      BY <1>0, <3>1, <3>3, <3>4, DrawOne
    <3>6. Greedy(Take(g[t], u), t \cup {u}, unit)
      <4>1. t \in SUBSET Cassettes /\ \A v \in t : Denom[u] <= Denom[v]
        BY <3>1, <3>3
      <4> QED
        BY <3>1, <3>3, <3>4, <4>1, DrawGreedy
    <3> QED
      BY <2>2, <3>2, <3>3, <3>5, <3>6
  <2> QED
    BY <2>3, <2>4
<1>4. Good(Spendable)
  BY <1>3
<1> QED
  BY <1>4, MixIsDrawn DEF g

-----------------------------------------------------------------------------
(* A sum over three members at most.                                       *)
LEMMA SumSplit ==
    ASSUME NEW S, IsFiniteSet(S), NEW f, IntOn(f, S), NEW x
    PROVE  /\ IsFiniteSet(S \ {x}) /\ IntOn(f, S \ {x})
           /\ SumFunctionOnSet(f, S) = (IF x \in S THEN f[x] ELSE 0) + SumFunctionOnSet(f, S \ {x})
<1>1. IsFiniteSet(S \ {x}) /\ IntOn(f, S \ {x})
  BY FS_Subset DEF IntOn
<1>2. CASE x \in S
  BY <1>1, <1>2, SumTakeOut
<1>3. CASE x \notin S
  <2>1. S \ {x} = S /\ SumFunctionOnSet(f, S) \in Int
    BY <1>3, SumType
  <2> QED
    BY <1>1, <1>3, <2>1
<1> QED
  BY <1>2, <1>3

LEMMA SumThree ==
    ASSUME NEW a, NEW b, NEW c, a # b, a # c, b # c,
           NEW S \in SUBSET {a, b, c}, NEW f, IntOn(f, S)
    PROVE  SumFunctionOnSet(f, S) = (IF a \in S THEN f[a] ELSE 0) + (IF b \in S THEN f[b] ELSE 0)
                                       + (IF c \in S THEN f[c] ELSE 0)
<1> DEFINE At(x) == IF x \in S THEN f[x] ELSE 0
           Sum(s) == SumFunctionOnSet(f, s)
<1>1. IsFiniteSet(S)
  <2>1. IsFiniteSet({} \cup {a}) /\ IsFiniteSet({a} \cup {b}) /\ IsFiniteSet({a, b} \cup {c})
    BY FS_EmptySet, FS_AddElement
  <2>2. {a, b} \cup {c} = {a, b, c}
    OBVIOUS
  <2> QED
    BY <2>1, <2>2, FS_Subset
<1> DEFINE S1 == S \ {a}
           S2 == S1 \ {b}
           S3 == S2 \ {c}
<1>2. IsFiniteSet(S1) /\ IntOn(f, S1) /\ Sum(S) = At(a) + Sum(S1)
  BY <1>1, SumSplit
<1>3. IsFiniteSet(S2) /\ IntOn(f, S2) /\ Sum(S1) = (IF b \in S1 THEN f[b] ELSE 0) + Sum(S2)
  <2> HIDE DEF S1
  <2> QED
    BY <1>2, SumSplit
<1>4. Sum(S2) = (IF c \in S2 THEN f[c] ELSE 0) + Sum(S3)
  <2> HIDE DEF S1, S2
  <2> QED
    BY <1>3, SumSplit
<1>5. S3 = {} /\ Sum(S3) = 0
  BY SumEmpty
<1>6. (b \in S1 <=> b \in S) /\ (c \in S2 <=> c \in S)
  OBVIOUS
<1>7. At(a) \in Int /\ At(b) \in Int /\ At(c) \in Int
  BY DEF IntOn
<1>8. Sum(S1) = At(b) + Sum(S2) /\ Sum(S2) = At(c) + Sum(S3)
  BY <1>3, <1>4, <1>6
<1> HIDE DEF At, Sum, S1, S2, S3
<1>9. Sum(S) = At(a) + At(b) + At(c)
  BY <1>2, <1>5, <1>7, <1>8
<1> QED
  BY <1>9 DEF At, Sum

(* What a mix of these denominations is worth, and its notes.              *)
LEMMA ThreeDenominations ==
    ASSUME NEW unit \in Nat \ {0}, Denominations \subseteq {10 * unit, 5 * unit, 2 * unit},
           NEW mix \in MixesOf(Nat)
    PROVE  /\ Notes(mix) = NotesAt(mix, 10 * unit) + NotesAt(mix, 5 * unit) + NotesAt(mix, 2 * unit)
           /\ Worth(mix) = (10 * unit) * NotesAt(mix, 10 * unit)
                              + (5 * unit) * NotesAt(mix, 5 * unit)
                              + (2 * unit) * NotesAt(mix, 2 * unit)
<1> DEFINE a == 10 * unit
           b == 5 * unit
           c == 2 * unit
           S == DOMAIN mix
           f == [d \in S |-> d * mix[d]]
<1>1. a \in Nat /\ b \in Nat /\ c \in Nat /\ a # b /\ a # c /\ b # c
  OBVIOUS
<1>2. S \in SUBSET {a, b, c} /\ IntOn(mix, S) /\ Notes(mix) = SumFunctionOnSet(mix, S)
  BY MixTyped
<1>3. \A d \in S : f[d] = d * mix[d]
  OBVIOUS
<1> HIDE DEF a, b, c, f
<1>4. Worth(mix) = SumFunctionOnSet(f, S) /\ IntOn(f, S)
  BY <1>3, WorthTyped DEF IntOn
<1>5. \A d \in {a, b, c} : (IF d \in S THEN mix[d] ELSE 0) = NotesAt(mix, d)
  BY DEF NotesAt
<1>6. \A d \in {a, b, c} : (IF d \in S THEN f[d] ELSE 0) = d * NotesAt(mix, d)
  BY <1>1, <1>3 DEF NotesAt
<1>7. Notes(mix) = NotesAt(mix, a) + NotesAt(mix, b) + NotesAt(mix, c)
  BY <1>1, <1>2, <1>5, SumThree
<1>8. Worth(mix) = a * NotesAt(mix, a) + b * NotesAt(mix, b) + c * NotesAt(mix, c)
  BY <1>1, <1>2, <1>4, <1>6, SumThree
<1> QED
  BY <1>7, <1>8 DEF a, b, c

(* A mix that the cassettes can pay has no more notes than were drawn.     *)
LEMMA PayableAt ==
    ASSUME CdmTypeOK, NEW mix \in MixesOf(Nat), Payable(mix),
           NEW x, x.mix \in MixesOf(Nat), NEW d, AllDrawn(x, Spendable, d)
    PROVE  NotesAt(mix, d) <= NotesAt(x.mix, d)
<1>1. NotesAt(mix, d) \in Nat /\ NotesAt(x.mix, d) \in Nat
  BY NotesAtTyped
<1>2. CASE d \notin Denominations
  <2>1. NotesAt(mix, d) = 0
    BY <1>2, MixTyped DEF NotesAt
  <2> QED
    BY <1>1, <2>1
<1>3. CASE d \in Denominations
  <2>1. PICK u \in Cassettes : Denom[u] = d
    BY <1>3, DenominationsTyped
  <2>2. NotesAt(mix, d) <= IF status[u] = "JAMMED" THEN 0 ELSE count[u]
    BY <2>1 DEF Payable, Given, NotesAt
  <2>3. count[u] \in Nat
    BY DEF CdmTypeOK, Units
  <2>4. CASE u \in Spendable
    <3>1. NotesAt(x.mix, d) = count[u] /\ status[u] # "JAMMED"
      BY <2>1, <2>4 DEF AllDrawn, Spendable
    <3> QED
      BY <2>2, <3>1
  <2>5. CASE u \notin Spendable
    <3>1. NotesAt(mix, d) <= 0
      BY <1>1, <2>2, <2>3, <2>5 DEF Spendable
    <3> QED
      BY <1>1, <3>1
  <2> QED
    BY <2>4, <2>5
<1> QED
  BY <1>2, <1>3

LEMMA UnitCancels ==
    ASSUME NEW unit \in Nat \ {0}, NEW m \in Nat, NEW n \in Nat
    PROVE  /\ unit * m = unit * n => m = n
           /\ unit * m < unit * n => m < n
<1>1. ASSUME NEW p \in Nat, NEW q \in Nat, p < q PROVE unit * p < unit * q
  <2>1. unit * (q - p) > 0
    BY <1>1
  <2>2. unit * q = unit * (q - p) + unit * p
    OBVIOUS
  <2>3. unit * p \in Nat /\ unit * (q - p) \in Int
    OBVIOUS
  <2> QED
    BY <2>1, <2>2, <2>3
<1> DEFINE M == unit * m
           N == unit * n
<1>2. M \in Nat /\ N \in Nat /\ (m < n => M < N) /\ (n < m => N < M) /\ (m = n => M = N)
  BY <1>1
<1> HIDE DEF M, N
<1>3. (M = N => m = n) /\ (M < N => m < n)
  BY <1>2
<1> QED
  BY <1>3 DEF M, N

(* Of two ways to pay in 10, 5 and 2, the one with more of the larger      *)
(* notes, as far as they go into the amount, has no more notes.            *)
LEMMA LargerIsFewer ==
    ASSUME NEW a \in Nat, NEW b \in Nat, NEW c \in Nat, NEW i \in Nat, NEW j \in Nat, NEW k \in Nat,
           10 * a + 5 * b + 2 * c = 10 * i + 5 * j + 2 * k,
           i <= a \/ 5 * b + 2 * c < 10,
           j <= b \/ 2 * c < 5
    PROVE  a + b + c <= i + j + k
<1>1. i <= a
  OBVIOUS
<1>2. CASE j <= b
  BY <1>1, <1>2
<1>3. CASE 2 * c < 5 /\ b < j
  <2>1. c = 0 \/ c = 1 \/ c = 2
    BY <1>3
  <2> QED
    BY <1>1, <1>3, <2>1
<1> QED
  BY <1>2, <1>3

(***************************************************************************)
(* With notes in those proportions the greedy mix, when there is one, has  *)
(* the fewest notes of all the mixes that the cassettes can pay, whichever *)
(* of them are jammed or short.                                            *)
(***************************************************************************)
LEMMA GreedyFewest ==
    ASSUME CdmTypeOK, Rupiah, NEW amount \in Requested,
           calculateMinNotesMix(amount).remaining = 0,
           NEW mix \in MixesOf(Nat), Worth(mix) = amount, Payable(mix)
    PROVE  Notes(calculateMinNotesMix(amount).mix) <= Notes(mix)
<1> DEFINE g == calculateMinNotesMix(amount)
<1>1. PICK unit \in Nat \ {0} : Denominations \subseteq {10 * unit, 5 * unit, 2 * unit}
  BY DEF Rupiah
<1>2. amount \in Nat
  BY CdmAssumption
<1>3. Exact(g, Spendable, amount) /\ Greedy(g, Spendable, unit)
  BY <1>1, <1>2, GreedyExact, GreedyHolds
<1>4. g.remaining = 0
  OBVIOUS
<1> HIDE DEF g
<1>5. g.mix \in MixesOf(Nat) /\ Worth(g.mix) + g.remaining = amount
  BY <1>3 DEF Exact
<1> DEFINE a == NotesAt(g.mix, 10 * unit)
           b == NotesAt(g.mix, 5 * unit)
           c == NotesAt(g.mix, 2 * unit)
           i == NotesAt(mix, 10 * unit)
           j == NotesAt(mix, 5 * unit)
           k == NotesAt(mix, 2 * unit)
<1>6. a \in Nat /\ b \in Nat /\ c \in Nat /\ i \in Nat /\ j \in Nat /\ k \in Nat
  BY <1>5, NotesAtTyped
<1>7. /\ Notes(g.mix) = a + b + c
      /\ Worth(g.mix) = (10 * unit) * a + (5 * unit) * b + (2 * unit) * c
      /\ Notes(mix) = i + j + k
      /\ Worth(mix) = (10 * unit) * i + (5 * unit) * j + (2 * unit) * k
  BY <1>1, <1>5, ThreeDenominations
<1>8. /\ i <= a \/ (5 * unit) * b + (2 * unit) * c < 10 * unit
      /\ j <= b \/ (2 * unit) * c < 5 * unit
  <2>1. \A d : AllDrawn(g, Spendable, d) => NotesAt(mix, d) <= NotesAt(g.mix, d)
    BY <1>5, PayableAt
  <2>2. /\ AllDrawn(g, Spendable, 10 * unit) \/ (5 * unit) * b + (2 * unit) * c + g.remaining < 10 * unit
        /\ AllDrawn(g, Spendable, 5 * unit) \/ (2 * unit) * c + g.remaining < 5 * unit
    BY <1>3 DEF Greedy
  <2>3. (5 * unit) * b + (2 * unit) * c \in Nat /\ (2 * unit) * c \in Nat
    BY <1>6
  <2>4. /\ AllDrawn(g, Spendable, 10 * unit) => i <= a
        /\ AllDrawn(g, Spendable, 5 * unit) => j <= b
    BY <2>1
  <2> DEFINE p == (5 * unit) * b + (2 * unit) * c
             q == (2 * unit) * c
  <2>5. /\ AllDrawn(g, Spendable, 10 * unit) \/ p + 0 < 10 * unit
        /\ AllDrawn(g, Spendable, 5 * unit) \/ q + 0 < 5 * unit
    BY <1>4, <2>2
  <2>6. p + 0 = p /\ q + 0 = q
    BY <2>3
  <2> HIDE DEF p, q, a, b, i, j
  <2>7. (i <= a \/ p < 10 * unit) /\ (j <= b \/ q < 5 * unit)
    BY <2>4, <2>5, <2>6
  <2> QED
    BY <2>7 DEF p, q
<1>9. Worth(g.mix) = Worth(mix)
  <2> DEFINE w == Worth(g.mix)
  <2>1. w \in Nat /\ w + 0 = amount
    BY <1>1, <1>4, <1>5, <1>6, <1>7
  <2> HIDE DEF w
  <2>2. w = amount
    BY <2>1
  <2> QED
    BY <2>2 DEF w
<1> HIDE DEF a, b, c, i, j, k
<1>10. /\ 10 * a + 5 * b + 2 * c = 10 * i + 5 * j + 2 * k
       /\ i <= a \/ 5 * b + 2 * c < 10
       /\ j <= b \/ 2 * c < 5
  <2>1. /\ unit * (10 * a + 5 * b + 2 * c) = (10 * unit) * a + (5 * unit) * b + (2 * unit) * c
        /\ unit * (10 * i + 5 * j + 2 * k) = (10 * unit) * i + (5 * unit) * j + (2 * unit) * k
        /\ unit * (5 * b + 2 * c) = (5 * unit) * b + (2 * unit) * c
        /\ unit * (2 * c) = (2 * unit) * c
        /\ unit * 10 = 10 * unit /\ unit * 5 = 5 * unit
    BY <1>6
  <2>2. /\ 10 * a + 5 * b + 2 * c \in Nat /\ 10 * i + 5 * j + 2 * k \in Nat
        /\ 5 * b + 2 * c \in Nat /\ 2 * c \in Nat
    BY <1>6
  <2>3. unit * (10 * a + 5 * b + 2 * c) = unit * (10 * i + 5 * j + 2 * k)
    BY <1>7, <1>9, <2>1
  <2>4. 10 * a + 5 * b + 2 * c = 10 * i + 5 * j + 2 * k
    <3> DEFINE m == 10 * a + 5 * b + 2 * c
               n == 10 * i + 5 * j + 2 * k
    <3>1. m \in Nat /\ n \in Nat /\ unit * m = unit * n
      BY <2>2, <2>3
    <3> HIDE DEF m, n
    <3>2. m = n
      BY <3>1, UnitCancels
    <3> QED
      BY <3>2 DEF m, n
  <2>5. i <= a \/ unit * (5 * b + 2 * c) < unit * 10
    BY <1>8, <2>1
  <2>6. j <= b \/ unit * (2 * c) < unit * 5
    BY <1>8, <2>1
  <2>7. i <= a \/ 5 * b + 2 * c < 10
    BY <2>2, <2>5, UnitCancels
  <2>8. j <= b \/ 2 * c < 5
    BY <2>2, <2>6, UnitCancels
  <2> QED
    BY <2>4, <2>7, <2>8
<1>11. a + b + c <= i + j + k
  BY <1>6, <1>10, LargerIsFewer
<1> QED
  BY <1>7, <1>11 DEF g

LEMMA FewestInAll == ASSUME Rupiah, CdmTypeOK, TrayWorthAmount PROVE MixIsMinimal
<1>1. ASSUME NEW amount \in Requested, NEW mix \in ExactMixes[amount]
      PROVE  mix \in MixesOf(Nat) /\ Worth(mix) = amount
  <2> DEFINE most == Max({Maximum[u] : u \in Cassettes})
  <2>1. mix \in [Denominations -> 0 .. most] /\ Worth(mix) = amount
    BY <1>1 DEF ExactMixes
  <2> HIDE DEF most
  <2>2. mix \in [Denominations -> Nat]
    BY <2>1
  <2> QED
    BY <2>1, <2>2 DEF MixesOf
<1>2. MixIsExact
  BY ExactInAll
<1>3. ASSUME NEW amount \in Requested, calculateMinNotesMix(amount).remaining = 0,
             NEW mix \in ExactMixes[amount], Payable(mix)
      PROVE  Notes(calculateMinNotesMix(amount).mix) <= Notes(mix)
  BY <1>1, <1>3, GreedyFewest
<1> QED
  BY <1>2, <1>3 DEF MixIsMinimal

-----------------------------------------------------------------------------
(***************************************************************************)
(* The invariant: the notes, the timer, and the tray.                      *)
(***************************************************************************)
CdmInv == CdmTypeOK /\ NotesConserved /\ OnlyShownIsTaken /\ TrayWorthAmount

LEMMA StatusTyped ==
    ASSUME NEW u \in Cassettes, NEW n \in Nat
    PROVE  /\ StatusOf(u, n) \in {"OK", "LOW", "EMPTY"}
           /\ StatusOf(u, n) = "OK" <=> (n > 0 /\ n > Minimum[u])
           /\ StatusOf(u, n) = "EMPTY" <=> n = 0
BY CdmAssumption DEF StatusOf

LEMMA CdmInitInv == CdmInit => CdmInv
<1> SUFFICES ASSUME CdmInit PROVE CdmInv
    OBVIOUS
<1>1. CdmTypeOK
  <2>1. SumFunction(InitialCount) \in Nat
    <3>1. SumFunction(InitialCount) = SumFunctionOnSet(InitialCount, Cassettes)
      BY CdmAssumption DEF SumFunction
    <3> QED
      BY <3>1, CdmAssumption, SumNat
  <2>2. count \in [Units -> Nat] /\ status \in [Cassettes -> {"OK", "LOW", "EMPTY", "JAMMED"}]
    BY CdmAssumption DEF CdmInit, Units
  <2>3. /\ takeTimer \in BOOLEAN /\ cdmInjectedError \in BOOLEAN
        /\ shown \in BOOLEAN /\ overtaken \in BOOLEAN
    BY DEF CdmInit
  <2>4. presentedCash \in Bundle \cup {NoCash} /\ inside \in Int
    BY <2>1 DEF CdmInit
  <2> QED
    BY <2>2, <2>3, <2>4 DEF CdmTypeOK
<1>2. inside = SumFunction(count) + InTray
  <2>1. count \in [Units -> Nat] /\ count["REJECT"] = 0 /\ \A u \in Cassettes : count[u] = InitialCount[u]
    BY <1>1, CdmAssumption DEF CdmInit, CdmTypeOK, Units
  <2>2. SumFunction(InitialCount) = SumFunctionOnSet(InitialCount, Cassettes)
    BY CdmAssumption DEF SumFunction
  <2>3. SumFunctionOnSet(count, Cassettes) = SumFunctionOnSet(InitialCount, Cassettes)
    <3>1. IsFiniteSet(Cassettes) /\ IntOn(count, Cassettes)
      BY <2>1, CountTotal, CdmAssumption
    <3> QED
      BY <2>1, <3>1, SumEqual
  <2>4. SumFunction(count) = SumFunctionOnSet(InitialCount, Cassettes)
    BY <2>1, <2>3, CountTotal
  <2> QED
    BY <2>1, <2>2, <2>4, CountTotal DEF CdmInit, InTray
<1>3. StatusMatchesCount
  <2>1. ASSUME NEW u \in Cassettes PROVE status[u] = StatusOf(u, count[u])
    <3>1. status[u] = "OK" /\ count[u] = InitialCount[u]
      BY CdmAssumption DEF CdmInit, Units
    <3>2. InitialCount[u] \in Nat /\ InitialCount[u] > Minimum[u] /\ Minimum[u] \in Nat
      BY CdmAssumption
    <3> QED
      BY <3>1, <3>2, StatusTyped
  <2> QED
    BY <2>1 DEF StatusMatchesCount
<1> QED
  BY <1>1, <1>2, <1>3 DEF CdmInv, NotesConserved, OnlyShownIsTaken, TrayWorthAmount, CdmInit

LEMMA TrayTyped == CdmTypeOK => InTray \in Nat
  BY MixTyped DEF CdmTypeOK, Bundle, InTray

(* DISPENSE moves the notes of the mix from the cassettes to the tray, and *)
(* those that were in the tray are forgotten.                              *)
LEMMA DispenseInv ==
    ASSUME CdmInv, NEW amount \in Requested, NEW mix \in MixesFor(amount),
           NEW present \in BOOLEAN, Dispense(amount, mix, present)
    PROVE  CdmInv'
<1> DEFINE given == [u \in Cassettes |-> Given(u, mix)]
<1>0. /\ CdmTypeOK /\ count \in [Units -> Nat] /\ inside \in Int
      /\ StatusMatchesCount /\ inside = SumFunction(count) + InTray /\ Sufficient(mix)
      /\ amount \in Nat
  BY CdmAssumption DEF CdmInv, CdmTypeOK, NotesConserved, Dispense
<1>1. mix \in MixesOf(Nat) /\ Worth(mix) = amount
  BY <1>0, MixWorthAmount
<1>2. [amount |-> amount, notes |-> mix] \in Bundle /\ presentedCash' = [amount |-> amount, notes |-> mix]
      /\ presentedCash' # NoCash
  BY <1>1, CdmAssumption DEF Bundle, Dispense
<1>3. ASSUME NEW u \in Cassettes
      PROVE  /\ Given(u, mix) \in Nat /\ Given(u, mix) <= count[u] /\ count[u] \in Nat
             /\ count'[u] = count[u] - Given(u, mix) /\ count'[u] \in Nat
             /\ Denom[u] \in DOMAIN mix => status[u] # "JAMMED"
             /\ Denom[u] \notin DOMAIN mix => count'[u] = count[u]
  <2>1. count[u] \in Nat /\ u # "REJECT" /\ UnitFor(Denom[u]) = u
    BY <1>0, CdmAssumption, DenominationsTyped DEF Units
  <2>2. Given(u, mix) \in Nat
    BY <1>1, MixTyped DEF Given
  <2>3. /\ Given(u, mix) <= count[u]
        /\ Denom[u] \in DOMAIN mix => status[u] # "JAMMED"
    BY <1>0, <2>1, <2>2 DEF Sufficient, Given
  <2>4. count'[u] = count[u] - Given(u, mix)
    BY <2>1 DEF Dispense, Units
  <2> QED
    BY <2>1, <2>2, <2>3, <2>4 DEF Given
<1>4. count' \in [Units -> Nat] /\ count'["REJECT"] = count["REJECT"] /\ count["REJECT"] \in Nat
  BY <1>0, <1>3 DEF Dispense, Units
<1>6. InTray \in Nat /\ InTray' = Notes(mix) /\ Notes(mix) \in Nat
  BY <1>0, <1>1, <1>2, TrayTyped, MixTyped DEF InTray
<1>5. CdmTypeOK'
  <2>1. status' \in [Cassettes -> {"OK", "LOW", "EMPTY", "JAMMED"}]
    BY <1>0, <1>3, StatusTyped, SMTT(30) DEF Dispense, CdmTypeOK
  <2> QED
    <3>1. takeTimer' \in BOOLEAN /\ shown' \in BOOLEAN /\ overtaken' \in BOOLEAN
      BY <1>0, Zenon DEF Dispense, CdmTypeOK
    <3>2. inside' \in Int
      BY <1>0, <1>6 DEF Dispense, ForgetTray
    <3>3. cdmInjectedError' \in BOOLEAN
      BY <1>0, Zenon DEF Dispense, CdmTypeOK
    <3> QED
      BY <1>2, <1>4, <2>1, <3>1, <3>2, <3>3 DEF CdmTypeOK
<1>7. SumFunction(count) = SumFunction(count') + Notes(mix) /\ SumFunction(count') \in Nat
  <2>1. /\ IsFiniteSet(Cassettes) /\ IntOn(count', Cassettes)
        /\ SumFunction(count') = count'["REJECT"] + SumFunctionOnSet(count', Cassettes)
        /\ SumFunctionOnSet(count', Cassettes) \in Nat
        /\ SumFunction(count) = count["REJECT"] + SumFunctionOnSet(count, Cassettes)
    BY <1>0, <1>4, CountTotal, CdmAssumption
  <2>2. IntOn(given, Cassettes) /\ \A u \in Cassettes : count[u] = count'[u] + given[u]
    BY <1>3 DEF IntOn
  <2>3. SumFunctionOnSet(given, Cassettes) = Notes(mix)
    BY <1>1, GivenTotal
  <2> HIDE DEF given
  <2>4. SumFunctionOnSet(count, Cassettes) =
           SumFunctionOnSet(count', Cassettes) + SumFunctionOnSet(given, Cassettes)
    BY <2>1, <2>2, SumPlus
  <2> QED
    BY <1>4, <1>6, <2>1, <2>3, <2>4
<1>8. StatusMatchesCount'
  <2>1. ASSUME NEW u \in Cassettes, status'[u] # "JAMMED" PROVE status'[u] = StatusOf(u, count'[u])
    <3>1. status'[u] = IF Denom[u] \in DOMAIN mix /\ StatusOf(u, count'[u]) # "OK"
                       THEN StatusOf(u, count'[u]) ELSE status[u]
      BY DEF Dispense
    <3>2. CASE Denom[u] \in DOMAIN mix /\ StatusOf(u, count'[u]) # "OK"
      BY <3>1, <3>2
    <3>3. CASE Denom[u] \notin DOMAIN mix
      BY <1>0, <1>3, <2>1, <3>1, <3>3 DEF StatusMatchesCount
    <3>4. CASE Denom[u] \in DOMAIN mix /\ StatusOf(u, count'[u]) = "OK"
      <4>1. status[u] = StatusOf(u, count[u]) /\ Minimum[u] \in Nat
        BY <1>0, <1>3, <3>4, CdmAssumption DEF StatusMatchesCount
      <4>2. count'[u] > 0 /\ count'[u] > Minimum[u]
        BY <1>3, <3>4, StatusTyped
      <4>3. count[u] > 0 /\ count[u] > Minimum[u]
        BY <1>3, <4>1, <4>2
      <4>4. StatusOf(u, count[u]) = "OK"
        BY <1>3, <4>3, StatusTyped
      <4> QED
        BY <3>1, <3>4, <4>1, <4>4
    <3> QED
      BY <3>2, <3>3, <3>4
  <2> QED
    BY <2>1 DEF StatusMatchesCount
<1>9. NotesConserved'
  <2>1. inside' = inside - InTray
    BY DEF Dispense, ForgetTray
  <2>2. inside' = SumFunction(count') + InTray'
    BY <1>0, <1>6, <1>7, <2>1
  <2> QED
    BY <1>8, <2>2 DEF NotesConserved
<1>10. OnlyShownIsTaken'
  BY <1>2 DEF OnlyShownIsTaken, Dispense
<1>11. TrayWorthAmount'
  <2>1. presentedCash'.notes = mix /\ presentedCash'.amount = amount
    BY <1>2
  <2> QED
    BY <1>1, <2>1 DEF TrayWorthAmount, Worth
<1> QED
  BY <1>5, <1>9, <1>10, <1>11 DEF CdmInv

(* When one unit's count changes, the sum changes by as much.              *)
LEMMA CountChange ==
    ASSUME NEW c \in [Units -> Nat], NEW e \in [Units -> Nat], NEW u \in Units,
           \A v \in Units \ {u} : c[v] = e[v]
    PROVE  /\ SumFunction(c) \in Nat
           /\ SumFunction(e) = SumFunction(c) - c[u] + e[u]
<1>1. /\ IsFiniteSet(Units) /\ IntOn(c, Units) /\ IntOn(e, Units)
      /\ SumFunction(c) = SumFunctionOnSet(c, Units) /\ SumFunction(e) = SumFunctionOnSet(e, Units)
  BY CountTotal
<1>2. SumFunctionOnSet(e, Units) = SumFunctionOnSet(c, Units) - c[u] + e[u]
  BY <1>1, SumChange
<1>3. SumFunction(c) \in Nat
  BY <1>1, SumNat
<1> QED
  BY <1>1, <1>2, <1>3

LEMMA CdmStepInv ==
    ASSUME CdmInv, [CdmNext]_cdmVars
    PROVE  CdmInv'
<1>0. /\ CdmTypeOK /\ count \in [Units -> Nat] /\ inside \in Int
      /\ StatusMatchesCount /\ inside = SumFunction(count) + InTray
      /\ OnlyShownIsTaken /\ TrayWorthAmount /\ "REJECT" \in Units /\ "REJECT" \notin Cassettes
  BY CdmAssumption DEF CdmInv, CdmTypeOK, NotesConserved, Units
<1>1. presentedCash # NoCash =>
         /\ presentedCash \in Bundle /\ presentedCash.notes \in MixesOf(Nat)
         /\ InTray = Notes(presentedCash.notes) /\ InTray \in Nat
  BY <1>0, MixTyped DEF CdmTypeOK, Bundle, InTray
<1>2. presentedCash = NoCash => InTray = 0
  BY DEF InTray
<1>20. SumFunction(count) \in Nat /\ InTray \in Nat /\ count["REJECT"] \in Nat
  BY <1>0, <1>1, <1>2, CountChange
<1>3. ASSUME UNCHANGED <<count, status, presentedCash, inside>>,
             takeTimer' \in BOOLEAN, cdmInjectedError' \in BOOLEAN, shown' \in BOOLEAN,
             overtaken' \in BOOLEAN, OnlyShownIsTaken'
      PROVE  CdmInv'
  BY <1>0, <1>3 DEF CdmInv, CdmTypeOK, NotesConserved, StatusMatchesCount, InTray, TrayWorthAmount
<1>4. CASE \E amount \in Requested : \E mix \in MixesFor(amount), present \in BOOLEAN :
              Dispense(amount, mix, present)
  BY <1>4, DispenseInv
<1>5. CASE Present
  BY <1>0, <1>3, <1>5 DEF Present, OnlyShownIsTaken, CdmTypeOK
<1>6. CASE CdmThrowInjected \/ CdmInjectError \/ UNCHANGED cdmVars
  <2>1. /\ UNCHANGED <<count, status, presentedCash, inside, takeTimer, shown, overtaken>>
        /\ cdmInjectedError' \in BOOLEAN
    <3>1. CASE CdmThrowInjected
      BY <3>1 DEF CdmThrowInjected
    <3>2. CASE CdmInjectError
      BY <3>2 DEF CdmInjectError
    <3>3. CASE UNCHANGED cdmVars
      BY <1>0, <3>3 DEF cdmVars, CdmTypeOK
    <3> QED
      BY <1>6, <3>1, <3>2, <3>3
  <2>2. takeTimer' \in BOOLEAN /\ shown' \in BOOLEAN /\ overtaken' \in BOOLEAN /\ OnlyShownIsTaken'
    BY <1>0, <2>1 DEF OnlyShownIsTaken, CdmTypeOK
  <2> QED
    BY <1>3, <2>1, <2>2
<1>7. CASE Retract
  <2> DEFINE n == count["REJECT"] + Notes(presentedCash.notes)
  <2>1. /\ presentedCash # NoCash /\ n \in Nat /\ count' = [count EXCEPT !["REJECT"] = n]
        /\ presentedCash' = NoCash /\ takeTimer' = FALSE /\ shown' = FALSE /\ overtaken' = FALSE
        /\ UNCHANGED <<status, cdmInjectedError, inside>>
    BY <1>0, <1>1, <1>7, <1>20 DEF Retract
  <2>2. count' \in [Units -> Nat] /\ SumFunction(count') = SumFunction(count) - count["REJECT"] + n
    <3> HIDE DEF n
    <3>1. /\ count' \in [Units -> Nat] /\ count'["REJECT"] = n
          /\ \A v \in Units \ {"REJECT"} : count[v] = count'[v]
      BY <1>0, <2>1
    <3>2. SumFunction(count') = SumFunction(count) - count["REJECT"] + count'["REJECT"]
      BY <1>0, <3>1, CountChange
    <3> QED
      BY <3>1, <3>2
  <2>3. InTray' = 0 /\ \A u \in Cassettes : count'[u] = count[u]
    BY <1>0, <2>1 DEF InTray, Units
  <2>4. CdmTypeOK' /\ OnlyShownIsTaken' /\ TrayWorthAmount'
    BY <1>0, <2>1, <2>2 DEF CdmTypeOK, OnlyShownIsTaken, TrayWorthAmount
  <2>5. StatusMatchesCount'
    BY <1>0, <2>1, <2>3 DEF StatusMatchesCount
  <2>6. inside' = SumFunction(count') + InTray'
    BY <1>0, <1>1, <1>20, <2>1, <2>2, <2>3
  <2> QED
    BY <2>4, <2>5, <2>6 DEF CdmInv, NotesConserved
<1>8. CASE CdmReset \/ TakeTimeout
  <2>1. /\ presentedCash' = NoCash /\ takeTimer' = FALSE /\ shown' = FALSE /\ overtaken' = FALSE
        /\ inside' = inside - InTray /\ UNCHANGED <<count, status>>
        /\ cdmInjectedError' \in BOOLEAN
    BY <1>0, <1>8, Zenon DEF CdmReset, TakeTimeout, ForgetTray, CdmTypeOK
  <2>2. InTray' = 0
    BY <2>1 DEF InTray
  <2>3. inside' = SumFunction(count') + InTray' /\ inside' \in Int
    BY <1>0, <1>20, <2>1, <2>2
  <2> QED
    BY <1>0, <2>1, <2>3 DEF CdmInv, CdmTypeOK, NotesConserved, StatusMatchesCount, OnlyShownIsTaken,
                            TrayWorthAmount
<1>10. ASSUME NEW u \in Units, NEW n \in 0 .. Maximum[u], ReplenishCassette(u, n) PROVE CdmInv'
  <2>0. n \in Nat
    BY CdmAssumption
  <2>1. /\ count' = [count EXCEPT ![u] = n] /\ inside' = inside + n - count[u]
        /\ status' = IF u = "REJECT" THEN status ELSE [status EXCEPT ![u] = StatusOf(u, n)]
        /\ UNCHANGED <<presentedCash, takeTimer, cdmInjectedError, shown, overtaken>>
    BY <1>10 DEF ReplenishCassette
  <2>2. /\ count' \in [Units -> Nat] /\ SumFunction(count') = SumFunction(count) - count[u] + n
        /\ count[u] \in Nat
    <3>1. /\ count' \in [Units -> Nat] /\ count'[u] = n /\ count[u] \in Nat
          /\ \A v \in Units \ {u} : count[v] = count'[v]
      BY <1>0, <2>0, <2>1
    <3>2. SumFunction(count') = SumFunction(count) - count[u] + count'[u]
      BY <1>0, <3>1, CountChange
    <3> QED
      BY <3>1, <3>2
  <2>3. InTray' = InTray
    BY <2>1 DEF InTray
  <2>4. inside' = SumFunction(count') + InTray' /\ inside' \in Int
    BY <1>0, <1>20, <2>0, <2>1, <2>2, <2>3
  <2>5. status' \in [Cassettes -> {"OK", "LOW", "EMPTY", "JAMMED"}]
    <3>1. u # "REJECT" => u \in Cassettes /\ StatusOf(u, n) \in {"OK", "LOW", "EMPTY"}
      BY <2>0, StatusTyped DEF Units
    <3> QED
      BY <1>0, <2>1, <3>1 DEF CdmTypeOK
  <2>6. StatusMatchesCount'
    <3>1. ASSUME NEW v \in Cassettes, status'[v] # "JAMMED"
          PROVE  status'[v] = StatusOf(v, count'[v])
      <4>1. CASE v = u
        BY <1>0, <2>1, <4>1 DEF CdmTypeOK
      <4>2. CASE v # u
        <5>1. status'[v] = status[v] /\ count'[v] = count[v]
          BY <1>0, <2>1, <4>2 DEF CdmTypeOK, Units
        <5> QED
          BY <1>0, <3>1, <5>1 DEF StatusMatchesCount
      <4> QED
        BY <4>1, <4>2
    <3> QED
      BY <3>1 DEF StatusMatchesCount
  <2>7. CdmTypeOK'
    BY <1>0, <2>1, <2>2, <2>4, <2>5 DEF CdmTypeOK
  <2>8. OnlyShownIsTaken' /\ TrayWorthAmount'
    BY <1>0, <2>1 DEF OnlyShownIsTaken, TrayWorthAmount
  <2> QED
    BY <2>4, <2>6, <2>7, <2>8 DEF CdmInv, NotesConserved
<1>11. ASSUME NEW u \in Cassettes, SimulateJam(u) \/ ClearJam(u) PROVE CdmInv'
  <2>1. /\ \/ status' = [status EXCEPT ![u] = "JAMMED"]
           \/ status' = [status EXCEPT ![u] = StatusOf(u, count[u])]
        /\ UNCHANGED <<count, presentedCash, takeTimer, cdmInjectedError, shown, overtaken, inside>>
    BY <1>11 DEF SimulateJam, ClearJam
  <2>2. status' \in [Cassettes -> {"OK", "LOW", "EMPTY", "JAMMED"}]
    BY <1>0, <2>1, StatusTyped DEF CdmTypeOK, Units
  <2>3. StatusMatchesCount'
    BY <1>0, <2>1 DEF StatusMatchesCount, CdmTypeOK
  <2> QED
    BY <1>0, <2>1, <2>2, <2>3
       DEF CdmInv, CdmTypeOK, NotesConserved, OnlyShownIsTaken, TrayWorthAmount, InTray
<1> QED
  BY <1>4, <1>5, <1>6, <1>7, <1>8, <1>10, <1>11 DEF CdmNext

(***************************************************************************)
(* Whatever the order of dispenses, retracts, resets, timeouts, jams and   *)
(* replenishments, for any cassettes: the notes in the units and in the    *)
(* tray are those put in, less those taken, less those in the tray when a  *)
(* second DISPENSE or a RESET dropped presentedCash; no other path loses   *)
(* or invents a note.                                                      *)
(***************************************************************************)
THEOREM NoNoteLost == CdmSpec => []NotesConserved
<1>1. CdmInv /\ [CdmNext]_cdmVars => CdmInv'
  BY CdmStepInv
<1>2. CdmInv => NotesConserved
  BY DEF CdmInv
<1> QED
  BY <1>1, <1>2, CdmInitInv, PTL DEF CdmSpec

(***************************************************************************)
(* The take timer runs only while there are notes in the tray: a RETRACT   *)
(* or RESET that comes first has stopped it.  The customer was shown these *)
(* notes, unless a DISPENSE that does not present overtook the timer.      *)
(***************************************************************************)
THEOREM OnlyShownTaken == CdmSpec => []OnlyShownIsTaken
<1>1. CdmInv /\ [CdmNext]_cdmVars => CdmInv'
  BY CdmStepInv
<1>2. CdmInv => OnlyShownIsTaken
  BY DEF CdmInv
<1> QED
  BY <1>1, <1>2, CdmInitInv, PTL DEF CdmSpec

(***************************************************************************)
(* For any denominations: the notes in the tray are worth the amount that  *)
(* was asked for, and the mix that the greedy choice finds is exact and    *)
(* one that dispense can pay.                                              *)
(***************************************************************************)
THEOREM TrayPaysAmount == CdmSpec => [](TrayWorthAmount /\ MixIsExact)
<1>1. CdmInv /\ [CdmNext]_cdmVars => CdmInv'
  BY CdmStepInv
<1>2. CdmInv => TrayWorthAmount /\ MixIsExact
  BY ExactInAll DEF CdmInv
<1> QED
  BY <1>1, <1>2, CdmInitInv, PTL DEF CdmSpec

(***************************************************************************)
(* With notes of 10, 5 and 2 units, one cassette at most of each and       *)
(* however full, "greedy min-notes" keeps its word: no exact mix that the  *)
(* cassettes can pay has fewer notes than the greedy one.                  *)
(***************************************************************************)
THEOREM FewestNotes == ASSUME Rupiah PROVE CdmSpec => []MixIsMinimal
<1>1. CdmInv /\ [CdmNext]_cdmVars => CdmInv'
  BY CdmStepInv
<1>2. CdmInv => MixIsMinimal
  BY FewestInAll DEF CdmInv
<1> QED
  BY <1>1, <1>2, CdmInitInv, PTL DEF CdmSpec

=============================================================================
