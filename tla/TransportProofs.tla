-------------------------- MODULE TransportProofs ---------------------------
(***************************************************************************)
(* Proofs about how requests reach the host, for any configs, settings,    *)
(* requests, payments and bounds.                                          *)
(*                                                                         *)
(* HostTransport: its types, and that the console tells the truth as long  *)
(* as no two requests overlap.                                             *)
(* Iso20022Http: the bank answers ACSC to the payments it debited and to   *)
(* no other.                                                               *)
(* IsoTcp: the messages handled are those sent, wherever the network cuts  *)
(* the bytes, and none is answered twice.                                  *)
(***************************************************************************)
EXTENDS HostTransport, Iso20022Http, IsoTcp, Sums, SequenceTheorems, TLAPS

-----------------------------------------------------------------------------
(***************************************************************************)
(* The console's transports: what holds between two steps.                 *)
(***************************************************************************)
(* What a request in progress carries, by where it is.                     *)
TaskTyped(j) ==
    /\ j # Idle => j.pc # "idle" /\ j.at \in Configs /\ j.cfg \in Configs
    /\ j.pc \in {"startFound", "bound", "enable", "edit"} => j.row \in Row
    /\ j.pc \in {"bound", "enable", "closing"} => j.slot \in Slots

(* onModuleInit starts configs and does nothing else.                      *)
OfBoot(j) == j.pc \in {"idle", "startFound", "bound", "enable"} /\ j.op # "setActive"

(* No request is served before the auto-start is over, so the rows it      *)
(* found are still there.                                                  *)
BootFirst ==
    /\ toBoot # {} \/ task[Boot] # Idle => \A t \in Requests : task[t] = Idle
    /\ OfBoot(task[Boot])
    /\ \A c \in toBoot : rows[c].exists

HistoryTyped ==
    /\ bootFailed \subseteq Configs
    /\ unsaved \subseteq Configs
    /\ active \in Configs \union {NoConfig}

SocketsOnly == \A i \in Slots : transport[i].conns # 0 => HasSocket(transport[i].setting)

TransportTyped ==
    /\ TypeOK
    /\ \A t \in Tasks : TaskTyped(task[t])
    /\ BootFirst
    /\ SocketsOnly

(* Transport i listens for config c ...                                    *)
Listens(i, c) == transport[i].state = "listening" /\ transport[i].cfg = c

(* ... with the setting of its row.                                        *)
Serves(i, c) == Listens(i, c) /\ transport[i].setting = rows[c].setting

(* Map and socket of config c agree, and its row with them unless its last *)
(* write of `enabled' was refused ...                                      *)
Good(c) ==
    /\ ~ rows[c].exists => running[c] = 0
    /\ running[c] # 0 => Listens(running[c], c)
    /\ c \notin unsaved =>
        /\ rows[c].exists => (running[c] # 0 <=> rows[c].enabled /\ c \notin bootFailed)
        /\ running[c] # 0 => Serves(running[c], c)

(* ... or it is still to be started by onModuleInit.                       *)
ToStart(c) == rows[c].exists /\ rows[c].enabled /\ running[c] = 0 /\ c \notin bootFailed

Fine(c) == IF c \in toBoot THEN ToStart(c) ELSE Good(c)

(* What holds of the config a request is at, by where the request is.      *)
Doing(t) ==
    LET j == task[t]
        c == j.at
    IN
    /\ c \notin toBoot
    /\ j.pc # "drop" => rows[c].exists
    /\ j.pc \in {"peers", "deleteFound", "stopFound", "edit", "drop"} => Good(c)
    /\ j.pc \in {"startFound", "bound", "enable"} => j.row.setting = rows[c].setting
    /\ j.pc = "startFound" => IF t = Boot THEN ToStart(c) ELSE Good(c)
    /\ j.pc = "bound" => running[c] = 0 /\ Serves(j.slot, c)
    /\ j.pc = "enable" => running[c] = j.slot /\ Serves(j.slot, c) /\ c \notin bootFailed
    /\ j.pc = "closing" => /\ running[c] = j.slot
                           /\ transport[j.slot].cfg = c /\ transport[j.slot].state = "closing"
    /\ j.pc \in {"disable", "drop"} => running[c] = 0
    /\ j.pc = "edit" => ~ rows[c].enabled

(* A setActive stops one peer after the other: whatever runs, other than   *)
(* its target and the peers still to come, is of another kind (or its row  *)
(* has not been told that it runs).                                        *)
PeersStopped(j) ==
    /\ rows[j.cfg].exists
    /\ j.pc \in {"peers", "startFound", "bound", "enable", "stopFound", "closing", "disable"}
    /\ j.pc \in {"startFound", "bound", "enable"} => j.at = j.cfg /\ j.peers = {}
    /\ j.pc \in {"stopFound", "closing", "disable"} => j.at # j.cfg
    /\ j.cfg \notin j.peers
    /\ \A d \in Configs \ (j.peers \union {j.cfg}) :
          \/ running[d] = 0
          \/ d = j.at /\ j.pc \in {"stopFound", "closing"}
          \/ d \in unsaved
          \/ transport[running[d]].setting.kind # rows[j.cfg].setting.kind

Alone(t) == \A u \in Tasks \ {t} : task[u] = Idle

(* Request t is the only one, it has done what it should have by now, and  *)
(* all is well with every other config.                                    *)
OnlyTask(t) ==
    /\ task[t] # Idle /\ Alone(t)
    /\ Doing(t)
    /\ IF task[t].op = "setActive" THEN PeersStopped(task[t])
       ELSE task[t].at = task[t].cfg /\ task[t].pc # "peers"
    /\ \A d \in Configs \ {task[t].at} : Fine(d)

(* The map leads to every transport that is not closed, or will when       *)
(* start() resolves.                                                       *)
Held ==
    \A i \in Slots : transport[i].state # "closed" =>
        \/ running[transport[i].cfg] = i
        \/ \E t \in Tasks : task[t].pc = "bound" /\ task[t].slot = i

NoTask == (\A t \in Tasks : task[t] = Idle) /\ \A c \in Configs : Fine(c)

Orderly == Held /\ (NoTask \/ \E t \in Tasks : OnlyTask(t))

AloneNow(c) == AloneOf(rows[c].setting.kind, c)

(* A setActive that was answered, with no request since: its target runs   *)
(* alone of its kind.                                                      *)
Chosen ==
    active # NoConfig =>
        /\ Booted /\ \A t \in Tasks : task[t] = Idle
        /\ active \in Configs /\ rows[active].exists
        /\ running[active] # 0
        /\ AloneNow(active)

TransportInv == TransportTyped /\ (calm => Orderly /\ Chosen)

-----------------------------------------------------------------------------
(***************************************************************************)
(* Types of the transports.                                                *)
(***************************************************************************)
LEMMA IdleTyped ==
    Idle \in Task /\ TaskTyped(Idle) /\ Idle.pc = "idle" /\ Idle.op = "idle" /\ OfBoot(Idle)
  BY TransportAssumption DEF Idle, Task, TaskTyped, OfBoot, NoRow, Row

LEMMA BoundsTyped == MaxConnection \in Nat /\ MaxRestart \in Nat /\ MaxOp \in Nat
  BY TransportAssumption

(* A request in progress, and what its type says of it.                    *)
LEMMA Busy ==
    ASSUME TransportTyped, NEW t \in Tasks, task[t].pc # "idle"
    PROVE  /\ task[t] \in Task /\ task[t] # Idle
           /\ task[t].at \in Configs /\ task[t].cfg \in Configs
           /\ TaskTyped(task[t])
           /\ t # Boot => toBoot = {} /\ task[Boot] = Idle
           /\ t = Boot => task[t].pc \in {"startFound", "bound", "enable"} /\ OfBoot(task[t])
<1>1. task[t] \in Task /\ task[t] # Idle /\ TaskTyped(task[t])
  BY IdleTyped DEF TransportTyped, TypeOK
<1>2. task[t].at \in Configs /\ task[t].cfg \in Configs
  BY <1>1 DEF TaskTyped
<1>3. t # Boot => toBoot = {} /\ task[Boot] = Idle
  BY <1>1 DEF TransportTyped, BootFirst, Tasks
<1>4. t = Boot => task[t].pc \in {"startFound", "bound", "enable"} /\ OfBoot(task[t])
  BY DEF TransportTyped, BootFirst, OfBoot
<1> QED
  BY <1>1, <1>2, <1>3, <1>4

(* What a step of a request in progress must keep typed.                   *)
LEMMA TypedTask ==
    ASSUME TransportTyped, NEW t \in Tasks, task[t].pc # "idle",
           NEW j \in Task, TaskTyped(j),
           t = Boot => OfBoot(j),
           task' = [task EXCEPT ![t] = j],
           rows' \in [Configs -> Row \union {NoRow}],
           running' \in [Configs -> {0} \union Slots],
           transport' \in [Slots -> Transport],
           HistoryTyped',
           UNCHANGED <<toBoot, calm, ops, restarts>>,
           \A c \in toBoot : rows'[c].exists,
           SocketsOnly'
    PROVE  TransportTyped'
<1>1. /\ task' \in [Tasks -> Task] /\ task'[t] = j
      /\ \A u \in Tasks \ {t} : task'[u] = task[u]
  BY DEF TransportTyped, TypeOK
<1>2. TypeOK'
  BY <1>1 DEF TransportTyped, TypeOK, HistoryTyped
<1>3. \A u \in Tasks : TaskTyped(task'[u])
  BY <1>1 DEF TransportTyped
<1>4. BootFirst'
  <2>1. CASE t = Boot
    <3>1. task[Boot] # Idle
      BY <2>1, Busy
    <3> QED
      BY <1>1, <2>1, <3>1, TransportAssumption DEF TransportTyped, BootFirst, Tasks
  <2>2. CASE t # Boot
    <3>1. toBoot = {} /\ task[Boot] = Idle
      BY <2>2, Busy
    <3> QED
      BY <1>1, <2>2, <3>1, IdleTyped DEF BootFirst, Tasks
  <2> QED
    BY <2>1, <2>2
<1> QED
  BY <1>2, <1>3, <1>4 DEF TransportTyped

(* The same when rows, map and transports stay.                            *)
LEMMA TypedMove ==
    ASSUME TransportTyped, NEW t \in Tasks, task[t].pc # "idle",
           NEW j \in Task, TaskTyped(j),
           t = Boot => OfBoot(j),
           GoOn(t, j),
           HistoryTyped',
           UNCHANGED <<rows, running, transport, toBoot, calm, ops, restarts>>
    PROVE  TransportTyped'
<1>1. /\ rows' \in [Configs -> Row \union {NoRow}]
      /\ running' \in [Configs -> {0} \union Slots]
      /\ transport' \in [Slots -> Transport]
      /\ \A c \in toBoot : rows'[c].exists
  BY DEF TransportTyped, TypeOK, BootFirst
<1>2. SocketsOnly'
  BY DEF TransportTyped, SocketsOnly
<1> QED
  BY <1>1, <1>2, TypedTask DEF GoOn

LEMMA RowsExist ==
    ASSUME TransportTyped, NEW c \in Configs
    PROVE  (rows[c].exists => rows[c] \in Row) /\ (~ rows[c].exists => rows[c] = NoRow)
<1>1. rows[c] \in Row \union {NoRow}
  BY DEF TransportTyped, TypeOK
<1>2. CASE rows[c] \in Row
  <2>1. rows[c].exists = TRUE
    BY <1>2 DEF Row
  <2> QED
    BY <1>2, <2>1
<1>3. CASE rows[c] = NoRow
  <2>1. rows[c].exists = FALSE
    BY <1>3 DEF NoRow
  <2> QED
    BY <1>3, <2>1
<1> QED
  BY <1>1, <1>2, <1>3

LEMMA TypedNextPeer ==
    ASSUME TransportTyped, NEW t \in Tasks, NextPeer(t)
    PROVE  TransportTyped'
<1> DEFINE j == task[t]
<1>0. j.pc = "peers" /\ HistoryTyped'
      /\ UNCHANGED <<rows, running, transport, toBoot, calm, ops, restarts>>
  BY DEF NextPeer, TransportTyped, TypeOK, HistoryTyped
<1>1. j \in Task /\ j.cfg \in Configs /\ t # Boot /\ j.peers \subseteq Configs /\ j.at \in Configs
  <2>1. j \in Task /\ j.cfg \in Configs /\ t # Boot /\ j.at \in Configs
    BY <1>0, Busy, SMTT(30)
  <2> QED
    BY <2>1 DEF Task
<1>2. PICK k : /\ GoOn(t, k)
               /\ \/ \E p \in j.peers : \/ k = [j EXCEPT !.peers = @ \ {p}]
                                        \/ k = [j EXCEPT !.pc = "stopFound", !.at = p, !.peers = @ \ {p}]
                  \/ /\ rows[j.cfg].exists
                     /\ k = [j EXCEPT !.pc = "startFound", !.at = j.cfg, !.row = rows[j.cfg]]
  BY ZenonT(40) DEF NextPeer
<1>3. k \in Task /\ TaskTyped(k)
  <2>2. ASSUME NEW p \in j.peers, k = [j EXCEPT !.peers = @ \ {p}]
        PROVE  k \in Task /\ TaskTyped(k)
    <3>1. k \in Task /\ k.pc = "peers" /\ k.at = j.at /\ k.cfg = j.cfg
      BY <1>0, <1>1, <2>2 DEF Task
    <3> QED
      BY <3>1, <1>1 DEF TaskTyped
  <2>3. ASSUME NEW p \in j.peers, k = [j EXCEPT !.pc = "stopFound", !.at = p, !.peers = @ \ {p}]
        PROVE  k \in Task /\ TaskTyped(k)
    <3>1. k \in Task /\ k.pc = "stopFound" /\ k.at = p /\ k.cfg = j.cfg
      BY <1>1, <2>3 DEF Task
    <3> QED
      BY <3>1, <1>1 DEF TaskTyped
  <2>4. CASE /\ rows[j.cfg].exists
             /\ k = [j EXCEPT !.pc = "startFound", !.at = j.cfg, !.row = rows[j.cfg]]
    <3>0. rows[j.cfg] \in Row
      BY <1>1, <2>4, RowsExist
    <3>1. k \in Task /\ k.pc = "startFound" /\ k.at = j.cfg /\ k.cfg = j.cfg /\ k.row = rows[j.cfg]
      BY <1>1, <2>4, <3>0 DEF Task
    <3> QED
      BY <3>0, <3>1, <1>1 DEF TaskTyped
  <2> QED
    BY <1>2, <2>2, <2>3, <2>4
<1> QED
  BY <1>0, <1>1, <1>2, <1>3, TypedMove

(* k is request j, gone on to p with slot i.                               *)
Moved(j, k, p, i) ==
    /\ k \in Task
    /\ k.pc = p /\ k.slot = i
    /\ k.op = j.op /\ k.at = j.at /\ k.cfg = j.cfg /\ k.row = j.row /\ k.peers = j.peers

LEMMA MovedTyped ==
    ASSUME NEW j \in Task, NEW k, NEW p, NEW i, Moved(j, k, p, i),
           j.at \in Configs, j.cfg \in Configs, p # "idle",
           p \in {"startFound", "bound", "enable", "edit"} => j.row \in Row,
           p \in {"bound", "enable", "closing"} => i \in Slots
    PROVE  TaskTyped(k)
  BY DEF Moved, TaskTyped

LEMMA TypedStopToDelete ==
    ASSUME TransportTyped, NEW t \in Tasks, StopToDelete(t)
    PROVE  TransportTyped'
<1> DEFINE j == task[t]
<1>0. j.pc = "deleteFound" /\ HistoryTyped'
      /\ UNCHANGED <<rows, running, transport, toBoot, calm, ops, restarts>>
  BY DEF StopToDelete, TransportTyped, TypeOK, HistoryTyped
<1>1. j \in Task /\ j.cfg \in Configs /\ t # Boot /\ j.at \in Configs
  BY <1>0, Busy
<1>2. PICK k : GoOn(t, k) /\ \E p \in {"drop", "stopFound"} : k = [j EXCEPT !.pc = p]
  BY DEF StopToDelete
<1>3. k \in Task /\ TaskTyped(k)
  <2>1. ASSUME NEW p \in {"drop", "stopFound"}, k = [j EXCEPT !.pc = p]
        PROVE  k \in Task /\ TaskTyped(k)
    <3>1. Moved(j, k, p, j.slot)
      BY <1>1, <2>1 DEF Moved, Task
    <3> QED
      BY <1>1, <3>1, MovedTyped DEF Moved
  <2> QED
    BY <1>2, <2>1
<1> QED
  BY <1>0, <1>1, <1>2, <1>3, TypedMove

LEMMA TypedRefused ==
    ASSUME TransportTyped, NEW t \in Tasks, Refused(t)
    PROVE  TransportTyped'
<1>1. task[t].pc # "idle" /\ GoOn(t, Idle)
      /\ UNCHANGED <<rows, running, transport, toBoot, bootFailed, calm, active, ops, restarts>>
  BY DEF Refused
<1>2. task[t].at \in Configs
  BY <1>1, Busy
<1>3. HistoryTyped'
  BY <1>1, <1>2 DEF Refused, TransportTyped, TypeOK, HistoryTyped
<1> QED
  BY <1>1, <1>3, IdleTyped, TypedMove

LEMMA TypedListen ==
    ASSUME TransportTyped, NEW t \in Tasks, AlreadyRunning(t) \/ Listen(t) \/ ListenFails(t)
    PROVE  TransportTyped'
<1> DEFINE j == task[t]
<1>0. j.pc = "startFound" /\ HistoryTyped'
  <2>1. j.pc = "startFound"
    BY DEF AlreadyRunning, Listen, ListenFails
  <2>2. j.at \in Configs /\ j.cfg \in Configs
    BY <2>1, Busy
  <2> QED
    BY <2>1, <2>2, ZenonT(40) DEF AlreadyRunning, Answered, Listen, ListenFails, TransportTyped, TypeOK,
                      HistoryTyped
<1>1. j \in Task /\ j.cfg \in Configs /\ j.at \in Configs /\ j.row \in Row
  <2>1. j \in Task /\ j.cfg \in Configs /\ j.at \in Configs /\ TaskTyped(j)
    BY <1>0, Busy
  <2> QED
    BY <2>1, <1>0 DEF TaskTyped
<1>2. CASE AlreadyRunning(t) \/ ListenFails(t)
  BY <1>0, <1>2, IdleTyped, TypedMove DEF AlreadyRunning, ListenFails
<1>3. CASE Listen(t)
  <2>1. PICK i \in Slots :
           /\ transport' = [transport EXCEPT ![i] = [Closed(j.at, j.row.setting)
                                                  EXCEPT !.state = "listening"]]
           /\ GoOn(t, [j EXCEPT !.pc = "bound", !.slot = i])
    BY <1>3 DEF Listen
  <2>2. PICK k : k = [j EXCEPT !.pc = "bound", !.slot = i]
    OBVIOUS
  <2>3. Moved(j, k, "bound", i)
    BY <1>1, <2>2 DEF Moved, Task
  <2>4. k \in Task /\ TaskTyped(k) /\ task' = [task EXCEPT ![t] = k]
    BY <1>1, <2>1, <2>2, <2>3, MovedTyped DEF Moved, GoOn
  <2>12. t = Boot => OfBoot(k)
    BY <1>0, <2>3, Busy DEF OfBoot, Moved
  <2>5. PICK x : x = [Closed(j.at, j.row.setting) EXCEPT !.state = "listening"]
    OBVIOUS
  <2>6. x = [cfg |-> j.at, setting |-> j.row.setting, state |-> "listening", conns |-> 0]
    BY <2>5 DEF Closed
  <2>7. j.row.setting \in Setting
    BY <1>1 DEF Row
  <2>8. x \in Transport /\ x.conns = 0
    BY <1>1, <2>6, <2>7, TransportAssumption DEF Transport
  <2>9. transport' \in [Slots -> Transport] /\ transport'[i] = x
        /\ \A n \in Slots \ {i} : transport'[n] = transport[n]
    BY <2>1, <2>5, <2>8 DEF TransportTyped, TypeOK
  <2>10. SocketsOnly'
    BY <2>8, <2>9 DEF SocketsOnly, TransportTyped
  <2>11. /\ rows' \in [Configs -> Row \union {NoRow}]
         /\ running' \in [Configs -> {0} \union Slots]
         /\ \A c \in toBoot : rows'[c].exists
         /\ UNCHANGED <<toBoot, calm, ops, restarts>>
    BY <1>3 DEF Listen, TransportTyped, TypeOK, BootFirst
  <2> QED
    BY <1>0, <2>4, <2>9, <2>10, <2>11, <2>12, TypedTask
<1> QED
  BY <1>2, <1>3, SMTT(30)

LEMMA TypedStarted ==
    ASSUME TransportTyped, NEW t \in Tasks, Started(t)
    PROVE  TransportTyped'
<1> DEFINE j == task[t]
<1>0. j.pc = "bound" /\ HistoryTyped'
  BY DEF Started, TransportTyped, TypeOK, HistoryTyped
<1>1. j \in Task /\ j.cfg \in Configs /\ j.at \in Configs /\ j.row \in Row /\ j.slot \in Slots
  <2>1. j \in Task /\ j.cfg \in Configs /\ j.at \in Configs /\ TaskTyped(j)
    BY <1>0, Busy
  <2> QED
    BY <2>1, <1>0 DEF TaskTyped
<1>2. PICK k : k = [j EXCEPT !.pc = "enable"]
  OBVIOUS
<1>6. Moved(j, k, "enable", j.slot)
  BY <1>1, <1>2 DEF Moved, Task
<1>7. k \in Task /\ TaskTyped(k) /\ task' = [task EXCEPT ![t] = k]
  BY <1>1, <1>2, <1>6, MovedTyped DEF Started, Moved, GoOn
<1>8. t = Boot => OfBoot(k)
  BY <1>0, <1>6, Busy DEF OfBoot, Moved
<1>3. running' \in [Configs -> {0} \union Slots]
  BY <1>1 DEF Started, TransportTyped, TypeOK
<1>4. SocketsOnly'
  BY DEF Started, TransportTyped, SocketsOnly
<1>5. /\ rows' \in [Configs -> Row \union {NoRow}]
      /\ transport' \in [Slots -> Transport]
      /\ \A c \in toBoot : rows'[c].exists
      /\ UNCHANGED <<toBoot, calm, ops, restarts>>
  BY DEF Started, TransportTyped, TypeOK, BootFirst
<1> QED
  BY <1>0, <1>3, <1>4, <1>5, <1>7, <1>8, TypedTask

(* A write of `enabled' leaves every row, its setting and the others.      *)
LEMMA EnabledWritten ==
    ASSUME TransportTyped, NEW c \in Configs, NEW value \in BOOLEAN, WriteEnabled(c, value)
    PROVE  /\ rows' \in [Configs -> Row \union {NoRow}]
           /\ rows[c].exists /\ rows'[c].exists
           /\ \A d \in Configs : rows'[d].exists <=> rows[d].exists
           /\ \A d \in Configs \ {c} : rows'[d] = rows[d]
           /\ rows'[c].setting = rows[c].setting /\ rows'[c].enabled = value
           /\ unsaved' = unsaved \ {c}
<1>1. rows' = [rows EXCEPT ![c].enabled = value] /\ rows[c].exists /\ unsaved' = unsaved \ {c}
  BY DEF WriteEnabled
<1>2. rows[c] \in Row
  BY <1>1, RowsExist
<1>3. PICK x : x = [rows[c] EXCEPT !.enabled = value]
  OBVIOUS
<1>4. x \in Row /\ x.setting = rows[c].setting /\ x.enabled = value /\ x.exists = TRUE
  BY <1>2, <1>3 DEF Row
<1>5. rows \in [Configs -> Row \union {NoRow}]
  BY DEF TransportTyped, TypeOK
<1>6. /\ rows' \in [Configs -> Row \union {NoRow}]
      /\ rows'[c] = x
      /\ \A d \in Configs \ {c} : rows'[d] = rows[d]
  BY <1>1, <1>3, <1>4, <1>5
<1> QED
  BY <1>1, <1>4, <1>6

LEMMA TypedEnable ==
    ASSUME TransportTyped, NEW t \in Tasks, Enable(t)
    PROVE  TransportTyped'
<1>0. task[t].pc = "enable"
  BY DEF Enable
<1>1. task[t].at \in Configs /\ task[t].cfg \in Configs
  BY <1>0, Busy
<1>6. HistoryTyped'
  BY <1>1 DEF Enable, Answered, WriteEnabled, TransportTyped, TypeOK, HistoryTyped
<1>2. /\ rows' \in [Configs -> Row \union {NoRow}]
      /\ \A d \in Configs : rows'[d].exists <=> rows[d].exists
  BY <1>1, EnabledWritten DEF Enable
<1>3. \A c \in toBoot : rows'[c].exists
  BY <1>2 DEF TransportTyped, TypeOK, BootFirst
<1>4. SocketsOnly'
  BY DEF Enable, TransportTyped, SocketsOnly
<1>5. /\ running' \in [Configs -> {0} \union Slots]
      /\ transport' \in [Slots -> Transport]
      /\ UNCHANGED <<toBoot, calm, ops, restarts>>
      /\ task' = [task EXCEPT ![t] = Idle]
  BY DEF Enable, GoOn, TransportTyped, TypeOK
<1> QED
  BY <1>0, <1>2, <1>3, <1>4, <1>5, <1>6, IdleTyped, TypedTask

LEMMA TypedStop ==
    ASSUME TransportTyped, NEW t \in Tasks, NothingToStop(t) \/ CloseServer(t)
    PROVE  TransportTyped'
<1> DEFINE j == task[t]
<1>0. j.pc = "stopFound" /\ HistoryTyped'
  BY DEF NothingToStop, CloseServer, TransportTyped, TypeOK, HistoryTyped
<1>1. j \in Task /\ j.cfg \in Configs /\ j.at \in Configs /\ t # Boot
  BY <1>0, Busy
<1>2. CASE NothingToStop(t)
  <2>1. PICK k : k = [j EXCEPT !.pc = "disable"]
    OBVIOUS
  <2>2. Moved(j, k, "disable", j.slot)
    BY <1>1, <2>1 DEF Moved, Task
  <2>3. k \in Task /\ TaskTyped(k) /\ GoOn(t, k)
    BY <1>1, <1>2, <2>1, <2>2, MovedTyped DEF NothingToStop, Moved
  <2> QED
    BY <1>0, <1>1, <1>2, <2>3, TypedMove DEF NothingToStop
<1>3. CASE CloseServer(t)
  <2>1. PICK i : i = running[j.at]
    OBVIOUS
  <2>2. i \in Slots
    BY <1>1, <1>3, <2>1 DEF CloseServer, TransportTyped, TypeOK
  <2>3. transport' = [transport EXCEPT ![i].state = "closing"]
        /\ task' = [task EXCEPT ![t] = [j EXCEPT !.pc = "closing", !.slot = i]]
    BY <1>3, <2>1 DEF CloseServer, GoOn
  <2>11. PICK k : k = [j EXCEPT !.pc = "closing", !.slot = i]
    OBVIOUS
  <2>12. Moved(j, k, "closing", i)
    BY <1>1, <2>2, <2>11 DEF Moved, Task
  <2>4. k \in Task /\ TaskTyped(k) /\ task' = [task EXCEPT ![t] = k]
    BY <1>1, <2>2, <2>3, <2>11, <2>12, MovedTyped DEF Moved
  <2>5. transport[i] \in Transport
    BY <2>2 DEF TransportTyped, TypeOK
  <2>6. PICK x : x = [transport[i] EXCEPT !.state = "closing"]
    OBVIOUS
  <2>7. x \in Transport /\ x.conns = transport[i].conns /\ x.setting = transport[i].setting
    BY <2>5, <2>6 DEF Transport
  <2>8. transport' \in [Slots -> Transport] /\ transport'[i] = x
        /\ \A n \in Slots \ {i} : transport'[n] = transport[n]
    BY <2>2, <2>3, <2>6, <2>7 DEF TransportTyped, TypeOK
  <2>9. SocketsOnly'
    BY <2>2, <2>7, <2>8 DEF TransportTyped, SocketsOnly
  <2>10. /\ rows' \in [Configs -> Row \union {NoRow}]
         /\ running' \in [Configs -> {0} \union Slots]
         /\ \A c \in toBoot : rows'[c].exists
         /\ UNCHANGED <<toBoot, calm, ops, restarts>>
    BY <1>3 DEF CloseServer, TransportTyped, TypeOK, BootFirst
  <2> QED
    BY <1>0, <1>1, <2>4, <2>8, <2>9, <2>10, TypedTask
<1> QED
  BY <1>2, <1>3
LEMMA TypedDisable ==
    ASSUME TransportTyped, NEW t \in Tasks, Disable(t)
    PROVE  TransportTyped'
<1> DEFINE j == task[t]
<1>0. j.pc = "disable" /\ HistoryTyped'
  BY DEF Disable, WriteEnabled, TransportTyped, TypeOK, HistoryTyped
<1>1. j \in Task /\ j.cfg \in Configs /\ j.at \in Configs /\ t # Boot /\ toBoot = {}
  BY <1>0, Busy
<1>2. rows' \in [Configs -> Row \union {NoRow}]
  BY <1>1, EnabledWritten DEF Disable
<1>3. PICK k : /\ task' = [task EXCEPT ![t] = k]
               /\ \/ k = Idle
                  \/ \E p \in {"peers", "drop"} : k = [j EXCEPT !.pc = p, !.slot = 0]
  <2>1. CASE j.op = "setActive"
    BY <2>1 DEF Disable, GoOn
  <2>2. CASE j.op = "delete"
    BY <2>2 DEF Disable, GoOn
  <2>3. CASE j.op # "setActive" /\ j.op # "delete"
    BY <2>3 DEF Disable, GoOn
  <2> QED
    BY <2>1, <2>2, <2>3
<1>4. k \in Task /\ TaskTyped(k)
  <2>1. ASSUME NEW p \in {"peers", "drop"}, k = [j EXCEPT !.pc = p, !.slot = 0]
        PROVE  k \in Task /\ TaskTyped(k)
    <3>1. Moved(j, k, p, 0)
      BY <1>1, <2>1 DEF Moved, Task
    <3> QED
      BY <1>1, <3>1, MovedTyped DEF Moved
  <2> QED
    BY <1>3, <2>1, IdleTyped
<1>5. SocketsOnly'
  BY DEF Disable, TransportTyped, SocketsOnly
<1>6. /\ running' \in [Configs -> {0} \union Slots]
      /\ transport' \in [Slots -> Transport]
      /\ UNCHANGED <<toBoot, calm, ops, restarts>>
  BY DEF Disable, TransportTyped, TypeOK
<1> QED
  BY <1>0, <1>1, <1>2, <1>3, <1>4, <1>5, <1>6, TypedTask

LEMMA NormalizedPort ==
    ASSUME NEW kind, NEW port, ValidPort(kind, port)
    PROVE  normalizePort(kind, port) \in 0 .. MaxPort
<1>1. MaxPort \in Nat
  BY DEF MaxPort
<1>2. CASE kind = "IN_PROCESS"
  BY <1>1, <1>2 DEF normalizePort
<1>3. CASE kind # "IN_PROCESS"
  BY <1>1, <1>3 DEF normalizePort, ValidPort
<1> QED
  BY <1>2, <1>3

(* What update stores is a setting again.                                  *)
LEMMA EditedTyped ==
    ASSUME NEW old \in Setting, NEW x \in Inputs, Edited(old, x).ok
    PROVE  Edited(old, x).setting \in Setting
<1>1. PICK kind : kind = IF x.kind = NotNamed THEN old.kind ELSE x.kind
  OBVIOUS
<1>2. kind \in Kinds /\ (x.port # NoPort => ValidPort(kind, x.port))
  BY <1>1 DEF Edited, KindAndSwitch
<1>3. PICK port : port = IF x.port = NoPort THEN old.port ELSE normalizePort(kind, x.port)
  OBVIOUS
<1>4. port \in 0 .. MaxPort
  BY <1>2, <1>3, NormalizedPort DEF Setting
<1>5. Edited(old, x).setting = [kind |-> kind, port |-> port]
  BY <1>1, <1>3 DEF Edited
<1> QED
  BY <1>2, <1>4, <1>5 DEF Setting

(* What Edit does to the rows.                                             *)
LEMMA SettingWritten ==
    ASSUME TransportTyped, NEW t \in Tasks, Edit(t)
    PROVE  /\ rows' \in [Configs -> Row \union {NoRow}]
           /\ \A d \in Configs \ {task[t].cfg} : rows'[d] = rows[d]
           /\ rows[task[t].cfg].exists /\ rows'[task[t].cfg].exists
           /\ rows'[task[t].cfg].enabled = rows[task[t].cfg].enabled
<1> DEFINE j == task[t]
<1>0. j.pc = "edit" /\ rows[j.cfg].exists
  BY DEF Edit
<1>1. j.cfg \in Configs /\ TaskTyped(j)
  BY <1>0, Busy
<1>2. j.row.setting \in Setting
  BY <1>0, <1>1 DEF TaskTyped, Row
<1>3. rows \in [Configs -> Row \union {NoRow}]
  BY DEF TransportTyped, TypeOK
<1>4. PICK x \in Inputs :
         /\ Edited(j.row.setting, x).ok
         /\ rows' = [rows EXCEPT ![j.cfg].setting = Edited(j.row.setting, x).setting]
  BY DEF Edit
<1>5. PICK s \in Setting : rows' = [rows EXCEPT ![j.cfg].setting = s]
  BY <1>2, <1>4, EditedTyped
<1>6. rows[j.cfg] \in Row
  BY <1>0, <1>1, RowsExist
<1>7. PICK y : y = [rows[j.cfg] EXCEPT !.setting = s]
  OBVIOUS
<1>8. y \in Row /\ y.enabled = rows[j.cfg].enabled /\ y.exists = TRUE
  BY <1>6, <1>7 DEF Row
<1>9. /\ rows' \in [Configs -> Row \union {NoRow}]
      /\ rows'[j.cfg] = y
      /\ \A d \in Configs \ {j.cfg} : rows'[d] = rows[d]
  BY <1>1, <1>3, <1>5, <1>7, <1>8
<1> QED
  BY <1>0, <1>8, <1>9

LEMMA TypedEdit ==
    ASSUME TransportTyped, NEW t \in Tasks, Edit(t)
    PROVE  TransportTyped'
<1>0. task[t].pc = "edit" /\ HistoryTyped'
  BY DEF Edit, TransportTyped, TypeOK, HistoryTyped
<1>1. t # Boot /\ toBoot = {}
  BY <1>0, Busy
<1>2. rows' \in [Configs -> Row \union {NoRow}]
  BY SettingWritten
<1>3. SocketsOnly'
  BY DEF Edit, TransportTyped, SocketsOnly
<1>4. /\ running' \in [Configs -> {0} \union Slots]
      /\ transport' \in [Slots -> Transport]
      /\ UNCHANGED <<toBoot, calm, ops, restarts>>
      /\ task' = [task EXCEPT ![t] = Idle]
  BY DEF Edit, GoOn, TransportTyped, TypeOK
<1> QED
  BY <1>0, <1>1, <1>2, <1>3, <1>4, IdleTyped, TypedTask

LEMMA TypedDrop ==
    ASSUME TransportTyped, NEW t \in Tasks, Drop(t)
    PROVE  TransportTyped'
<1>0. task[t].pc = "drop" /\ HistoryTyped'
  BY DEF Drop, TransportTyped, TypeOK, HistoryTyped
<1>1. t # Boot /\ toBoot = {} /\ task[t].cfg \in Configs
  BY <1>0, Busy
<1>2. rows' \in [Configs -> Row \union {NoRow}]
  BY <1>1 DEF Drop, TransportTyped, TypeOK
<1>3. SocketsOnly'
  BY DEF Drop, TransportTyped, SocketsOnly
<1>4. /\ running' \in [Configs -> {0} \union Slots]
      /\ transport' \in [Slots -> Transport]
      /\ UNCHANGED <<toBoot, calm, ops, restarts>>
      /\ task' = [task EXCEPT ![t] = Idle]
  BY DEF Drop, GoOn, TransportTyped, TypeOK
<1> QED
  BY <1>0, <1>1, <1>2, <1>3, <1>4, IdleTyped, TypedTask

LEMMA TypedTaskStep ==
    ASSUME TransportTyped, NEW t \in Tasks, TaskStep(t)
    PROVE  TransportTyped'
  BY TypedNextPeer, TypedStopToDelete, TypedListen, TypedStarted, TypedEnable, TypedStop,
     TypedDisable, TypedEdit, TypedDrop, TypedRefused DEF TaskStep

-----------------------------------------------------------------------------
(* k is the request `op' on config c, just begun at pc.                    *)
Begun(k, c, op, pc) ==
    /\ k \in Task /\ k # Idle
    /\ k.op = op /\ k.pc = pc /\ k.cfg = c /\ k.at = c

(* The five requests of the console, as they begin.                        *)
LEMMA BeginsWith ==
    ASSUME TransportTyped, NEW t \in Requests, NEW c \in Configs,
           \/ StartConfig(t, c) \/ StopConfig(t, c) \/ SetActive(t, c)
           \/ Update(t, c) \/ Delete(t, c)
    PROVE  /\ Booted /\ task[t] = Idle /\ ops < MaxOp /\ rows[c].exists
           /\ ops' = ops + 1
           /\ calm' = (calm /\ \A u \in Tasks \ {t} : task[u] = Idle)
           /\ active' = NoConfig
           /\ UNCHANGED <<rows, running, transport, toBoot, bootFailed, unsaved, restarts>>
           /\ \E k : /\ task' = [task EXCEPT ![t] = k]
                     /\ \/ /\ k.row = rows[c]
                           /\ \/ Begun(k, c, "start", "startFound")
                              \/ Begun(k, c, "stop", "stopFound")
                              \/ Begun(k, c, "update", "edit") /\ ~ rows[c].enabled
                              \/ Begun(k, c, "delete", "deleteFound")
                        \/ /\ Begun(k, c, "setActive", "peers")
                           /\ k.peers = {p \in Configs \ {c} :
                                           /\ rows[p].exists
                                           /\ rows[p].setting.kind = rows[c].setting.kind}
<1>1. rows[c].exists => rows[c] \in Row
  BY RowsExist
<1>2. ASSUME NEW op \in {"start", "stop", "update", "delete"},
             NEW pc \in {"startFound", "stopFound", "edit", "deleteFound"}, Begin(t, c, op, pc)
      PROVE  \E k : /\ task' = [task EXCEPT ![t] = k]
                    /\ k.row = rows[c] /\ Begun(k, c, op, pc)
  <2>1. PICK k : k = [Idle EXCEPT !.op = op, !.pc = pc, !.cfg = c, !.at = c, !.row = rows[c]]
    OBVIOUS
  <2>2. rows[c] \in Row
    BY <1>1, <1>2 DEF Begin
  <2>3. k = [op |-> op, pc |-> pc, cfg |-> c, at |-> c, row |-> rows[c], slot |-> 0, peers |-> {}]
    BY <2>1 DEF Idle
  <2>4. k \in Task /\ k.op = op /\ k.pc = pc /\ k.cfg = c /\ k.at = c /\ k.row = rows[c]
    BY <2>2, <2>3 DEF Task
  <2>5. k # Idle
    BY <2>4, IdleTyped
  <2>6. task' = [task EXCEPT ![t] = k]
    BY <1>2, <2>1 DEF Begin, GoOn
  <2> QED
    BY <2>4, <2>5, <2>6 DEF Begun
<1>3. ASSUME NEW op, NEW pc, Begin(t, c, op, pc)
      PROVE  /\ Booted /\ task[t] = Idle /\ ops < MaxOp /\ rows[c].exists
             /\ ops' = ops + 1
             /\ calm' = (calm /\ \A u \in Tasks \ {t} : task[u] = Idle)
             /\ active' = NoConfig
             /\ UNCHANGED <<rows, running, transport, toBoot, bootFailed, unsaved, restarts>>
  BY <1>3 DEF Begin
<1>4. CASE StartConfig(t, c)
  BY <1>2, <1>3, <1>4 DEF StartConfig
<1>5. CASE StopConfig(t, c)
  BY <1>2, <1>3, <1>5 DEF StopConfig
<1>6. CASE Update(t, c)
  BY <1>2, <1>3, <1>6 DEF Update
<1>7. CASE Delete(t, c)
  BY <1>2, <1>3, <1>7 DEF Delete
<1>8. CASE SetActive(t, c)
  <2> DEFINE P == {p \in Configs \ {c} : /\ rows[p].exists
                                        /\ rows[p].setting.kind = rows[c].setting.kind}
  <2>0. P \subseteq Configs
    OBVIOUS
  <2>1. PICK k : k = [Idle EXCEPT !.op = "setActive", !.pc = "peers", !.cfg = c, !.at = c,
                                  !.peers = P]
    OBVIOUS
  <2>2. task' = [task EXCEPT ![t] = k]
    BY <1>8, <2>1 DEF SetActive, GoOn
  <2>3. k = [op |-> "setActive", pc |-> "peers", cfg |-> c, at |-> c, row |-> NoRow, slot |-> 0,
             peers |-> P]
    BY <2>1 DEF Idle
  <2> HIDE DEF P
  <2>4. /\ k \in Task /\ k.op = "setActive" /\ k.pc = "peers" /\ k.cfg = c /\ k.at = c
        /\ k.peers = P
    BY <2>0, <2>3 DEF Task
  <2>5. Begun(k, c, "setActive", "peers")
    BY <2>4, IdleTyped DEF Begun
  <2> QED
    BY <1>8, <2>2, <2>4, <2>5 DEF SetActive, P
<1> QED
  BY <1>4, <1>5, <1>6, <1>7, <1>8

LEMMA TypedBegin ==
    ASSUME TransportTyped, NEW t \in Requests, NEW c \in Configs,
           \/ StartConfig(t, c) \/ StopConfig(t, c) \/ SetActive(t, c)
           \/ Update(t, c) \/ Delete(t, c)
    PROVE  TransportTyped'
<1>1. PICK k : /\ task' = [task EXCEPT ![t] = k]
               /\ k \in Task /\ k.pc # "idle" /\ k.at = c /\ k.cfg = c
               /\ k.pc \in {"startFound", "edit"} => k.row = rows[c]
               /\ k.pc \in {"startFound", "stopFound", "edit", "deleteFound", "peers"}
  BY BeginsWith DEF Begun
<1>2. rows[c] \in Row
  BY BeginsWith, RowsExist
<1>3. TaskTyped(k)
  BY <1>1, <1>2 DEF TaskTyped
<1>4. /\ Booted /\ ops' \in 0 .. MaxOp /\ calm' \in BOOLEAN
      /\ active' = NoConfig
      /\ UNCHANGED <<rows, running, transport, toBoot, bootFailed, unsaved, restarts>>
  <2>1. /\ Booted /\ ops < MaxOp /\ ops' = ops + 1
        /\ calm' = (calm /\ \A u \in Tasks \ {t} : task[u] = Idle)
        /\ active' = NoConfig
        /\ UNCHANGED <<rows, running, transport, toBoot, bootFailed, unsaved, restarts>>
    BY BeginsWith
  <2>2. calm' \in BOOLEAN
    BY <2>1 DEF TransportTyped, TypeOK
  <2>3. ops' \in 0 .. MaxOp
    BY <2>1, TransportAssumption DEF TransportTyped, TypeOK
  <2> QED
    BY <2>1, <2>2, <2>3
<1>5. t \in Tasks /\ t # Boot
  BY TransportAssumption DEF Tasks
<1>6. /\ task' \in [Tasks -> Task] /\ task'[t] = k
      /\ \A u \in Tasks \ {t} : task'[u] = task[u]
  BY <1>1, <1>5 DEF TransportTyped, TypeOK
<1>7. TypeOK'
  BY <1>4, <1>6 DEF TransportTyped, TypeOK
<1>8. \A u \in Tasks : TaskTyped(task'[u])
  BY <1>3, <1>6 DEF TransportTyped
<1>9. BootFirst'
  BY <1>4, <1>5, <1>6, IdleTyped DEF Booted, BootFirst, Tasks
<1>10. SocketsOnly'
  BY <1>4 DEF TransportTyped, SocketsOnly
<1> QED
  BY <1>7, <1>8, <1>9, <1>10 DEF TransportTyped

LEMMA TypedCreate ==
    ASSUME TransportTyped, NEW c \in Configs, NEW x \in Inputs, Create(c, x)
    PROVE  TransportTyped'
<1>1. x.kind \in Kinds /\ normalizePort(x.kind, x.port) \in 0 .. MaxPort
  BY NormalizedPort DEF Create, KindAndSwitch
<1>2. PICK s : s = [kind |-> x.kind, port |-> normalizePort(x.kind, x.port)]
  OBVIOUS
<1>3. s \in Setting
  BY <1>1, <1>2 DEF Setting
<1>4. [exists |-> TRUE, enabled |-> FALSE, setting |-> s] \in Row
  BY <1>3 DEF Row
<1>5. rows' = [rows EXCEPT ![c] = [exists |-> TRUE, enabled |-> FALSE, setting |-> s]]
  BY <1>2 DEF Create
<1>6. rows' \in [Configs -> Row \union {NoRow}]
  BY <1>4, <1>5 DEF TransportTyped, TypeOK
<1>7. TypeOK'
  BY <1>6, TransportAssumption DEF Create, TransportTyped, TypeOK
<1>8. \A u \in Tasks : TaskTyped(task'[u])
  BY DEF Create, TransportTyped
<1>9. BootFirst'
  BY DEF Create, Booted, TransportTyped, BootFirst
<1>10. SocketsOnly'
  BY DEF Create, TransportTyped, SocketsOnly
<1> QED
  BY <1>7, <1>8, <1>9, <1>10 DEF TransportTyped
(* The steps of the sockets: a transport keeps its config and setting.     *)
LEMMA TypedClosed ==
    ASSUME TransportTyped, NEW i \in Slots, ServerClosed(i)
    PROVE  TransportTyped'
<1> DEFINE W == {t \in Tasks : task[t].pc = "closing" /\ task[t].slot = i}
<1>1. PICK x : x = [transport[i] EXCEPT !.state = "closed"]
  OBVIOUS
<1>2. transport[i] \in Transport
  BY DEF TransportTyped, TypeOK
<1>3. x \in Transport /\ x.conns = transport[i].conns /\ x.setting = transport[i].setting
  BY <1>1, <1>2 DEF Transport
<1>4. transport' \in [Slots -> Transport] /\ transport'[i] = x
      /\ \A n \in Slots \ {i} : transport'[n] = transport[n]
  BY <1>1, <1>3 DEF ServerClosed, TransportTyped, TypeOK
<1>5. running' \in [Configs -> {0} \union Slots]
  BY DEF ServerClosed, TransportTyped, TypeOK
<1>6. ASSUME NEW t \in Tasks
      PROVE  /\ task'[t] \in Task /\ TaskTyped(task'[t])
             /\ task'[t] = Idle <=> task[t] = Idle
             /\ t = Boot => task'[t] = task[t]
  <2>1. CASE t \in W
    <3>1. /\ task[t].pc = "closing" /\ task[t] \in Task /\ task[t] # Idle
          /\ task[t].at \in Configs /\ task[t].cfg \in Configs /\ t # Boot
      BY <2>1, Busy
    <3>2. task'[t] = [task[t] EXCEPT !.pc = "disable"]
      BY <2>1 DEF ServerClosed
    <3>3. Moved(task[t], task'[t], "disable", task[t].slot)
      BY <3>1, <3>2 DEF Moved, Task
    <3>4. task'[t] \in Task /\ TaskTyped(task'[t]) /\ task'[t].pc = "disable"
      BY <3>1, <3>3, MovedTyped DEF Moved
    <3> QED
      BY <3>1, <3>4, IdleTyped
  <2>2. CASE t \notin W
    <3>1. task'[t] = task[t]
      BY <2>2 DEF ServerClosed
    <3> QED
      BY <3>1 DEF TransportTyped, TypeOK
  <2> QED
    BY <2>1, <2>2
<1>7. task' \in [Tasks -> Task]
  BY <1>6 DEF ServerClosed
<1>8. TypeOK'
  BY <1>4, <1>5, <1>7 DEF ServerClosed, TransportTyped, TypeOK
<1>9. BootFirst'
  <2>1. Boot \in Tasks /\ Requests \subseteq Tasks
    BY DEF Tasks
  <2>2. task'[Boot] = task[Boot] /\ \A t \in Requests : task'[t] = Idle <=> task[t] = Idle
    BY <1>6, <2>1
  <2> QED
    BY <2>2 DEF ServerClosed, TransportTyped, BootFirst
<1>10. SocketsOnly'
  BY <1>3, <1>4 DEF TransportTyped, SocketsOnly
<1> QED
  BY <1>6, <1>8, <1>9, <1>10 DEF TransportTyped

LEMMA TypedPeers ==
    ASSUME TransportTyped, NEW i \in Slots, PeerConnects(i) \/ PeerLeaves(i)
    PROVE  /\ TransportTyped'
           /\ \A n \in Slots : /\ transport'[n].state = transport[n].state
                              /\ transport'[n].cfg = transport[n].cfg
                              /\ transport'[n].setting = transport[n].setting
<1>1. transport[i] \in Transport
  BY DEF TransportTyped, TypeOK
<1>2. PICK m \in 0 .. MaxConnection :
         /\ transport' = [transport EXCEPT ![i].conns = m]
         /\ m # 0 => HasSocket(transport[i].setting)
  <2>0. transport[i].conns \in 0 .. MaxConnection
    BY <1>1 DEF Transport
  <2>1. CASE PeerConnects(i)
    <3>1. transport[i].conns + 1 \in 0 .. MaxConnection
      BY <2>0, <2>1, BoundsTyped DEF PeerConnects
    <3>2. /\ transport' = [transport EXCEPT ![i].conns = transport[i].conns + 1]
          /\ HasSocket(transport[i].setting)
      BY <2>1 DEF PeerConnects
    <3> QED
      BY <3>1, <3>2
  <2>2. CASE PeerLeaves(i)
    <3>1. transport[i].conns - 1 \in 0 .. MaxConnection
      BY <2>0, <2>2, BoundsTyped DEF PeerLeaves
    <3>2. transport' = [transport EXCEPT ![i].conns = transport[i].conns - 1]
      BY <2>2 DEF PeerLeaves
    <3>3. HasSocket(transport[i].setting)
      BY <2>0, <2>2, BoundsTyped DEF PeerLeaves, TransportTyped, SocketsOnly
    <3> QED
      BY <3>1, <3>2, <3>3
  <2> QED
    BY <2>1, <2>2
<1>3. PICK x : x = [transport[i] EXCEPT !.conns = m]
  OBVIOUS
<1>4. /\ x \in Transport /\ x.conns = m /\ x.setting = transport[i].setting
      /\ x.cfg = transport[i].cfg /\ x.state = transport[i].state
  BY <1>1, <1>3 DEF Transport
<1>5. transport' \in [Slots -> Transport] /\ transport'[i] = x
      /\ \A n \in Slots \ {i} : transport'[n] = transport[n]
  BY <1>2, <1>3, <1>4 DEF TransportTyped, TypeOK
<1>6. UNCHANGED <<rows, running, task, toBoot, bootFailed, calm, unsaved, active, ops,
                  restarts>>
  BY DEF PeerConnects, PeerLeaves
<1>7. TypeOK'
  BY <1>5, <1>6 DEF TransportTyped, TypeOK
<1>8. \A u \in Tasks : TaskTyped(task'[u])
  BY <1>6 DEF TransportTyped
<1>9. BootFirst'
  BY <1>6 DEF TransportTyped, BootFirst
<1>10. SocketsOnly'
  BY <1>2, <1>4, <1>5 DEF TransportTyped, SocketsOnly
<1> QED
  BY <1>4, <1>5, <1>7, <1>8, <1>9, <1>10 DEF TransportTyped

(* The seeded rows that are gone come back; the others stay.               *)
LEMMA SeedsTyped ==
    ASSUME NEW old \in [Configs -> Row \union {NoRow}]
    PROVE  ensureSeedRows(old) \in [Configs -> Row \union {NoRow}]
<1> SUFFICES ASSUME NEW c \in Configs PROVE ensureSeedRows(old)[c] \in Row \union {NoRow}
  BY DEF ensureSeedRows
<1>1. CASE c \in DOMAIN Seeded /\ ~ old[c].exists
  <2>1. ensureSeedRows(old)[c] = [exists |-> TRUE, setting |-> Seeded[c],
                                  enabled |-> c \in AutoStart]
    BY <1>1 DEF ensureSeedRows
  <2>2. Seeded[c] \in Setting
    BY <1>1, TransportAssumption
  <2> QED
    BY <2>1, <2>2 DEF Row
<1>2. CASE ~ (c \in DOMAIN Seeded /\ ~ old[c].exists)
  BY <1>2 DEF ensureSeedRows
<1> QED
  BY <1>1, <1>2

LEMMA TypedRestart ==
    ASSUME TransportTyped, Restart
    PROVE  TransportTyped'
<1>1. ASSUME NEW i \in Slots
      PROVE  transport'[i] \in Transport /\ transport'[i].conns = 0 /\ transport'[i].state = "closed"
  <2>1. transport[i] \in Transport
    BY DEF TransportTyped, TypeOK
  <2>2. transport'[i] = [transport[i] EXCEPT !.state = "closed", !.conns = 0]
    BY DEF Restart
  <2>3. 0 \in 0 .. MaxConnection
    BY BoundsTyped
  <2> QED
    BY <2>1, <2>2, <2>3 DEF Transport
<1>2. transport' \in [Slots -> Transport]
  BY <1>1 DEF Restart
<1>3. \A t \in Tasks : task'[t] = Idle
  BY DEF Restart
<1>4. /\ running' \in [Configs -> {0} \union Slots] /\ task' \in [Tasks -> Task]
      /\ toBoot' \subseteq Configs /\ HistoryTyped' /\ calm' \in BOOLEAN
  BY IdleTyped DEF Restart, Enabled, HistoryTyped
<1>10. rows' \in [Configs -> Row \union {NoRow}]
  BY SeedsTyped DEF Restart, TransportTyped, TypeOK
<1>5. restarts' \in 0 .. MaxRestart
  <2>1. restarts \in 0 .. MaxRestart
    BY DEF TransportTyped, TypeOK
  <2>2. restarts < MaxRestart /\ restarts' = restarts + 1
    BY DEF Restart
  <2> QED
    BY <2>1, <2>2, BoundsTyped
<1>6. TypeOK'
  BY <1>2, <1>4, <1>5, <1>10 DEF Restart, TransportTyped, TypeOK, HistoryTyped
<1>7. \A t \in Tasks : TaskTyped(task'[t])
  BY <1>3, IdleTyped
<1>8. BootFirst'
  BY <1>3, IdleTyped DEF Restart, Enabled, BootFirst, Tasks
<1>9. SocketsOnly'
  BY <1>1 DEF SocketsOnly
<1> QED
  BY <1>6, <1>7, <1>8, <1>9 DEF TransportTyped

(* The auto-start of config c, as it begins, or fails at once.             *)
LEMMA AutoStarts ==
    ASSUME TransportTyped, AutoStartNext
    PROVE  /\ task[Boot] = Idle
           /\ UNCHANGED <<rows, running, transport, calm, unsaved, active, ops, restarts>>
           /\ \E c \in toBoot :
                 /\ toBoot' = toBoot \ {c}
                 /\ \/ /\ UNCHANGED bootFailed
                       /\ \E k \in Task :
                            /\ task' = [task EXCEPT ![Boot] = k]
                            /\ Begun(k, c, "boot", "startFound")
                            /\ k.row = rows[c] /\ k.row \in Row
                    \/ bootFailed' = bootFailed \union {c} /\ UNCHANGED task
<1>1. PICK c \in toBoot :
         /\ toBoot' = toBoot \ {c}
         /\ \/ /\ GoOn(Boot, [Idle EXCEPT !.op = "boot", !.pc = "startFound", !.cfg = c,
                                          !.at = c, !.row = rows[c]])
               /\ UNCHANGED bootFailed
            \/ bootFailed' = bootFailed \union {c} /\ UNCHANGED task
  BY DEF AutoStartNext
<1>2. c \in Configs /\ rows[c].exists
  BY DEF TransportTyped, TypeOK, BootFirst
<1>3. rows[c] \in Row
  BY <1>2, RowsExist
<1>4. PICK k : k = [Idle EXCEPT !.op = "boot", !.pc = "startFound", !.cfg = c, !.at = c,
                                !.row = rows[c]]
  OBVIOUS
<1>5. k = [op |-> "boot", pc |-> "startFound", cfg |-> c, at |-> c, row |-> rows[c], slot |-> 0,
           peers |-> {}]
  BY <1>4 DEF Idle
<1>6. k \in Task /\ k.op = "boot" /\ k.pc = "startFound" /\ k.cfg = c /\ k.at = c /\ k.row = rows[c]
  BY <1>2, <1>3, <1>5 DEF Task
<1>7. Begun(k, c, "boot", "startFound")
  BY <1>6, IdleTyped DEF Begun
<1>8. CASE /\ GoOn(Boot, [Idle EXCEPT !.op = "boot", !.pc = "startFound", !.cfg = c,
                                      !.at = c, !.row = rows[c]])
           /\ UNCHANGED bootFailed
  <2>1. task' = [task EXCEPT ![Boot] = k]
    BY <1>4, <1>8 DEF GoOn
  <2> QED
    BY <1>1, <1>3, <1>6, <1>7, <1>8, <2>1 DEF AutoStartNext
<1>9. CASE bootFailed' = bootFailed \union {c} /\ UNCHANGED task
  BY <1>1, <1>9 DEF AutoStartNext
<1> QED
  BY <1>1, <1>8, <1>9

LEMMA TypedAutoStart ==
    ASSUME TransportTyped, AutoStartNext
    PROVE  TransportTyped'
<1>1. PICK c \in toBoot :
         /\ toBoot' = toBoot \ {c}
         /\ \/ /\ UNCHANGED bootFailed
               /\ \E k \in Task : /\ task' = [task EXCEPT ![Boot] = k]
                                  /\ Begun(k, c, "boot", "startFound")
                                  /\ k.row = rows[c] /\ k.row \in Row
            \/ bootFailed' = bootFailed \union {c} /\ UNCHANGED task
  BY AutoStarts
<1>2. UNCHANGED <<rows, running, transport, calm, unsaved, active, ops, restarts>>
  BY AutoStarts
<1>3. c \in Configs /\ (\A t \in Requests : task[t] = Idle) /\ Boot \in Tasks
  BY DEF TransportTyped, TypeOK, BootFirst, Tasks
<1>4. /\ task' \in [Tasks -> Task] /\ TaskTyped(task'[Boot]) /\ OfBoot(task'[Boot])
      /\ \A u \in Tasks \ {Boot} : task'[u] = task[u]
  <2>1. CASE UNCHANGED task
    BY <2>1, <1>3 DEF TransportTyped, TypeOK, BootFirst
  <2>2. ASSUME NEW k \in Task, task' = [task EXCEPT ![Boot] = k],
               Begun(k, c, "boot", "startFound"), k.row \in Row
        PROVE  /\ task' \in [Tasks -> Task] /\ task'[Boot] = k
               /\ \A u \in Tasks \ {Boot} : task'[u] = task[u]
               /\ TaskTyped(k) /\ OfBoot(k)
    <3>1. TaskTyped(k) /\ OfBoot(k)
      BY <2>2, <1>3 DEF Begun, TaskTyped, OfBoot
    <3> QED
      BY <2>2, <3>1, <1>3 DEF TransportTyped, TypeOK
  <2> QED
    BY <1>1, <2>1, <2>2
<1>7. TypeOK'
  BY <1>1, <1>2, <1>3, <1>4 DEF TransportTyped, TypeOK
<1>8. \A u \in Tasks : TaskTyped(task'[u])
  BY <1>4 DEF TransportTyped
<1>9. BootFirst'
  BY <1>1, <1>2, <1>3, <1>4, TransportAssumption DEF TransportTyped, BootFirst, Tasks
<1>10. SocketsOnly'
  BY <1>2 DEF TransportTyped, SocketsOnly
<1> QED
  BY <1>7, <1>8, <1>9, <1>10 DEF TransportTyped

LEMMA TypedInit == Init => TransportTyped
<1> SUFFICES ASSUME Init PROVE TransportTyped
  OBVIOUS
<1>2. rows \in [Configs -> Row \union {NoRow}]
  <2>1. [c \in Configs |-> NoRow] \in [Configs -> Row \union {NoRow}]
    OBVIOUS
  <2> QED
    BY <2>1, SeedsTyped DEF Init
<1>3. PICK d \in Configs : d = CHOOSE x \in Configs : TRUE
  BY TransportAssumption
<1>4. \A i \in Slots : transport[i] = [cfg |-> d, setting |-> [kind |-> "IN_PROCESS", port |-> 0],
                                       state |-> "closed", conns |-> 0]
  <2>1. transport = [i \in Slots |-> Closed(d, [kind |-> "IN_PROCESS", port |-> 0])]
    BY <1>3, Zenon DEF Init
  <2> SUFFICES ASSUME NEW i \in Slots
               PROVE  transport[i] = [cfg |-> d, setting |-> [kind |-> "IN_PROCESS", port |-> 0],
                                      state |-> "closed", conns |-> 0]
    OBVIOUS
  <2>2. transport[i] = Closed(d, [kind |-> "IN_PROCESS", port |-> 0])
    BY <2>1
  <2> QED
    BY <2>2 DEF Closed
<1>5. [kind |-> "IN_PROCESS", port |-> 0] \in Setting
  BY DEF Setting, Kinds, MaxPort
<1>6. transport \in [Slots -> Transport] /\ \A i \in Slots : transport[i].conns = 0
  BY <1>4, <1>5, BoundsTyped DEF Init, Transport
<1>7. running \in [Configs -> {0} \union Slots]
  BY DEF Init
<1>8. task \in [Tasks -> Task] /\ \A t \in Tasks : task[t] = Idle
  BY IdleTyped DEF Init
<1>9. TypeOK
  BY <1>2, <1>6, <1>7, <1>8, BoundsTyped DEF Init, Enabled, TypeOK
<1>10. \A t \in Tasks : TaskTyped(task[t])
  BY <1>8, IdleTyped
<1>11. BootFirst
  BY <1>8, IdleTyped DEF Init, Enabled, BootFirst, Tasks
<1>12. SocketsOnly
  BY <1>6 DEF SocketsOnly
<1> QED
  BY <1>9, <1>10, <1>11, <1>12 DEF TransportTyped

LEMMA TypedStep == TransportTyped /\ [Next]_vars => TransportTyped'
<1> SUFFICES ASSUME TransportTyped, [Next]_vars PROVE TransportTyped'
  OBVIOUS
<1>1. CASE UNCHANGED vars
  BY <1>1 DEF vars, TransportTyped, TypeOK, BootFirst, SocketsOnly
<1>2. CASE Next
  BY <1>2, TypedBegin, TypedCreate, TypedTaskStep, TypedClosed, TypedPeers, TypedAutoStart,
     TypedRestart DEF Next
<1> QED
  BY <1>1, <1>2

(* The rows, the running map, the transports and the requests of           *)
(* HostTransportManagerService keep their types, whatever overlaps.        *)
THEOREM TransportTypeCorrect == Spec => []TypeOK
<1>1. TransportTyped => TypeOK
  BY DEF TransportTyped
<1> QED
  BY <1>1, TypedInit, TypedStep, PTL DEF Spec

-----------------------------------------------------------------------------
(***************************************************************************)
(* Order among the transports, while requests come one at a time.          *)
(***************************************************************************)
(* In an orderly state the request that moves is the only one.             *)
LEMMA Sole ==
    ASSUME TransportTyped, Orderly, NEW t \in Tasks, task[t].pc # "idle"
    PROVE  OnlyTask(t)
<1>1. task[t] # Idle
  BY Busy
<1>2. PICK u \in Tasks : OnlyTask(u)
  BY <1>1 DEF Orderly, NoTask
<1>3. u = t
  BY <1>1, <1>2 DEF OnlyTask, Alone
<1> QED
  BY <1>2, <1>3

LEMMA SoleMoves ==
    ASSUME TransportTyped, NEW t \in Tasks, Alone(t), NEW k, task' = [task EXCEPT ![t] = k]
    PROVE  Alone(t)' /\ task'[t] = k
  BY DEF Alone, TransportTyped, TypeOK

LEMMA SoleEnds ==
    ASSUME TransportTyped, NEW t \in Tasks, Alone(t), task' = [task EXCEPT ![t] = Idle],
           \A c \in Configs : Fine(c)', Held'
    PROVE  Orderly'
<1>1. Alone(t)' /\ task'[t] = Idle
  BY SoleMoves
<1> QED
  BY <1>1 DEF Orderly, NoTask, Alone

(* What does not touch a config leaves it as it is.                        *)
LEMMA FineKept ==
    ASSUME NEW c, rows'[c] = rows[c], running'[c] = running[c],
           c \in bootFailed' <=> c \in bootFailed, c \in unsaved' <=> c \in unsaved,
           running[c] # 0 => /\ transport'[running[c]].state = transport[running[c]].state
                             /\ transport'[running[c]].cfg = transport[running[c]].cfg
                             /\ transport'[running[c]].setting = transport[running[c]].setting
    PROVE  /\ Good(c) => Good(c)'
           /\ ToStart(c) => ToStart(c)'
           /\ Fine(c) /\ (c \in toBoot' <=> c \in toBoot) => Fine(c)'
<1>1. Good(c) => Good(c)'
  BY DEF Good, Serves, Listens
<1>2. ToStart(c) => ToStart(c)'
  BY DEF ToStart
<1>3. ASSUME Fine(c), c \in toBoot' <=> c \in toBoot PROVE Fine(c)'
  BY <1>1, <1>2, <1>3 DEF Fine
<1> QED
  BY <1>1, <1>2, <1>3

(* What runs and is fine listens for its config.                           *)
LEMMA FineServes ==
    ASSUME NEW c, Fine(c), running[c] # 0
    PROVE  Good(c) /\ Listens(running[c], c)
  BY DEF Fine, ToStart, Good

LEMMA HeldNow ==
    ASSUME TransportTyped, Held, NEW t \in Tasks, Alone(t), task[t].pc # "bound",
           NEW i \in Slots, transport[i].state # "closed"
    PROVE  running[transport[i].cfg] = i
  BY IdleTyped DEF Held, Alone

(* The map leads to every transport, and a step that changes no transport  *)
(* and no map leaves it so.                                                *)
LEMMA HeldKept ==
    ASSUME TransportTyped, Held, NEW t \in Tasks, Alone(t), task[t].pc # "bound",
           UNCHANGED <<running, transport>>
    PROVE  Held'
  BY HeldNow DEF Held

(* Where a request has not begun to change its config, that one is fine    *)
(* too.                                                                    *)
LEMMA AllFine ==
    ASSUME TransportTyped, NEW t \in Tasks, OnlyTask(t), Good(task[t].at)
    PROVE  \A c \in Configs : Fine(c)
  BY DEF OnlyTask, Doing, Fine

LEMMA WorldKept ==
    ASSUME UNCHANGED <<rows, running, transport, toBoot, bootFailed, unsaved>>, NEW c
    PROVE  /\ Good(c) => Good(c)'
           /\ ToStart(c) => ToStart(c)'
           /\ Fine(c) => Fine(c)'
  BY FineKept, SMTT(30)

-----------------------------------------------------------------------------
LEMMA OrderlyNextPeer ==
    ASSUME TransportTyped, Orderly, NEW t \in Tasks, NextPeer(t)
    PROVE  Orderly'
<1> DEFINE j == task[t]
<1>0. j.pc = "peers" /\ UNCHANGED <<rows, running, transport, toBoot, bootFailed, unsaved>>
  BY DEF NextPeer
<1>1. OnlyTask(t) /\ Alone(t) /\ Held
  BY <1>0, Sole DEF OnlyTask, Orderly
<1>2. j \in Task /\ j.cfg \in Configs /\ t # Boot /\ j.at \in Configs /\ toBoot = {}
  BY <1>0, Busy
<1>3. j.op = "setActive" /\ PeersStopped(j) /\ Good(j.at) /\ rows[j.at].exists
  BY <1>0, <1>1 DEF OnlyTask, Doing
<1>4. Held'
  BY <1>0, <1>1, HeldKept
<1>5. \A c \in Configs : Fine(c) /\ Fine(c)'
  BY <1>0, <1>1, <1>3, AllFine, WorldKept
<1>6. \A c \in Configs : Good(c) /\ Good(c)'
  BY <1>0, <1>2, <1>5 DEF Fine
<1>7. ASSUME NEW p \in j.peers, running[p] = 0, GoOn(t, [j EXCEPT !.peers = @ \ {p}])
      PROVE  Orderly'
  <2>1. PICK k : k = [j EXCEPT !.peers = @ \ {p}]
    OBVIOUS
  <2>2. /\ k.pc = "peers" /\ k.op = "setActive" /\ k.at = j.at /\ k.cfg = j.cfg
        /\ k.peers = j.peers \ {p}
    BY <1>0, <1>2, <1>3, <2>1 DEF Task
  <2>3. Alone(t)' /\ task'[t] = k
    BY <1>1, <1>7, <2>1, SoleMoves DEF GoOn
  <2>4. k # Idle
    BY <2>2, IdleTyped
  <2>5. Doing(t)'
    BY <1>0, <1>2, <1>3, <1>6, <2>2, <2>3 DEF Doing
  <2>6. PeersStopped(k)'
    BY <1>0, <1>3, <1>7, <2>2 DEF PeersStopped
  <2>7. OnlyTask(t)'
    BY <1>5, <2>2, <2>3, <2>4, <2>5, <2>6 DEF OnlyTask
  <2> QED
    BY <1>4, <2>7 DEF Orderly
<1>8. ASSUME NEW p \in j.peers, rows[p].exists,
             GoOn(t, [j EXCEPT !.pc = "stopFound", !.at = p, !.peers = @ \ {p}])
      PROVE  Orderly'
  <2>0. p \in Configs /\ p # j.cfg
    BY <1>2, <1>3 DEF Task, PeersStopped
  <2>1. PICK k : k = [j EXCEPT !.pc = "stopFound", !.at = p, !.peers = @ \ {p}]
    OBVIOUS
  <2>2. /\ k.pc = "stopFound" /\ k.op = "setActive" /\ k.at = p /\ k.cfg = j.cfg
        /\ k.peers = j.peers \ {p}
    BY <1>0, <1>2, <1>3, <2>1 DEF Task
  <2>3. Alone(t)' /\ task'[t] = k
    BY <1>1, <1>8, <2>1, SoleMoves DEF GoOn
  <2>4. k # Idle
    BY <2>2, IdleTyped
  <2>5. Doing(t)'
    BY <1>0, <1>2, <1>6, <1>8, <2>0, <2>2, <2>3 DEF Doing
  <2>6. PeersStopped(k)'
    BY <1>0, <1>3, <2>0, <2>2 DEF PeersStopped
  <2>7. OnlyTask(t)'
    BY <1>5, <2>2, <2>3, <2>4, <2>5, <2>6 DEF OnlyTask
  <2> QED
    BY <1>4, <2>7 DEF Orderly
<1>9. ASSUME j.peers = {}, rows[j.cfg].exists,
             GoOn(t, [j EXCEPT !.pc = "startFound", !.at = j.cfg, !.row = rows[j.cfg]])
      PROVE  Orderly'
  <2>1. PICK k : k = [j EXCEPT !.pc = "startFound", !.at = j.cfg, !.row = rows[j.cfg]]
    OBVIOUS
  <2>2. /\ k.pc = "startFound" /\ k.op = "setActive" /\ k.at = j.cfg /\ k.cfg = j.cfg
        /\ k.peers = {} /\ k.row = rows[j.cfg]
    BY <1>2, <1>3, <1>9, <2>1 DEF Task
  <2>3. Alone(t)' /\ task'[t] = k
    BY <1>1, <1>9, <2>1, SoleMoves DEF GoOn
  <2>4. k # Idle
    BY <2>2, IdleTyped
  <2>5. Doing(t)'
    BY <1>0, <1>2, <1>6, <1>9, <2>2, <2>3 DEF Doing
  <2>6. PeersStopped(k)'
    BY <1>0, <1>3, <1>9, <2>2 DEF PeersStopped
  <2>7. OnlyTask(t)'
    BY <1>5, <2>2, <2>3, <2>4, <2>5, <2>6 DEF OnlyTask
  <2> QED
    BY <1>4, <2>7 DEF Orderly
<1> QED
  BY <1>7, <1>8, <1>9 DEF NextPeer

(* A request that is not a setActive goes on at its config.                *)
LEMMA PlainGoesOn ==
    ASSUME TransportTyped, NEW t \in Tasks, Alone(t), Held',
           NEW k, k # Idle, task' = [task EXCEPT ![t] = k],
           k.op # "setActive", k.at = k.cfg, k.pc # "peers",
           Doing(t)', \A d \in Configs \ {k.at} : Fine(d)'
    PROVE  Orderly'
<1>1. Alone(t)' /\ task'[t] = k
  BY SoleMoves
<1>2. OnlyTask(t)'
  BY <1>1 DEF OnlyTask
<1> QED
  BY <1>2 DEF Orderly

LEMMA OrderlyStopToDelete ==
    ASSUME TransportTyped, Orderly, NEW t \in Tasks, StopToDelete(t)
    PROVE  Orderly'
<1> DEFINE j == task[t]
<1>0. j.pc = "deleteFound" /\ UNCHANGED <<rows, running, transport, toBoot, bootFailed, unsaved>>
  BY DEF StopToDelete
<1>1. OnlyTask(t) /\ Alone(t) /\ Held
  BY <1>0, Sole DEF OnlyTask, Orderly
<1>2. j \in Task /\ j.cfg \in Configs /\ t # Boot /\ j.at \in Configs /\ toBoot = {}
  BY <1>0, Busy
<1>3. j.op # "setActive" /\ j.at = j.cfg /\ Good(j.at) /\ rows[j.at].exists
  BY <1>0, <1>1 DEF OnlyTask, Doing, PeersStopped
<1>4. Held'
  BY <1>0, <1>1, HeldKept
<1>5. \A c \in Configs : Fine(c)' /\ Good(c)'
  <2>1. \A c \in Configs : Fine(c)'
    BY <1>0, <1>1, <1>3, AllFine, WorldKept
  <2> QED
    BY <2>1, <1>0, <1>2 DEF Fine
<1>6. ASSUME NEW p \in {"drop", "stopFound"}, GoOn(t, [j EXCEPT !.pc = p]),
             p = "drop" => running[j.at] = 0
      PROVE  Orderly'
  <2>1. PICK k : k = [j EXCEPT !.pc = p]
    OBVIOUS
  <2>2. Moved(j, k, p, j.slot)
    BY <1>2, <2>1 DEF Moved, Task
  <2>3. k.pc = p /\ k.op = j.op /\ k.at = j.at /\ k.cfg = j.cfg /\ k # Idle
    BY <2>2, IdleTyped DEF Moved
  <2>4. task' = [task EXCEPT ![t] = k] /\ task'[t] = k
    BY <1>1, <1>6, <2>1, SoleMoves DEF GoOn
  <2>5. Doing(t)'
    BY <1>0, <1>2, <1>3, <1>5, <1>6, <2>3, <2>4 DEF Doing
  <2> QED
    BY <1>1, <1>3, <1>4, <1>5, <2>3, <2>4, <2>5, PlainGoesOn
<1> QED
  BY <1>6 DEF StopToDelete

LEMMA OrderlyRefused ==
    ASSUME TransportTyped, Orderly, NEW t \in Tasks, Refused(t)
    PROVE  Orderly'
<1> DEFINE j == task[t]
<1>0. /\ j.pc \in {"peers", "deleteFound", "enable", "disable", "edit", "drop"}
      /\ GoOn(t, Idle) /\ UNCHANGED <<rows, running, transport, toBoot, bootFailed>>
  BY DEF Refused
<1>1. OnlyTask(t) /\ Alone(t) /\ Held
  BY <1>0, Sole DEF OnlyTask, Orderly
<1>2. PICK a \in Configs : a = j.at
  BY <1>0, Busy
<1>3. Held'
  BY <1>0, <1>1, HeldKept
<1>4. unsaved' = unsaved \/ unsaved' = unsaved \union {a}
  BY <1>2 DEF Refused
<1>5. ASSUME NEW c \in Configs \ {a} PROVE Fine(c)'
  <2>1. c \in unsaved' <=> c \in unsaved
    BY <1>4
  <2> QED
    BY <1>0, <1>1, <1>2, <2>1, FineKept DEF OnlyTask
<1>6. Good(a)'
  <2>1. CASE j.pc \in {"peers", "deleteFound", "edit", "drop"}
    <3>1. Good(a) /\ UNCHANGED unsaved
      BY <1>1, <1>2, <2>1 DEF OnlyTask, Doing, Refused
    <3> QED
      BY <1>0, <3>1, WorldKept
  <2>2. CASE j.pc = "enable"
    <3>1. j.slot # 0
      BY <2>2, Busy, TransportAssumption DEF TaskTyped
    <3>2. /\ running[a] = j.slot /\ Serves(j.slot, a) /\ a \notin bootFailed /\ rows[a].exists
      BY <1>1, <1>2, <2>2 DEF OnlyTask, Doing
    <3>3. a \notin unsaved' => rows[a].enabled
      BY <1>2, <2>2, <3>2 DEF Refused
    <3> QED
      BY <1>0, <3>1, <3>2, <3>3 DEF Good, Serves, Listens
  <2>3. CASE j.pc = "disable"
    <3>1. running[a] = 0 /\ rows[a].exists
      BY <1>1, <1>2, <2>3 DEF OnlyTask, Doing
    <3>2. a \notin unsaved' => ~ rows[a].enabled
      BY <1>2, <2>3, <3>1 DEF Refused
    <3> QED
      BY <1>0, <3>1, <3>2 DEF Good
  <2> QED
    BY <1>0, <2>1, <2>2, <2>3
<1>7. Fine(a)'
  BY <1>0, <1>1, <1>2, <1>6 DEF OnlyTask, Doing, Fine
<1> QED
  BY <1>0, <1>1, <1>3, <1>5, <1>7, SoleEnds DEF GoOn

LEMMA OrderlyListenFails ==
    ASSUME TransportTyped, Orderly, NEW t \in Tasks, AlreadyRunning(t) \/ ListenFails(t)
    PROVE  Orderly'
<1> DEFINE j == task[t]
<1>0. /\ j.pc = "startFound" /\ GoOn(t, Idle)
      /\ UNCHANGED <<rows, running, transport, toBoot, unsaved>>
  BY DEF AlreadyRunning, ListenFails
<1>1. OnlyTask(t) /\ Alone(t) /\ Held
  BY <1>0, Sole DEF OnlyTask, Orderly
<1>2. PICK a \in Configs : a = j.at
  BY <1>0, Busy
<1>3. a \notin toBoot /\ (t = Boot => ToStart(a)) /\ (t # Boot => Good(a))
  BY <1>0, <1>1, <1>2 DEF OnlyTask, Doing
<1>4. Held'
  BY <1>0, <1>1, HeldKept
<1>5. \A c \in Configs \ {a} : Fine(c)'
  <2> SUFFICES ASSUME NEW c \in Configs \ {a} PROVE Fine(c)'
    OBVIOUS
  <2>1. c \in bootFailed' <=> c \in bootFailed
    BY <1>2 DEF AlreadyRunning, ListenFails
  <2>2. Fine(c)
    BY <1>1, <1>2 DEF OnlyTask
  <2> QED
    BY <1>0, <2>1, <2>2, FineKept
<1>6. Fine(a)'
  <2>1. CASE t # Boot
    <3>1. UNCHANGED bootFailed
      BY <2>1 DEF AlreadyRunning, ListenFails
    <3> QED
      BY <1>0, <1>3, <2>1, <3>1, WorldKept DEF Fine
  <2>2. CASE t = Boot
    <3>1. ToStart(a)
      BY <1>3, <2>2
    <3>2. ~ AlreadyRunning(t)
      BY <1>2, <3>1 DEF AlreadyRunning, ToStart
    <3>3. a \in bootFailed'
      BY <1>2, <2>2, <3>2 DEF ListenFails
    <3>4. Good(a)'
      BY <1>0, <3>1, <3>3 DEF ToStart, Good
    <3> QED
      BY <1>0, <1>3, <3>4 DEF Fine
  <2> QED
    BY <2>1, <2>2
<1> QED
  BY <1>0, <1>1, <1>4, <1>5, <1>6, SoleEnds DEF GoOn

LEMMA OrderlyListen ==
    ASSUME TransportTyped, Orderly, NEW t \in Tasks, Listen(t)
    PROVE  Orderly'
<1> DEFINE j == task[t]
<1>0. j.pc = "startFound" /\ running[j.at] = 0 /\ UNCHANGED <<rows, running, toBoot, bootFailed, unsaved>>
  BY DEF Listen
<1>1. OnlyTask(t) /\ Alone(t) /\ Held
  BY <1>0, Sole DEF OnlyTask, Orderly
<1>2. j \in Task /\ j.at \in Configs /\ j.cfg \in Configs
  BY <1>0, Busy
<1>3. PICK i \in Slots :
         /\ transport[i].state = "closed"
         /\ transport' = [transport EXCEPT ![i] = [Closed(j.at, j.row.setting)
                                                EXCEPT !.state = "listening"]]
         /\ GoOn(t, [j EXCEPT !.pc = "bound", !.slot = i])
  BY DEF Listen
<1>4. PICK k : k = [j EXCEPT !.pc = "bound", !.slot = i]
  OBVIOUS
<1>5. Moved(j, k, "bound", i)
  BY <1>2, <1>3, <1>4 DEF Moved, Task
<1>6. Alone(t)' /\ task'[t] = k /\ k # Idle
  BY <1>1, <1>3, <1>4, <1>5, SoleMoves, IdleTyped DEF GoOn, Moved
<1>7. /\ transport'[i].state = "listening" /\ transport'[i].cfg = j.at
      /\ transport'[i].setting = j.row.setting
      /\ \A n \in Slots \ {i} : transport'[n] = transport[n]
  BY <1>3 DEF TransportTyped, TypeOK, Closed
<1>8. ASSUME NEW c \in Configs \ {j.at}
      PROVE  Fine(c) /\ Fine(c)' /\ (running[c] # 0 => running[c] \in Slots \ {i})
  <2>1. Fine(c)
    BY <1>1 DEF OnlyTask
  <2>2. running[c] # 0 => running[c] \in Slots \ {i}
    BY <1>3, <2>1, FineServes DEF TransportTyped, TypeOK, Serves, Listens
  <2> QED
    BY <1>0, <1>7, <2>1, <2>2, FineKept
<1>9. Held'
  BY <1>0, <1>1, <1>5, <1>6, <1>7, HeldNow DEF Held, Moved
<1>10. Doing(t)'
  BY <1>0, <1>1, <1>5, <1>6, <1>7 DEF OnlyTask, Doing, Moved, Serves, Listens
<1>11. CASE j.op # "setActive"
  BY <1>1, <1>5, <1>6, <1>8, <1>9, <1>10, <1>11 DEF OnlyTask, Moved, Orderly
<1>12. CASE j.op = "setActive"
  <2>1. PeersStopped(j) /\ j.at = j.cfg /\ j.peers = {}
    BY <1>0, <1>1, <1>12 DEF OnlyTask, PeersStopped
  <2>2. \A d \in Configs \ {j.cfg} :
           running[d] # 0 /\ d \notin unsaved =>
               transport'[running[d]].setting.kind # rows[j.cfg].setting.kind
    BY <1>0, <1>7, <1>8, <2>1 DEF PeersStopped
  <2>3. PeersStopped(k)'
    BY <1>0, <1>5, <2>1, <2>2 DEF PeersStopped, Moved
  <2>4. OnlyTask(t)'
    BY <1>5, <1>6, <1>8, <1>10, <1>12, <2>3 DEF OnlyTask, Moved
  <2> QED
    BY <1>9, <2>4 DEF Orderly
<1> QED
  BY <1>11, <1>12

LEMMA OrderlyStarted ==
    ASSUME TransportTyped, Orderly, NEW t \in Tasks, Started(t)
    PROVE  Orderly'
<1> DEFINE j == task[t]
<1>0. j.pc = "bound" /\ UNCHANGED <<rows, transport, toBoot, unsaved>>
  BY DEF Started
<1>1. OnlyTask(t) /\ Alone(t) /\ Held
  BY <1>0, Sole DEF OnlyTask, Orderly
<1>2. j \in Task /\ j.at \in Configs /\ j.cfg \in Configs /\ j.slot \in Slots
  BY <1>0, Busy DEF TaskTyped
<1>3. running[j.at] = 0 /\ Serves(j.slot, j.at)
  BY <1>0, <1>1 DEF OnlyTask, Doing
<1>4. PICK k : k = [j EXCEPT !.pc = "enable"]
  OBVIOUS
<1>5. Moved(j, k, "enable", j.slot)
  BY <1>2, <1>4 DEF Moved, Task
<1>6. Alone(t)' /\ task'[t] = k /\ k # Idle
  BY <1>1, <1>4, <1>5, SoleMoves, IdleTyped DEF Started, GoOn, Moved
<1>7. running'[j.at] = j.slot /\ j.at \notin bootFailed'
      /\ \A c \in Configs \ {j.at} : /\ running'[c] = running[c]
                                     /\ c \in bootFailed' <=> c \in bootFailed
  BY <1>2 DEF Started, TransportTyped, TypeOK
<1>8. \A c \in Configs \ {j.at} : Fine(c)'
  BY <1>0, <1>1, <1>7, FineKept DEF OnlyTask
<1>9. Held'
  <2> SUFFICES ASSUME NEW i \in Slots, transport[i].state # "closed"
               PROVE  running'[transport[i].cfg] = i
    BY <1>0 DEF Held
  <2>1. transport[i].cfg \in Configs
    BY DEF TransportTyped, TypeOK, Transport
  <2>2. running[transport[i].cfg] = i \/ j.slot = i
    BY <1>1, IdleTyped DEF Held, Alone
  <2> QED
    BY <1>2, <1>3, <1>7, <2>1, <2>2, TransportAssumption DEF Serves, Listens
<1>10. Doing(t)'
  BY <1>0, <1>1, <1>3, <1>5, <1>6, <1>7 DEF OnlyTask, Doing, Moved, Serves, Listens
<1>11. CASE j.op # "setActive"
  BY <1>1, <1>5, <1>6, <1>8, <1>9, <1>10, <1>11 DEF OnlyTask, Moved, Orderly
<1>12. CASE j.op = "setActive"
  <2>1. PeersStopped(j) /\ j.at = j.cfg /\ j.peers = {}
    BY <1>0, <1>1, <1>12 DEF OnlyTask, PeersStopped
  <2>2. \A d \in Configs \ {j.cfg} :
           running[d] # 0 /\ d \notin unsaved =>
               transport[running[d]].setting.kind # rows[j.cfg].setting.kind
    BY <1>0, <2>1 DEF PeersStopped
  <2>3. PeersStopped(k)'
    BY <1>0, <1>5, <1>7, <2>1, <2>2 DEF PeersStopped, Moved
  <2>4. OnlyTask(t)'
    BY <1>5, <1>6, <1>8, <1>10, <1>12, <2>3 DEF OnlyTask, Moved
  <2> QED
    BY <1>9, <2>4 DEF Orderly
<1> QED
  BY <1>11, <1>12

LEMMA OrderlyEnable ==
    ASSUME TransportTyped, Orderly, NEW t \in Tasks, Enable(t)
    PROVE  Orderly'
<1>0. task[t].pc = "enable" /\ UNCHANGED <<running, transport, toBoot, bootFailed>>
      /\ task' = [task EXCEPT ![t] = Idle]
  BY DEF Enable, GoOn
<1>1. OnlyTask(t) /\ Alone(t) /\ Held
  BY <1>0, Sole DEF OnlyTask, Orderly
<1>2. PICK a \in Configs : a = task[t].at
  BY <1>0, Busy
<1>3. task[t].slot \in Slots /\ task[t].slot # 0
  BY <1>0, Busy, TransportAssumption DEF TaskTyped
<1>4. /\ running[a] = task[t].slot /\ Serves(task[t].slot, a) /\ a \notin bootFailed
      /\ rows[a].exists /\ a \notin toBoot
  BY <1>0, <1>1, <1>2 DEF OnlyTask, Doing
<1>5. /\ rows'[a].exists /\ rows'[a].setting = rows[a].setting /\ rows'[a].enabled = TRUE
      /\ \A c \in Configs \ {a} : rows'[c] = rows[c]
      /\ unsaved' = unsaved \ {a}
  BY <1>2, <1>4, EnabledWritten DEF Enable
<1>6. Good(a)'
  BY <1>0, <1>3, <1>4, <1>5 DEF Good, Serves, Listens
<1>7. \A c \in Configs : Fine(c)'
  <2>1. \A c \in Configs \ {a} : Fine(c)'
    BY <1>0, <1>1, <1>2, <1>5, FineKept DEF OnlyTask
  <2>2. Fine(a)'
    BY <1>0, <1>4, <1>6 DEF Fine
  <2> QED
    BY <2>1, <2>2
<1>8. Held'
  BY <1>0, <1>1, HeldKept
<1> QED
  BY <1>0, <1>1, <1>7, <1>8, SoleEnds
LEMMA OrderlyNothingToStop ==
    ASSUME TransportTyped, Orderly, NEW t \in Tasks, NothingToStop(t)
    PROVE  Orderly'
<1> DEFINE j == task[t]
<1>0. /\ j.pc = "stopFound" /\ running[j.at] = 0
      /\ UNCHANGED <<rows, running, transport, toBoot, bootFailed, unsaved>>
  BY DEF NothingToStop
<1>1. OnlyTask(t) /\ Alone(t) /\ Held
  BY <1>0, Sole DEF OnlyTask, Orderly
<1>2. j \in Task /\ j.at \in Configs /\ j.cfg \in Configs
  BY <1>0, Busy
<1>3. PICK k : k = [j EXCEPT !.pc = "disable"]
  OBVIOUS
<1>4. Moved(j, k, "disable", j.slot)
  BY <1>2, <1>3 DEF Moved, Task
<1>5. Alone(t)' /\ task'[t] = k /\ k # Idle
  BY <1>1, <1>3, <1>4, SoleMoves, IdleTyped DEF NothingToStop, GoOn, Moved
<1>6. Held'
  BY <1>0, <1>1, HeldKept
<1>7. \A c \in Configs \ {j.at} : Fine(c)'
  BY <1>0, <1>1, WorldKept DEF OnlyTask
<1>8. Doing(t)'
  BY <1>0, <1>1, <1>4, <1>5 DEF OnlyTask, Doing, Moved
<1>9. j.op = "setActive" => PeersStopped(k)'
  BY <1>0, <1>1, <1>4 DEF OnlyTask, PeersStopped, Moved
<1>10. OnlyTask(t)'
  BY <1>1, <1>4, <1>5, <1>7, <1>8, <1>9 DEF OnlyTask, Moved
<1> QED
  BY <1>6, <1>10 DEF Orderly

LEMMA OrderlyCloseServer ==
    ASSUME TransportTyped, Orderly, NEW t \in Tasks, CloseServer(t)
    PROVE  Orderly'
<1> DEFINE j == task[t]
<1>0. /\ j.pc = "stopFound" /\ running[j.at] # 0
      /\ UNCHANGED <<rows, running, toBoot, bootFailed, unsaved>>
  BY DEF CloseServer
<1>1. OnlyTask(t) /\ Alone(t) /\ Held
  BY <1>0, Sole DEF OnlyTask, Orderly
<1>2. j \in Task /\ j.at \in Configs /\ j.cfg \in Configs
  BY <1>0, Busy
<1>3. PICK i \in Slots : i = running[j.at]
  BY <1>0, <1>2 DEF TransportTyped, TypeOK
<1>4. Good(j.at) /\ Listens(i, j.at)
  BY <1>0, <1>1, <1>3 DEF OnlyTask, Doing, Good
<1>5. PICK k : k = [j EXCEPT !.pc = "closing", !.slot = i]
  OBVIOUS
<1>6. Moved(j, k, "closing", i)
  BY <1>2, <1>3, <1>5 DEF Moved, Task
<1>7. Alone(t)' /\ task'[t] = k /\ k # Idle
  BY <1>1, <1>3, <1>5, <1>6, SoleMoves, IdleTyped DEF CloseServer, GoOn, Moved
<1>8. /\ transport'[i].state = "closing"
      /\ \A n \in Slots : /\ transport'[n].cfg = transport[n].cfg
                         /\ transport'[n].setting = transport[n].setting
      /\ \A n \in Slots \ {i} : transport'[n].state = transport[n].state
  <2>1. transport' = [transport EXCEPT ![i].state = "closing"]
    BY <1>3 DEF CloseServer
  <2>2. transport[i] \in Transport /\ DOMAIN transport = Slots
    BY DEF TransportTyped, TypeOK
  <2> QED
    BY <2>1, <2>2 DEF Transport
<1>9. ASSUME NEW c \in Configs \ {j.at} PROVE Fine(c)'
  <2>1. Fine(c)
    BY <1>1 DEF OnlyTask
  <2>2. running[c] # 0 => running[c] \in Slots \ {i}
    BY <1>4, <2>1, FineServes DEF TransportTyped, TypeOK, Serves, Listens
  <2> QED
    BY <1>0, <1>8, <2>1, <2>2, FineKept
<1>10. Held'
  <2> SUFFICES ASSUME NEW n \in Slots, transport'[n].state # "closed"
               PROVE  running'[transport'[n].cfg] = n
    BY DEF Held
  <2>1. transport[n].state # "closed"
    BY <1>4, <1>8 DEF Serves, Listens
  <2> QED
    BY <1>0, <1>1, <1>8, <2>1, HeldNow
<1>11. Doing(t)'
  BY <1>0, <1>1, <1>3, <1>4, <1>6, <1>7, <1>8 DEF OnlyTask, Doing, Moved, Serves, Listens
<1>12. j.op = "setActive" => PeersStopped(k)'
  <2> SUFFICES ASSUME j.op = "setActive" PROVE PeersStopped(k)'
    OBVIOUS
  <2>1. PeersStopped(j)
    BY <1>1 DEF OnlyTask
  <2>2. \A d \in Configs : running[d] # 0 => running[d] \in Slots
    BY DEF TransportTyped, TypeOK
  <2> QED
    BY <1>0, <1>6, <1>8, <2>1, <2>2 DEF PeersStopped, Moved
<1>13. OnlyTask(t)'
  BY <1>1, <1>6, <1>7, <1>9, <1>11, <1>12 DEF OnlyTask, Moved
<1> QED
  BY <1>10, <1>13 DEF Orderly

(* A closing transport is the one that the only request stops.             *)
LEMMA ClosingIsStopped ==
    ASSUME TransportTyped, Orderly, NEW i \in Slots, transport[i].state = "closing"
    PROVE  \E t \in Tasks : /\ OnlyTask(t) /\ task[t].pc = "closing" /\ task[t].slot = i
                            /\ task[t].at = transport[i].cfg /\ running[transport[i].cfg] = i
<1>1. PICK c \in Configs : c = transport[i].cfg
  BY DEF TransportTyped, TypeOK, Transport
<1>2. i # 0
  BY TransportAssumption
<1>3. ASSUME NEW t \in Tasks, task[t].pc = "bound", task[t].slot = i PROVE FALSE
  <2>1. OnlyTask(t)
    BY <1>3, Sole
  <2> QED
    BY <1>3, <2>1 DEF OnlyTask, Doing, Serves, Listens
<1>4. running[c] = i
  BY <1>1, <1>3 DEF Orderly, Held
<1>5. ~ Fine(c) /\ ~ Good(c) /\ ~ Serves(i, c)
  BY <1>2, <1>4, FineServes DEF Good, Serves, Listens
<1>6. PICK t \in Tasks : OnlyTask(t)
  BY <1>5 DEF Orderly, NoTask
<1>7. task[t].at = c
  BY <1>5, <1>6 DEF OnlyTask
<1>8. task[t] \in Task /\ task[t] # Idle /\ task[t].pc # "idle"
  BY <1>6 DEF OnlyTask, TransportTyped, TypeOK, TaskTyped
<1>9. task[t].pc \in {"peers", "deleteFound", "startFound", "bound", "enable", "stopFound",
                      "closing", "disable", "drop", "edit"}
  BY <1>8 DEF Task
<1>10. task[t].pc = "closing" /\ task[t].slot = i
  BY <1>2, <1>4, <1>5, <1>6, <1>7, <1>9 DEF OnlyTask, Doing, ToStart
<1> QED
  BY <1>1, <1>4, <1>6, <1>7, <1>10

LEMMA OrderlyClosed ==
    ASSUME TransportTyped, Orderly, NEW i \in Slots, ServerClosed(i)
    PROVE  Orderly'
<1> DEFINE W == {u \in Tasks : task[u].pc = "closing" /\ task[u].slot = i}
<1>0. transport[i].state = "closing" /\ UNCHANGED <<rows, toBoot, bootFailed, unsaved>>
  BY DEF ServerClosed
<1>1. PICK t \in Tasks : /\ OnlyTask(t) /\ task[t].pc = "closing" /\ task[t].slot = i
                         /\ task[t].at = transport[i].cfg /\ running[transport[i].cfg] = i
  BY <1>0, ClosingIsStopped
<1> DEFINE j == task[t]
<1>2. j \in Task /\ j.at \in Configs /\ j.cfg \in Configs /\ Alone(t) /\ Held
  BY <1>1, Busy DEF OnlyTask, Orderly
<1>3. W = {t}
  BY <1>1, <1>2, IdleTyped DEF Alone
<1>4. PICK k : k = [j EXCEPT !.pc = "disable"]
  OBVIOUS
<1>5. Moved(j, k, "disable", i)
  BY <1>1, <1>2, <1>4 DEF Moved, Task
<1>6. /\ task'[t] = k /\ \A u \in Tasks \ {t} : task'[u] = Idle
      /\ k # Idle
  <2>1. \A u \in Tasks : task'[u] = IF u \in W THEN [task[u] EXCEPT !.pc = "disable"] ELSE task[u]
    BY DEF ServerClosed
  <2> QED
    BY <1>2, <1>3, <1>4, <1>5, <2>1, IdleTyped, ZenonT(40) DEF Alone, Moved
<1>7. running'[j.at] = 0 /\ \A c \in Configs \ {j.at} : running'[c] = running[c]
  <2>1. \A c \in Configs : running'[c] = IF \E u \in W : task[u].at = c THEN 0 ELSE running[c]
    BY DEF ServerClosed
  <2> QED
    BY <1>2, <1>3, <2>1
<1>8. /\ transport'[i].state = "closed"
      /\ \A n \in Slots \ {i} : transport'[n] = transport[n]
  BY DEF ServerClosed, TransportTyped, TypeOK, Transport
<1>9. ASSUME NEW c \in Configs \ {j.at}
      PROVE  Fine(c)' /\ (running[c] # 0 => running[c] \in Slots \ {i})
  <2>1. Fine(c)
    BY <1>1 DEF OnlyTask
  <2>2. running[c] # 0 => running[c] \in Slots \ {i}
    BY <1>0, <2>1, FineServes DEF TransportTyped, TypeOK, Serves, Listens
  <2> QED
    BY <1>0, <1>7, <1>8, <2>1, <2>2, FineKept
<1>10. Held'
  <2> SUFFICES ASSUME NEW n \in Slots, transport'[n].state # "closed"
               PROVE  running'[transport'[n].cfg] = n
    BY DEF Held
  <2>1. n # i /\ transport'[n] = transport[n]
    BY <1>8
  <2>2. running[transport[n].cfg] = n /\ transport[n].cfg \in Configs
    BY <1>1, <1>2, <2>1, HeldNow DEF TransportTyped, TypeOK, Transport
  <2>3. transport[n].cfg # j.at
    BY <1>1, <2>1, <2>2
  <2> QED
    BY <1>7, <2>1, <2>2, <2>3
<1>11. Doing(t)'
  BY <1>0, <1>1, <1>5, <1>6, <1>7 DEF OnlyTask, Doing, Moved
<1>12. j.op = "setActive" => PeersStopped(k)'
  <2> SUFFICES ASSUME j.op = "setActive" PROVE PeersStopped(k)'
    OBVIOUS
  <2>1. PeersStopped(j)
    BY <1>1 DEF OnlyTask
  <2>2. \A d \in Configs \ (j.peers \union {j.cfg}) :
           \/ running'[d] = 0 \/ d \in unsaved
           \/ transport'[running'[d]].setting.kind # rows[j.cfg].setting.kind
    BY <1>1, <1>7, <1>8, <1>9, <2>1 DEF PeersStopped
  <2> QED
    BY <1>0, <1>1, <1>5, <2>1, <2>2 DEF PeersStopped, Moved
<1>13. Alone(t)'
  BY <1>6 DEF Alone
<1>14. OnlyTask(t)'
  BY <1>1, <1>5, <1>6, <1>9, <1>11, <1>12, <1>13 DEF OnlyTask, Moved
<1> QED
  BY <1>10, <1>14 DEF Orderly

LEMMA OrderlyDisable ==
    ASSUME TransportTyped, Orderly, NEW t \in Tasks, Disable(t)
    PROVE  Orderly'
<1> DEFINE j == task[t]
<1>0. j.pc = "disable" /\ UNCHANGED <<running, transport, toBoot>>
  BY DEF Disable
<1>1. OnlyTask(t) /\ Alone(t) /\ Held
  BY <1>0, Sole DEF OnlyTask, Orderly
<1>2. PICK a \in Configs : a = j.at
  BY <1>0, Busy
<1>3. running[a] = 0 /\ rows[a].exists /\ toBoot = {} /\ j \in Task /\ j.cfg \in Configs
  BY <1>0, <1>1, <1>2, Busy DEF OnlyTask, Doing
<1>4. /\ rows'[a].exists /\ rows'[a].enabled = FALSE
      /\ \A c \in Configs \ {a} : rows'[c] = rows[c]
      /\ unsaved' = unsaved \ {a}
  BY <1>2, <1>3, EnabledWritten DEF Disable
<1>5. Good(a)'
  BY <1>0, <1>3, <1>4 DEF Good
<1>6. ASSUME NEW c \in Configs \ {a} PROVE Fine(c)'
  <2>1. c \in bootFailed' <=> c \in bootFailed
    BY <1>2 DEF Disable
  <2> QED
    BY <1>0, <1>1, <1>2, <1>4, <2>1, FineKept DEF OnlyTask
<1>7. Fine(a)'
  BY <1>0, <1>3, <1>5 DEF Fine
<1>8. Held'
  BY <1>0, <1>1, HeldKept
<1>9. CASE GoOn(t, Idle)
  BY <1>1, <1>6, <1>7, <1>8, <1>9, SoleEnds DEF GoOn
<1>10. ASSUME NEW p \in {"peers", "drop"}, GoOn(t, [j EXCEPT !.pc = p, !.slot = 0]),
              p = "peers" <=> j.op = "setActive"
       PROVE  Orderly'
  <2>1. PICK k : k = [j EXCEPT !.pc = p, !.slot = 0]
    OBVIOUS
  <2>2. Moved(j, k, p, 0)
    BY <1>3, <2>1 DEF Moved, Task
  <2>3. Alone(t)' /\ task'[t] = k /\ k # Idle
    BY <1>1, <1>10, <2>1, <2>2, SoleMoves, IdleTyped DEF GoOn, Moved
  <2>4. Doing(t)'
    BY <1>0, <1>2, <1>3, <1>4, <1>5, <2>2, <2>3 DEF Doing, Moved
  <2>5. j.op = "setActive" => PeersStopped(k)'
    BY <1>0, <1>1, <1>2, <1>3, <1>4, <1>10, <2>2 DEF OnlyTask, PeersStopped, Moved
  <2>6. OnlyTask(t)'
    BY <1>1, <1>2, <1>6, <1>10, <2>2, <2>3, <2>4, <2>5 DEF OnlyTask, Moved
  <2> QED
    BY <1>8, <2>6 DEF Orderly
<1> QED
  BY <1>9, <1>10 DEF Disable
LEMMA OrderlyEditDrop ==
    ASSUME TransportTyped, Orderly, NEW t \in Tasks, Edit(t) \/ Drop(t)
    PROVE  Orderly'
<1> DEFINE j == task[t]
<1>0. j.pc \in {"edit", "drop"} /\ UNCHANGED <<running, transport, toBoot>>
      /\ task' = [task EXCEPT ![t] = Idle]
  BY DEF Edit, Drop, GoOn
<1>1. OnlyTask(t) /\ Alone(t) /\ Held
  BY <1>0, Sole DEF OnlyTask, Orderly
<1>2. PICK a \in Configs : a = j.at /\ a = j.cfg
  BY <1>0, <1>1, Busy DEF OnlyTask, PeersStopped
<1>3. Good(a) /\ toBoot = {}
  BY <1>0, <1>1, <1>2, Busy DEF OnlyTask, Doing
<1>5. Good(a)'
  <2>1. CASE Edit(t)
    <3>1. rows[a].exists /\ ~ rows[a].enabled /\ UNCHANGED <<bootFailed, unsaved>>
      BY <1>1, <1>2, <2>1 DEF OnlyTask, Doing, Edit
    <3>2. ~ rows'[a].enabled /\ rows'[a].exists
      BY <1>2, <2>1, <3>1, SettingWritten
    <3>3. a \notin unsaved => running[a] = 0
      BY <1>3, <3>1 DEF Good
    <3>4. running[a] # 0 => Listens(running[a], a)'
      BY <1>0, <1>3 DEF Good, Listens
    <3> QED
      BY <1>0, <3>1, <3>2, <3>3, <3>4 DEF Good
  <2>2. CASE Drop(t)
    <3>0. running[a] = 0
      BY <1>1, <1>2, <2>2 DEF OnlyTask, Doing, Drop
    <3>1. rows'[a] = NoRow
      BY <1>2, <2>2 DEF Drop, TransportTyped, TypeOK
    <3>2. rows'[a].exists = FALSE
      BY <3>1 DEF NoRow
    <3> QED
      BY <1>0, <3>0, <3>2 DEF Good
  <2> QED
    BY <2>1, <2>2
<1>6. ASSUME NEW c \in Configs \ {a} PROVE Fine(c)'
  <2>1. /\ c \in bootFailed' <=> c \in bootFailed
        /\ c \in unsaved' <=> c \in unsaved
        /\ rows'[c] = rows[c]
    <3>1. CASE Edit(t)
      BY <1>2, <3>1, SettingWritten DEF Edit
    <3>2. CASE Drop(t)
      BY <1>2, <3>2 DEF Drop, TransportTyped, TypeOK
    <3> QED
      BY <3>1, <3>2, SMTT(30)
  <2> QED
    BY <1>0, <1>1, <1>2, <2>1, FineKept DEF OnlyTask
<1>7. Fine(a)'
  BY <1>0, <1>3, <1>5 DEF Fine
<1>8. Held'
  BY <1>0, <1>1, HeldKept
<1> QED
  BY <1>0, <1>1, <1>6, <1>7, <1>8, SoleEnds

LEMMA OrderlyTaskStep ==
    ASSUME TransportTyped, Orderly, NEW t \in Tasks, TaskStep(t)
    PROVE  Orderly'
  BY OrderlyNextPeer, OrderlyStopToDelete, OrderlyListenFails, OrderlyListen, OrderlyStarted,
     OrderlyEnable, OrderlyNothingToStop, OrderlyCloseServer, OrderlyDisable, OrderlyEditDrop,
     OrderlyRefused DEF TaskStep

-----------------------------------------------------------------------------
(* With no request in progress, every config is fine and every transport   *)
(* held.                                                                   *)
LEMMA Resting ==
    ASSUME TransportTyped, Orderly, \A t \in Tasks : task[t] = Idle
    PROVE  /\ \A c \in Configs : Fine(c)
           /\ \A i \in Slots : transport[i].state # "closed" => running[transport[i].cfg] = i
<1>1. NoTask
  BY DEF Orderly, OnlyTask
<1> QED
  BY <1>1, IdleTyped DEF NoTask, Orderly, Held

LEMMA OrderlyBegin ==
    ASSUME TransportTyped, calm => Orderly, calm', NEW t \in Requests, NEW c \in Configs,
           \/ StartConfig(t, c) \/ StopConfig(t, c) \/ SetActive(t, c)
           \/ Update(t, c) \/ Delete(t, c)
    PROVE  Orderly'
<1>1. /\ Booted /\ task[t] = Idle /\ rows[c].exists
      /\ calm' = (calm /\ \A u \in Tasks \ {t} : task[u] = Idle)
      /\ active' = NoConfig
      /\ UNCHANGED <<rows, running, transport, toBoot, bootFailed, unsaved>>
  BY BeginsWith
<1>2. Orderly /\ t \in Tasks /\ Alone(t) /\ \A u \in Tasks : task[u] = Idle
  BY <1>1 DEF Tasks, Alone
<1>3. \A d \in Configs : Fine(d) /\ Fine(d)' /\ Good(d) /\ Good(d)'
  <2>1. \A d \in Configs : Fine(d)
    BY <1>2, Resting
  <2>2. \A d \in Configs : Fine(d)'
    BY <1>1, <2>1, WorldKept
  <2> QED
    BY <1>1, <2>1, <2>2 DEF Booted, Fine
<1>4. Held'
  BY <1>1, <1>2, Resting DEF Held
<1>5. t # Boot /\ toBoot' = {}
  BY <1>1, TransportAssumption DEF Booted
<1>6. ASSUME NEW k, task' = [task EXCEPT ![t] = k], k.row = rows[c],
             \/ Begun(k, c, "start", "startFound")
             \/ Begun(k, c, "stop", "stopFound")
             \/ Begun(k, c, "update", "edit") /\ ~ rows[c].enabled
             \/ Begun(k, c, "delete", "deleteFound")
      PROVE  Orderly'
  <2>1. Alone(t)' /\ task'[t] = k
    BY <1>2, <1>6, SoleMoves
  <2>2. k # Idle /\ k.at = c /\ k.cfg = c /\ k.op # "setActive" /\ k.pc # "peers"
    BY <1>6 DEF Begun
  <2>3. Doing(t)'
    BY <1>1, <1>3, <1>5, <1>6, <2>1 DEF Doing, Begun
  <2> QED
    BY <1>2, <1>3, <1>4, <1>6, <2>2, <2>3, PlainGoesOn
<1>7. ASSUME NEW k, task' = [task EXCEPT ![t] = k], Begun(k, c, "setActive", "peers"),
             k.peers = {p \in Configs \ {c} : /\ rows[p].exists
                                              /\ rows[p].setting.kind = rows[c].setting.kind}
      PROVE  Orderly'
  <2>1. Alone(t)' /\ task'[t] = k
    BY <1>2, <1>7, SoleMoves
  <2>2. Doing(t)'
    BY <1>1, <1>3, <1>5, <1>7, <2>1 DEF Doing, Begun
  <2>3. ASSUME NEW d \in Configs \ (k.peers \union {c}), running[d] # 0, d \notin unsaved
        PROVE  transport[running[d]].setting.kind # rows[c].setting.kind
    <3>1. Serves(running[d], d) /\ rows[d].exists
      BY <1>3, <2>3 DEF Good
    <3> QED
      BY <1>7, <2>3, <3>1 DEF Serves, Listens
  <2>4. PeersStopped(k)'
    BY <1>1, <1>7, <2>3 DEF PeersStopped, Begun
  <2>5. OnlyTask(t)'
    BY <1>3, <1>7, <2>1, <2>2, <2>4 DEF OnlyTask, Begun
  <2> QED
    BY <1>2, <1>4, <2>5 DEF Orderly
<1> QED
  BY <1>6, <1>7, BeginsWith

LEMMA OrderlyCreate ==
    ASSUME TransportTyped, Orderly, NEW c \in Configs, NEW x \in Inputs, Create(c, x)
    PROVE  Orderly'
<1>1. /\ toBoot = {} /\ task[Boot] = Idle /\ ~ rows[c].exists
      /\ UNCHANGED <<running, transport, task, toBoot, bootFailed, unsaved>>
  BY DEF Create, Booted
<1>2. /\ ~ rows'[c].enabled
      /\ \A d \in Configs \ {c} : rows'[d] = rows[d]
  BY DEF Create, TransportTyped, TypeOK
<1>3. ASSUME NEW d \in Configs, Fine(d) PROVE Fine(d)'
  <2>1. CASE d # c
    BY <1>1, <1>2, <1>3, <2>1, FineKept
  <2>2. CASE d = c
    <3>1. running[c] = 0
      BY <1>1, <1>3, <2>2 DEF Fine, Good
    <3> QED
      BY <1>1, <1>2, <2>2, <3>1 DEF Fine, Good
  <2> QED
    BY <2>1, <2>2
<1>4. ASSUME NEW d \in Configs, Good(d) PROVE Good(d)'
  BY <1>1, <1>3, <1>4 DEF Fine
<1>5. Held'
  BY <1>1 DEF Orderly, Held
<1>6. CASE NoTask
  <2>1. NoTask'
    BY <1>1, <1>3, <1>6 DEF NoTask
  <2> QED
    BY <1>5, <2>1 DEF Orderly
<1>7. ASSUME NEW t \in Tasks, OnlyTask(t) PROVE Orderly'
  <2>1. task[t].at \in Configs /\ task[t].cfg \in Configs /\ t # Boot
    BY <1>1, <1>7 DEF OnlyTask, TransportTyped, TaskTyped
  <2>2. PICK a \in Configs : a = task[t].at
    BY <2>1
  <2>3. Good(a) => Good(a)'
    BY <1>4
  <2>4. task[t].pc # "drop" => a # c /\ rows'[a] = rows[a] /\ rows[a].exists
    BY <1>1, <1>2, <1>7, <2>2 DEF OnlyTask, Doing
  <2>5. Doing(t)'
    BY <1>1, <1>7, <2>1, <2>2, <2>3, <2>4 DEF OnlyTask, Doing, Serves, Listens
  <2>6. task[t].op = "setActive" => PeersStopped(task[t])'
    BY <1>1, <1>2, <1>7, <2>1 DEF OnlyTask, PeersStopped
  <2>7. OnlyTask(t)'
    BY <1>1, <1>3, <1>7, <2>5, <2>6 DEF OnlyTask, Alone
  <2> QED
    BY <1>5, <2>7 DEF Orderly
<1> QED
  BY <1>6, <1>7 DEF Orderly

LEMMA OrderlyPeers ==
    ASSUME TransportTyped, Orderly, NEW i \in Slots, PeerConnects(i) \/ PeerLeaves(i)
    PROVE  Orderly'
<1>1. UNCHANGED <<rows, running, task, toBoot, bootFailed, unsaved>>
  BY DEF PeerConnects, PeerLeaves
<1>2. \A n \in Slots : /\ transport'[n].state = transport[n].state
                       /\ transport'[n].cfg = transport[n].cfg
                       /\ transport'[n].setting = transport[n].setting
  BY TypedPeers
<1>3. \A c \in Configs : running[c] # 0 => running[c] \in Slots
  BY DEF TransportTyped, TypeOK
<1>4. ASSUME NEW c \in Configs
      PROVE  (Good(c) => Good(c)') /\ (ToStart(c) => ToStart(c)') /\ (Fine(c) => Fine(c)')
  <2>1. running[c] # 0 => /\ transport'[running[c]].state = transport[running[c]].state
                          /\ transport'[running[c]].cfg = transport[running[c]].cfg
                          /\ transport'[running[c]].setting = transport[running[c]].setting
    BY <1>2, <1>3
  <2> QED
    BY <1>1, <2>1, FineKept
<1>5. Held'
  BY <1>1, <1>2 DEF Orderly, Held
<1>6. CASE NoTask
  <2>1. NoTask'
    BY <1>1, <1>4, <1>6 DEF NoTask
  <2> QED
    BY <1>5, <2>1 DEF Orderly
<1>7. ASSUME NEW t \in Tasks, OnlyTask(t) PROVE Orderly'
  <2>1. /\ task[t].at \in Configs /\ task[t].cfg \in Configs
        /\ task[t].pc \in {"bound", "enable", "closing"} => task[t].slot \in Slots
    BY <1>7 DEF OnlyTask, TransportTyped, TaskTyped
  <2>2. PICK a \in Configs : a = task[t].at
    BY <2>1
  <2>3. (Good(a) => Good(a)') /\ (ToStart(a) => ToStart(a)')
    BY <1>4
  <2>4. Doing(t)'
    BY <1>1, <1>2, <1>7, <2>1, <2>2, <2>3 DEF OnlyTask, Doing, Serves, Listens
  <2>5. task[t].op = "setActive" => PeersStopped(task[t])'
    BY <1>1, <1>2, <1>3, <1>7 DEF OnlyTask, PeersStopped
  <2>6. OnlyTask(t)'
    BY <1>1, <1>4, <1>7, <2>4, <2>5 DEF OnlyTask, Alone
  <2> QED
    BY <1>5, <2>6 DEF Orderly
<1> QED
  BY <1>6, <1>7 DEF Orderly

LEMMA OrderlyAutoStart ==
    ASSUME TransportTyped, Orderly, AutoStartNext
    PROVE  Orderly'
<1>1. PICK c \in toBoot :
         /\ toBoot' = toBoot \ {c}
         /\ \/ /\ UNCHANGED bootFailed
               /\ \E k \in Task : /\ task' = [task EXCEPT ![Boot] = k]
                                  /\ Begun(k, c, "boot", "startFound")
                                  /\ k.row = rows[c] /\ k.row \in Row
            \/ bootFailed' = bootFailed \union {c} /\ UNCHANGED task
  BY AutoStarts
<1>2. UNCHANGED <<rows, running, transport, unsaved>> /\ task[Boot] = Idle
  BY AutoStarts
<1>3. c \in Configs /\ (\A t \in Tasks : task[t] = Idle) /\ Boot \in Tasks
  BY <1>2 DEF TransportTyped, TypeOK, BootFirst, Tasks
<1>4. Alone(Boot)
  BY <1>3 DEF Alone
<1>5. \A d \in Configs : Fine(d)
  BY <1>3, Resting
<1>6. \A d \in Configs \ {c} : Fine(d)'
  BY <1>1, <1>2, <1>5, FineKept
<1>7. ToStart(c)
  BY <1>1, <1>3, <1>5 DEF Fine
<1>8. Held'
  BY <1>2, <1>3, Resting DEF Held
<1>9. ASSUME NEW k \in Task, UNCHANGED bootFailed, task' = [task EXCEPT ![Boot] = k],
             Begun(k, c, "boot", "startFound"), k.row = rows[c]
      PROVE  Orderly'
  <2>1. ToStart(c)'
    BY <1>2, <1>7, <1>9, FineKept
  <2>2. Alone(Boot)' /\ task'[Boot] = k
    BY <1>3, <1>4, <1>9, SoleMoves
  <2>3. Doing(Boot)'
    BY <1>1, <1>2, <1>9, <2>1, <2>2 DEF Doing, Begun, ToStart
  <2> QED
    BY <1>3, <1>4, <1>6, <1>8, <1>9, <2>3, PlainGoesOn DEF Begun
<1>10. CASE bootFailed' = bootFailed \union {c} /\ UNCHANGED task
  <2>1. Good(c)'
    BY <1>2, <1>7, <1>10 DEF ToStart, Good
  <2>2. Fine(c)'
    BY <1>1, <2>1 DEF Fine
  <2> QED
    BY <1>3, <1>6, <1>8, <1>10, <2>2 DEF Orderly, NoTask
<1> QED
  BY <1>1, <1>9, <1>10

LEMMA OrderlyRestart ==
    ASSUME TransportTyped, Restart
    PROVE  Orderly'
<1>1. \A t \in Tasks : task'[t] = Idle
  BY DEF Restart
<1>2. \A i \in Slots : transport'[i].state = "closed"
  BY DEF Restart, TransportTyped, TypeOK, Transport
<1>3. ASSUME NEW c \in Configs PROVE Fine(c)'
  <2>1. /\ running'[c] = 0 /\ c \notin bootFailed'
        /\ c \in toBoot' <=> rows'[c].exists /\ rows'[c].enabled
    BY DEF Restart, Enabled
  <2> QED
    BY <2>1 DEF Fine, Good, ToStart
<1> QED
  BY <1>1, <1>2, <1>3 DEF Orderly, Held, NoTask

LEMMA TransportInit == Init => TransportInv
<1> SUFFICES ASSUME Init PROVE TransportInv
  OBVIOUS
<1>1. TransportTyped
  BY TypedInit
<1>2. \A t \in Tasks : task[t] = Idle
  BY DEF Init
<1>3. \A i \in Slots : transport[i].state = "closed"
  BY DEF Init, Closed
<1>4. ASSUME NEW c \in Configs PROVE Fine(c)
  <2>1. /\ running[c] = 0 /\ bootFailed = {}
        /\ c \in toBoot <=> rows[c].exists /\ rows[c].enabled
    BY DEF Init, Enabled
  <2> QED
    BY <2>1 DEF Fine, Good, ToStart
<1>5. Orderly
  BY <1>2, <1>3, <1>4 DEF Orderly, Held, NoTask
<1>6. Chosen
  BY DEF Init, Chosen
<1> QED
  BY <1>1, <1>5, <1>6 DEF TransportInv

LEMMA OrderlyStep ==
    ASSUME TransportTyped, calm => Orderly, [Next]_vars, calm'
    PROVE  Orderly'
<1>1. CASE UNCHANGED vars
  <2>1. Orderly
    BY <1>1 DEF vars
  <2>2. UNCHANGED <<rows, running, transport, task, toBoot, bootFailed, unsaved>>
    BY <1>1 DEF vars
  <2>3. Held'
    BY <2>1, <2>2 DEF Orderly, Held
  <2>4. CASE NoTask
    <3>1. NoTask'
      BY <2>2, <2>4, WorldKept DEF NoTask
    <3> QED
      BY <2>3, <3>1 DEF Orderly
  <2>5. ASSUME NEW t \in Tasks, OnlyTask(t) PROVE Orderly'
    <3>1. Doing(t)'
      BY <2>2, <2>5 DEF OnlyTask, Doing, Good, ToStart, Serves, Listens
    <3>2. task[t].op = "setActive" => PeersStopped(task[t])'
      BY <2>2, <2>5 DEF OnlyTask, PeersStopped
    <3>3. \A d \in Configs : Fine(d) => Fine(d)'
      BY <2>2, WorldKept
    <3>4. OnlyTask(t)'
      BY <2>2, <2>5, <3>1, <3>2, <3>3 DEF OnlyTask, Alone
    <3> QED
      BY <2>3, <3>4 DEF Orderly
  <2> QED
    BY <2>1, <2>4, <2>5 DEF Orderly
<1>2. ASSUME NEW t \in Requests, NEW c \in Configs,
             \/ StartConfig(t, c) \/ StopConfig(t, c) \/ SetActive(t, c)
             \/ Update(t, c) \/ Delete(t, c)
      PROVE  Orderly'
  BY <1>2, OrderlyBegin
<1>3. ASSUME NEW c \in Configs, NEW x \in Inputs, Create(c, x) PROVE Orderly'
  BY <1>3, OrderlyCreate DEF Create
<1>4. ASSUME NEW t \in Tasks, TaskStep(t) PROVE Orderly'
  <2>1. calm
    BY <1>4 DEF TaskStep, NextPeer, StopToDelete, AlreadyRunning, Listen, ListenFails, Started,
                Enable, NothingToStop, CloseServer, Disable, Edit, Drop, Refused
  <2> QED
    BY <1>4, <2>1, OrderlyTaskStep
<1>5. ASSUME NEW i \in Slots, ServerClosed(i) PROVE Orderly'
  BY <1>5, OrderlyClosed DEF ServerClosed
<1>6. ASSUME NEW i \in Slots, PeerConnects(i) \/ PeerLeaves(i) PROVE Orderly'
  BY <1>6, OrderlyPeers DEF PeerConnects, PeerLeaves
<1>7. CASE AutoStartNext
  BY <1>7, OrderlyAutoStart DEF AutoStartNext
<1>8. CASE Restart
  BY <1>8, OrderlyRestart
<1> QED
  BY <1>1, <1>2, <1>3, <1>4, <1>5, <1>6, <1>7, <1>8 DEF Next

(* The answer to a setActive leaves its target alone of its kind.          *)
LEMMA AnsweredIsAlone ==
    ASSUME TransportTyped, Orderly, NEW t \in Tasks, task[t].op = "setActive",
           task[t].pc \in {"startFound", "enable"}, running[task[t].at] # 0,
           task' = [task EXCEPT ![t] = Idle], active' = task[t].cfg,
           UNCHANGED <<running, transport, toBoot>>,
           \A d \in Configs : /\ rows'[d].exists <=> rows[d].exists
                              /\ rows[d].exists => rows'[d].setting = rows[d].setting
                              /\ d # task[t].cfg /\ d \in unsaved => d \in unsaved'
    PROVE  Chosen'
<1>1. OnlyTask(t) /\ PeersStopped(task[t]) /\ Alone(t)
  BY Sole DEF OnlyTask
<1>2. PICK c \in Configs : c = task[t].cfg
  BY Busy
<1>3. /\ task[t].at = c /\ task[t].peers = {} /\ rows[c].exists
      /\ \A d \in Configs \ {c} : \/ running[d] = 0 \/ d \in unsaved
                                   \/ transport[running[d]].setting.kind # rows[c].setting.kind
  BY <1>1, <1>2 DEF PeersStopped
<1>4. t # Boot /\ toBoot = {} /\ task[Boot] = Idle
  BY Busy DEF OfBoot
<1>5. (\A u \in Tasks : task'[u] = Idle) /\ Boot \in Tasks
  BY <1>1, SoleMoves, IdleTyped DEF Alone, Tasks
<1>6. Booted'
  BY <1>4, <1>5 DEF Booted
<1>7. rows'[c].exists /\ rows'[c].setting = rows[c].setting
  BY <1>3
<1>8. AloneNow(c)'
  BY <1>2, <1>3, <1>7 DEF AloneNow, AloneOf
<1> QED
  BY <1>2, <1>3, <1>5, <1>6, <1>7, <1>8 DEF Chosen

(* While nothing is under way and no request begins, it stays alone.       *)
LEMMA ChosenKept ==
    ASSUME TransportTyped, Chosen, active # NoConfig, active' = active,
           UNCHANGED <<running, task, toBoot, unsaved>>,
           \A n \in Slots : transport'[n].setting = transport[n].setting,
           \A d \in Configs : rows[d].exists => rows'[d] = rows[d]
    PROVE  Chosen'
<1>1. PICK c \in Configs : c = active
  BY DEF Chosen
<1>2. /\ Booted /\ \A t \in Tasks : task[t] = Idle
      /\ rows[c].exists /\ running[c] # 0 /\ AloneNow(c)
  BY <1>1 DEF Chosen
<1>3. \A d \in Configs : running[d] # 0 => running[d] \in Slots
  BY DEF TransportTyped, TypeOK
<1>4. rows'[c] = rows[c]
  BY <1>2
<1>5. AloneNow(c)'
  BY <1>2, <1>3, <1>4, SMTT(30) DEF AloneNow, AloneOf
<1> QED
  BY <1>1, <1>2, <1>4, <1>5 DEF Chosen, Booted

LEMMA ChosenTaskStep ==
    ASSUME TransportTyped, Orderly, Chosen, NEW t \in Tasks, TaskStep(t)
    PROVE  Chosen'
<1>1. task[t].pc # "idle"
  BY DEF TaskStep, NextPeer, StopToDelete, AlreadyRunning, Listen, ListenFails, Started,
         Enable, NothingToStop, CloseServer, Disable, Edit, Drop, Refused
<1>2. task[t] # Idle /\ active = NoConfig
  BY <1>1, Busy DEF Chosen
<1>3. CASE active' = active
  BY <1>2, <1>3 DEF Chosen
<1>4. CASE AlreadyRunning(t) /\ task[t].op = "setActive"
  <2>1. /\ task[t].pc = "startFound" /\ running[task[t].at] # 0
        /\ active' = task[t].cfg /\ task' = [task EXCEPT ![t] = Idle]
        /\ UNCHANGED <<running, transport, toBoot>> /\ UNCHANGED <<rows, unsaved>>
    BY <1>4 DEF AlreadyRunning, Answered, GoOn
  <2> QED
    BY <1>4, <2>1, AnsweredIsAlone
<1>5. CASE Enable(t) /\ task[t].op = "setActive"
  <2>1. OnlyTask(t) /\ task[t].pc = "enable" /\ task[t].at \in Configs
        /\ task[t].slot \in Slots /\ task[t].slot # 0
    BY <1>5, <1>1, Sole, Busy, TransportAssumption DEF Enable, TaskTyped
  <2>2. task[t].at = task[t].cfg /\ running[task[t].at] # 0
    BY <1>5, <2>1 DEF OnlyTask, Doing, PeersStopped
  <2>3. /\ active' = task[t].cfg /\ task' = [task EXCEPT ![t] = Idle]
        /\ UNCHANGED <<running, transport, toBoot>>
    BY <1>5 DEF Enable, Answered, GoOn
  <2>4. \A d \in Configs : /\ rows'[d].exists <=> rows[d].exists
                           /\ rows[d].exists => rows'[d].setting = rows[d].setting
                           /\ d # task[t].cfg /\ d \in unsaved => d \in unsaved'
    BY <1>5, <2>1, <2>2, EnabledWritten DEF Enable
  <2> QED
    BY <1>5, <2>1, <2>2, <2>3, <2>4, AnsweredIsAlone
<1> QED
  BY <1>3, <1>4, <1>5, ZenonT(40) DEF TaskStep, NextPeer, StopToDelete, AlreadyRunning, Answered, Listen,
         ListenFails, Started, Enable, NothingToStop, CloseServer, Disable, Edit, Drop, Refused

LEMMA ChosenStep ==
    ASSUME TransportTyped, calm => Orderly /\ Chosen, [Next]_vars, calm'
    PROVE  Chosen'
<1>1. CASE UNCHANGED vars
  <2>1. Chosen /\ UNCHANGED <<rows, running, transport, task, toBoot, unsaved, active>>
    BY <1>1 DEF vars
  <2> QED
    BY <2>1, ChosenKept DEF Chosen
<1>2. ASSUME NEW t \in Requests, NEW c \in Configs,
             \/ StartConfig(t, c) \/ StopConfig(t, c) \/ SetActive(t, c)
             \/ Update(t, c) \/ Delete(t, c)
      PROVE  Chosen'
  BY <1>2, BeginsWith DEF Chosen
<1>3. ASSUME NEW c \in Configs, NEW x \in Inputs, Create(c, x) PROVE Chosen'
  <2>1. Chosen /\ UNCHANGED <<running, transport, task, toBoot, unsaved, active>>
    BY <1>3 DEF Create
  <2>2. \A d \in Configs : rows[d].exists => rows'[d] = rows[d]
    BY <1>3 DEF Create, TransportTyped, TypeOK
  <2> QED
    BY <2>1, <2>2, ChosenKept DEF Chosen
<1>4. ASSUME NEW t \in Tasks, TaskStep(t) PROVE Chosen'
  <2>1. calm
    BY <1>4 DEF TaskStep, NextPeer, StopToDelete, AlreadyRunning, Listen, ListenFails, Started,
                Enable, NothingToStop, CloseServer, Disable, Edit, Drop, Refused
  <2> QED
    BY <1>4, <2>1, ChosenTaskStep, SMTT(30)
<1>5. ASSUME NEW i \in Slots, ServerClosed(i) PROVE Chosen'
  <2>1. Orderly /\ Chosen /\ active' = active /\ transport[i].state = "closing"
    BY <1>5 DEF ServerClosed
  <2>2. PICK t \in Tasks : task[t].pc = "closing"
    BY <2>1, ClosingIsStopped
  <2>3. task[t] # Idle
    BY <2>2, Busy
  <2> QED
    BY <2>1, <2>3 DEF Chosen
<1>6. ASSUME NEW i \in Slots, PeerConnects(i) \/ PeerLeaves(i) PROVE Chosen'
  <2>1. Chosen /\ UNCHANGED <<rows, running, task, toBoot, unsaved, active>>
    BY <1>6 DEF PeerConnects, PeerLeaves
  <2> QED
    BY <1>6, <2>1, TypedPeers, ChosenKept DEF Chosen
<1>7. CASE AutoStartNext
  <2>1. Chosen /\ active' = active /\ toBoot # {}
    BY <1>7 DEF AutoStartNext
  <2> QED
    BY <2>1 DEF Chosen, Booted
<1>8. CASE Restart
  BY <1>8 DEF Restart, Chosen
<1> QED
  BY <1>1, <1>2, <1>3, <1>4, <1>5, <1>6, <1>7, <1>8 DEF Next

LEMMA TransportStep == TransportInv /\ [Next]_vars => TransportInv'
  BY TypedStep, OrderlyStep, ChosenStep DEF TransportInv

LEMMA QuietMatches ==
    ASSUME TransportTyped, Orderly, Quiet
    PROVE  MapMatchesRows /\ NoLostListener
<1>1. toBoot = {} /\ \A c \in Configs : Good(c)
  BY Resting DEF Quiet, Booted, Fine
<1>2. NoLostListener
  BY Resting DEF NoLostListener, Quiet
<1>3. ASSUME NEW c \in Configs, rows[c].exists, running[c] = 0
      PROVE  LET dto == toDto(c) IN
             /\ ~ dto.status.listening
             /\ c \notin unsaved =>
                   /\ dto.status.listening <=> dto.enabled /\ c \notin bootFailed
                   /\ HasSocket(dto.setting) => dto.status.setting = dto.setting
  <2>1. c \notin unsaved => ~ (rows[c].enabled /\ c \notin bootFailed)
    BY <1>1, <1>3 DEF Good
  <2>2. toDto(c) = [enabled |-> rows[c].enabled, setting |-> rows[c].setting,
                    status |-> StatusDown(c)]
    BY <1>3 DEF toDto
  <2> QED
    BY <2>1, <2>2 DEF StatusDown
<1>4. ASSUME NEW c \in Configs, rows[c].exists, NEW i \in Slots, running[c] = i, i # 0
      PROVE  LET dto == toDto(c) IN
             /\ /\ transport[i].state = "listening"
                /\ transport[i].cfg = c
                /\ transport[i].conns = dto.status.activeConnections
                /\ c \notin unsaved => transport[i].setting = dto.setting
             /\ c \notin unsaved =>
                   /\ dto.status.listening <=> dto.enabled /\ c \notin bootFailed
                   /\ HasSocket(dto.setting) => dto.status.setting = dto.setting
  <2>1. /\ Listens(i, c)
        /\ c \notin unsaved => rows[c].enabled /\ c \notin bootFailed /\ Serves(i, c)
    BY <1>1, <1>4 DEF Good
  <2>2. CASE HasSocket(transport[i].setting)
    <3>1. toDto(c) = [enabled |-> rows[c].enabled, setting |-> rows[c].setting,
                      status |-> Status(i)]
      BY <1>4, <2>2 DEF toDto
    <3>2. /\ Status(i).listening = TRUE
          /\ Status(i).setting = transport[i].setting
          /\ Status(i).activeConnections = transport[i].conns
      BY <2>1 DEF Status, Listens
    <3> QED
      BY <2>1, <3>1, <3>2 DEF Serves, Listens
  <2>3. CASE ~ HasSocket(transport[i].setting)
    <3>1. toDto(c) = [enabled |-> rows[c].enabled, setting |-> rows[c].setting,
                      status |-> StatusInProcess(i)]
      BY <1>4, <2>3 DEF toDto
    <3>2. transport[i].conns = 0
      BY <2>3 DEF TransportTyped, SocketsOnly
    <3>3. /\ StatusInProcess(i).listening = TRUE
          /\ StatusInProcess(i).activeConnections = transport[i].conns
      BY <2>1, <3>2 DEF StatusInProcess, Listens
    <3>4. c \notin unsaved => ~ HasSocket(rows[c].setting)
      BY <2>1, <2>3 DEF Serves
    <3> QED
      BY <2>1, <3>1, <3>3, <3>4 DEF Serves, Listens
  <2> QED
    BY <2>2, <2>3
<1>5. MapMatchesRows
  <2> SUFFICES ASSUME NEW c \in Configs
               PROVE  IF ~ rows[c].exists THEN running[c] = 0
                      ELSE LET dto == toDto(c) IN
                           /\ dto.status.listening =>
                                 \E i \in Slots :
                                    /\ transport[i].state = "listening"
                                    /\ transport[i].cfg = c
                                    /\ transport[i].conns = dto.status.activeConnections
                                    /\ c \notin unsaved => transport[i].setting = dto.setting
                           /\ c \notin unsaved =>
                                 /\ dto.status.listening <=> dto.enabled /\ c \notin bootFailed
                                 /\ HasSocket(dto.setting) => dto.status.setting = dto.setting
    BY DEF MapMatchesRows
  <2>1. CASE ~ rows[c].exists
    BY <1>1, <2>1 DEF Good
  <2>2. CASE rows[c].exists /\ running[c] = 0
    BY <1>3, <2>2
  <2>3. CASE rows[c].exists /\ running[c] # 0
    <3>1. running[c] \in Slots
      BY <2>3 DEF TransportTyped, TypeOK
    <3> QED
      BY <1>4, <2>3, <3>1
  <2> QED
    BY <2>1, <2>2, <2>3
<1> QED
  BY <1>2, <1>5

LEMMA StartingIsAlone ==
    ASSUME TransportTyped, Orderly, Chosen
    PROVE  ActiveIsAlone
<1>1. ASSUME NEW t \in Requests, task[t].op = "setActive",
             task[t].pc \in {"startFound", "bound", "enable"}
      PROVE  AloneOf(task[t].row.setting.kind, task[t].cfg)
  <2>1. t \in Tasks /\ OnlyTask(t)
    BY <1>1, Sole DEF Tasks
  <2> QED
    BY <1>1, <2>1 DEF OnlyTask, Doing, PeersStopped, AloneOf
<1>2. active # NoConfig => running[active] # 0 /\ AloneOf(rows[active].setting.kind, active)
  BY DEF Chosen, AloneNow
<1> QED
  BY <1>1, <1>2 DEF ActiveIsAlone

(* As long as requests of the console do not overlap: between them the     *)
(* running map and the sockets agree, the rows too but for a refused       *)
(* write, no socket is left behind, and a setActive that is answered       *)
(* leaves its target as the one listener of its kind; for any configs,     *)
(* settings and requests, whatever bind or query fails and whenever the    *)
(* server crashes.                                                         *)
THEOREM ConsoleIsTruthful == Spec => []ConsoleTellsTruth
<1>1. TransportInv => ConsoleTellsTruth
  BY QuietMatches, StartingIsAlone DEF TransportInv, ConsoleTellsTruth
<1> QED
  BY <1>1, TransportInit, TransportStep, PTL DEF Spec

-----------------------------------------------------------------------------
(***************************************************************************)
(* Payments over HTTP: Iso20022Http.                                       *)
(***************************************************************************)
Waiting == {"none", "reading", "host", "resolved"}
Told == {"answered", "lost"}

HttpTypeOK ==
    /\ phase \in [Posts -> Waiting \union Told]
    /\ DOMAIN asks = Posts /\ DOMAIN reply = Posts
    /\ result \in [Posts -> Declines \union {Unasked, Approved}]
    /\ gone \subseteq Posts
    /\ posts \in 0 .. MaxPost
    /\ total \in 0 .. posts
    /\ moved = [n \in Posts |-> moved[n]]

(* What is taken when the host's promise was resolved in this way.         *)
TakenFor(n, r) == IF r = Approved THEN AmountOf(n) ELSE 0

(* A post to come has not arrived; until the host answers nothing is       *)
(* taken, and from then on what its answer says; a reply says ACSC of an   *)
(* approval and of nothing else.                                           *)
TellsOfPost(n) ==
    /\ n > posts => phase[n] = "none"
    /\ phase[n] # "resolved" /\ phase[n] \in Waiting => result[n] = Unasked
    /\ phase[n] = "resolved" => result[n] # Unasked
    /\ moved[n] = TakenFor(n, result[n])
    /\ phase[n] \in Waiting => reply[n].status = "none"
    /\ phase[n] \in Told => (reply[n].status = "ACSC" <=> result[n] = Approved)
    /\ reply[n].status = "ACSC" /\ asks[n].id # NoId => reply[n].id = asks[n].id
    /\ phase[n] = "lost" => n \in gone

HttpInv == HttpTypeOK /\ \A n \in Posts : TellsOfPost(n)

LEMMA Outcomes == Unasked # Approved /\ Unasked \notin Declines /\ Approved \notin Declines
BY DEF Unasked, Approved, Declines, mapResponseCodeToReason

(* The answer to post n, and what it must say.                             *)
LEMMA RespondKeeps ==
    ASSUME HttpInv, NEW n \in Posts, NEW a, Respond(n, a),
           phase[n] \in Waiting \ {"none"},
           UNCHANGED <<asks, result, gone, posts, total, moved>>,
           a.status = "ACSC" <=> result[n] = Approved,
           a.status = "ACSC" /\ asks[n].id # NoId => a.id = asks[n].id
    PROVE  HttpInv'
<1>1. /\ phase'[n] \in Told /\ reply'[n] = a /\ (phase'[n] = "lost" => n \in gone)
      /\ \A k \in Posts \ {n} : phase'[k] = phase[k] /\ reply'[k] = reply[k]
      /\ DOMAIN reply' = Posts /\ DOMAIN phase' = Posts
  BY DEF HttpInv, HttpTypeOK, Respond, Told
<1>2. n \in 1 .. posts /\ posts \in Nat
  BY HttpAssumption DEF HttpInv, HttpTypeOK, TellsOfPost, Posts
<1>3. phase' \in [Posts -> Waiting \union Told]
  BY DEF HttpInv, HttpTypeOK, Respond, Waiting, Told
<1>4. HttpTypeOK'
  BY <1>1, <1>2, <1>3 DEF HttpInv, HttpTypeOK
<1>5. TellsOfPost(n)'
  <2>1. moved[n] = TakenFor(n, result[n])
    BY DEF HttpInv, TellsOfPost
  <2> QED
    BY <1>1, <1>2, <2>1 DEF TellsOfPost, Told, Waiting, TakenFor, AmountOf
<1>6. ASSUME NEW k \in Posts \ {n} PROVE TellsOfPost(k)'
  BY <1>1 DEF HttpInv, TellsOfPost, TakenFor, AmountOf
<1> QED
  BY <1>4, <1>5, <1>6 DEF HttpInv

LEMMA HttpBegins == HttpInit => HttpInv
  BY HttpAssumption, Outcomes
     DEF HttpInit, HttpInv, HttpTypeOK, TellsOfPost, TakenFor, Waiting, Told, Plain, NothingYet, Posts

LEMMA RequestStep ==
    ASSUME HttpInv, NEW ask \in Bodies8 \union Elsewhere, HandleRequest(ask)
    PROVE  HttpInv'
<1> USE HttpAssumption
<1>0. PICK n : n = posts + 1
  OBVIOUS
<1>1. n \in Posts /\ posts' = n /\ phase[n] = "none" /\ n > posts
  BY <1>0 DEF HandleRequest, HttpInv, HttpTypeOK, Posts, TellsOfPost
<1>2. reply[n].status = "none" /\ result[n] = Unasked /\ moved[n] = 0
  BY <1>1, Outcomes DEF HttpInv, TellsOfPost, Waiting, TakenFor
<1>3. /\ phase'[n] \in {"reading", "answered"} /\ reply'[n].status = "none"
      /\ \A k \in Posts \ {n} : phase'[k] = phase[k] /\ reply'[k] = reply[k] /\ asks'[k] = asks[k]
      /\ DOMAIN reply' = Posts /\ DOMAIN asks' = Posts
      /\ phase' \in [Posts -> Waiting \union Told]
  <2>1. /\ phase' \in [Posts -> Waiting \union Told] /\ phase'[n] \in {"reading", "answered"}
        /\ \A k \in Posts \ {n} : phase'[k] = phase[k] /\ asks'[k] = asks[k]
        /\ DOMAIN asks' = Posts
    BY <1>0, <1>1 DEF HandleRequest, HttpInv, HttpTypeOK, Waiting, Told
  <2>2. CASE ask \in Bodies8
    BY <1>2, <2>1, <2>2 DEF HandleRequest, HttpInv, HttpTypeOK
  <2>3. CASE ask \notin Bodies8
    <3>1. PICK code : reply' = [reply EXCEPT ![n] = Plain(code)]
      BY <2>3, <1>0, ZenonT(40) DEF HandleRequest
    <3>2. Plain(code).status = "none"
      BY DEF Plain
    <3>3. DOMAIN reply = Posts
      BY DEF HttpInv, HttpTypeOK
    <3>4. /\ reply'[n] = Plain(code) /\ DOMAIN reply' = Posts
          /\ \A k \in Posts \ {n} : reply'[k] = reply[k]
      BY <3>1, <3>3, <1>1
    <3> QED
      BY <3>2, <3>4, <2>1
  <2> QED
    BY <2>2, <2>3
<1>4. UNCHANGED <<moved, result, gone>> /\ total' \in 0 .. posts'
  BY <1>0, <1>1 DEF HandleRequest, HttpInv, HttpTypeOK
<1>5. HttpTypeOK'
  BY <1>0, <1>1, <1>3, <1>4 DEF HttpInv, HttpTypeOK, Posts
<1>6. TellsOfPost(n)'
  <2>1. ~ (n > posts') /\ result'[n] = Unasked /\ moved'[n] = 0
    BY <1>1, <1>2, <1>4 DEF Posts
  <2>2. TakenFor(n, Unasked)' = 0
    BY Outcomes DEF TakenFor
  <2> QED
    BY <1>1, <1>3, <2>1, <2>2, Outcomes DEF TellsOfPost, Waiting, Told, TakenFor
<1>7. ASSUME NEW k \in Posts \ {n} PROVE TellsOfPost(k)'
  <2>1. posts \in Nat /\ k \in Nat /\ TellsOfPost(k)
    BY DEF HttpInv, HttpTypeOK, Posts
  <2> QED
    BY <1>0, <1>1, <1>3, <1>4, <2>1 DEF TellsOfPost, TakenFor, AmountOf
<1> QED
  BY <1>5, <1>6, <1>7 DEF HttpInv

LEMMA BodyStep ==
    ASSUME HttpInv, NEW n \in Posts, BodyEnds(n)
    PROVE  HttpInv'
<1>1. phase[n] = "reading" /\ phase[n] \in Waiting \ {"none"} /\ result[n] = Unasked
  BY DEF BodyEnds, Waiting, HttpInv, TellsOfPost
<1>2. UNCHANGED <<asks, result, gone, posts, total, moved>>
  BY DEF BodyEnds
<1>3. \/ \E a \in {Plain(500), buildPacs002(Unknown, "NARR"), buildPacs002(EndToEndId(n), "AC01")} :
             Respond(n, a)
      \/ phase' = [phase EXCEPT ![n] = "host"] /\ UNCHANGED reply
  BY DEF BodyEnds
<1>4. ASSUME NEW a \in {Plain(500), buildPacs002(Unknown, "NARR"),
                        buildPacs002(EndToEndId(n), "AC01")}, Respond(n, a)
      PROVE  HttpInv'
  <2>1. a.status # "ACSC"
    BY DEF Plain, buildPacs002
  <2> QED
    BY <1>1, <1>2, <1>4, <2>1, Outcomes, RespondKeeps
<1>5. CASE phase' = [phase EXCEPT ![n] = "host"] /\ UNCHANGED reply
  <2>1. HttpTypeOK'
    BY <1>2, <1>5 DEF HttpInv, HttpTypeOK, Waiting
  <2>2. n <= posts
    BY <1>1, HttpAssumption DEF HttpInv, HttpTypeOK, TellsOfPost, Posts
  <2>3. ASSUME NEW k \in Posts PROVE TellsOfPost(k)'
    BY <1>1, <1>2, <1>5, <2>2, HttpAssumption
       DEF HttpInv, HttpTypeOK, TellsOfPost, TakenFor, AmountOf, Waiting, Told, Posts
  <2> QED
    BY <2>1, <2>3 DEF HttpInv
<1> QED
  BY <1>3, <1>4, <1>5

LEMMA HostStep ==
    ASSUME HttpInv, NEW n \in Posts, HostAuthorizes(n)
    PROVE  HttpInv'
<1>1. /\ phase[n] = "host" /\ phase' = [phase EXCEPT ![n] = "resolved"]
      /\ UNCHANGED <<asks, reply, gone, posts, total>>
  BY DEF HostAuthorizes
<1>2. n <= posts /\ result[n] = Unasked /\ moved[n] = 0
  BY <1>1, Outcomes, HttpAssumption DEF HttpInv, HttpTypeOK, TellsOfPost, TakenFor, Posts, Waiting
<1>3. \E r \in Declines \union {Approved} :
        result' = [result EXCEPT ![n] = r] /\ moved' = [moved EXCEPT ![n] = TakenFor(n, r)]
  <2>1. CASE result' = [result EXCEPT ![n] = Approved] /\ moved' = [moved EXCEPT ![n] = AmountOf(n)]
    BY <2>1 DEF TakenFor
  <2>2. ASSUME NEW code \in Declines, result' = [result EXCEPT ![n] = code], UNCHANGED moved
        PROVE  moved' = [moved EXCEPT ![n] = TakenFor(n, code)]
    <3>1. TakenFor(n, code) = moved[n]
      BY <1>2, Outcomes DEF TakenFor
    <3> QED
      BY <2>2, <3>1 DEF HttpInv, HttpTypeOK
  <2> QED
    BY <2>1, <2>2 DEF HostAuthorizes
<1>4. PICK r \in Declines \union {Approved} :
        result' = [result EXCEPT ![n] = r] /\ moved' = [moved EXCEPT ![n] = TakenFor(n, r)]
  BY <1>3
<1>5. HttpTypeOK'
  BY <1>1, <1>4 DEF HttpInv, HttpTypeOK, Waiting
<1>6. TellsOfPost(n)'
  <2>1. moved'[n] = TakenFor(n, r) /\ result'[n] = r
    BY <1>4 DEF HttpInv, HttpTypeOK
  <2>2. (moved[n] = TakenFor(n, result[n]))'
    BY <1>1, <2>1 DEF TakenFor, AmountOf
  <2>3. r # Unasked
    BY <1>4, Outcomes
  <2>4. /\ phase'[n] = "resolved" /\ ~ (n > posts') /\ reply'[n].status = "none"
    BY <1>1, <1>2, HttpAssumption DEF HttpInv, HttpTypeOK, TellsOfPost, Waiting, Posts
  <2> QED
    BY <2>1, <2>2, <2>3, <2>4 DEF TellsOfPost, Told
<1>7. ASSUME NEW k \in Posts \ {n} PROVE TellsOfPost(k)'
  BY <1>1, <1>4 DEF HttpInv, HttpTypeOK, TellsOfPost, TakenFor, AmountOf
<1> QED
  BY <1>5, <1>6, <1>7 DEF HttpInv

LEMMA AnswerPostStep ==
    ASSUME HttpInv, NEW n \in Posts, AnswerPost(n)
    PROVE  HttpInv'
<1> DEFINE s == IF result[n] = Approved THEN "ACSC" ELSE mapResponseCodeToReason[result[n]]
           a == buildPacs002(EndToEndId(n), s)
<1>1. phase[n] \in Waiting \ {"none"} /\ UNCHANGED <<asks, result, gone, posts, total, moved>>
  BY DEF AnswerPost, Waiting
<1>2. result[n] \in Declines => mapResponseCodeToReason[result[n]] # "ACSC"
  BY DEF Declines, mapResponseCodeToReason
<1>3. a.status = s /\ (asks[n].id # NoId => a.id = asks[n].id)
  BY DEF buildPacs002, EndToEndId
<1>4. Respond(n, a)
  BY DEF AnswerPost
<1>5. a.status = "ACSC" <=> result[n] = Approved
  <2>1. result[n] \in Declines \union {Approved}
    BY DEF AnswerPost, HttpInv, HttpTypeOK, TellsOfPost
  <2> HIDE DEF a
  <2> QED
    BY <1>2, <1>3, <2>1, Outcomes
<1> HIDE DEF s, a
<1> QED
  BY <1>1, <1>3, <1>4, <1>5, RespondKeeps

LEMMA GoneStep ==
    ASSUME HttpInv, NEW n \in Posts, PeerGone(n)
    PROVE  HttpInv'
<1>1. HttpTypeOK'
  BY DEF PeerGone, HttpInv, HttpTypeOK
<1>2. ASSUME NEW k \in Posts PROVE TellsOfPost(k)'
  BY DEF PeerGone, HttpInv, TellsOfPost, TakenFor, AmountOf
<1> QED
  BY <1>1, <1>2 DEF HttpInv

LEMMA HttpStep == HttpInv /\ [HttpNext]_httpVars => HttpInv'
<1> SUFFICES ASSUME HttpInv, [HttpNext]_httpVars PROVE HttpInv'
  OBVIOUS
<1>1. CASE UNCHANGED httpVars
  BY <1>1 DEF httpVars, HttpInv, HttpTypeOK, TellsOfPost, TakenFor, AmountOf
<1> QED
  BY <1>1, RequestStep, BodyStep, HostStep, AnswerPostStep, GoneStep DEF HttpNext

(* The answers of the ISO 20022 transport are true for any number of posts *)
(* under way and any amounts: what was taken is the amount of the message  *)
(* when it reads ACSC, and nothing when it reads anything else, for the    *)
(* EndToEndId the peer gave; nothing is taken before a body has ended.     *)
THEOREM PaymentsAreToldTruly == HttpSpec => []PaymentsToldTruly
<1>1. HttpInv => PaymentsToldTruly
  <2> SUFFICES ASSUME HttpInv, NEW n \in Posts
               PROVE  /\ phase[n] \in {"answered", "lost"} =>
                            moved[n] = IF reply[n].status = "ACSC" THEN AmountOf(n) ELSE 0
                      /\ reply[n].status = "ACSC" /\ asks[n].id # NoId
                            => reply[n].id = asks[n].id
                      /\ moved[n] # 0 => phase[n] \in {"resolved", "answered", "lost"}
                      /\ phase[n] = "lost" => n \in gone
    BY DEF PaymentsToldTruly
  <2>1. TellsOfPost(n) /\ phase[n] \in Waiting \union Told
    BY DEF HttpInv, HttpTypeOK
  <2>2. moved[n] = TakenFor(n, result[n])
    BY <2>1 DEF TellsOfPost
  <2> QED
    BY <2>1, <2>2, Outcomes DEF TellsOfPost, TakenFor, Waiting, Told
<1> QED
  BY <1>1, HttpBegins, HttpStep, PTL DEF HttpSpec

-----------------------------------------------------------------------------
(***************************************************************************)
(* The TCP transport: what holds between two chunks.                       *)
(***************************************************************************)
(* The bytes b are the frames of the bodies of s after the first h, one    *)
(* behind the other; `off[i]' of them end with frame i.                    *)
Splits(b, s, h, off) ==
    /\ off \in [h .. Len(s) -> Nat]
    /\ off[h] = 0 /\ off[Len(s)] = Len(b)
    /\ \A i, j \in h .. Len(s) : i <= j => off[i] <= off[j]
    /\ \A i \in h + 1 .. Len(s) : off[i] = off[i - 1] + 2 + Len(s[i])
    /\ \A i \in h + 1 .. Len(s) : \A k \in 1 .. 2 + Len(s[i]) :
          b[off[i - 1] + k] = Framed(s[i])[k]

FramesOf(b, s, h) == \E off : Splits(b, s, h, off)

(* Nothing is answered twice or while the host is asked, and what is       *)
(* answered at once is answered in order.                                  *)
AnswersFit(c) ==
    /\ c.replies \in Seq(Nat)
    /\ c.asked \subseteq 1 .. Len(c.handled)
    /\ \A i \in c.asked : NeedsHost(c.handled[i])
    /\ \A i \in 1 .. Len(c.replies) :
          c.replies[i] \in 1 .. Len(c.handled) /\ c.replies[i] \notin c.asked
    /\ \A i, j \in 1 .. Len(c.replies) : c.replies[i] = c.replies[j] => i = j
    /\ \A i, j \in 1 .. Len(c.replies) :
          /\ i < j
          /\ ~ NeedsHost(c.handled[c.replies[i]]) /\ ~ NeedsHost(c.handled[c.replies[j]])
          => c.replies[i] < c.replies[j]

HandledFirst(c, s) ==
    /\ c.handled \in Seq(Seq(Nat)) /\ Len(c.handled) <= Len(s)
    /\ \A i \in 1 .. Len(c.handled) : c.handled[i] = s[i]

(* A connection c whose peer has sent s, with the bytes `rest' under way.  *)
InOrder(c, s, rest) ==
    /\ c.buf \in Seq(Nat)
    /\ HandledFirst(c, s)
    /\ AnswersFit(c)
    /\ FramesOf(c.buf \o rest, s, Len(c.handled))

Here == [buf |-> buf, handled |-> handled, asked |-> asked, replies |-> replies]

LinkInv ==
    /\ sock \in {"open", "closed"}
    /\ sent \in Seq(Seq(Nat)) /\ net \in Seq(Nat)
    /\ HandledFirst(Here, sent)
    /\ AnswersFit(Here)
    /\ sock = "open" => InOrder(Here, sent, net) /\ ~ Complete(buf)

-----------------------------------------------------------------------------
(* The two bytes of a length give it back.                                 *)
LEMMA LengthBack ==
    ASSUME NEW n \in Nat
    PROVE  n \div Radix \in Nat /\ n % Radix \in Nat /\ (n \div Radix) * Radix + (n % Radix) = n
BY IsoTcpAssumption

LEMMA FrameBytes ==
    ASSUME NEW body \in Seq(Nat)
    PROVE  /\ Framed(body) \in Seq(Nat) /\ Len(Framed(body)) = 2 + Len(body)
           /\ Framed(body)[1] = Len(body) \div Radix /\ Framed(body)[2] = Len(body) % Radix
           /\ \A k \in 1 .. Len(body) : Framed(body)[2 + k] = body[k]
<1> DEFINE head == <<Len(body) \div Radix, Len(body) % Radix>>
<1>1. Len(body) \div Radix \in Nat /\ Len(body) % Radix \in Nat
  BY LengthBack
<1>2. head \in Seq(Nat) /\ Len(head) = 2
  BY <1>1
<1>3. head[1] = Len(body) \div Radix /\ head[2] = Len(body) % Radix
  OBVIOUS
<1> HIDE DEF head
<1>4. /\ head \o body \in Seq(Nat) /\ Len(head \o body) = 2 + Len(body)
      /\ (head \o body)[1] = head[1] /\ (head \o body)[2] = head[2]
      /\ \A k \in 1 .. Len(body) : (head \o body)[2 + k] = body[k]
  <2>1. /\ head \o body \in Seq(Nat) /\ Len(head \o body) = Len(head) + Len(body)
        /\ \A i \in 1 .. Len(head) + Len(body) : (head \o body)[i] =
               IF i <= Len(head) THEN head[i] ELSE body[i - Len(head)]
    BY <1>2, ConcatProperties
  <2>2. Len(body) \in Nat
    OBVIOUS
  <2>3. ASSUME NEW k \in 1 .. Len(body) PROVE (head \o body)[2 + k] = body[k]
    <3>1. 2 + k \in 1 .. 2 + Len(body) /\ ~ (2 + k <= 2) /\ (2 + k) - 2 = k
      BY <2>2
    <3> QED
      BY <1>2, <2>1, <3>1
  <2>4. 1 \in 1 .. 2 + Len(body) /\ 2 \in 1 .. 2 + Len(body) /\ 1 <= 2 /\ 2 <= 2
    BY <2>2
  <2> QED
    BY <1>2, <2>1, <2>3, <2>4
<1> QED
  BY <1>3, <1>4 DEF Framed, head

(* Bytes that begin with a complete frame begin with that of the next body *)
(* sent, and the frames of the others follow.                              *)
LEMMA FirstFrame ==
    ASSUME NEW s \in Seq(Seq(Nat)), NEW h \in Nat, h <= Len(s),
           NEW b \in Seq(Nat), NEW rest \in Seq(Nat), FramesOf(b \o rest, s, h), Complete(b)
    PROVE  /\ h + 1 <= Len(s) /\ FrameLength(b) = Len(s[h + 1])
           /\ SubSeq(b, 3, 2 + FrameLength(b)) = s[h + 1]
           /\ SubSeq(b, 3 + FrameLength(b), Len(b)) \in Seq(Nat)
           /\ Len(SubSeq(b, 3 + FrameLength(b), Len(b))) = Len(b) - 2 - FrameLength(b)
           /\ FramesOf(SubSeq(b, 3 + FrameLength(b), Len(b)) \o rest, s, h + 1)
<1> DEFINE all == b \o rest
<1>0. /\ all \in Seq(Nat) /\ Len(all) = Len(b) + Len(rest)
      /\ \A i \in 1 .. Len(b) : all[i] = b[i]
      /\ \A i \in 1 .. Len(rest) : all[Len(b) + i] = rest[i]
  OBVIOUS
<1>1. PICK off : Splits(all, s, h, off)
  BY DEF FramesOf
<1>2. Len(b) \in Nat /\ Len(rest) \in Nat /\ Len(b) >= 2 /\ Len(s) \in Nat
  BY DEF Complete
<1> HIDE DEF all
<1>3. h + 1 <= Len(s)
  <2>1. h # Len(s)
    BY <1>0, <1>1, <1>2 DEF Splits
  <2> QED
    BY <1>2, <2>1
<1> DEFINE x == s[h + 1]
<1>4. x \in Seq(Nat) /\ Len(x) \in Nat
  BY <1>3
<1> HIDE DEF x
<1>5. \A k \in 1 .. 2 + Len(x) : all[k] = Framed(x)[k]
  <2>1. h + 1 \in h + 1 .. Len(s) /\ (h + 1) - 1 = h
    BY <1>2, <1>3
  <2>2. off[h] = 0 /\ \A i \in h + 1 .. Len(s) : \A k \in 1 .. 2 + Len(s[i]) :
            all[off[i - 1] + k] = Framed(s[i])[k]
    BY <1>1 DEF Splits
  <2>3. \A k \in 1 .. 2 + Len(s[h + 1]) : all[off[(h + 1) - 1] + k] = Framed(s[h + 1])[k]
    BY <2>1, <2>2
  <2>4. \A k \in 1 .. 2 + Len(x) : all[0 + k] = Framed(x)[k]
    BY <2>1, <2>2, <2>3 DEF x
  <2> QED
    BY <1>4, <2>4
<1>6. FrameLength(b) = Len(x)
  <2>1. b[1] = Framed(x)[1] /\ b[2] = Framed(x)[2]
    <3>1. 1 \in 1 .. Len(b) /\ 2 \in 1 .. Len(b) /\ 1 \in 1 .. 2 + Len(x) /\ 2 \in 1 .. 2 + Len(x)
      BY <1>2, <1>4
    <3> QED
      BY <1>0, <1>5, <3>1
  <2>2. b[1] = Len(x) \div Radix /\ b[2] = Len(x) % Radix
    BY <1>4, <2>1, FrameBytes
  <2>3. (Len(x) \div Radix) * Radix + (Len(x) % Radix) = Len(x)
    BY <1>4, LengthBack
  <2> QED
    BY <2>2, <2>3 DEF FrameLength
<1> DEFINE e == 2 + Len(x)
           t == SubSeq(b, 3 + Len(x), Len(b))
<1>7. Len(b) >= e
  BY <1>6 DEF Complete
<1>8. SubSeq(b, 3, e) = x
  <2>1. SubSeq(b, 3, e) \in Seq(Nat) /\ Len(SubSeq(b, 3, e)) = Len(x)
    BY <1>4, <1>7, SMTT(30)
  <2>2. ASSUME NEW k \in 1 .. Len(x) PROVE SubSeq(b, 3, e)[k] = x[k]
    <3>1. SubSeq(b, 3, e)[k] = b[2 + k] /\ 2 + k \in 1 .. e /\ 2 + k \in 1 .. Len(b)
      <4>1. 2 + k \in 1 .. e /\ 2 + k \in 1 .. Len(b) /\ 3 <= 2 + k /\ 2 + k <= e
        BY <1>2, <1>4, <1>7
      <4>2. k \in 1 .. e - 3 + 1
        BY <1>4
      <4>3. \A i \in 3 .. e : b[i] \in Nat
        <5>1. ASSUME NEW i \in 3 .. e PROVE i \in 1 .. Len(b)
          BY <1>2, <1>4, <1>7, <5>1
        <5> QED
          BY <5>1, ElementOfSeq
      <4>4. SubSeq(b, 3, e)[k] = b[3 + k - 1]
        <5>1. 3 \in Int /\ e \in Int
          BY <1>4
        <5> HIDE DEF e
        <5> QED
          BY <4>2, <4>3, <5>1, SubSeqProperties
      <4>5. 3 + k - 1 = 2 + k
        BY <1>4
      <4> QED
        BY <4>1, <4>4, <4>5
    <3>2. b[2 + k] = Framed(x)[2 + k]
      BY <1>0, <1>5, <3>1
    <3> QED
      BY <1>4, <3>1, <3>2, FrameBytes
  <2> HIDE DEF e
  <2> QED
    BY <1>4, <2>1, <2>2, SeqEqual
<1>9. /\ t \in Seq(Nat) /\ Len(t) = Len(b) - e
      /\ \A i \in 1 .. Len(t) : t[i] = b[e + i]
  BY <1>2, <1>4, <1>7, SMTT(30)
<1>10. /\ t \o rest \in Seq(Nat) /\ Len(t \o rest) = Len(all) - e
       /\ \A i \in 1 .. Len(t \o rest) : (t \o rest)[i] = all[e + i]
  <2>1. t \in Seq(Nat) /\ Len(t) \in Nat
    BY <1>9
  <2> HIDE DEF t, e
  <2>2. /\ t \o rest \in Seq(Nat) /\ Len(t \o rest) = Len(t) + Len(rest)
        /\ \A i \in 1 .. Len(t) : (t \o rest)[i] = t[i]
        /\ \A i \in 1 .. Len(rest) : (t \o rest)[Len(t) + i] = rest[i]
    BY <2>1
  <2>3. ASSUME NEW i \in 1 .. Len(t \o rest) PROVE (t \o rest)[i] = all[e + i]
    <3>0. e \in Nat
      BY <1>4 DEF e
    <3>1. CASE i <= Len(t)
      <4>1. i \in 1 .. Len(t) /\ e + i \in 1 .. Len(b)
        BY <1>2, <1>9, <2>1, <2>2, <3>0, <3>1
      <4> QED
        BY <1>0, <1>9, <2>2, <4>1
    <3>2. CASE ~ i <= Len(t)
      <4>1. /\ i - Len(t) \in 1 .. Len(rest) /\ e + i = Len(b) + (i - Len(t))
            /\ i = Len(t) + (i - Len(t))
        BY <1>2, <1>9, <2>1, <2>2, <3>0, <3>2
      <4> QED
        BY <1>0, <2>2, <4>1, ZenonT(40)
    <3> QED
      BY <3>1, <3>2
  <2>4. e \in Nat
    BY <1>4 DEF e
  <2>5. Len(t \o rest) = Len(all) - e
    BY <1>0, <1>2, <1>9, <2>1, <2>2, <2>4
  <2> QED
    BY <2>2, <2>3, <2>5
<1> DEFINE new == [i \in h + 1 .. Len(s) |-> off[i] - e]
<1>11. FramesOf(t \o rest, s, h + 1)
  <2> DEFINE w == t \o rest
  <2>0. e \in Nat /\ e >= 2
    BY <1>4
  <2> HIDE DEF t, e, w
  <2>1. /\ off \in [h .. Len(s) -> Nat] /\ off[Len(s)] = Len(all)
        /\ \A i, j \in h .. Len(s) : i <= j => off[i] <= off[j]
        /\ \A i \in h + 1 .. Len(s) : off[i] = off[i - 1] + 2 + Len(s[i])
        /\ \A i \in h + 1 .. Len(s) : \A k \in 1 .. 2 + Len(s[i]) :
              all[off[i - 1] + k] = Framed(s[i])[k]
    BY <1>1 DEF Splits
  <2>2. off[h + 1] = e
    <3>1. h + 1 \in h + 1 .. Len(s) /\ (h + 1) - 1 = h /\ off[h] = 0
      <4>1. off[h] = 0
        BY <1>1 DEF Splits
      <4> QED
        BY <1>2, <1>3, <4>1
    <3>2. off[h + 1] = off[(h + 1) - 1] + 2 + Len(s[h + 1])
      BY <2>1, <3>1
    <3> QED
      BY <1>4, <3>1, <3>2 DEF e, x
  <2>3. \A i \in h + 1 .. Len(s) : off[i] \in Nat /\ off[i] >= e
    <3> SUFFICES ASSUME NEW i \in h + 1 .. Len(s) PROVE off[i] \in Nat /\ off[i] >= e
      OBVIOUS
    <3>1. i \in h .. Len(s) /\ h + 1 \in h .. Len(s) /\ h + 1 <= i
      BY <1>2, <1>3
    <3>2. off[i] \in Nat /\ off[h + 1] <= off[i]
      BY <2>1, <3>1
    <3> QED
      BY <2>0, <2>2, <3>2
  <2>4. new \in [h + 1 .. Len(s) -> Nat]
    BY <2>0, <2>3
  <2>5. \A i \in h + 1 .. Len(s) : new[i] = off[i] - e
    OBVIOUS
  <2> HIDE DEF new
  <2>6. new[h + 1] = 0 /\ new[Len(s)] = Len(w)
    <3>1. h + 1 \in h + 1 .. Len(s) /\ Len(s) \in h + 1 .. Len(s)
      BY <1>2, <1>3
    <3>2. new[h + 1] = off[h + 1] - e /\ new[Len(s)] = off[Len(s)] - e
      BY <2>5, <3>1
    <3>3. Len(w) = Len(all) - e
      BY <1>10 DEF w
    <3> QED
      BY <2>0, <2>1, <2>2, <3>2, <3>3
  <2>7. \A i, j \in h + 1 .. Len(s) : i <= j => new[i] <= new[j]
    BY <2>0, <2>1, <2>3, <2>5, SMTT(30)
  <2>8. ASSUME NEW i \in (h + 1) + 1 .. Len(s)
        PROVE  /\ new[i] = new[i - 1] + 2 + Len(s[i])
               /\ \A k \in 1 .. 2 + Len(s[i]) : w[new[i - 1] + k] = Framed(s[i])[k]
    <3>1. /\ i \in h + 1 .. Len(s) /\ i - 1 \in h + 1 .. Len(s) /\ s[i] \in Seq(Nat)
          /\ Len(s[i]) \in Nat
      BY <1>2, SMTT(30)
    <3> DEFINE p == off[i - 1]
               n == Len(s[i])
    <3>2. /\ p \in Nat /\ p >= e /\ n \in Nat /\ off[i] = p + 2 + n
          /\ new[i] = off[i] - e /\ new[i - 1] = p - e
      BY <2>1, <2>3, <2>5, <3>1
    <3>3. off[i] <= Len(all)
      <4>1. i \in h .. Len(s) /\ Len(s) \in h .. Len(s) /\ i <= Len(s)
        BY <1>2, <3>1
      <4> QED
        BY <2>1, <4>1
    <3>6. \A k \in 1 .. 2 + n : all[p + k] = Framed(s[i])[k]
      BY <2>1, <3>1
    <3> HIDE DEF p, n
    <3>4. ASSUME NEW k \in 1 .. 2 + n PROVE w[new[i - 1] + k] = Framed(s[i])[k]
      <4>1. Len(w) = Len(all) - e /\ Len(all) \in Nat
        BY <1>0, <1>2, <1>10 DEF w
      <4>2. (p - e) + k \in 1 .. Len(w) /\ e + ((p - e) + k) = p + k
        BY <2>0, <3>2, <3>3, <4>1
      <4>3. w[(p - e) + k] = all[e + ((p - e) + k)]
        BY <1>10, <4>2 DEF w
      <4> QED
        BY <3>2, <3>6, <4>2, <4>3
    <3>5. new[i] = new[i - 1] + 2 + n
      BY <2>0, <3>2
    <3> QED
      BY <3>4, <3>5 DEF n
  <2>9. Splits(w, s, h + 1, new)
    BY <2>4, <2>6, <2>7, <2>8 DEF Splits
  <2> QED
    BY <2>9 DEF FramesOf, w
<1> QED
  <2>1. /\ SubSeq(b, 3, 2 + FrameLength(b)) = SubSeq(b, 3, e)
        /\ SubSeq(b, 3 + FrameLength(b), Len(b)) = t
    BY <1>6
  <2>2. Len(t) = Len(b) - 2 - FrameLength(b)
    BY <1>2, <1>4, <1>6, <1>9
  <2> HIDE DEF t, e
  <2> QED
    BY <1>3, <1>6, <1>8, <1>9, <1>11, <2>1, <2>2 DEF x

(* One more message, asked of the host or answered, keeps the answers.     *)
LEMMA AnswerOneMore ==
    ASSUME NEW c, AnswersFit(c), c.handled \in Seq(Seq(Nat)), NEW body \in Seq(Nat),
           NEW d, d.handled = Append(c.handled, body),
           \/ /\ NeedsHost(body) /\ d.asked = c.asked \union {Len(c.handled) + 1}
              /\ d.replies = c.replies
           \/ /\ ~ NeedsHost(body) /\ d.asked = c.asked
              /\ d.replies = Append(c.replies, Len(c.handled) + 1)
    PROVE  AnswersFit(d)
<1> DEFINE h == Len(c.handled)
           r == Len(c.replies)
<1>1. /\ h \in Nat /\ Len(d.handled) = h + 1 /\ d.handled[h + 1] = body
      /\ \A i \in 1 .. h : d.handled[i] = c.handled[i]
  OBVIOUS
<1>2. /\ r \in Nat /\ c.replies \in Seq(Nat)
      /\ c.asked \subseteq 1 .. h
      /\ \A i \in c.asked : NeedsHost(c.handled[i])
      /\ \A i \in 1 .. r : c.replies[i] \in 1 .. h /\ c.replies[i] \notin c.asked
      /\ \A i, j \in 1 .. r : c.replies[i] = c.replies[j] => i = j
      /\ \A i, j \in 1 .. r :
            /\ i < j
            /\ ~ NeedsHost(c.handled[c.replies[i]]) /\ ~ NeedsHost(c.handled[c.replies[j]])
            => c.replies[i] < c.replies[j]
  BY DEF AnswersFit
<1>5. h \in Nat /\ r \in Nat
  BY <1>1, <1>2
<1>3. CASE NeedsHost(body) /\ d.asked = c.asked \union {h + 1} /\ d.replies = c.replies
  <2> HIDE DEF h, r
  <2>1. d.asked \subseteq 1 .. h + 1 /\ \A i \in d.asked : NeedsHost(d.handled[i])
    BY <1>1, <1>2, <1>3
  <2>2. ASSUME NEW i \in 1 .. r
        PROVE  /\ c.replies[i] \in 1 .. h + 1 /\ c.replies[i] \notin d.asked
               /\ d.handled[c.replies[i]] = c.handled[c.replies[i]]
    <3>1. c.replies[i] \in 1 .. h /\ c.replies[i] \notin c.asked
      BY <1>2
    <3>2. c.replies[i] \in 1 .. h + 1 /\ c.replies[i] # h + 1
      BY <1>5, <3>1
    <3> QED
      BY <1>1, <1>3, <3>1, <3>2
  <2>3. \A i, j \in 1 .. r :
            /\ i < j
            /\ ~ NeedsHost(d.handled[c.replies[i]]) /\ ~ NeedsHost(d.handled[c.replies[j]])
            => c.replies[i] < c.replies[j]
    BY <1>2, <2>2
  <2> QED
    BY <1>1, <1>2, <1>3, <2>1, <2>2, <2>3 DEF AnswersFit, r
<1>4. CASE ~ NeedsHost(body) /\ d.asked = c.asked /\ d.replies = Append(c.replies, h + 1)
  <2>1. /\ d.replies \in Seq(Nat) /\ Len(d.replies) = r + 1 /\ d.replies[r + 1] = h + 1
        /\ \A i \in 1 .. r : d.replies[i] = c.replies[i]
    BY <1>1, <1>2, <1>4
  <2> HIDE DEF h, r
  <2>2. d.asked \subseteq 1 .. h + 1 /\ \A i \in d.asked : NeedsHost(d.handled[i])
    BY <1>1, <1>2, <1>4
  <2>3. ASSUME NEW i \in 1 .. r + 1
        PROVE  d.replies[i] \in 1 .. h + 1 /\ d.replies[i] \notin d.asked
    <3>1. CASE i = r + 1
      <4>1. h + 1 \in 1 .. h + 1 /\ h + 1 \notin 1 .. h
        BY <1>5
      <4>2. d.replies[i] = h + 1
        BY <2>1, <3>1
      <4>3. h + 1 \notin d.asked
        BY <1>2, <1>4, <4>1
      <4> QED
        BY <3>1, <4>1, <4>2, <4>3
    <3>2. CASE i # r + 1
      <4>1. i \in 1 .. r
        BY <1>5, <3>2
      <4>2. d.replies[i] = c.replies[i] /\ c.replies[i] \in 1 .. h /\ c.replies[i] \notin c.asked
        BY <1>2, <2>1, <4>1
      <4>3. c.replies[i] \in 1 .. h + 1
        BY <1>5, <4>2
      <4> QED
        BY <1>4, <4>2, <4>3
    <3> QED
      BY <3>1, <3>2
  <2>4. ASSUME NEW i \in 1 .. r + 1, NEW j \in 1 .. r + 1
        PROVE  /\ d.replies[i] = d.replies[j] => i = j
               /\ /\ i < j
                  /\ ~ NeedsHost(d.handled[d.replies[i]]) /\ ~ NeedsHost(d.handled[d.replies[j]])
                  => d.replies[i] < d.replies[j]
    <3>1. CASE i \in 1 .. r /\ j \in 1 .. r
      <4>1. /\ d.replies[i] = c.replies[i] /\ d.handled[d.replies[i]] = c.handled[c.replies[i]]
            /\ d.replies[j] = c.replies[j] /\ d.handled[d.replies[j]] = c.handled[c.replies[j]]
        BY <1>1, <1>2, <2>1, <3>1, ZenonT(40)
      <4> QED
        BY <1>2, <3>1, <4>1
    <3>2. CASE i \in 1 .. r /\ j = r + 1
      <4>1. d.replies[i] \in 1 .. h /\ d.replies[j] = h + 1
        BY <1>2, <2>1, <3>2
      <4> QED
        BY <1>1, <4>1
    <3>3. CASE i = r + 1 /\ j \in 1 .. r
      <4>1. d.replies[j] \in 1 .. h /\ d.replies[i] = h + 1
        BY <1>2, <2>1, <3>3
      <4>2. ~ i < j
        BY <1>5, <3>3
      <4> QED
        BY <1>5, <4>1, <4>2
    <3>4. CASE i = r + 1 /\ j = r + 1
      BY <1>5, <3>4
    <3>5. (i \in 1 .. r \/ i = r + 1) /\ (j \in 1 .. r \/ j = r + 1)
      BY <1>5
    <3> QED
      BY <3>1, <3>2, <3>3, <3>4, <3>5
  <2> QED
    BY <1>1, <2>1, <2>2, <2>3, <2>4 DEF AnswersFit
<1> QED
  BY <1>3, <1>4

(* A turn of the loop takes the first complete frame, if there is one, and *)
(* at least its length out of the buffer.                                  *)
LEMMA TurnKeeps ==
    ASSUME NEW s \in Seq(Seq(Nat)), NEW rest \in Seq(Nat), NEW c, InOrder(c, s, rest)
    PROVE  /\ InOrder(TakeFrame(c), s, rest)
           /\ ~ Complete(c.buf) => TakeFrame(c) = c
           /\ Complete(c.buf) => Len(TakeFrame(c).buf) + 2 <= Len(c.buf)
<1>1. CASE ~ Complete(c.buf)
  BY <1>1 DEF TakeFrame
<1>2. CASE Complete(c.buf)
  <2> DEFINE n == FrameLength(c.buf)
             h == Len(c.handled)
             d == TakeFrame(c)
             body == SubSeq(c.buf, 3, 2 + n)
  <2>1. /\ c.buf \in Seq(Nat) /\ c.handled \in Seq(Seq(Nat)) /\ h \in Nat /\ h <= Len(s)
        /\ \A i \in 1 .. h : c.handled[i] = s[i]
        /\ FramesOf(c.buf \o rest, s, h)
    BY DEF InOrder, HandledFirst
  <2>2. /\ h + 1 <= Len(s) /\ n = Len(s[h + 1]) /\ body = s[h + 1]
        /\ SubSeq(c.buf, 3 + n, Len(c.buf)) \in Seq(Nat)
        /\ Len(SubSeq(c.buf, 3 + n, Len(c.buf))) = Len(c.buf) - 2 - n
        /\ FramesOf(SubSeq(c.buf, 3 + n, Len(c.buf)) \o rest, s, h + 1)
    <3> DEFINE b == c.buf
    <3>1. b \in Seq(Nat) /\ FramesOf(b \o rest, s, h) /\ Complete(b) /\ h \in Nat /\ h <= Len(s)
      BY <1>2, <2>1
    <3> HIDE DEF b, h
    <3>2. /\ h + 1 <= Len(s) /\ FrameLength(b) = Len(s[h + 1])
          /\ SubSeq(b, 3, 2 + FrameLength(b)) = s[h + 1]
          /\ SubSeq(b, 3 + FrameLength(b), Len(b)) \in Seq(Nat)
          /\ Len(SubSeq(b, 3 + FrameLength(b), Len(b))) = Len(b) - 2 - FrameLength(b)
          /\ FramesOf(SubSeq(b, 3 + FrameLength(b), Len(b)) \o rest, s, h + 1)
      BY <3>1, FirstFrame
    <3> QED
      BY <3>2 DEF b
  <2>3. n \in Nat /\ body \in Seq(Nat) /\ Len(s) \in Nat
    <3> HIDE DEF n, body, h
    <3>1. Len(s) \in Nat /\ h + 1 \in 1 .. Len(s)
      BY <2>1, <2>2
    <3>2. s[h + 1] \in Seq(Nat)
      BY <3>1
    <3> QED
      BY <2>2, <3>1, <3>2
  <2>4. /\ d.buf = SubSeq(c.buf, (2 + n) + 1, Len(c.buf))
        /\ d.handled = Append(c.handled, body)
        /\ d.asked = c.asked \union (IF NeedsHost(body) THEN {h + 1} ELSE {})
        /\ d.replies = c.replies \o (IF NeedsHost(body) THEN <<>> ELSE <<h + 1>>)
    BY <1>2 DEF TakeFrame
  <2>5. (2 + n) + 1 = 3 + n
    BY <2>3
  <2>6. AnswersFit(c) /\ c.replies \in Seq(Nat)
    BY DEF InOrder, AnswersFit
  <2> HIDE DEF n, h, d, body
  <2>7. \/ NeedsHost(body) /\ d.asked = c.asked \union {h + 1} /\ d.replies = c.replies
        \/ ~ NeedsHost(body) /\ d.asked = c.asked /\ d.replies = Append(c.replies, h + 1)
    <3>1. c.replies \o <<>> = c.replies
      BY <2>6, ConcatEmptySeq
    <3>2. c.replies \o <<h + 1>> = Append(c.replies, h + 1)
      BY <2>1, <2>6, AppendIsConcat
    <3> QED
      BY <2>4, <3>1, <3>2
  <2>8. AnswersFit(d)
    BY <2>1, <2>3, <2>4, <2>6, <2>7, AnswerOneMore DEF h
  <2>9. HandledFirst(d, s) /\ Len(d.handled) = h + 1
    <3>1. /\ d.handled \in Seq(Seq(Nat)) /\ Len(d.handled) = h + 1 /\ d.handled[h + 1] = body
          /\ \A i \in 1 .. h : d.handled[i] = c.handled[i]
      BY <2>1, <2>3, <2>4 DEF h
    <3>2. ASSUME NEW i \in 1 .. h + 1 PROVE d.handled[i] = s[i]
      <4>1. CASE i = h + 1
        BY <2>2, <3>1, <4>1
      <4>2. CASE i # h + 1
        <5>1. i \in 1 .. h
          BY <2>1, <4>2
        <5> QED
          BY <2>1, <3>1, <5>1
      <4> QED
        BY <4>1, <4>2
    <3> QED
      BY <2>2, <3>1, <3>2 DEF HandledFirst
  <2>10. d.buf \in Seq(Nat) /\ Len(d.buf) = Len(c.buf) - 2 - n /\ FramesOf(d.buf \o rest, s, h + 1)
    BY <2>2, <2>4, <2>5
  <2>11. Len(d.buf) + 2 <= Len(c.buf)
    <3>1. Len(c.buf) \in Nat
      BY <2>1
    <3> QED
      BY <2>3, <2>10, <3>1
  <2>12. InOrder(d, s, rest)
    BY <2>8, <2>9, <2>10 DEF InOrder
  <2> QED
    BY <1>2, <2>11, <2>12 DEF d
<1> QED
  BY <1>1, <1>2

-----------------------------------------------------------------------------
(* The turns of the loop are a function over their numbers, which exists.  *)
TurnStep(f, c, n) == IF n = 0 THEN c ELSE TakeFrame(f[n - 1])
Turns(f, c, N) == f = [n \in 0 .. N |-> TurnStep(f, c, n)]
TurnsOf(c, N) == CHOOSE f : Turns(f, c, N)

LEMMA LoopIsLastTurn ==
    ASSUME NEW c
    PROVE  TakeFrames(c) = TurnsOf(c, Len(c.buf))[Len(c.buf)]
BY DEF TakeFrames, TurnsOf, Turns, TurnStep

LEMMA TurnsExist ==
    ASSUME NEW c, NEW N \in Nat
    PROVE  Turns(TurnsOf(c, N), c, N)
<1> DEFINE Bad == {n \in Nat : ~ \E f : Turns(f, c, n)}
<1>1. ASSUME Bad # {} PROVE FALSE
  <2>1. PICK n \in Bad : \A m \in Bad : n <= m
    <3>1. Bad \subseteq Nat
      OBVIOUS
    <3> HIDE DEF Bad
    <3> QED
      BY <1>1, <3>1, LeastNatural
  <2>2. n \in Nat /\ ~ \E f : Turns(f, c, n)
    BY <2>1
  <2>3. CASE n = 0
    <3> DEFINE f == [i \in 0 .. 0 |-> c]
    <3>1. Turns(f, c, 0)
      BY DEF Turns, TurnStep
    <3> QED
      BY <2>2, <2>3, <3>1
  <2>4. CASE n # 0
    <3>1. n - 1 \in Nat /\ n - 1 \notin Bad
      <4>1. n - 1 \in Nat /\ ~ n <= n - 1
        BY <2>2, <2>4
      <4> HIDE DEF Bad
      <4> QED
        BY <2>1, <4>1
    <3>2. PICK f : Turns(f, c, n - 1)
      BY <3>1
    <3> DEFINE g == [i \in 0 .. n |-> IF i = n THEN TurnStep(f, c, n) ELSE f[i]]
    <3>3. \A i \in 0 .. n - 1 : f[i] = TurnStep(f, c, i)
      BY <3>2 DEF Turns
    <3>4. ASSUME NEW i \in 0 .. n PROVE g[i] = TurnStep(g, c, i)
      <4>1. i # 0 => i - 1 \in 0 .. n /\ i - 1 # n /\ g[i - 1] = f[i - 1]
        BY <2>2
      <4>2. TurnStep(g, c, i) = TurnStep(f, c, i)
        BY <4>1 DEF TurnStep
      <4>3. i # n => i \in 0 .. n - 1
        BY <2>2
      <4> QED
        BY <3>3, <4>2, <4>3
    <3>5. Turns(g, c, n)
      BY <3>4 DEF Turns
    <3> QED
      BY <2>2, <3>5
  <2> QED
    BY <2>3, <2>4
<1>2. \E f : Turns(f, c, N)
  BY <1>1
<1> QED
  BY <1>2 DEF TurnsOf

(* The loop ends with no complete frame in the buffer, after as many turns *)
(* as there are bytes at the latest.                                       *)
LEMMA LoopKeeps ==
    ASSUME NEW s \in Seq(Seq(Nat)), NEW rest \in Seq(Nat), NEW c, InOrder(c, s, rest)
    PROVE  InOrder(TakeFrames(c), s, rest) /\ ~ Complete(TakeFrames(c).buf)
<1> DEFINE N == Len(c.buf)
           turn == TurnsOf(c, N)
           Fits(n) == /\ InOrder(turn[n], s, rest)
                      /\ Complete(turn[n].buf) => Len(turn[n].buf) + 2 * n <= N
           Bad == {n \in 0 .. N : ~ Fits(n)}
<1>1. N \in Nat
  BY DEF InOrder
<1>2. \A n \in 0 .. N : turn[n] = TurnStep(turn, c, n)
  <2>1. Turns(turn, c, N)
    BY <1>1, TurnsExist
  <2> HIDE DEF turn, N
  <2> QED
    BY <2>1 DEF Turns
<1> HIDE DEF turn
<1>3. ASSUME Bad # {} PROVE FALSE
  <2>1. PICK n \in Bad : \A m \in Bad : n <= m
    <3>1. Bad \subseteq Nat
      OBVIOUS
    <3> HIDE DEF Bad
    <3> QED
      BY <1>3, <3>1, LeastNatural
  <2>2. n \in 0 .. N /\ ~ Fits(n)
    BY <2>1
  <2>3. n # 0
    <3>1. turn[0] = c
      BY <1>1, <1>2 DEF TurnStep
    <3>2. Fits(0)
      BY <1>1, <3>1
    <3> QED
      BY <2>2, <3>2
  <2>4. n - 1 \in 0 .. N /\ ~ n <= n - 1
    BY <1>1, <2>2, <2>3
  <2>5. Fits(n - 1)
    <3>1. n - 1 \notin Bad
      <4> HIDE DEF Bad
      <4> QED
        BY <2>1, <2>4
    <3> HIDE DEF Fits
    <3> QED
      BY <2>4, <3>1
  <2> DEFINE d == turn[n - 1]
  <2>6. turn[n] = TakeFrame(d)
    BY <1>2, <2>2, <2>3 DEF TurnStep
  <2>7. InOrder(d, s, rest) /\ d.buf \in Seq(Nat)
    BY <2>5 DEF InOrder
  <2>8. Complete(d.buf) => Len(d.buf) + 2 * (n - 1) <= N
    BY <2>5
  <2> HIDE DEF d, N
  <2>9. /\ InOrder(TakeFrame(d), s, rest)
        /\ ~ Complete(d.buf) => TakeFrame(d) = d
        /\ Complete(d.buf) => Len(TakeFrame(d).buf) + 2 <= Len(d.buf)
    BY <2>7, TurnKeeps
  <2>10. Complete(TakeFrame(d).buf) => Len(TakeFrame(d).buf) + 2 * n <= N
    <3>1. CASE ~ Complete(d.buf)
      BY <2>9, <3>1
    <3>2. CASE Complete(d.buf)
      <4> DEFINE k == Len(TakeFrame(d).buf)
                 m == Len(d.buf)
      <4>1. k \in Nat /\ m \in Nat
        BY <2>7, <2>9 DEF InOrder
      <4>2. n \in Nat /\ N \in Nat
        BY <1>1, <2>2
      <4>3. m + 2 * (n - 1) <= N /\ k + 2 <= m
        BY <2>8, <2>9, <3>2
      <4> HIDE DEF k, m
      <4>4. k + 2 * n <= N
        BY <4>1, <4>2, <4>3
      <4> QED
        BY <4>4 DEF k
    <3> QED
      BY <3>1, <3>2
  <2> QED
    BY <2>2, <2>6, <2>9, <2>10
<1>4. Fits(N)
  <2>1. N \in 0 .. N /\ N \notin Bad
    <3> HIDE DEF Bad
    <3> QED
      BY <1>1, <1>3
  <2> HIDE DEF Fits
  <2> QED
    BY <2>1
<1>5. TakeFrames(c) = turn[N]
  BY LoopIsLastTurn DEF turn
<1>6. ~ Complete(turn[N].buf)
  <2> SUFFICES ASSUME Complete(turn[N].buf) PROVE FALSE
    OBVIOUS
  <2> DEFINE m == Len(turn[N].buf)
  <2>1. m >= 2 /\ m + 2 * N <= N /\ m \in Nat
    <3>1. Complete(turn[N].buf) /\ m + 2 * N <= N /\ turn[N].buf \in Seq(Nat)
      BY <1>4 DEF InOrder
    <3>2. m \in Nat
      BY <3>1
    <3> HIDE DEF N
    <3> QED
      BY <3>1, <3>2 DEF Complete
  <2> HIDE DEF m, N
  <2> QED
    BY <1>1, <2>1
<1> QED
  BY <1>4, <1>5, <1>6

-----------------------------------------------------------------------------
(* What the peer writes next comes behind the frames under way.            *)
LEMMA FramesMore ==
    ASSUME NEW s \in Seq(Seq(Nat)), NEW h \in Nat, h <= Len(s), NEW b \in Seq(Nat),
           FramesOf(b, s, h), NEW body \in Seq(Nat)
    PROVE  FramesOf(b \o Framed(body), Append(s, body), h)
<1> DEFINE t == Append(s, body)
           w == b \o Framed(body)
           L == Len(s)
           e == Len(b) + 2 + Len(body)
<1>1. /\ L \in Nat /\ Len(t) = L + 1 /\ t[L + 1] = body /\ \A i \in 1 .. L : t[i] = s[i]
      /\ h <= L
  OBVIOUS
<1>2. /\ Len(w) = e /\ Len(b) \in Nat /\ Len(body) \in Nat /\ e \in Nat
      /\ \A k \in 1 .. Len(b) : w[k] = b[k]
      /\ \A k \in 1 .. 2 + Len(body) : w[Len(b) + k] = Framed(body)[k]
  <2>1. Framed(body) \in Seq(Nat) /\ Len(Framed(body)) = 2 + Len(body)
    BY FrameBytes
  <2> DEFINE F == Framed(body)
  <2>2. F \in Seq(Nat) /\ Len(F) = 2 + Len(body) /\ Len(b) \in Nat /\ Len(body) \in Nat
    BY <2>1
  <2> HIDE DEF F
  <2>3. /\ Len(b \o F) = Len(b) + Len(F)
        /\ \A i \in 1 .. Len(b) + Len(F) : (b \o F)[i] =
               IF i <= Len(b) THEN b[i] ELSE F[i - Len(b)]
    <3>1. b \in Seq(Nat) /\ F \in Seq(Nat)
      BY <2>2
    <3> QED
      BY <3>1, ConcatProperties, ZenonT(30)
  <2>4. ASSUME NEW k \in 1 .. Len(b) PROVE (b \o F)[k] = b[k]
    <3>1. k \in 1 .. Len(b) + Len(F) /\ k <= Len(b)
      BY <2>2
    <3> QED
      BY <2>3, <3>1
  <2>5. ASSUME NEW k \in 1 .. 2 + Len(body) PROVE (b \o F)[Len(b) + k] = F[k]
    <3>1. /\ Len(b) + k \in 1 .. Len(b) + Len(F) /\ ~ (Len(b) + k <= Len(b))
          /\ (Len(b) + k) - Len(b) = k
      BY <2>2
    <3> QED
      BY <2>3, <3>1
  <2>6. Len(b \o F) = Len(b) + 2 + Len(body)
    BY <2>2, <2>3
  <2>7. Len(b) + 2 + Len(body) \in Nat
    BY <2>2
  <2> QED
    BY <2>2, <2>4, <2>5, <2>6, <2>7 DEF F
<1>3. PICK off : Splits(b, s, h, off)
  BY DEF FramesOf
<1>4. /\ off \in [h .. L -> Nat] /\ off[h] = 0 /\ off[L] = Len(b)
      /\ \A i, j \in h .. L : i <= j => off[i] <= off[j]
      /\ \A i \in h + 1 .. L : off[i] = off[i - 1] + 2 + Len(s[i])
      /\ \A i \in h + 1 .. L : \A k \in 1 .. 2 + Len(s[i]) :
            b[off[i - 1] + k] = Framed(s[i])[k]
  BY <1>3 DEF Splits
<1> DEFINE new == [i \in h .. L + 1 |-> IF i = L + 1 THEN e ELSE off[i]]
<1> HIDE DEF t, w, L, e
<1>5. /\ new \in [h .. L + 1 -> Nat]
      /\ new[L + 1] = e
      /\ \A i \in h .. L : new[i] = off[i] /\ i \in h .. L + 1
  <2>1. \A i \in h .. L + 1 : i # L + 1 => i \in h .. L
    BY <1>1
  <2>2. \A i \in h .. L : i # L + 1 /\ i \in h .. L + 1
    BY <1>1
  <2>3. L + 1 \in h .. L + 1
    BY <1>1
  <2> QED
    BY <1>2, <1>4, <2>1, <2>2, <2>3
<1> HIDE DEF new
<1>6. h \in h .. L /\ L \in h .. L
  BY <1>1
<1>7. \A i \in h .. L : off[i] \in Nat /\ off[i] <= Len(b)
  BY <1>1, <1>4, <1>6
<1>8. ASSUME NEW i \in h .. L + 1, NEW j \in h .. L + 1, i <= j PROVE new[i] <= new[j]
  <2>1. CASE j = L + 1
    <3>1. CASE i = L + 1
      BY <1>2, <1>5, <2>1, <3>1
    <3>2. CASE i # L + 1
      <4>1. i \in h .. L
        BY <1>1, <3>2
      <4>2. off[i] \in Nat /\ off[i] <= Len(b) /\ new[i] = off[i] /\ new[j] = e
        BY <1>5, <1>7, <2>1, <4>1
      <4> QED
        BY <1>2, <4>2 DEF e
    <3> QED
      BY <3>1, <3>2
  <2>2. CASE j # L + 1
    <3>1. i \in h .. L /\ j \in h .. L
      BY <1>1, <1>8, <2>2
    <3> QED
      BY <1>4, <1>5, <1>8, <3>1
  <2> QED
    BY <2>1, <2>2
<1>9. ASSUME NEW i \in h + 1 .. L + 1
      PROVE  /\ new[i] = new[i - 1] + 2 + Len(t[i])
             /\ \A k \in 1 .. 2 + Len(t[i]) : w[new[i - 1] + k] = Framed(t[i])[k]
  <2>1. CASE i = L + 1
    <3>1. /\ i - 1 = L /\ t[i] = body /\ new[i] = e
      BY <1>1, <1>5, <2>1
    <3>2. new[i - 1] = Len(b)
      BY <1>4, <1>5, <1>6, <3>1
    <3> QED
      BY <1>2, <3>1, <3>2 DEF e
  <2>2. CASE i # L + 1
    <3>1. i \in h + 1 .. L /\ i \in h .. L /\ i - 1 \in h .. L /\ i \in 1 .. L
      BY <1>1, <2>2
    <3>2. /\ t[i] = s[i] /\ new[i] = off[i] /\ new[i - 1] = off[i - 1]
          /\ Len(s[i]) \in Nat
      <4>1. t[i] = s[i] /\ new[i] = off[i] /\ new[i - 1] = off[i - 1]
        BY <1>1, <1>5, <3>1
      <4>2. i \in 1 .. Len(s)
        BY <3>1 DEF L
      <4>3. s[i] \in Seq(Nat)
        BY <4>2
      <4> QED
        BY <4>1, <4>3
    <3>3. off[i] = off[i - 1] + 2 + Len(s[i])
      BY <1>4, <3>1
    <3>4. off[i - 1] \in Nat /\ off[i] \in Nat /\ off[i] <= Len(b)
      BY <1>7, <3>1
    <3>5. ASSUME NEW k \in 1 .. 2 + Len(s[i])
          PROVE  w[off[i - 1] + k] = Framed(s[i])[k]
      <4> DEFINE p == off[i - 1]
                 q == off[i]
                 n == Len(s[i])
      <4>0. /\ p \in Nat /\ q \in Nat /\ n \in Nat /\ q = p + 2 + n /\ q <= Len(b)
            /\ k \in 1 .. 2 + n
        BY <3>2, <3>3, <3>4
      <4> HIDE DEF p, q, n
      <4>3. p + k \in 1 .. Len(b)
        <5>1. Len(b) \in Nat
          BY <1>2
        <5> HIDE DEF w, e
        <5> QED
          BY <4>0, <5>1
      <4>1. off[i - 1] + k \in 1 .. Len(b)
        BY <4>3 DEF p
      <4>2. b[off[i - 1] + k] = Framed(s[i])[k]
        BY <1>4, <3>1
      <4> QED
        BY <1>2, <4>1, <4>2
    <3> QED
      BY <3>2, <3>3, <3>5
  <2> QED
    BY <2>1, <2>2
<1>10. new[h] = 0 /\ new[Len(t)] = Len(w)
  BY <1>1, <1>2, <1>4, <1>5, <1>6
<1>11. Splits(w, t, h, new)
  BY <1>1, <1>5, <1>8, <1>9, <1>10, SMTT(30) DEF Splits
<1> QED
  BY <1>11 DEF FramesOf, w, t

(* With all bytes in, an incomplete frame in the buffer is none at all.    *)
LEMMA NothingLeft ==
    ASSUME NEW s \in Seq(Seq(Nat)), NEW h \in Nat, h <= Len(s), NEW b \in Seq(Nat),
           FramesOf(b, s, h), ~ Complete(b)
    PROVE  h = Len(s) /\ b = <<>>
<1>1. PICK off : Splits(b, s, h, off)
  BY DEF FramesOf
<1>2. Len(s) \in Nat /\ Len(b) \in Nat
  OBVIOUS
<1>3. ASSUME h # Len(s) PROVE FALSE
  <2> DEFINE x == s[h + 1]
  <2>1. h + 1 \in h + 1 .. Len(s) /\ (h + 1) - 1 = h /\ h + 1 \in 1 .. Len(s)
    BY <1>2, <1>3
  <2>2. x \in Seq(Nat) /\ Len(x) \in Nat
    BY <2>1
  <2>3. off[h] = 0 /\ off[Len(s)] = Len(b)
    BY <1>1 DEF Splits
  <2>4. off[h + 1] = off[(h + 1) - 1] + 2 + Len(x)
    BY <1>1, <2>1 DEF Splits
  <2>5. \A k \in 1 .. 2 + Len(x) : b[off[(h + 1) - 1] + k] = Framed(x)[k]
    BY <1>1, <2>1 DEF Splits
  <2>6. off[h + 1] <= off[Len(s)]
    <3>1. h + 1 \in h .. Len(s) /\ Len(s) \in h .. Len(s) /\ h + 1 <= Len(s)
      BY <1>2, <2>1
    <3> QED
      BY <1>1, <3>1 DEF Splits
  <2> HIDE DEF x
  <2>7. Len(b) >= 2 + Len(x)
    BY <1>2, <2>1, <2>2, <2>3, <2>4, <2>6
  <2>8. b[1] = Framed(x)[1] /\ b[2] = Framed(x)[2]
    <3>1. /\ 1 \in 1 .. 2 + Len(x) /\ 2 \in 1 .. 2 + Len(x)
          /\ off[(h + 1) - 1] + 1 = 1 /\ off[(h + 1) - 1] + 2 = 2
      BY <2>1, <2>2, <2>3
    <3> QED
      BY <2>5, <3>1
  <2>9. b[1] = Len(x) \div Radix /\ b[2] = Len(x) % Radix
    BY <2>2, <2>8, FrameBytes
  <2>10. (Len(x) \div Radix) * Radix + (Len(x) % Radix) = Len(x)
    BY <2>2, LengthBack
  <2>11. FrameLength(b) = Len(x)
    BY <2>9, <2>10 DEF FrameLength
  <2> QED
    BY <1>2, <2>2, <2>7, <2>11 DEF Complete
<1>4. h = Len(s)
  BY <1>3
<1>5. Len(b) = 0
  BY <1>1, <1>4 DEF Splits
<1> QED
  BY <1>4, <1>5, EmptySeq

-----------------------------------------------------------------------------
LEMMA LinkBegins == LinkInit => LinkInv
<1> SUFFICES ASSUME LinkInit PROVE LinkInv
  OBVIOUS
<1>1. /\ sock = "open" /\ sent = <<>> /\ net = <<>> /\ buf = <<>>
      /\ Here.buf = <<>> /\ Here.handled = <<>> /\ Here.asked = {} /\ Here.replies = <<>>
  BY DEF LinkInit, Here
<1>2. HandledFirst(Here, sent)
  BY <1>1 DEF HandledFirst
<1>3. AnswersFit(Here)
  BY <1>1 DEF AnswersFit
<1>4. ~ Complete(buf)
  BY <1>1 DEF Complete
<1>5. FramesOf(Here.buf \o net, sent, Len(Here.handled))
  <2> DEFINE off == [i \in 0 .. 0 |-> 0]
  <2>1. /\ off \in [0 .. 0 -> Nat] /\ off[0] = 0 /\ \A i \in 0 .. 0 : i = 0
        /\ ~ \E i : i \in 0 + 1 .. 0
    OBVIOUS
  <2>2. Len(<<>>) = 0 /\ <<>> \o <<>> = <<>>
    OBVIOUS
  <2> HIDE DEF off
  <2>3. Splits(<<>>, <<>>, 0, off)
    BY <2>1, <2>2 DEF Splits
  <2> QED
    BY <1>1, <2>2, <2>3 DEF FramesOf
<1>6. <<>> \in Seq(Nat) /\ <<>> \in Seq(Seq(Nat))
  OBVIOUS
<1> QED
  BY <1>1, <1>2, <1>3, <1>4, <1>5, <1>6 DEF LinkInv, InOrder

LEMMA SendStep ==
    ASSUME LinkInv, NEW body \in Bodies, Send(body)
    PROVE  LinkInv'
<1>1. /\ sock = "open" /\ sent' = Append(sent, body) /\ net' = net \o Framed(body)
      /\ sock' = sock /\ buf' = buf /\ Here' = Here
  BY DEF Send, Here
<1>2. body \in Seq(Nat) /\ sent \in Seq(Seq(Nat)) /\ net \in Seq(Nat)
  BY IsoTcpAssumption DEF LinkInv
<1>3. InOrder(Here, sent, net) /\ ~ Complete(buf)
  BY <1>1 DEF LinkInv
<1>4. Framed(body) \in Seq(Nat)
  BY <1>2, FrameBytes
<1>5. net' \in Seq(Nat) /\ sent' \in Seq(Seq(Nat))
  BY <1>1, <1>2, <1>4
<1> DEFINE b == Here.buf
           h == Len(Here.handled)
<1>6. /\ b \in Seq(Nat) /\ FramesOf(b \o net, sent, h) /\ HandledFirst(Here, sent)
      /\ AnswersFit(Here) /\ h \in Nat /\ h <= Len(sent)
  BY <1>3 DEF InOrder, HandledFirst
<1> HIDE DEF b, h
<1>7. b \o net' = (b \o net) \o Framed(body)
  <2>1. b \o (net \o Framed(body)) = (b \o net) \o Framed(body)
    <3> DEFINE F == Framed(body)
    <3>1. b \in Seq(Nat) /\ net \in Seq(Nat) /\ F \in Seq(Nat)
      BY <1>2, <1>4, <1>6
    <3> HIDE DEF F
    <3>2. (b \o net) \o F = b \o (net \o F)
      BY <3>1, ConcatAssociative, SMTT(30)
    <3> QED
      BY <3>2 DEF F
  <2> QED
    BY <1>1, <2>1
<1>8. FramesOf(b \o net', sent', h)
  <2>1. b \o net \in Seq(Nat)
    BY <1>2, <1>6
  <2> QED
    BY <1>1, <1>2, <1>6, <1>7, <2>1, FramesMore
<1>9. HandledFirst(Here, sent')
  <2>1. Len(sent') = Len(sent) + 1 /\ \A i \in 1 .. Len(sent) : sent'[i] = sent[i]
    BY <1>1, <1>2
  <2>2. h \in Nat /\ h <= Len(sent) /\ Len(sent) \in Nat
    BY <1>2, <1>6
  <2>3. h <= Len(sent') /\ \A i \in 1 .. h : i \in 1 .. Len(sent)
    BY <2>1, <2>2
  <2> QED
    BY <1>6, <2>1, <2>3 DEF HandledFirst, h
<1>10. InOrder(Here, sent', net')
  BY <1>6, <1>8, <1>9 DEF InOrder, b, h
<1>11. (~ Complete(buf))'
  BY <1>1, <1>3 DEF Complete, FrameLength
<1>12. InOrder(Here, sent, net)' /\ HandledFirst(Here, sent)' /\ AnswersFit(Here)'
  BY <1>1, <1>6, <1>9, <1>10 DEF AnswersFit, HandledFirst, InOrder
<1> QED
  BY <1>1, <1>5, <1>11, <1>12 DEF LinkInv

LEMMA DataStep ==
    ASSUME LinkInv, NEW n \in DOMAIN net, Data(n)
    PROVE  LinkInv'
<1> DEFINE first == SubSeq(net, 1, n)
           rest == SubSeq(net, n + 1, Len(net))
           c == [buf |-> buf \o first, handled |-> handled, asked |-> asked, replies |-> replies]
           d == TakeFrames(c)
<1>1. /\ sock = "open" /\ sock' = sock /\ sent' = sent /\ net' = rest
      /\ buf' = d.buf /\ handled' = d.handled /\ asked' = d.asked /\ replies' = d.replies
  BY DEF Data
<1>2. /\ sent \in Seq(Seq(Nat)) /\ net \in Seq(Nat) /\ buf \in Seq(Nat)
      /\ FramesOf(buf \o net, sent, Len(handled))
      /\ HandledFirst(Here, sent) /\ AnswersFit(Here)
  BY <1>1 DEF LinkInv, InOrder, Here
<1>3. first \in Seq(Nat) /\ rest \in Seq(Nat) /\ net = first \o rest
  <2>1. n \in 1 .. Len(net) /\ Len(net) \in Nat
    BY <1>2, LenProperties
  <2>2. /\ first \in Seq(Nat) /\ Len(first) = n
        /\ \A i \in 1 .. n : first[i] = net[i]
    BY <1>2, <2>1
  <2>3. /\ rest \in Seq(Nat) /\ Len(rest) = Len(net) - n
        /\ \A i \in 1 .. Len(net) - n : rest[i] = net[n + i]
    <3> DEFINE L == Len(net)
    <3>1. n \in 1 .. L /\ L \in Nat /\ \A i \in 1 .. L : net[i] \in Nat
      BY <1>2, <2>1
    <3> HIDE DEF L
    <3>2. \A i \in n + 1 .. L : net[i] \in Nat
      BY <3>1
    <3>3. /\ SubSeq(net, n + 1, L) \in Seq(Nat)
          /\ Len(SubSeq(net, n + 1, L)) = IF n + 1 <= L THEN L - (n + 1) + 1 ELSE 0
          /\ \A i \in 1 .. L - (n + 1) + 1 : SubSeq(net, n + 1, L)[i] = net[(n + 1) + i - 1]
      BY <3>1, <3>2, SubSeqProperties
    <3>4. Len(SubSeq(net, n + 1, L)) = L - n /\ L - (n + 1) + 1 = L - n
      BY <3>1, <3>3
    <3>5. \A i \in 1 .. L - n : (n + 1) + i - 1 = n + i
      BY <3>1
    <3>6. \A i \in 1 .. L - n : SubSeq(net, n + 1, L)[i] = net[n + i]
      BY <3>3, <3>4, <3>5
    <3> QED
      BY <3>3, <3>4, <3>6 DEF L
  <2> HIDE DEF first, rest
  <2>4. /\ first \o rest \in Seq(Nat) /\ Len(first \o rest) = Len(first) + Len(rest)
        /\ \A i \in 1 .. Len(first) + Len(rest) : (first \o rest)[i] =
              IF i <= Len(first) THEN first[i] ELSE rest[i - Len(first)]
    <3>1. first \in Seq(Nat) /\ rest \in Seq(Nat)
      BY <2>2, <2>3
    <3> QED
      BY <3>1, ConcatProperties, ZenonT(30)
  <2>5. Len(first) + Len(rest) = Len(net)
    BY <2>1, <2>2, <2>3
  <2>6. ASSUME NEW i \in 1 .. Len(net) PROVE (first \o rest)[i] = net[i]
    <3>1. CASE i <= n
      <4>1. i \in 1 .. n
        BY <2>1, <3>1
      <4>2. first[i] = net[i]
        BY <2>2, <4>1
      <4> QED
        BY <2>2, <2>4, <2>5, <3>1, <4>2
    <3>2. CASE ~ i <= n
      <4>1. i - n \in 1 .. Len(net) - n /\ n + (i - n) = i
        BY <2>1, <3>2
      <4>2. rest[i - n] = net[i]
        BY <2>3, <4>1
      <4> QED
        BY <2>2, <2>4, <2>5, <3>2, <4>2
    <3> QED
      BY <3>1, <3>2
  <2>7. first \o rest = net
    BY <1>2, <2>4, <2>5, <2>6, SeqEqual
  <2> QED
    BY <2>2, <2>3, <2>7
<1> HIDE DEF first, rest
<1>4. InOrder(c, sent, rest)
  <2>1. buf \o (first \o rest) = (buf \o first) \o rest
    <3>1. buf \in Seq(Nat) /\ first \in Seq(Nat) /\ rest \in Seq(Nat)
      BY <1>2, <1>3
    <3>2. (buf \o first) \o rest = buf \o (first \o rest)
      BY <3>1, ConcatAssociative, SMTT(30)
    <3> QED
      BY <3>2
  <2>2. FramesOf((buf \o first) \o rest, sent, Len(handled))
    BY <1>2, <1>3, <2>1
  <2>3. buf \o first \in Seq(Nat)
    BY <1>2, <1>3
  <2>4. HandledFirst(c, sent) /\ AnswersFit(c)
    BY <1>2 DEF HandledFirst, AnswersFit, Here
  <2> QED
    BY <2>2, <2>3, <2>4 DEF InOrder
<1>5. InOrder(d, sent, rest) /\ ~ Complete(d.buf)
  <2> HIDE DEF c
  <2> QED
    BY <1>2, <1>3, <1>4, LoopKeeps
<1> HIDE DEF d
<1>6. HandledFirst(Here, sent)' /\ AnswersFit(Here)' /\ InOrder(Here, sent, net)'
  BY <1>1, <1>5 DEF InOrder, HandledFirst, AnswersFit, Here
<1>7. (~ Complete(buf))'
  BY <1>1, <1>5 DEF Complete, FrameLength
<1> QED
  BY <1>1, <1>2, <1>3, <1>6, <1>7 DEF LinkInv

LEMMA AnswerStep ==
    ASSUME LinkInv, NEW i \in asked, HostAnswers(i)
    PROVE  LinkInv'
<1>1. /\ UNCHANGED <<sock, sent, net, buf, handled>> /\ asked' = asked \ {i}
      /\ replies' = Append(replies, i) \/ replies' = replies
  BY DEF HostAnswers
<1>2. /\ replies \in Seq(Nat) /\ asked \subseteq 1 .. Len(handled)
      /\ \A k \in asked : NeedsHost(handled[k])
      /\ \A k \in 1 .. Len(replies) : replies[k] \in 1 .. Len(handled) /\ replies[k] \notin asked
      /\ \A k, m \in 1 .. Len(replies) : replies[k] = replies[m] => k = m
      /\ \A k, m \in 1 .. Len(replies) :
            /\ k < m
            /\ ~ NeedsHost(handled[replies[k]]) /\ ~ NeedsHost(handled[replies[m]])
            => replies[k] < replies[m]
      /\ Len(handled) \in Nat
  BY SMTT(30) DEF LinkInv, AnswersFit, HandledFirst, Here
<1>3. AnswersFit(Here)'
  <2>1. CASE replies' = replies
    BY <1>1, <1>2, <2>1 DEF AnswersFit, Here
  <2>2. CASE replies' = Append(replies, i)
    <3> DEFINE r == Len(replies)
    <3>1. /\ r \in Nat /\ i \in Nat /\ i \in 1 .. Len(handled) /\ NeedsHost(handled[i])
      BY <1>2
    <3>2. /\ replies' \in Seq(Nat) /\ Len(replies') = r + 1 /\ replies'[r + 1] = i
          /\ \A k \in 1 .. r : replies'[k] = replies[k]
      BY <1>2, <2>2, <3>1
    <3> HIDE DEF r
    <3>3. \A k \in 1 .. r + 1 : k \in 1 .. r \/ k = r + 1
      BY <3>1
    <3>4. ASSUME NEW k \in 1 .. r + 1
          PROVE  replies'[k] \in 1 .. Len(handled) /\ replies'[k] \notin asked'
      <4>1. CASE k \in 1 .. r
        BY <1>1, <1>2, <3>2, <4>1 DEF r
      <4>2. CASE k = r + 1
        BY <1>1, <3>1, <3>2, <4>2
      <4> QED
        BY <3>3, <4>1, <4>2
    <3>5. ASSUME NEW k \in 1 .. r + 1, NEW m \in 1 .. r + 1
          PROVE  /\ replies'[k] = replies'[m] => k = m
                 /\ /\ k < m
                    /\ ~ NeedsHost(handled[replies'[k]]) /\ ~ NeedsHost(handled[replies'[m]])
                    => replies'[k] < replies'[m]
      <4>1. CASE k \in 1 .. r /\ m \in 1 .. r
        <5>1. replies'[k] = replies[k] /\ replies'[m] = replies[m]
          BY <3>2, <4>1
        <5> QED
          BY <1>2, <4>1, <5>1 DEF r
      <4>2. CASE k \in 1 .. r /\ m = r + 1
        <5>1. replies'[k] \notin asked /\ replies'[m] = i
          BY <1>2, <3>2, <4>2 DEF r
        <5> QED
          BY <3>1, <5>1
      <4>3. CASE k = r + 1 /\ m \in 1 .. r
        <5>1. replies'[m] \notin asked /\ replies'[k] = i
          BY <1>2, <3>2, <4>3 DEF r
        <5> QED
          BY <3>1, <5>1
      <4>4. CASE k = r + 1 /\ m = r + 1
        BY <3>1, <4>4
      <4> QED
        BY <3>3, <4>1, <4>2, <4>3, <4>4
    <3>6. AnswersFit([buf |-> buf', handled |-> handled', asked |-> asked', replies |-> replies'])
      BY <1>1, <1>2, <3>2, <3>4, <3>5 DEF AnswersFit
    <3> QED
      BY <3>6 DEF Here, AnswersFit
  <2> QED
    BY <1>1, <2>1, <2>2
<1>4. HandledFirst(Here, sent)'
  BY <1>1 DEF LinkInv, HandledFirst, Here
<1>5. sock = "open" => InOrder(Here, sent, net)'
  BY <1>1, <1>3, <1>4 DEF LinkInv, InOrder, Here, AnswersFit, HandledFirst
<1>6. sock = "open" => (~ Complete(buf))'
  BY <1>1 DEF LinkInv, Complete, FrameLength
<1> QED
  BY <1>1, <1>3, <1>4, <1>5, <1>6 DEF LinkInv

LEMMA CloseStep == LinkInv /\ Close => LinkInv'
<1> SUFFICES ASSUME LinkInv, Close PROVE LinkInv'
  OBVIOUS
<1>1. /\ UNCHANGED <<sent, buf, handled, asked, replies>> /\ sock' = "closed" /\ net' = <<>>
      /\ <<>> \in Seq(Nat)
  BY DEF Close
<1>2. HandledFirst(Here, sent)' /\ AnswersFit(Here)'
  BY <1>1 DEF LinkInv, HandledFirst, AnswersFit, Here
<1> QED
  BY <1>1, <1>2 DEF LinkInv

LEMMA LinkStep == LinkInv /\ [LinkNext]_linkVars => LinkInv'
<1> SUFFICES ASSUME LinkInv, [LinkNext]_linkVars PROVE LinkInv'
  OBVIOUS
<1>1. CASE UNCHANGED linkVars
  <2>1. UNCHANGED <<sock, sent, net, buf, handled, asked, replies>>
    BY <1>1 DEF linkVars
  <2>2. HandledFirst(Here, sent)' /\ AnswersFit(Here)'
    BY <2>1 DEF LinkInv, HandledFirst, AnswersFit, Here
  <2>3. sock = "open" => InOrder(Here, sent, net)' /\ (~ Complete(buf))'
    BY <2>1, <2>2 DEF LinkInv, InOrder, Here, AnswersFit, HandledFirst, Complete, FrameLength
  <2> QED
    BY <2>1, <2>2, <2>3 DEF LinkInv
<1> QED
  BY <1>1, SendStep, DataStep, AnswerStep, CloseStep DEF LinkNext

(* However the network cuts the bytes, the messages handled are those sent *)
(* in that order, none is left over when all bytes are in, and none is     *)
(* answered twice or, of those answered at once, out of order: for bodies  *)
(* of any bytes and lengths, any number of them and any radix.             *)
THEOREM FramesAllSurvive == LinkSpec => []FramesSurvive
<1>1. LinkInv => FramesSurvive
  <2> SUFFICES ASSUME LinkInv PROVE FramesSurvive
    OBVIOUS
  <2>1. /\ handled \in Seq(Seq(Nat)) /\ sent \in Seq(Seq(Nat)) /\ Len(handled) <= Len(sent)
        /\ \A i \in 1 .. Len(handled) : handled[i] = sent[i]
    BY DEF LinkInv, HandledFirst, Here
  <2>2. IsPrefix(handled, sent)
    <3>1. Len(handled) \in Nat /\ Len(sent) \in Nat
      BY <2>1
    <3>2. SubSeq(handled, 1, Len(handled)) = handled
      BY <2>1, SubSeqFull
    <3>3. /\ SubSeq(sent, 1, Len(handled)) \in Seq(Seq(Nat))
          /\ Len(SubSeq(sent, 1, Len(handled))) = Len(handled)
          /\ \A i \in 1 .. Len(handled) : SubSeq(sent, 1, Len(handled))[i] = sent[i]
      BY <2>1, <3>1
    <3>4. handled = SubSeq(sent, 1, Len(handled))
      BY <2>1, <3>3, SeqEqual
    <3> QED
      BY <2>1, <3>2, <3>4 DEF IsPrefix
  <2>3. AnswersApart
    <3>1. /\ replies \in Seq(Nat) /\ handled \in Seq(Seq(Nat))
          /\ \A k \in 1 .. Len(replies) : replies[k] \in 1 .. Len(handled) /\ replies[k] \notin asked
          /\ \A k, m \in 1 .. Len(replies) : replies[k] = replies[m] => k = m
          /\ \A k, m \in 1 .. Len(replies) :
                /\ k < m
                /\ ~ NeedsHost(handled[replies[k]]) /\ ~ NeedsHost(handled[replies[m]])
                => replies[k] < replies[m]
      BY <2>1 DEF LinkInv, AnswersFit, Here
    <3>2. DOMAIN replies = 1 .. Len(replies) /\ DOMAIN handled = 1 .. Len(handled)
      BY <3>1
    <3> QED
      BY <3>1, <3>2 DEF AnswersApart, IsInjective
  <2>4. ASSUME sock = "open", net = <<>> PROVE handled = sent /\ buf = <<>>
    <3>1. /\ buf \in Seq(Nat) /\ FramesOf(buf \o net, sent, Len(handled)) /\ ~ Complete(buf)
      BY <2>4 DEF LinkInv, InOrder, Here
    <3>2. buf \o net = buf
      BY <2>4, <3>1, ConcatEmptySeq
    <3>3. Len(handled) = Len(sent) /\ buf = <<>>
      <4>1. Len(handled) \in Nat
        BY <2>1
      <4> QED
        BY <2>1, <3>1, <3>2, <4>1, NothingLeft
    <3>4. handled = sent
      BY <2>1, <3>3, SeqEqual
    <3> QED
      BY <3>3, <3>4
  <2> QED
    BY <2>2, <2>3, <2>4 DEF FramesSurvive
<1> QED
  BY <1>1, LinkBegins, LinkStep, PTL DEF LinkSpec
=============================================================================
