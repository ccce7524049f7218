---------------------------- MODULE HostTransport ----------------------------
(***************************************************************************)
(* HostTransportManagerService with the TCP, HTTP and in-process           *)
(* transports it starts and stops: the HostTransportConfig rows, the       *)
(* `running' map and the sockets behind it, driven by requests of the      *)
(* operator console that interleave at every await, by queries of the      *)
(* database that are refused, and by restarts of the server.               *)
(*                                                                         *)
(* A step of a request runs from one await to the next.  Reading a row is  *)
(* a step (the row as it was then is kept in the request), so is each      *)
(* write; listen() and close() take effect when called and report later.   *)
(* Names, addresses and notes are left out: a seeded row keeps its name,   *)
(* which stands for its id.                                                *)
(***************************************************************************)
EXTENDS Integers, FiniteSets

CONSTANTS
    Configs,        \* ids of HostTransportConfig rows
    Inputs,         \* what create and update are called with: [kind, port, profile]
    Seeded,         \* the rows of ensureSeedRows: a setting per seeded config
    AutoStart,      \* the seeded rows that are enabled
    Requests,       \* requests of the operator console in progress at once
    Slots,          \* bound: transport objects alive at once, 1 .. n
    MaxConnection,  \* bound: open connections per transport
    MaxRestart,     \* bound: restarts of the server
    MaxOp           \* bound: operator requests

Kinds == {"IN_PROCESS", "ISO8583_TCP", "ISO20022_HTTP"}
Switches == {"JALIN", "ATM_BERSAMA", "PRIMA", "BIFAST"}
MaxPort == 65535
Setting == [kind : Kinds, port : 0 .. MaxPort]
NotNamed == "not named"   \* a kind or a profile the request leaves out ...
NoPort == -1              \* ... or a port

Boot == "boot"
Tasks == Requests \union {Boot}
NoConfig == "none"

ASSUME TransportAssumption ==
    /\ Configs # {} /\ NoConfig \notin Configs
    /\ Boot \notin Requests
    /\ Slots \subseteq Nat \ {0}
    /\ \A x \in Inputs : x.port \in Int
    /\ DOMAIN Seeded \subseteq Configs
    /\ Seeded \in [DOMAIN Seeded -> Setting]
    /\ AutoStart \subseteq DOMAIN Seeded
    /\ MaxConnection \in Nat
    /\ MaxRestart \in Nat
    /\ MaxOp \in Nat

NoRow == [exists |-> FALSE]
Row == [exists : {TRUE}, setting : Setting, enabled : BOOLEAN]

VARIABLES
    rows,      \* the HostTransportConfig table
    running,   \* the running map: a slot, or 0
    transport, \* per slot: its config and setting, its state, its connections
    task,      \* the requests in progress, and the start of the server
    toBoot,    \* onModuleInit: configs still to be auto-started
    bootFailed,\* configs whose auto-start failed since the server started
    calm,      \* history: no two requests have overlapped since the start
    unsaved,   \* history: configs whose last write of `enabled' was refused
    active,    \* history: the config of the last request, a setActive that
               \* was answered
    ops,       \* operator requests so far
    restarts   \* restarts so far

vars == <<rows, running, transport, task, toBoot, bootFailed, calm, unsaved, active, ops,
          restarts>>

Idle == [op |-> "idle", pc |-> "idle", cfg |-> NoConfig, at |-> NoConfig,
         row |-> NoRow, slot |-> 0, peers |-> {}]
Task == [op : {"idle", "start", "stop", "setActive", "delete", "update", "boot"},
         pc : {"idle", "peers", "deleteFound", "startFound", "bound", "enable", "stopFound",
               "closing", "disable", "drop", "edit"},
         cfg : Configs \union {NoConfig},  \* the config the request names
         at : Configs \union {NoConfig},   \* the config being started or stopped
         row : Row \union {NoRow},
         slot : {0} \union Slots,
         peers : SUBSET Configs]
Closed(c, s) == [cfg |-> c, setting |-> s, state |-> "closed", conns |-> 0]
Transport == [cfg : Configs, setting : Setting, state : {"listening", "closing", "closed"},
              conns : 0 .. MaxConnection]

TypeOK ==
    /\ rows \in [Configs -> Row \union {NoRow}]
    /\ running \in [Configs -> {0} \union Slots]
    /\ transport \in [Slots -> Transport]
    /\ task \in [Tasks -> Task]
    /\ toBoot \subseteq Configs
    /\ bootFailed \subseteq Configs
    /\ calm \in BOOLEAN
    /\ unsaved \subseteq Configs
    /\ active \in Configs \union {NoConfig}
    /\ ops \in 0 .. MaxOp
    /\ restarts \in 0 .. MaxRestart

(* ensureSeedRows: each seeded row that is missing is created.             *)
ensureSeedRows(old) ==
    [c \in Configs |->
        IF c \in DOMAIN Seeded /\ ~ old[c].exists
        THEN [exists |-> TRUE, setting |-> Seeded[c], enabled |-> c \in AutoStart]
        ELSE old[c]]

Enabled(table) == {c \in Configs : table[c].exists /\ table[c].enabled}

(* The first start of the server, just after ensureSeedRows.               *)
Init ==
    /\ rows = ensureSeedRows([c \in Configs |-> NoRow])
    /\ running = [c \in Configs |-> 0]
    /\ transport = [i \in Slots |-> Closed(CHOOSE x \in Configs : TRUE,
                                            [kind |-> "IN_PROCESS", port |-> 0])]
    /\ task = [t \in Tasks |-> Idle]
    /\ toBoot = Enabled(rows)
    /\ bootFailed = {}
    /\ calm = TRUE
    /\ unsaved = {}
    /\ active = NoConfig
    /\ ops = 0
    /\ restarts = 0

Booted == toBoot = {} /\ task[Boot] = Idle

(* buildTransport: the in-process transport has no socket, whatever its    *)
(* row's port.                                                             *)
HasSocket(setting) == setting.kind # "IN_PROCESS"

(* A port is taken while some transport of this process listens on it;     *)
(* port 0 is whichever port is free.                                       *)
Taken(port) ==
    port # 0 /\ \E i \in Slots : /\ transport[i].state = "listening"
                                 /\ HasSocket(transport[i].setting)
                                 /\ transport[i].setting.port = port

(* requireKind, requireSwitch and normalizePort: what they let through,    *)
(* and the port that is stored.                                            *)
KindAndSwitch(kind, profile) == kind \in Kinds /\ profile \in Switches \union {NotNamed}
ValidPort(kind, port) == kind = "IN_PROCESS" \/ port \in 1 .. MaxPort
normalizePort(kind, port) == IF kind = "IN_PROCESS" THEN 0 ELSE port

(* update keeps what it does not name, the port also when the kind changes.*)
Edited(old, x) ==
    LET kind == IF x.kind = NotNamed THEN old.kind ELSE x.kind IN
    [ok |-> KindAndSwitch(kind, x.profile) /\ (x.port # NoPort => ValidPort(kind, x.port)),
     setting |-> [kind |-> kind,
                  port |-> IF x.port = NoPort THEN old.port ELSE normalizePort(kind, x.port)]]

(* The request goes on as j; a request that ends is Idle again.            *)
GoOn(t, j) == task' = [task EXCEPT ![t] = j]

-----------------------------------------------------------------------------
(* HostTransportController: a request begins by reading the row; one that  *)
(* names no row ends with a 404 and changes nothing.                       *)
Begin(t, c, op, pc) ==
    /\ Booted
    /\ task[t] = Idle /\ ops < MaxOp
    /\ rows[c].exists
    /\ GoOn(t, [Idle EXCEPT !.op = op, !.pc = pc, !.cfg = c, !.at = c, !.row = rows[c]])
    /\ ops' = ops + 1
    /\ calm' = (calm /\ \A u \in Tasks \ {t} : task[u] = Idle)
    /\ active' = NoConfig
    /\ UNCHANGED <<rows, running, transport, toBoot, bootFailed, unsaved, restarts>>

StartConfig(t, c) == Begin(t, c, "start", "startFound")
StopConfig(t, c) == Begin(t, c, "stop", "stopFound")

(* update reads the row; an enabled one is refused, after the read.        *)
Update(t, c) == rows[c].exists /\ ~ rows[c].enabled /\ Begin(t, c, "update", "edit")

Delete(t, c) == Begin(t, c, "delete", "deleteFound")

SetActive(t, c) ==
    /\ Booted
    /\ task[t] = Idle /\ ops < MaxOp
    /\ rows[c].exists
    /\ GoOn(t, [Idle EXCEPT !.op = "setActive", !.pc = "peers", !.cfg = c, !.at = c,
                   !.peers = {p \in Configs \ {c} :
                                 /\ rows[p].exists
                                 /\ rows[p].setting.kind = rows[c].setting.kind}])
    /\ ops' = ops + 1
    /\ calm' = (calm /\ \A u \in Tasks \ {t} : task[u] = Idle)
    /\ active' = NoConfig
    /\ UNCHANGED <<rows, running, transport, toBoot, bootFailed, unsaved, restarts>>

(* create: the row is new and disabled; a bad request changes nothing.     *)
Create(c, x) ==
    /\ Booted /\ ops < MaxOp
    /\ ~ rows[c].exists
    /\ KindAndSwitch(x.kind, x.profile) /\ ValidPort(x.kind, x.port)
    /\ rows' = [rows EXCEPT ![c] = [exists |-> TRUE, enabled |-> FALSE,
                       setting |-> [kind |-> x.kind, port |-> normalizePort(x.kind, x.port)]]]
    /\ ops' = ops + 1
    /\ UNCHANGED <<running, transport, task, toBoot, bootFailed, calm, unsaved, active, restarts>>

(* setActive: one peer after the other is stopped if it runs when its turn *)
(* comes, then the target is started; both look their row up again.        *)
NextPeer(t) ==
    LET j == task[t] IN
    /\ j.pc = "peers"
    /\ \/ \E p \in j.peers :
            IF running[p] = 0 THEN GoOn(t, [j EXCEPT !.peers = @ \ {p}])
            ELSE /\ rows[p].exists
                 /\ GoOn(t, [j EXCEPT !.pc = "stopFound", !.at = p, !.peers = @ \ {p}])
       \/ /\ j.peers = {} /\ rows[j.cfg].exists
          /\ GoOn(t, [j EXCEPT !.pc = "startFound", !.at = j.cfg, !.row = rows[j.cfg]])
    /\ UNCHANGED <<rows, running, transport, toBoot, bootFailed, calm, unsaved, active,
                   ops, restarts>>

(* delete: a running config is stopped first, which looks its row up once  *)
(* more; then the row is deleted.                                          *)
StopToDelete(t) ==
    LET j == task[t] IN
    /\ j.pc = "deleteFound"
    /\ IF running[j.at] = 0 THEN GoOn(t, [j EXCEPT !.pc = "drop"])
       ELSE rows[j.at].exists /\ GoOn(t, [j EXCEPT !.pc = "stopFound"])
    /\ UNCHANGED <<rows, running, transport, toBoot, bootFailed, calm, unsaved, active,
                   ops, restarts>>

(* A query of the request is refused, or the row it names is gone, or what *)
(* update is called with is bad: the request ends, and what it has done    *)
(* stays done.  So `enabled' may differ from what runs.                    *)
Refused(t) ==
    LET j == task[t] IN
    /\ j.pc \in {"peers", "deleteFound", "enable", "disable", "edit", "drop"}
    /\ unsaved' = IF rows[j.at].exists /\ (\/ j.pc = "enable" /\ ~ rows[j.at].enabled
                                           \/ j.pc = "disable" /\ rows[j.at].enabled)
                  THEN unsaved \union {j.at} ELSE unsaved
    /\ GoOn(t, Idle)
    /\ UNCHANGED <<rows, running, transport, toBoot, bootFailed, calm, active, ops, restarts>>

-----------------------------------------------------------------------------
(* The end of startConfig answers the request, a setActive too.            *)
Answered(t) == active' = IF task[t].op = "setActive" THEN task[t].cfg ELSE active

(* startConfig after its read: nothing to do when the map has the id.      *)
AlreadyRunning(t) ==
    /\ task[t].pc = "startFound"
    /\ running[task[t].at] # 0
    /\ GoOn(t, Idle)
    /\ Answered(t)
    /\ UNCHANGED <<rows, running, transport, toBoot, bootFailed, calm, unsaved, ops, restarts>>

(* buildTransport and start(): the socket is bound ...                     *)
Listen(t) ==
    LET j == task[t] IN
    /\ j.pc = "startFound"
    /\ running[j.at] = 0
    /\ ~ (HasSocket(j.row.setting) /\ Taken(j.row.setting.port))
    /\ \E i \in Slots :
        /\ transport[i].state = "closed"
        /\ \A k \in Slots : k < i => transport[k].state # "closed"
        /\ transport' = [transport EXCEPT ![i] = [Closed(j.at, j.row.setting)
                                                  EXCEPT !.state = "listening"]]
        /\ GoOn(t, [j EXCEPT !.pc = "bound", !.slot = i])
    /\ UNCHANGED <<rows, running, toBoot, bootFailed, calm, unsaved, active, ops, restarts>>

(* ... or the bind fails (the port is taken, by this or another process),  *)
(* and the request with it.                                                *)
ListenFails(t) ==
    LET j == task[t] IN
    /\ j.pc = "startFound"
    /\ running[j.at] = 0
    /\ HasSocket(j.row.setting)
    /\ GoOn(t, Idle)
    /\ bootFailed' = IF t = Boot THEN bootFailed \union {j.at} ELSE bootFailed
    /\ UNCHANGED <<rows, running, transport, toBoot, calm, unsaved, active, ops, restarts>>

(* start() resolved: running.set; the row is written later.                *)
Started(t) ==
    LET j == task[t] IN
    /\ j.pc = "bound"
    /\ running' = [running EXCEPT ![j.at] = j.slot]
    /\ bootFailed' = bootFailed \ {j.at}
    /\ GoOn(t, [j EXCEPT !.pc = "enable"])
    /\ UNCHANGED <<rows, transport, toBoot, calm, unsaved, active, ops, restarts>>

WriteEnabled(c, value) ==
    /\ rows[c].exists
    /\ rows' = [rows EXCEPT ![c].enabled = value]
    /\ unsaved' = unsaved \ {c}

(* Variant: the row is not written.                                        *)
Enable_NotSaved(t) ==
    /\ task[t].pc = "enable"
    /\ rows[task[t].at].exists
    /\ unsaved' = unsaved \ {task[t].at}
    /\ GoOn(t, Idle)
    /\ Answered(t)
    /\ UNCHANGED <<rows, running, transport, toBoot, bootFailed, calm, ops, restarts>>

(* enabled = true, and the request is answered.                            *)
Enable(t) ==
    /\ task[t].pc = "enable"
    /\ WriteEnabled(task[t].at, TRUE)
    /\ GoOn(t, Idle)
    /\ Answered(t)
    /\ UNCHANGED <<running, transport, toBoot, bootFailed, calm, ops, restarts>>

-----------------------------------------------------------------------------
(* stopConfig after its read: nothing in the map, so only the row changes. *)
NothingToStop(t) ==
    LET j == task[t] IN
    /\ j.pc = "stopFound"
    /\ running[j.at] = 0
    /\ GoOn(t, [j EXCEPT !.pc = "disable"])
    /\ UNCHANGED <<rows, running, transport, toBoot, bootFailed, calm, unsaved, active,
                   ops, restarts>>

(* server.close(): no new connection is taken from now on; the call-back   *)
(* waits for the ones that are open.                                       *)
CloseServer(t) ==
    LET j == task[t]
        i == running[j.at]
    IN
    /\ j.pc = "stopFound"
    /\ i # 0
    /\ transport' = [transport EXCEPT ![i].state = "closing"]
    /\ GoOn(t, [j EXCEPT !.pc = "closing", !.slot = i])
    /\ UNCHANGED <<rows, running, toBoot, bootFailed, calm, unsaved, active, ops, restarts>>

(* Variant: no stop() hears of it.                                         *)
ServerClosed_NoCallback(i) ==
    /\ transport[i].state = "closing"
    /\ transport[i].conns = 0
    /\ transport' = [transport EXCEPT ![i].state = "closed"]
    /\ UNCHANGED <<rows, running, task, toBoot, bootFailed, calm, unsaved, active, ops, restarts>>

(* The last connection is gone: every stop() of this transport resolves,   *)
(* and each of those requests deletes its id from the map.                 *)
ServerClosed(i) ==
    LET waiting == {t \in Tasks : task[t].pc = "closing" /\ task[t].slot = i} IN
    /\ transport[i].state = "closing"
    /\ transport[i].conns = 0
    /\ transport' = [transport EXCEPT ![i].state = "closed"]
    /\ running' = [c \in Configs |-> IF \E t \in waiting : task[t].at = c THEN 0 ELSE running[c]]
    /\ task' = [t \in Tasks |-> IF t \in waiting THEN [task[t] EXCEPT !.pc = "disable"]
                                                 ELSE task[t]]
    /\ UNCHANGED <<rows, toBoot, bootFailed, calm, unsaved, active, ops, restarts>>

(* enabled = false; then the request is done, or it stopped a peer, or it  *)
(* stopped what it is about to delete.                                     *)
Disable(t) ==
    LET j == task[t] IN
    /\ j.pc = "disable"
    /\ WriteEnabled(j.at, FALSE)
    /\ bootFailed' = bootFailed \ {j.at}
    /\ GoOn(t, CASE j.op = "setActive" -> [j EXCEPT !.pc = "peers", !.slot = 0]
                 [] j.op = "delete" -> [j EXCEPT !.pc = "drop", !.slot = 0]
                 [] OTHER -> Idle)
    /\ UNCHANGED <<running, transport, toBoot, calm, active, ops, restarts>>

(* The row of update is written without another look at `enabled' ...      *)
Edit(t) ==
    LET j == task[t] IN
    /\ j.pc = "edit"
    /\ rows[j.cfg].exists
    /\ \E x \in Inputs :
        LET new == Edited(j.row.setting, x)
        IN  new.ok /\ rows' = [rows EXCEPT ![j.cfg].setting = new.setting]
    /\ GoOn(t, Idle)
    /\ UNCHANGED <<running, transport, toBoot, bootFailed, calm, unsaved, active, ops, restarts>>

(* ... and the row of delete is deleted without another look at the map.   *)
Drop(t) ==
    LET j == task[t] IN
    /\ j.pc = "drop"
    /\ rows[j.cfg].exists
    /\ rows' = [rows EXCEPT ![j.cfg] = NoRow]
    /\ bootFailed' = bootFailed \ {j.cfg}
    /\ unsaved' = unsaved \ {j.cfg}
    /\ GoOn(t, Idle)
    /\ UNCHANGED <<running, transport, toBoot, calm, active, ops, restarts>>

-----------------------------------------------------------------------------
(* Peers connect to a listening transport, and leave.                      *)
PeerConnects(i) ==
    /\ transport[i].state = "listening" /\ HasSocket(transport[i].setting)
    /\ transport[i].conns < MaxConnection
    /\ transport' = [transport EXCEPT ![i].conns = @ + 1]
    /\ UNCHANGED <<rows, running, task, toBoot, bootFailed, calm, unsaved, active, ops, restarts>>

PeerLeaves(i) ==
    /\ transport[i].conns > 0
    /\ transport' = [transport EXCEPT ![i].conns = @ - 1]
    /\ UNCHANGED <<rows, running, task, toBoot, bootFailed, calm, unsaved, active, ops, restarts>>

(* The process ends, at any point of any request (onModuleDestroy closes   *)
(* the listeners and writes no row), and starts again: the seeded rows     *)
(* that are gone come back, then the enabled rows are to be started.       *)
Restart ==
    /\ restarts < MaxRestart
    /\ restarts' = restarts + 1
    /\ rows' = ensureSeedRows(rows)
    /\ running' = [c \in Configs |-> 0]
    /\ transport' = [i \in Slots |-> [transport[i] EXCEPT !.state = "closed", !.conns = 0]]
    /\ task' = [t \in Tasks |-> Idle]
    /\ toBoot' = Enabled(rows')
    /\ bootFailed' = {}
    /\ calm' = TRUE
    /\ unsaved' = {}
    /\ active' = NoConfig
    /\ UNCHANGED ops

(* onModuleInit: one config after the other; one whose row cannot be read  *)
(* is passed over, a failure is only logged.                               *)
AutoStartNext ==
    /\ task[Boot] = Idle
    /\ \E c \in toBoot :
        /\ toBoot' = toBoot \ {c}
        /\ \/ /\ GoOn(Boot, [Idle EXCEPT !.op = "boot", !.pc = "startFound", !.cfg = c,
                                         !.at = c, !.row = rows[c]])
              /\ UNCHANGED bootFailed
           \/ /\ bootFailed' = bootFailed \union {c}
              /\ UNCHANGED task
    /\ UNCHANGED <<rows, running, transport, calm, unsaved, active, ops, restarts>>

TaskStep(t) ==
    \/ NextPeer(t)
    \/ StopToDelete(t)
    \/ AlreadyRunning(t)
    \/ Listen(t)
    \/ ListenFails(t)
    \/ Started(t)
    \/ Enable(t)
    \/ NothingToStop(t)
    \/ CloseServer(t)
    \/ Disable(t)
    \/ Edit(t)
    \/ Drop(t)
    \/ Refused(t)

Next ==
    \/ \E t \in Requests, c \in Configs :
        \/ StartConfig(t, c)
        \/ StopConfig(t, c)
        \/ SetActive(t, c)
        \/ Update(t, c)
        \/ Delete(t, c)
    \/ \E c \in Configs, x \in Inputs : Create(c, x)
    \/ \E t \in Tasks : TaskStep(t)
    \/ \E i \in Slots : ServerClosed(i) \/ PeerConnects(i) \/ PeerLeaves(i)
    \/ AutoStartNext
    \/ Restart

Spec == Init /\ [][Next]_vars

(* A request goes on when what it awaits is there, and the call-back of    *)
(* close() runs when the last peer is gone.  Peers need not leave.         *)
LiveSpec ==
    /\ Spec
    /\ \A t \in Tasks : WF_vars(TaskStep(t))
    /\ \A i \in Slots : WF_vars(ServerClosed(i))
    /\ WF_vars(AutoStartNext)

-----------------------------------------------------------------------------
(* status() of a TCP or HTTP transport: `listening' until the call-back of *)
(* close().                                                                *)
Status(i) ==
    [setting |-> transport[i].setting,
     listening |-> transport[i].state # "closed",
     activeConnections |-> transport[i].conns]

(* InProcessTransport is a flag: its stop takes effect at once, and it     *)
(* names port 0 whatever its row says.                                     *)
StatusInProcess(i) ==
    [setting |-> [transport[i].setting EXCEPT !.port = 0],
     listening |-> transport[i].state = "listening",
     activeConnections |-> 0]

(* Nothing runs for the row.                                               *)
StatusDown(c) == [setting |-> rows[c].setting, listening |-> FALSE, activeConnections |-> 0]

(* toDto: what list and get show of a row, with the status of the          *)
(* transport the map leads to, or of none.                                 *)
toDto(c) ==
    LET i == running[c] IN
    [enabled |-> rows[c].enabled,
     setting |-> rows[c].setting,
     status |-> IF i = 0 THEN StatusDown(c)
                ELSE IF HasSocket(transport[i].setting) THEN Status(i) ELSE StatusInProcess(i)]

Quiet == Booted /\ \A t \in Tasks : task[t] = Idle

(* A config is shown as listening only when something listens for it, with *)
(* its connections; a deleted one runs nothing.  Unless the last write of  *)
(* `enabled' was refused, it is shown as listening exactly when its row is *)
(* enabled (or its auto-start failed), with the setting of what listens.   *)
MapMatchesRows ==
    \A c \in Configs :
        IF ~ rows[c].exists THEN running[c] = 0
        ELSE LET dto == toDto(c) IN
             /\ dto.status.listening =>
                   \E i \in Slots : /\ transport[i].state = "listening"
                                    /\ transport[i].cfg = c
                                    /\ transport[i].conns = dto.status.activeConnections
                                    /\ c \notin unsaved => transport[i].setting = dto.setting
             /\ c \notin unsaved =>
                   /\ dto.status.listening <=> dto.enabled /\ c \notin bootFailed
                   /\ HasSocket(dto.setting) => dto.status.setting = dto.setting

(* Whatever listens can be stopped, because the map leads to it.           *)
NoLostListener ==
    \A i \in Slots : transport[i].state # "closed" => running[transport[i].cfg] = i

(* No other config of the kind runs (but one that runs although its row    *)
(* says disabled, and may have been edited since).                         *)
AloneOf(kind, c) ==
    \A d \in Configs \ {c} :
        running[d] # 0 /\ d \notin unsaved => transport[running[d]].setting.kind # kind

(* A setActive that has stopped its peers and is starting its target runs  *)
(* alone of its kind, and so it does once it has been answered.            *)
ActiveIsAlone ==
    /\ \A t \in Requests :
        task[t].op = "setActive" /\ task[t].pc \in {"startFound", "bound", "enable"} =>
            AloneOf(task[t].row.setting.kind, task[t].cfg)
    /\ active # NoConfig =>
        running[active] # 0 /\ AloneOf(rows[active].setting.kind, active)

(* As long as no two requests overlap, what the console shows is what is   *)
(* there, whatever failed, was refused or crashed on the way: between      *)
(* requests the rows (but for a refused write), the running map and the    *)
(* sockets agree and no socket is left behind, and a setActive that is     *)
(* answered leaves its target as the one listener of its kind.             *)
ConsoleTellsTruth ==
    calm => ActiveIsAlone /\ (Quiet => MapMatchesRows /\ NoLostListener)

(* A request ends, unless it waits in server.close() for a peer that does  *)
(* not leave (or the server restarts).                                     *)
RequestEnds ==
    \A t \in Requests :
        task[t] # Idle ~>
            task[t] = Idle \/ (task[t].pc = "closing" /\ transport[task[t].slot].conns > 0)

=============================================================================
