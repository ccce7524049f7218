---------------------------- MODULE BridgeClient ----------------------------
(***************************************************************************)
(* The ZegenXFS DLL's connection to the server (bridge_client.cpp, with    *)
(* ensure_bridge of dllmain.cpp) and the server's end of it                *)
(* (zxfs-bridge.service.ts): vendor threads call send_request, one reader  *)
(* thread routes the frames that come back to the pending slot of their    *)
(* id, and every mutex the two sides take is modelled.                     *)
(*                                                                         *)
(* A request is the number make_id gave it; its PendingSlot and the answer *)
(* to it carry the same number.  A frame on its way to the client is a     *)
(* request number (the response to it) or 0 (an event).  What a slot holds *)
(* or a call returns is 0 (nothing yet), an error code, or the number of   *)
(* the request whose response it is.                                       *)
(***************************************************************************)
EXTENDS Integers, Sequences

CONSTANTS
    Threads,     \* the vendor application's threads
    MaxRequest,  \* bound: the number of calls of send_request
    MaxEvent     \* bound: the number of device events broadcast

ASSUME BridgeAssumption ==
    /\ MaxRequest \in Nat
    /\ MaxEvent \in Nat
    /\ "free" \notin Threads
    /\ "reader" \notin Threads

Requests == 1 .. MaxRequest
ERR_INTERNAL_ERROR == -5
ERR_TIMEOUT == -6
Results == Requests \union {0, ERR_INTERNAL_ERROR, ERR_TIMEOUT}
Owners == Threads \union {"reader", "free"}

VARIABLES
    bridge,      \* g_bridge: "null", "created" (connect has not returned) or "connected"
    sock,        \* "none", "open", "lost" (the peer is gone) or "closed" (by shutdown)
    handler,     \* on_event has been called
    pc,          \* where each thread is
    id,          \* the request of each thread's call
    nextId,      \* next_id
    pending,     \* the keys of the pending map
    pendingMtx,  \* the owner of pending_mtx
    slotMtx,     \* the owner of each slot's mutex
    slot,        \* slot->response: 0 until slot->done
    reader,      \* where the reader thread is
    current,     \* the slot the reader is at (0: none)
    toServer,    \* requests sent and not yet executed
    toClient,    \* frames sent by the server and not yet read
    executed,    \* requests the server has executed
    events,      \* device events broadcast
    posted,      \* events handed to the event router
    outcome      \* what each call returned

connVars == <<bridge, sock, handler>>
callVars == <<pc, id, nextId, outcome>>
lockVars == <<pending, pendingMtx, slotMtx, slot>>
readVars == <<reader, current>>
wireVars == <<toServer, toClient, executed, events>>
vars == <<connVars, callVars, lockVars, readVars, wireVars, posted>>

TypeOK ==
    /\ bridge \in {"null", "created", "connected"}
    /\ sock \in {"none", "open", "lost", "closed"}
    /\ handler \in BOOLEAN
    /\ pc \in [Threads -> {"idle", "connect", "install", "call", "send",
                           "unregister", "wait", "expire"}]
    /\ id \in [Threads -> 0 .. MaxRequest]
    /\ nextId \in 1 .. MaxRequest + 1
    /\ pending \subseteq Requests
    /\ pendingMtx \in Owners
    /\ slotMtx \in [Requests -> Owners]
    /\ slot \in [Requests -> Results]
    /\ reader \in {"none", "read", "deliver", "drain", "next", "wake", "exited"}
    /\ current \in 0 .. MaxRequest
    /\ current # 0 <=> reader \in {"deliver", "wake"}
    /\ toServer \subseteq Requests
    /\ toClient \in Seq(0 .. MaxRequest)
    /\ executed \subseteq Requests
    /\ events \in 0 .. MaxEvent
    /\ posted \in Nat
    /\ outcome \in [Requests -> Results]

Init ==
    /\ bridge = "null"
    /\ sock = "none"
    /\ handler = FALSE
    /\ pc = [t \in Threads |-> "idle"]
    /\ id = [t \in Threads |-> 0]
    /\ nextId = 1
    /\ pending = {}
    /\ pendingMtx = "free"
    /\ slotMtx = [r \in Requests |-> "free"]
    /\ slot = [r \in Requests |-> 0]
    /\ reader = "none"
    /\ current = 0
    /\ toServer = {}
    /\ toClient = <<>>
    /\ executed = {}
    /\ events = 0
    /\ posted = 0
    /\ outcome = [r \in Requests |-> 0]

-----------------------------------------------------------------------------
(***************************************************************************)
(* ensure_bridge.  The test of g_bridge and the assignment are not guarded *)
(* by a lock; two first calls that overlap replace the client under each   *)
(* other, which is undefined, so the model lets a second thread look at    *)
(* g_bridge only when it is not just being assigned.  What it does see is  *)
(* a client whose connect has not returned.                                *)
(***************************************************************************)
EnsureBridge(t) ==
    /\ pc[t] = "idle"
    /\ bridge = "null" /\ sock = "none"
    /\ bridge' = "created"
    /\ pc' = [pc EXCEPT ![t] = "connect"]
    /\ UNCHANGED <<sock, handler, id, nextId, outcome, lockVars, readVars, wireVars, posted>>

(* A call that finds g_bridge set goes on with whatever is behind it.      *)
BridgeExists(t) ==
    /\ pc[t] = "idle"
    /\ bridge # "null" /\ sock # "closed" /\ nextId <= MaxRequest
    /\ pc' = [pc EXCEPT ![t] = "call"]
    /\ UNCHANGED <<connVars, id, nextId, outcome, lockVars, readVars, wireVars, posted>>

(* BridgeClient::connect: its loop ends with a connected socket; then the  *)
(* reader thread starts.                                                   *)
Connect(t) ==
    /\ pc[t] = "connect"
    /\ bridge' = "connected"
    /\ sock' = "open"
    /\ reader' = "read"
    /\ pc' = [pc EXCEPT ![t] = "install"]
    /\ UNCHANGED <<handler, id, nextId, outcome, lockVars, current, wireVars, posted>>

(* ensure_bridge calls on_event after connect has started the reader.      *)
InstallHandler(t) ==
    /\ pc[t] = "install"
    /\ handler' = TRUE
    /\ pc' = [pc EXCEPT ![t] = "call"]
    /\ UNCHANGED <<bridge, sock, id, nextId, outcome, lockVars, readVars, wireVars, posted>>

-----------------------------------------------------------------------------
(* make_id and the entry in the pending map, under pending_mtx.            *)
RegisterRequest(t) ==
    /\ pc[t] = "call" /\ nextId <= MaxRequest
    /\ pendingMtx = "free"
    /\ id' = [id EXCEPT ![t] = nextId]
    /\ nextId' = nextId + 1
    /\ pending' = pending \union {nextId}
    /\ pc' = [pc EXCEPT ![t] = "send"]
    /\ UNCHANGED <<connVars, outcome, pendingMtx, slotMtx, slot, readVars, wireVars, posted>>

(* send_all succeeds: the frame is on its way, or, when the peer is gone   *)
(* and the stack has not noticed, nowhere.                                 *)
SendOk(t) ==
    /\ pc[t] = "send"
    /\ sock \in {"open", "lost"}
    /\ toServer' = IF sock = "open" THEN toServer \union {id[t]} ELSE toServer
    /\ pc' = [pc EXCEPT ![t] = "wait"]
    /\ UNCHANGED <<connVars, id, nextId, outcome, lockVars, readVars,
                   toClient, executed, events, posted>>

SendFails(t) ==
    /\ pc[t] = "send"
    /\ sock # "open"
    /\ pc' = [pc EXCEPT ![t] = "unregister"]
    /\ UNCHANGED <<connVars, id, nextId, outcome, lockVars, readVars, wireVars, posted>>

(* The call of thread t returns o.                                         *)
Back(t, o) ==
    /\ outcome' = [outcome EXCEPT ![id[t]] = o]
    /\ pc' = [pc EXCEPT ![t] = "idle"]
    /\ UNCHANGED <<connVars, id, nextId, readVars, wireVars, posted>>

Unregister(t) ==
    /\ pc[t] = "unregister"
    /\ pendingMtx = "free"
    /\ pending' = pending \ {id[t]}
    /\ UNCHANGED <<pendingMtx, slotMtx, slot>>
    /\ Back(t, ERR_INTERNAL_ERROR)

(* wait_for: the predicate holds, when the call begins or when notified.   *)
Woken(t) ==
    /\ pc[t] = "wait"
    /\ slotMtx[id[t]] = "free"
    /\ slot[id[t]] # 0
    /\ UNCHANGED lockVars
    /\ Back(t, slot[id[t]])

(* wait_for gives up: the thread comes back holding the slot's mutex.      *)
TimeOut(t) ==
    /\ pc[t] = "wait"
    /\ slotMtx[id[t]] = "free"
    /\ slot[id[t]] = 0
    /\ slotMtx' = [slotMtx EXCEPT ![id[t]] = t]
    /\ pc' = [pc EXCEPT ![t] = "expire"]
    /\ UNCHANGED <<connVars, id, nextId, outcome, pending, pendingMtx, slot,
                   readVars, wireVars, posted>>

(* Variant: the pending entry stays.                                       *)
Expire_Keeps(t) ==
    /\ pc[t] = "expire"
    /\ pendingMtx = "free"
    /\ slotMtx' = [slotMtx EXCEPT ![id[t]] = "free"]
    /\ UNCHANGED <<pending, pendingMtx, slot>>
    /\ Back(t, ERR_TIMEOUT)

(* ... and takes pending_mtx before it lets go of the slot's.              *)
Expire(t) ==
    /\ pc[t] = "expire"
    /\ pendingMtx = "free"
    /\ pending' = pending \ {id[t]}
    /\ slotMtx' = [slotMtx EXCEPT ![id[t]] = "free"]
    /\ UNCHANGED <<pendingMtx, slot>>
    /\ Back(t, ERR_TIMEOUT)

-----------------------------------------------------------------------------
(***************************************************************************)
(* reader_loop.  The lookup in the pending map and the delivery into the   *)
(* slot are two critical sections; pending_mtx is let go in between.       *)
(***************************************************************************)

(* Variant: pending_mtx is not let go after the lookup.                    *)
ReadResponse_KeepsLock ==
    /\ reader = "read" /\ toClient # <<>> /\ sock # "closed"
    /\ Head(toClient) \in Requests
    /\ pendingMtx = "free"
    /\ toClient' = Tail(toClient)
    /\ IF Head(toClient) \in pending
       THEN /\ pendingMtx' = "reader"
            /\ pending' = pending \ {Head(toClient)}
            /\ current' = Head(toClient)
            /\ reader' = "deliver"
       ELSE UNCHANGED <<pending, pendingMtx, current, reader>>
    /\ UNCHANGED <<connVars, callVars, slotMtx, slot, toServer, executed, events, posted>>

ReadResponse ==
    /\ reader = "read" /\ toClient # <<>> /\ sock # "closed"
    /\ Head(toClient) \in Requests
    /\ pendingMtx = "free"
    /\ toClient' = Tail(toClient)
    /\ pending' = pending \ {Head(toClient)}
    /\ IF Head(toClient) \in pending
       THEN current' = Head(toClient) /\ reader' = "deliver"
       ELSE UNCHANGED <<current, reader>>
    /\ UNCHANGED <<connVars, callVars, pendingMtx, slotMtx, slot,
                   toServer, executed, events, posted>>

Deliver ==
    /\ reader = "deliver"
    /\ slotMtx[current] = "free"
    /\ slot' = [slot EXCEPT ![current] = current]
    /\ reader' = "read"
    /\ current' = 0
    /\ UNCHANGED <<connVars, callVars, pending, pendingMtx, slotMtx, wireVars, posted>>

(* An event frame read before on_event was called goes nowhere.            *)
ReadEvent ==
    /\ reader = "read" /\ toClient # <<>> /\ sock # "closed"
    /\ Head(toClient) = 0
    /\ toClient' = Tail(toClient)
    /\ posted' = IF handler THEN posted + 1 ELSE posted
    /\ UNCHANGED <<connVars, callVars, lockVars, readVars, toServer, executed, events>>

(* recv fails: nothing is left of a lost connection, or shutdown closed it.*)
ReadFails ==
    /\ reader = "read"
    /\ sock = "closed" \/ (sock = "lost" /\ toClient = <<>>)
    /\ reader' = "drain"
    /\ UNCHANGED <<connVars, callVars, lockVars, current, wireVars, posted>>

(***************************************************************************)
(* Socket closed: the reader takes pending_mtx, wakes the slots one after  *)
(* the other, each under its own mutex, and clears the map.  Nobody sees   *)
(* the map before it lets go of pending_mtx, so the model takes an entry   *)
(* out when its slot has been woken.                                       *)
(***************************************************************************)
DrainLock ==
    /\ reader = "drain"
    /\ pendingMtx = "free"
    /\ pendingMtx' = "reader"
    /\ reader' = "next"
    /\ UNCHANGED <<connVars, callVars, pending, slotMtx, slot, current, wireVars, posted>>

DrainNext ==
    /\ reader = "next"
    /\ \E r \in pending : current' = r
    /\ reader' = "wake"
    /\ UNCHANGED <<connVars, callVars, lockVars, wireVars, posted>>

DrainWake ==
    /\ reader = "wake"
    /\ slotMtx[current] = "free"
    /\ slot' = [slot EXCEPT ![current] = ERR_INTERNAL_ERROR]
    /\ pending' = pending \ {current}
    /\ current' = 0
    /\ reader' = "next"
    /\ UNCHANGED <<connVars, callVars, pendingMtx, slotMtx, wireVars, posted>>

DrainEnds ==
    /\ reader = "next" /\ pending = {}
    /\ pendingMtx' = "free"
    /\ reader' = "exited"
    /\ UNCHANGED <<connVars, callVars, pending, slotMtx, slot, current, wireVars, posted>>

-----------------------------------------------------------------------------
(* DLL_PROCESS_DETACH, between calls: shutdown closes the socket ...       *)
Shutdown ==
    /\ bridge = "connected" /\ sock # "closed"
    /\ \A t \in Threads : pc[t] = "idle"
    /\ sock' = "closed"
    /\ UNCHANGED <<bridge, handler, callVars, lockVars, readVars, wireVars, posted>>

(* ... and joins the reader before g_bridge is reset.                      *)
JoinReader ==
    /\ bridge = "connected" /\ sock = "closed"
    /\ reader = "exited"
    /\ bridge' = "null"
    /\ UNCHANGED <<sock, handler, callVars, lockVars, readVars, wireVars, posted>>

-----------------------------------------------------------------------------
(***************************************************************************)
(* The server.  The data handler starts handleFrame without waiting for    *)
(* it, so requests are executed, and answered, in any order.               *)
(***************************************************************************)

(* Variant: the answer does not wait for the execution.                    *)
HandleFrame_NoAwait(r) ==
    /\ r \in toServer
    /\ toServer' = toServer \ {r}
    /\ toClient' = IF sock = "open" THEN Append(toClient, r) ELSE toClient
    /\ UNCHANGED <<executed, connVars, callVars, lockVars, readVars, events, posted>>

HandleFrame(r) ==
    /\ r \in toServer
    /\ toServer' = toServer \ {r}
    /\ executed' = executed \union {r}
    /\ toClient' = IF sock = "open" THEN Append(toClient, r) ELSE toClient
    /\ UNCHANGED <<connVars, callVars, lockVars, readVars, events, posted>>

(* A device event is broadcast to the connected clients.                   *)
OnXfsEvent ==
    /\ sock = "open" /\ events < MaxEvent
    /\ events' = events + 1
    /\ toClient' = Append(toClient, 0)
    /\ UNCHANGED <<connVars, callVars, lockVars, readVars, toServer, executed, posted>>

(* The connection breaks, or the server goes away: what is under way in    *)
(* either direction may be lost.                                           *)
ConnectionLost ==
    /\ sock = "open"
    /\ sock' = "lost"
    /\ \E received \in SUBSET toServer : toServer' = received
    /\ \E n \in 0 .. Len(toClient) : toClient' = SubSeq(toClient, 1, n)
    /\ UNCHANGED <<bridge, handler, callVars, lockVars, readVars, executed, events, posted>>

-----------------------------------------------------------------------------
(* A step of a call in progress.                                           *)
CallStep(t) ==
    \/ Connect(t) \/ InstallHandler(t)
    \/ RegisterRequest(t)
    \/ SendOk(t) \/ SendFails(t) \/ Unregister(t)
    \/ Woken(t) \/ TimeOut(t) \/ Expire(t)

ReaderStep ==
    \/ ReadResponse \/ Deliver \/ ReadEvent \/ ReadFails
    \/ DrainLock \/ DrainNext \/ DrainWake \/ DrainEnds

Next ==
    \/ \E t \in Threads : EnsureBridge(t) \/ BridgeExists(t) \/ CallStep(t)
    \/ ReaderStep
    \/ Shutdown \/ JoinReader
    \/ \E r \in Requests : HandleFrame(r)
    \/ OnXfsEvent
    \/ ConnectionLost

Spec == Init /\ [][Next]_vars

(***************************************************************************)
(* The operating system schedules every thread.  Nothing is assumed of the *)
(* server or of the network: wait_for has a time-out.                      *)
(***************************************************************************)
LiveSpec ==
    /\ Spec
    /\ \A t \in Threads : WF_vars(CallStep(t))
    /\ WF_vars(ReaderStep)

-----------------------------------------------------------------------------
(* The pending map holds the calls in progress and nothing else: however   *)
(* a call ends - answered, timed out, send failed, disconnected - its      *)
(* entry is gone when it returns, so the map does not grow and no late     *)
(* answer finds the slot of a call that is over.                           *)
PendingIsOwned ==
    \A r \in pending :
        \E t \in Threads : id[t] = r /\ pc[t] \in {"send", "unregister", "wait", "expire"}

(* What send_request promises its caller: RpcChannel.                      *)
Channel == INSTANCE RpcChannel WITH
    Requests <- 1 .. MaxRequest,
    Errors <- {ERR_INTERNAL_ERROR, ERR_TIMEOUT},
    asked <- 1 .. nextId - 1

(* Every behaviour of the client and the server is one of RpcChannel: no   *)
(* call gets the answer of another request, an answer before its request   *)
(* was executed, or two outcomes, and no request is executed twice.        *)
ImplementsChannel == Channel!Spec

(* A call that has timed out keeps its slot's mutex and waits for          *)
(* pending_mtx; the reader holds pending_mtx and waits for that slot.      *)
CircularWait ==
    /\ reader = "wake" /\ pendingMtx = "reader"
    /\ \E t \in Threads : pc[t] = "expire" /\ slotMtx[current] = t

(* Every send_request that has registered its id returns, unless the       *)
(* clean-up and a time-out have met in that circular wait: no other        *)
(* combination of mutexes, answers, time-outs and disconnects blocks it.   *)
EveryCallEnds ==
    \A r \in Requests : (r < nextId) ~> (outcome[r] # 0 \/ CircularWait)

=============================================================================
