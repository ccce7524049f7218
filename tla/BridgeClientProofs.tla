------------------------- MODULE BridgeClientProofs -------------------------
(***************************************************************************)
(* Proofs about the DLL, for any threads, requests, handles and windows.   *)
(*                                                                         *)
(* BridgeClient: its types, that the pending map holds calls in progress   *)
(* only, and that the client and the server together implement RpcChannel. *)
(* XfsDll: its types, and that events reach only windows of a handle that  *)
(* is bound to their device.                                               *)
(***************************************************************************)
EXTENDS BridgeClient, XfsDll, SequenceTheorems, TLAPS

(* Between make_id and the return of send_request.                         *)
InCall(t) == pc[t] \in {"send", "unregister", "wait", "expire"}

(* A call in progress has an id of its own and no outcome yet, and the ids *)
(* to come have none either.                                               *)
OwnIds ==
    /\ \A r \in Requests : r >= nextId => outcome[r] = 0
    /\ \A t \in Threads : InCall(t) => id[t] \in 1 .. nextId - 1 /\ outcome[id[t]] = 0
    /\ \A t, u \in Threads : InCall(t) /\ InCall(u) /\ id[t] = id[u] => t = u

(* A request is sent once, after it was registered, and executed once.     *)
SentOnce ==
    /\ toServer \union executed \subseteq 1 .. nextId - 1
    /\ toServer \intersect executed = {}
    /\ \A t \in Threads : pc[t] = "send" => id[t] \notin toServer \union executed

(* A response exists only of an executed request, wherever it is: on its   *)
(* way, with the reader, or in its slot.                                   *)
OnlyAnswers ==
    /\ \A i \in 1 .. Len(toClient) : toClient[i] # 0 => toClient[i] \in executed
    /\ reader = "deliver" => current \in executed
    /\ \A r \in Requests : slot[r] \in {0, r, ERR_INTERNAL_ERROR}
    /\ \A r \in Requests : slot[r] = r => r \in executed

(* What is in the map has not been answered; what the reader took out to   *)
(* answer is not in it; and nothing is known of ids to come.               *)
SlotsOpen ==
    /\ \A r \in pending : slot[r] = 0
    /\ reader = "deliver" => current \notin pending
    /\ reader \in {"deliver", "wake"} => current < nextId
    /\ \A r \in Requests : r >= nextId => slot[r] = 0

(* One thread connects, once: the reader runs from then on.                *)
ConnectOnce ==
    /\ sock = "none" <=> reader = "none"
    /\ bridge = "connected" => sock # "none"
    /\ \A t \in Threads : pc[t] = "connect" => sock = "none" /\ bridge = "created"
    /\ \A t, u \in Threads : pc[t] = "connect" /\ pc[u] = "connect" => t = u

ChannelInv == PendingIsOwned /\ OwnIds /\ SentOnce /\ OnlyAnswers /\ SlotsOpen /\ ConnectOnce

ThreadStep(t) == EnsureBridge(t) \/ BridgeExists(t) \/ CallStep(t)

-----------------------------------------------------------------------------
(* Frames are numbers, whatever is read from or added to the stream.       *)
LEMMA FrameTypes ==
    ASSUME TypeOK
    PROVE  /\ toClient # <<>> => /\ Tail(toClient) \in Seq(0 .. MaxRequest)
                                /\ Head(toClient) = toClient[1] /\ Head(toClient) \in 0 .. MaxRequest
           /\ \A f \in 0 .. MaxRequest : Append(toClient, f) \in Seq(0 .. MaxRequest)
           /\ \A n \in 0 .. Len(toClient) : SubSeq(toClient, 1, n) \in Seq(0 .. MaxRequest)
BY BridgeAssumption DEF TypeOK

LEMMA TypeInit == Init => TypeOK
<1> SUFFICES ASSUME Init PROVE TypeOK
  OBVIOUS
<1> USE BridgeAssumption DEF Init
<1>1. pc \in [Threads -> {"idle", "connect", "install", "call", "send", "unregister", "wait", "expire"}]
  OBVIOUS
<1>2. /\ slotMtx \in [Requests -> Owners]
      /\ slot \in [Requests -> Results]
      /\ outcome \in [Requests -> Results]
  BY DEF Owners, Results
<1>3. toClient \in Seq(0 .. MaxRequest)
  OBVIOUS
<1>4. current # 0 <=> reader \in {"deliver", "wake"}
  OBVIOUS
<1>5. /\ pendingMtx \in Owners /\ pending \subseteq Requests
      /\ toServer \subseteq Requests /\ executed \subseteq Requests
  BY DEF Owners
<1>6. /\ current \in 0 .. MaxRequest /\ nextId \in 1 .. MaxRequest + 1
      /\ events \in 0 .. MaxEvent /\ posted \in Nat
      /\ id \in [Threads -> 0 .. MaxRequest]
  OBVIOUS
<1> QED
  BY <1>1, <1>2, <1>3, <1>4, <1>5, <1>6 DEF TypeOK

(* Every step keeps the types; a thread that sends has an id, and nobody   *)
(* connects while the reader is at a slot.                                 *)
LEMMA TypeStep ==
    ASSUME TypeOK, ConnectOnce, OwnIds, [Next]_vars
    PROVE  TypeOK'
<1> USE BridgeAssumption
<1>1. ASSUME NEW t \in Threads, EnsureBridge(t) \/ BridgeExists(t) \/ CallStep(t) PROVE TypeOK'
  <2>1. CASE EnsureBridge(t)
    BY <2>1 DEF EnsureBridge, TypeOK, Results, Owners, Requests, connVars, callVars, lockVars, readVars, wireVars
  <2>2. CASE BridgeExists(t)
    BY <2>2 DEF BridgeExists, TypeOK, Results, Owners, Requests, connVars, callVars, lockVars, readVars, wireVars
  <2>3. CASE Connect(t)
    <3>1. current = 0
      BY <2>3 DEF Connect, ConnectOnce, TypeOK
    <3>2. current' # 0 <=> reader' \in {"deliver", "wake"}
      BY <2>3, <3>1 DEF Connect
    <3> QED
      BY <2>3, <3>2 DEF Connect, TypeOK, connVars, callVars, lockVars, readVars, wireVars
  <2>4. CASE InstallHandler(t)
    BY <2>4 DEF InstallHandler, TypeOK, Results, Owners, Requests, connVars, callVars, lockVars, readVars, wireVars
  <2>5. CASE RegisterRequest(t)
    BY <2>5 DEF RegisterRequest, TypeOK, Results, Owners, Requests, connVars, callVars, lockVars, readVars, wireVars
  <2>6. CASE SendOk(t)
    <3>1. id[t] \in Requests
      BY <2>6 DEF SendOk, OwnIds, InCall, TypeOK, Requests
    <3>2. toServer' \subseteq Requests
      BY <2>6, <3>1 DEF SendOk, TypeOK
    <3> QED
      BY <2>6, <3>2 DEF SendOk, TypeOK, connVars, callVars, lockVars, readVars, wireVars
  <2>7. CASE SendFails(t)
    BY <2>7 DEF SendFails, TypeOK, Results, Owners, Requests, connVars, callVars, lockVars, readVars, wireVars
  <2>8. CASE Unregister(t)
    BY <2>8 DEF Unregister, Back, TypeOK, Results, Owners, Requests, connVars, callVars, lockVars, readVars, wireVars
  <2>9. CASE Woken(t)
    BY <2>9, ZenonT(40) DEF Woken, Back, TypeOK, Results, Owners, Requests, connVars, callVars, lockVars, readVars, wireVars
  <2>10. CASE TimeOut(t)
    BY <2>10, ZenonT(40) DEF TimeOut, TypeOK, Results, Owners, Requests, connVars, callVars, lockVars, readVars, wireVars
  <2>11. CASE Expire(t)
    BY <2>11, ZenonT(40) DEF Expire, Back, TypeOK, Results, Owners, Requests, connVars, callVars, lockVars, readVars, wireVars
  <2> QED
    BY <1>1, <2>1, <2>2, <2>3, <2>4, <2>5, <2>6, <2>7, <2>8, <2>9, <2>10, <2>11 DEF CallStep
<1>2. CASE ReadResponse
  <2>1. /\ toClient' \in Seq(0 .. MaxRequest) /\ current' \in 0 .. MaxRequest
        /\ pending' \subseteq Requests
    BY <1>2, FrameTypes DEF ReadResponse, TypeOK
  <2>2. /\ reader' \in {"read", "deliver"}
        /\ current' # 0 <=> reader' \in {"deliver", "wake"}
    BY <1>2 DEF ReadResponse, TypeOK, Requests
  <2> QED
    BY <1>2, <2>1, <2>2 DEF ReadResponse, TypeOK, connVars, callVars, lockVars, readVars, wireVars
<1>3. CASE Deliver
  <2>1. current \in Requests
    BY <1>3 DEF Deliver, TypeOK, Requests
  <2>2. slot' \in [Requests -> Results]
    BY <1>3, <2>1 DEF Deliver, TypeOK, Results
  <2>3. current' # 0 <=> reader' \in {"deliver", "wake"}
    BY <1>3 DEF Deliver
  <2> QED
    BY <1>3, <2>2, <2>3 DEF Deliver, TypeOK, connVars, callVars, lockVars, readVars, wireVars
<1>4. CASE ReadEvent
  BY <1>4, FrameTypes, SMTT(30) DEF ReadEvent, TypeOK, Results, Owners, Requests, connVars, callVars, lockVars, readVars, wireVars
<1>5. CASE ReadFails
  BY <1>5 DEF ReadFails, TypeOK, Results, Owners, Requests, connVars, callVars, lockVars, readVars, wireVars
<1>6. CASE DrainLock
  BY <1>6 DEF DrainLock, TypeOK, Results, Owners, Requests, connVars, callVars, lockVars, readVars, wireVars
<1>7. CASE DrainNext
  <2>1. current' \in Requests
    BY <1>7 DEF DrainNext, TypeOK
  <2>2. current' # 0 <=> reader' \in {"deliver", "wake"}
    BY <1>7, <2>1 DEF DrainNext, Requests
  <2>3. current' \in 0 .. MaxRequest
    BY <2>1 DEF Requests
  <2> QED
    BY <1>7, <2>2, <2>3 DEF DrainNext, TypeOK, connVars, callVars, lockVars, readVars, wireVars
<1>8. CASE DrainWake
  <2>1. current \in Requests
    BY <1>8 DEF DrainWake, TypeOK, Requests
  <2>2. slot' \in [Requests -> Results]
    BY <1>8, <2>1 DEF DrainWake, TypeOK, Results
  <2>3. current' # 0 <=> reader' \in {"deliver", "wake"}
    BY <1>8 DEF DrainWake
  <2> QED
    BY <1>8, <2>2, <2>3 DEF DrainWake, TypeOK, connVars, callVars, lockVars, readVars, wireVars
<1>9. CASE DrainEnds
  BY <1>9 DEF DrainEnds, TypeOK, Results, Owners, Requests, connVars, callVars, lockVars, readVars, wireVars
<1>10. CASE Shutdown
  BY <1>10 DEF Shutdown, TypeOK, Results, Owners, Requests, connVars, callVars, lockVars, readVars, wireVars
<1>11. CASE JoinReader
  BY <1>11 DEF JoinReader, TypeOK, Results, Owners, Requests, connVars, callVars, lockVars, readVars, wireVars
<1>12. ASSUME NEW r \in Requests, HandleFrame(r) PROVE TypeOK'
  <2>1. toClient' \in Seq(0 .. MaxRequest)
    <3>1. Append(toClient, r) \in Seq(0 .. MaxRequest)
      BY FrameTypes DEF Requests
    <3> QED
      BY <1>12, <3>1 DEF HandleFrame, TypeOK
  <2>2. toServer' \subseteq Requests /\ executed' \subseteq Requests
    BY <1>12 DEF HandleFrame, TypeOK
  <2> QED
    BY <1>12, <2>1, <2>2 DEF HandleFrame, TypeOK, connVars, callVars, lockVars, readVars, wireVars
<1>13. CASE OnXfsEvent
  BY <1>13, FrameTypes, SMTT(30) DEF OnXfsEvent, TypeOK, Requests, connVars, callVars, lockVars, readVars, wireVars
<1>14. CASE ConnectionLost
  <2>1. toServer' \subseteq Requests /\ toClient' \in Seq(0 .. MaxRequest)
    BY <1>14, FrameTypes DEF ConnectionLost, TypeOK
  <2> QED
    BY <1>14, <2>1 DEF ConnectionLost, TypeOK, connVars, callVars, lockVars, readVars, wireVars
<1>15. CASE UNCHANGED vars
  BY <1>15 DEF vars, TypeOK, connVars, callVars, lockVars, readVars, wireVars
<1> QED
  BY <1>1, <1>2, <1>3, <1>4, <1>5, <1>6, <1>7, <1>8, <1>9, <1>10, <1>11, <1>12, <1>13, <1>14, <1>15
     DEF Next, ReaderStep

-----------------------------------------------------------------------------
(* A thread's step is about its own call only.                             *)
LEMMA OtherThreads ==
    ASSUME TypeOK, NEW t \in Threads, ThreadStep(t)
    PROVE  \A u \in Threads : u # t => pc'[u] = pc[u] /\ id'[u] = id[u]
<1>1. CASE EnsureBridge(t) \/ BridgeExists(t) \/ Connect(t) \/ InstallHandler(t)
  BY <1>1 DEF EnsureBridge, BridgeExists, Connect, InstallHandler, TypeOK, callVars
<1>2. CASE RegisterRequest(t) \/ SendOk(t) \/ SendFails(t) \/ TimeOut(t)
  BY <1>2 DEF RegisterRequest, SendOk, SendFails, TimeOut, TypeOK, callVars
<1>3. CASE Unregister(t) \/ Woken(t) \/ Expire(t)
  BY <1>3 DEF Unregister, Woken, Expire, Back, TypeOK
<1> QED
  BY <1>1, <1>2, <1>3 DEF ThreadStep, CallStep

(* The reader, the server and the network leave the calls alone and add    *)
(* nothing to the pending map.                                             *)
LEMMA Quiet ==
    ASSUME [Next]_vars, \A t \in Threads : ~ ThreadStep(t)
    PROVE  /\ UNCHANGED <<pc, id, nextId, outcome, slotMtx>>
           /\ pending' \subseteq pending
<1>1. CASE ReaderStep
  BY <1>1 DEF ReaderStep, ReadResponse, Deliver, ReadEvent, ReadFails, DrainLock,
              DrainNext, DrainWake, DrainEnds, callVars, lockVars
<1>2. CASE Shutdown \/ JoinReader \/ OnXfsEvent \/ ConnectionLost \/ UNCHANGED vars
  BY <1>2 DEF Shutdown, JoinReader, OnXfsEvent, ConnectionLost, vars, callVars, lockVars
<1>3. CASE \E r \in Requests : HandleFrame(r)
  BY <1>3 DEF HandleFrame, callVars, lockVars
<1> QED
  BY <1>1, <1>2, <1>3 DEF Next, ThreadStep

LEMMA ConnectStep ==
    ASSUME TypeOK, ConnectOnce, [Next]_vars
    PROVE  ConnectOnce'
<1>1. ASSUME NEW t \in Threads, ThreadStep(t) PROVE ConnectOnce'
  <2>1. CASE EnsureBridge(t)
    <3>1. \A u \in Threads : pc[u] # "connect"
      BY <2>1 DEF EnsureBridge, ConnectOnce
    <3> QED
      BY <2>1, <3>1 DEF EnsureBridge, ConnectOnce, TypeOK, readVars
  <2>2. CASE Connect(t)
    <3>1. \A u \in Threads : pc'[u] # "connect"
      BY <2>2 DEF Connect, ConnectOnce, TypeOK
    <3> QED
      BY <2>2, <3>1 DEF Connect, ConnectOnce
  <2>3. CASE BridgeExists(t) \/ InstallHandler(t)
    BY <2>3 DEF BridgeExists, InstallHandler, ConnectOnce, TypeOK, connVars, readVars
  <2>4. CASE RegisterRequest(t) \/ SendOk(t) \/ SendFails(t) \/ TimeOut(t)
    BY <2>4 DEF RegisterRequest, SendOk, SendFails, TimeOut, ConnectOnce, TypeOK, connVars, readVars
  <2>5. CASE Unregister(t) \/ Woken(t) \/ Expire(t)
    <3>1. pc'[t] = "idle" /\ UNCHANGED <<sock, bridge, reader>>
      BY <2>5 DEF Unregister, Woken, Expire, Back, TypeOK, connVars, readVars
    <3>2. \A u \in Threads : pc'[u] = "connect" => pc[u] = "connect"
      BY <1>1, <3>1, OtherThreads
    <3> QED
      BY <3>1, <3>2 DEF ConnectOnce
  <2> QED
    BY <1>1, <2>1, <2>2, <2>3, <2>4, <2>5 DEF ThreadStep, CallStep
<1>2. ASSUME \A t \in Threads : ~ ThreadStep(t) PROVE ConnectOnce'
  <2>1. pc' = pc
    BY <1>2, Quiet
  <2>2. CASE ReaderStep
    <3>1. sock' = sock /\ bridge' = bridge /\ reader # "none" /\ reader' # "none"
      BY <2>2 DEF ReaderStep, ReadResponse, Deliver, ReadEvent, ReadFails, DrainLock,
                  DrainNext, DrainWake, DrainEnds, connVars, readVars
    <3> QED
      BY <2>1, <3>1 DEF ConnectOnce
  <2>3. CASE Shutdown \/ JoinReader
    BY <2>1, <2>3 DEF Shutdown, JoinReader, ConnectOnce, readVars
  <2>4. CASE ConnectionLost
    BY <2>1, <2>4 DEF ConnectionLost, ConnectOnce, readVars
  <2>5. CASE OnXfsEvent \/ UNCHANGED vars \/ \E r \in Requests : HandleFrame(r)
    <3>1. UNCHANGED <<sock, bridge, reader>>
      BY <2>5 DEF OnXfsEvent, HandleFrame, vars, connVars, readVars
    <3> QED
      BY <2>1, <3>1 DEF ConnectOnce
  <2> QED
    BY <1>2, <2>2, <2>3, <2>4, <2>5 DEF Next, ThreadStep
<1> QED
  BY <1>1, <1>2

(* A registered request is its caller's until the call is over.            *)
LEMMA PendingStep ==
    ASSUME TypeOK, PendingIsOwned, OwnIds, SlotsOpen, [Next]_vars
    PROVE  PendingIsOwned'
<1>1. ASSUME NEW t \in Threads, ThreadStep(t) PROVE PendingIsOwned'
  <2>0. \A u \in Threads : u # t => pc'[u] = pc[u] /\ id'[u] = id[u]
    BY <1>1, OtherThreads
  <2> SUFFICES ASSUME NEW r \in pending'
               PROVE  \E u \in Threads : id'[u] = r /\ pc'[u] \in {"send", "unregister", "wait", "expire"}
    BY DEF PendingIsOwned
  <2>1. CASE EnsureBridge(t) \/ BridgeExists(t) \/ Connect(t) \/ InstallHandler(t)
    <3>1. r \in pending /\ ~ InCall(t)
      BY <2>1 DEF EnsureBridge, BridgeExists, Connect, InstallHandler, InCall, lockVars
    <3> QED
      BY <2>0, <3>1 DEF PendingIsOwned, InCall
  <2>2. CASE RegisterRequest(t)
    <3>1. CASE r = nextId
      BY <2>2, <3>1 DEF RegisterRequest, TypeOK
    <3>2. CASE r # nextId
      <4>1. r \in pending /\ ~ InCall(t)
        BY <2>2, <3>2 DEF RegisterRequest, InCall
      <4> QED
        BY <2>0, <4>1 DEF PendingIsOwned, InCall
    <3> QED
      BY <3>1, <3>2
  <2>3. CASE SendOk(t) \/ SendFails(t) \/ TimeOut(t)
    <3>1. r \in pending /\ id' = id /\ pc'[t] \in {"send", "unregister", "wait", "expire"}
      BY <2>3 DEF SendOk, SendFails, TimeOut, TypeOK, lockVars
    <3> QED
      BY <2>0, <3>1 DEF PendingIsOwned
  <2>4. CASE Unregister(t) \/ Expire(t)
    <3>1. r \in pending /\ r # id[t]
      BY <2>4 DEF Unregister, Expire
    <3> QED
      BY <2>0, <3>1 DEF PendingIsOwned
  <2>5. CASE Woken(t)
    <3>1. r \in pending /\ slot[id[t]] # 0
      BY <2>5 DEF Woken, lockVars
    <3>2. r # id[t]
      BY <3>1 DEF SlotsOpen
    <3> QED
      BY <2>0, <3>1, <3>2 DEF PendingIsOwned
  <2> QED
    BY <1>1, <2>1, <2>2, <2>3, <2>4, <2>5 DEF ThreadStep, CallStep
<1>2. ASSUME \A t \in Threads : ~ ThreadStep(t) PROVE PendingIsOwned'
  BY <1>2, Quiet DEF PendingIsOwned
<1> QED
  BY <1>1, <1>2

(* make_id gives a number no other call has.                               *)
LEMMA OwnIdsStep ==
    ASSUME TypeOK, OwnIds, [Next]_vars
    PROVE  OwnIds'
<1> USE BridgeAssumption
<1>1. ASSUME NEW t \in Threads, ThreadStep(t) PROVE OwnIds'
  <2>0. \A u \in Threads : u # t => pc'[u] = pc[u] /\ id'[u] = id[u]
    BY <1>1, OtherThreads
  <2>1. CASE EnsureBridge(t) \/ BridgeExists(t) \/ Connect(t) \/ InstallHandler(t)
    <3>1. ~ InCall(t)' /\ nextId' = nextId /\ outcome' = outcome
      BY <2>1 DEF EnsureBridge, BridgeExists, Connect, InstallHandler, InCall, TypeOK
    <3> QED
      BY <2>0, <3>1 DEF OwnIds, InCall
  <2>2. CASE RegisterRequest(t)
    <3>1. /\ id'[t] = nextId /\ nextId' = nextId + 1 /\ outcome' = outcome
          /\ nextId \in Requests
      BY <2>2 DEF RegisterRequest, TypeOK, Requests
    <3>2. \A u \in Threads : InCall(u)' /\ u # t => InCall(u) /\ id'[u] = id[u]
      BY <2>0 DEF InCall
    <3>3. \A u \in Threads : InCall(u)' => id'[u] \in 1 .. nextId' - 1 /\ outcome'[id'[u]] = 0
      BY <3>1, <3>2 DEF OwnIds, TypeOK, Requests
    <3>4. \A u \in Threads : InCall(u)' /\ u # t => id'[u] # nextId
      BY <3>2 DEF OwnIds, TypeOK
    <3>5. \A u, v \in Threads : InCall(u)' /\ InCall(v)' /\ id'[u] = id'[v] => u = v
      BY <3>1, <3>2, <3>4 DEF OwnIds
    <3>6. \A r \in Requests : r >= nextId' => outcome'[r] = 0
      BY <3>1 DEF OwnIds, TypeOK, Requests
    <3> QED
      BY <3>3, <3>5, <3>6 DEF OwnIds
  <2>3. CASE SendOk(t) \/ SendFails(t) \/ TimeOut(t)
    <3>1. /\ InCall(t) /\ id'[t] = id[t] /\ nextId' = nextId /\ outcome' = outcome
      BY <2>3 DEF SendOk, SendFails, TimeOut, InCall
    <3>2. \A u \in Threads : InCall(u)' => InCall(u) /\ id'[u] = id[u]
      BY <2>0, <3>1 DEF InCall
    <3> QED
      BY <3>1, <3>2 DEF OwnIds
  <2>4. CASE Unregister(t) \/ Woken(t) \/ Expire(t)
    <3>1. /\ InCall(t) /\ ~ InCall(t)' /\ nextId' = nextId
          /\ \A r \in Requests : r # id[t] => outcome'[r] = outcome[r]
      BY <2>4 DEF Unregister, Woken, Expire, Back, InCall, TypeOK
    <3>2. \A u \in Threads : InCall(u)' => InCall(u) /\ id'[u] = id[u] /\ id[u] # id[t]
      BY <2>0, <3>1 DEF InCall, OwnIds
    <3>3. \A u \in Threads : InCall(u) => id[u] \in Requests /\ id[u] < nextId
      BY DEF OwnIds, TypeOK, Requests
    <3>4. \A u \in Threads : InCall(u)' => id'[u] \in 1 .. nextId' - 1 /\ outcome'[id'[u]] = 0
      BY <3>1, <3>2, <3>3 DEF OwnIds
    <3>5. \A r \in Requests : r >= nextId' => outcome'[r] = 0
      BY <3>1, <3>3 DEF OwnIds, TypeOK, Requests
    <3> QED
      BY <3>2, <3>4, <3>5 DEF OwnIds
  <2> QED
    BY <1>1, <2>1, <2>2, <2>3, <2>4 DEF ThreadStep, CallStep
<1>2. ASSUME \A t \in Threads : ~ ThreadStep(t) PROVE OwnIds'
  BY <1>2, Quiet DEF OwnIds, InCall
<1> QED
  BY <1>1, <1>2

(* A request is handed to the server by its own call, and executed when it *)
(* leaves the server's queue.                                              *)
LEMMA SentStep ==
    ASSUME TypeOK, OwnIds, SentOnce, [Next]_vars
    PROVE  SentOnce'
<1> USE BridgeAssumption
<1>1. ASSUME NEW t \in Threads, ThreadStep(t) PROVE SentOnce'
  <2>0. \A u \in Threads : u # t => pc'[u] = pc[u] /\ id'[u] = id[u]
    BY <1>1, OtherThreads
  <2>1. CASE RegisterRequest(t)
    <3>1. /\ id'[t] = nextId /\ nextId' = nextId + 1
          /\ toServer' = toServer /\ executed' = executed
      BY <2>1 DEF RegisterRequest, TypeOK, wireVars
    <3>2. nextId \notin toServer \union executed
      BY DEF SentOnce, TypeOK
    <3>3. toServer' \union executed' \subseteq 1 .. nextId' - 1
      BY <3>1 DEF SentOnce, TypeOK
    <3> QED
      BY <2>0, <3>1, <3>2, <3>3 DEF SentOnce
  <2>2. CASE SendOk(t)
    <3>1. /\ pc[t] = "send" /\ pc'[t] = "wait" /\ id' = id /\ nextId' = nextId
          /\ executed' = executed /\ toServer' \subseteq toServer \union {id[t]}
      BY <2>2 DEF SendOk, TypeOK
    <3>2. id[t] \in 1 .. nextId - 1 /\ id[t] \notin executed
      BY <3>1 DEF OwnIds, InCall, SentOnce
    <3>3. \A u \in Threads : pc'[u] = "send" => pc[u] = "send" /\ id[u] # id[t]
      BY <2>0, <3>1 DEF OwnIds, InCall
    <3> QED
      BY <3>1, <3>2, <3>3 DEF SentOnce
  <2>3. CASE ~ RegisterRequest(t) /\ ~ SendOk(t)
    <3>1. pc'[t] # "send" /\ UNCHANGED <<nextId, toServer, executed>>
      <4>1. CASE EnsureBridge(t) \/ BridgeExists(t) \/ Connect(t) \/ InstallHandler(t)
        BY <4>1 DEF EnsureBridge, BridgeExists, Connect, InstallHandler, TypeOK, wireVars
      <4>2. CASE SendFails(t) \/ TimeOut(t) \/ Unregister(t) \/ Woken(t) \/ Expire(t)
        BY <4>2 DEF SendFails, TimeOut, Unregister, Woken, Expire, Back, TypeOK, wireVars
      <4> QED
        BY <1>1, <2>3, <4>1, <4>2 DEF ThreadStep, CallStep
    <3> QED
      BY <2>0, <3>1 DEF SentOnce
  <2> QED
    BY <2>1, <2>2, <2>3
<1>2. ASSUME \A t \in Threads : ~ ThreadStep(t) PROVE SentOnce'
  <2>1. UNCHANGED <<pc, id, nextId>>
    BY <1>2, Quiet
  <2>2. ASSUME NEW r \in Requests, HandleFrame(r) PROVE SentOnce'
    BY <2>1, <2>2 DEF HandleFrame, SentOnce
  <2>3. CASE ReaderStep \/ Shutdown \/ JoinReader \/ OnXfsEvent \/ ConnectionLost \/ UNCHANGED vars
    <3>1. toServer' \subseteq toServer /\ executed' = executed
      BY <2>3 DEF ReaderStep, ReadResponse, Deliver, ReadEvent, ReadFails, DrainLock, DrainNext,
                  DrainWake, DrainEnds, Shutdown, JoinReader, OnXfsEvent, ConnectionLost, vars, wireVars
    <3> QED
      BY <2>1, <3>1 DEF SentOnce
  <2> QED
    BY <1>2, <2>2, <2>3 DEF Next, ThreadStep
<1> QED
  BY <1>1, <1>2

(* Only an execution makes a response.                                     *)
LEMMA AnswersStep ==
    ASSUME TypeOK, OnlyAnswers, [Next]_vars
    PROVE  OnlyAnswers'
<1> USE BridgeAssumption
<1>1. ASSUME NEW t \in Threads, ThreadStep(t) PROVE OnlyAnswers'
  <2>1. /\ UNCHANGED <<toClient, executed, slot, current>>
        /\ reader' = "deliver" => reader = "deliver"
    <3>1. CASE EnsureBridge(t) \/ BridgeExists(t) \/ Connect(t) \/ InstallHandler(t)
      BY <3>1 DEF EnsureBridge, BridgeExists, Connect, InstallHandler, lockVars, readVars, wireVars
    <3>2. CASE RegisterRequest(t) \/ SendOk(t) \/ SendFails(t) \/ TimeOut(t)
      BY <3>2 DEF RegisterRequest, SendOk, SendFails, TimeOut, lockVars, readVars, wireVars
    <3>3. CASE Unregister(t) \/ Woken(t) \/ Expire(t)
      BY <3>3 DEF Unregister, Woken, Expire, Back, lockVars, readVars, wireVars
    <3> QED
      BY <1>1, <3>1, <3>2, <3>3 DEF ThreadStep, CallStep
  <2> QED
    BY <2>1 DEF OnlyAnswers
<1>2. CASE ReadResponse
  <2>1. /\ UNCHANGED <<executed, slot>> /\ toClient # <<>> /\ toClient' = Tail(toClient)
        /\ reader' = "deliver" => current' = toClient[1] /\ current' \in Requests
    BY <1>2, FrameTypes DEF ReadResponse, TypeOK
  <2>2. \A i \in 1 .. Len(toClient') : i + 1 \in 1 .. Len(toClient) /\ toClient'[i] = toClient[i + 1]
    BY <2>1 DEF TypeOK
  <2>3. reader' = "deliver" => current' \in executed
    BY <2>1 DEF OnlyAnswers, TypeOK, Requests
  <2>4. \A i \in 1 .. Len(toClient') : toClient'[i] # 0 => toClient'[i] \in executed'
    BY <2>1, <2>2 DEF OnlyAnswers
  <2> QED
    BY <2>1, <2>3, <2>4 DEF OnlyAnswers
<1>3. CASE ReadEvent
  <2>1. /\ UNCHANGED <<executed, slot, reader, current>>
        /\ toClient # <<>> /\ toClient' = Tail(toClient)
    BY <1>3 DEF ReadEvent, lockVars, readVars
  <2>2. \A i \in 1 .. Len(toClient') : i + 1 \in 1 .. Len(toClient) /\ toClient'[i] = toClient[i + 1]
    BY <2>1 DEF TypeOK
  <2> QED
    BY <2>1, <2>2 DEF OnlyAnswers
<1>4. CASE Deliver
  <2>1. current \in Requests /\ current \in executed
    BY <1>4 DEF Deliver, OnlyAnswers, TypeOK, Requests
  <2>2. \A r \in Requests : slot'[r] = IF r = current THEN r ELSE slot[r]
    BY <1>4 DEF Deliver, TypeOK
  <2> QED
    BY <1>4, <2>1, <2>2 DEF Deliver, OnlyAnswers, wireVars
<1>5. CASE DrainWake
  <2>1. \A r \in Requests : slot'[r] = IF r = current THEN ERR_INTERNAL_ERROR ELSE slot[r]
    BY <1>5 DEF DrainWake, TypeOK
  <2>2. \A r \in Requests : r # ERR_INTERNAL_ERROR
    BY DEF ERR_INTERNAL_ERROR, Requests
  <2> QED
    BY <1>5, <2>1, <2>2 DEF DrainWake, OnlyAnswers, wireVars
<1>6. CASE ReadFails \/ DrainLock \/ DrainNext \/ DrainEnds \/ Shutdown \/ JoinReader \/ UNCHANGED vars
  <2>1. /\ UNCHANGED <<toClient, executed, slot>>
        /\ reader' = "deliver" => reader = "deliver" /\ current' = current
    BY <1>6 DEF ReadFails, DrainLock, DrainNext, DrainEnds, Shutdown, JoinReader,
                vars, lockVars, readVars, wireVars
  <2> QED
    BY <2>1 DEF OnlyAnswers
<1>7. ASSUME NEW r \in Requests, HandleFrame(r) PROVE OnlyAnswers'
  <2>1. /\ UNCHANGED <<slot, reader, current>> /\ executed' = executed \union {r}
        /\ toClient' = Append(toClient, r) \/ toClient' = toClient
    BY <1>7 DEF HandleFrame, lockVars, readVars
  <2>2. r \in 0 .. MaxRequest /\ toClient \in Seq(0 .. MaxRequest)
    BY DEF TypeOK, Requests
  <2>3. \A i \in 1 .. Len(toClient') :
           toClient'[i] = r \/ (i \in 1 .. Len(toClient) /\ toClient'[i] = toClient[i])
    BY <2>1, <2>2, SMTT(30)
  <2>4. \A i \in 1 .. Len(toClient') : toClient'[i] # 0 => toClient'[i] \in executed'
    BY <2>1, <2>3 DEF OnlyAnswers
  <2> QED
    BY <2>1, <2>4 DEF OnlyAnswers
<1>8. CASE OnXfsEvent
  <2>1. UNCHANGED <<executed, slot, reader, current>> /\ toClient' = Append(toClient, 0)
    BY <1>8 DEF OnXfsEvent, lockVars, readVars
  <2>2. 0 \in 0 .. MaxRequest /\ toClient \in Seq(0 .. MaxRequest)
    BY DEF TypeOK
  <2>3. \A i \in 1 .. Len(toClient') :
           toClient'[i] = 0 \/ (i \in 1 .. Len(toClient) /\ toClient'[i] = toClient[i])
    BY <2>1, <2>2
  <2> QED
    BY <2>1, <2>3 DEF OnlyAnswers
<1>9. CASE ConnectionLost
  <2>1. UNCHANGED <<executed, slot, reader, current>>
    BY <1>9 DEF ConnectionLost, lockVars, readVars
  <2>2. PICK n \in 0 .. Len(toClient) : toClient' = SubSeq(toClient, 1, n)
    BY <1>9 DEF ConnectionLost
  <2>3. \A i \in 1 .. Len(toClient') : i \in 1 .. Len(toClient) /\ toClient'[i] = toClient[i]
    BY <2>2 DEF TypeOK
  <2> QED
    BY <2>1, <2>3 DEF OnlyAnswers
<1> QED
  BY <1>1, <1>2, <1>3, <1>4, <1>5, <1>6, <1>7, <1>8, <1>9 DEF Next, ThreadStep, ReaderStep

(* A request in the map belongs to a call, so its id has been given out.   *)
LEMMA PendingKnown ==
    ASSUME TypeOK, PendingIsOwned, OwnIds
    PROVE  \A r \in pending : r < nextId
BY DEF PendingIsOwned, OwnIds, InCall, TypeOK

(* The reader takes a request out of the map before it answers it.         *)
LEMMA SlotsStep ==
    ASSUME TypeOK, PendingIsOwned, OwnIds, SlotsOpen, [Next]_vars
    PROVE  SlotsOpen'
<1> USE BridgeAssumption
<1>1. ASSUME NEW t \in Threads, ThreadStep(t) PROVE SlotsOpen'
  <2>1. CASE RegisterRequest(t)
    <3>1. /\ UNCHANGED <<slot, reader, current>> /\ pending' = pending \union {nextId}
          /\ nextId' = nextId + 1 /\ nextId \in Requests
      BY <2>1 DEF RegisterRequest, readVars, TypeOK, Requests
    <3>2. \A r \in pending' : slot'[r] = 0
      BY <3>1 DEF SlotsOpen, TypeOK
    <3>3. reader' = "deliver" => current' \notin pending'
      BY <3>1 DEF SlotsOpen, TypeOK
    <3>4. reader' \in {"deliver", "wake"} => current' < nextId'
      BY <3>1 DEF SlotsOpen, TypeOK
    <3>5. \A r \in Requests : r >= nextId' => slot'[r] = 0
      BY <3>1 DEF SlotsOpen, TypeOK, Requests
    <3> QED
      BY <3>2, <3>3, <3>4, <3>5 DEF SlotsOpen
  <2>2. CASE ~ RegisterRequest(t)
    <3>1. /\ UNCHANGED <<slot, current, nextId>> /\ pending' \subseteq pending
          /\ reader' # reader => reader' = "read"
      <4>1. CASE EnsureBridge(t) \/ BridgeExists(t) \/ Connect(t) \/ InstallHandler(t)
        BY <4>1 DEF EnsureBridge, BridgeExists, Connect, InstallHandler, lockVars, readVars
      <4>2. CASE SendOk(t) \/ SendFails(t) \/ TimeOut(t)
        BY <4>2 DEF SendOk, SendFails, TimeOut, lockVars, readVars
      <4>3. CASE Unregister(t) \/ Woken(t) \/ Expire(t)
        BY <4>3 DEF Unregister, Woken, Expire, Back, lockVars, readVars
      <4> QED
        BY <1>1, <2>2, <4>1, <4>2, <4>3 DEF ThreadStep, CallStep
    <3> QED
      BY <3>1 DEF SlotsOpen
  <2> QED
    BY <2>1, <2>2
<1>2. ASSUME \A t \in Threads : ~ ThreadStep(t) PROVE SlotsOpen'
  <2>0. nextId' = nextId /\ pending' \subseteq pending
    BY <1>2, Quiet
  <2>1. CASE ReadResponse
    <3>1. slot' = slot
      BY <2>1 DEF ReadResponse
    <3>2. \/ reader' = "deliver" /\ current' \in pending /\ current' \notin pending'
          \/ reader' = reader /\ current' = current
      BY <2>1 DEF ReadResponse
    <3> QED
      BY <2>0, <3>1, <3>2, PendingKnown DEF SlotsOpen
  <2>2. CASE Deliver \/ DrainWake
    <3>1. current \in Requests /\ current < nextId /\ reader' \notin {"deliver", "wake"}
      BY <2>2 DEF Deliver, DrainWake, SlotsOpen, TypeOK, Requests
    <3>2. current \notin pending' /\ \A r \in Requests : r # current => slot'[r] = slot[r]
      BY <2>2 DEF Deliver, DrainWake, SlotsOpen, TypeOK
    <3>3. \A r \in pending' : slot'[r] = 0
      BY <2>0, <3>2 DEF SlotsOpen, TypeOK
    <3>4. \A r \in Requests : r >= nextId' => slot'[r] = 0
      BY <2>0, <3>1, <3>2 DEF SlotsOpen, TypeOK, Requests
    <3> QED
      BY <3>1, <3>3, <3>4 DEF SlotsOpen
  <2>3. CASE DrainNext
    <3>1. slot' = slot /\ pending' = pending /\ reader' = "wake" /\ current' \in pending
      BY <2>3 DEF DrainNext, lockVars
    <3> QED
      BY <2>0, <3>1, PendingKnown DEF SlotsOpen
  <2>4. CASE ReadEvent \/ ReadFails \/ DrainLock \/ DrainEnds
    <3>1. /\ slot' = slot /\ current' = current
          /\ reader' # reader => reader' \notin {"deliver", "wake"}
      BY <2>4 DEF ReadEvent, ReadFails, DrainLock, DrainEnds, lockVars, readVars
    <3> QED
      BY <2>0, <3>1 DEF SlotsOpen
  <2>5. CASE \/ Shutdown \/ JoinReader \/ OnXfsEvent \/ ConnectionLost \/ UNCHANGED vars
             \/ \E r \in Requests : HandleFrame(r)
    <3>1. UNCHANGED <<slot, current, reader>>
      BY <2>5 DEF Shutdown, JoinReader, OnXfsEvent, ConnectionLost, HandleFrame, vars, lockVars, readVars
    <3> QED
      BY <2>0, <3>1 DEF SlotsOpen
  <2> QED
    BY <1>2, <2>1, <2>2, <2>3, <2>4, <2>5 DEF Next, ThreadStep, ReaderStep
<1> QED
  BY <1>1, <1>2

LEMMA ChannelInit == Init => ChannelInv
<1> SUFFICES ASSUME Init PROVE ChannelInv
  OBVIOUS
<1> USE BridgeAssumption DEF Init
<1>1. PendingIsOwned /\ OwnIds /\ ConnectOnce
  BY DEF PendingIsOwned, OwnIds, ConnectOnce, InCall
<1>2. SentOnce /\ SlotsOpen
  BY DEF SentOnce, SlotsOpen
<1>3. OnlyAnswers
  BY DEF OnlyAnswers, Requests
<1> QED
  BY <1>1, <1>2, <1>3 DEF ChannelInv

LEMMA InvStep == TypeOK /\ ChannelInv /\ [Next]_vars => TypeOK' /\ ChannelInv'
BY TypeStep, ConnectStep, PendingStep, OwnIdsStep, SentStep, AnswersStep, SlotsStep DEF ChannelInv

(* Every variable of the client and of the server's end keeps its type.    *)
THEOREM BridgeTypeCorrect == Spec => []TypeOK
BY TypeInit, ChannelInit, InvStep, PTL DEF Spec

LEMMA ChannelInvariant == Spec => [](TypeOK /\ ChannelInv)
BY TypeInit, ChannelInit, InvStep, PTL DEF Spec

(* The pending map holds calls in progress and nothing else, whatever the  *)
(* number of threads and however calls, answers, time-outs and the         *)
(* clean-up of a broken connection interleave.                             *)
THEOREM PendingOwned == Spec => []PendingIsOwned
<1>1. ChannelInv => PendingIsOwned
  BY DEF ChannelInv
<1> QED
  BY <1>1, ChannelInvariant, PTL

-----------------------------------------------------------------------------
(* A call returns an error, or the response to its own executed request.   *)
LEMMA ReturnStep ==
    ASSUME TypeOK, ChannelInv, NEW t \in Threads, NEW o \in {ERR_INTERNAL_ERROR, ERR_TIMEOUT, id[t]},
           o = id[t] => id[t] \in executed, InCall(t), Back(t, o)
    PROVE  Channel!Next
<1> DEFINE r == id[t]
<1>1. r \in 1 .. nextId - 1 /\ outcome[r] = 0 /\ r \in 1 .. MaxRequest
  BY BridgeAssumption DEF ChannelInv, OwnIds, TypeOK
<1>2. Channel!Return(r, o)
  BY <1>1 DEF Channel!Return, Back, wireVars
<1> QED
  BY <1>1, <1>2 DEF Channel!Next

LEMMA ChannelSimulation ==
    ASSUME TypeOK, ChannelInv, [Next]_vars
    PROVE  [Channel!Next]_<<1 .. nextId - 1, executed, outcome>>
<1> USE BridgeAssumption
<1>1. ASSUME NEW t \in Threads, ThreadStep(t)
      PROVE  [Channel!Next]_<<1 .. nextId - 1, executed, outcome>>
  <2>1. CASE RegisterRequest(t)
    <3>1. nextId \in 1 .. MaxRequest /\ nextId \notin 1 .. nextId - 1
      BY <2>1 DEF RegisterRequest, TypeOK
    <3>2. 1 .. nextId' - 1 = (1 .. nextId - 1) \union {nextId}
      BY <2>1 DEF RegisterRequest, TypeOK
    <3>3. Channel!Ask(nextId)
      BY <2>1, <3>1, <3>2 DEF RegisterRequest, Channel!Ask, wireVars
    <3> QED
      BY <3>1, <3>3 DEF Channel!Next
  <2>2. CASE Unregister(t)
    BY <2>2, ReturnStep DEF Unregister, InCall, ChannelInv, OwnIds, ERR_INTERNAL_ERROR, TypeOK
  <2>3. CASE Expire(t)
    BY <2>3, ReturnStep DEF Expire, InCall, ChannelInv, OwnIds, ERR_TIMEOUT, TypeOK
  <2>4. CASE Woken(t)
    <3>1. id[t] \in Requests /\ slot[id[t]] # 0 /\ InCall(t) /\ Back(t, slot[id[t]])
      BY <2>4 DEF Woken, InCall, ChannelInv, OwnIds, TypeOK, Requests
    <3>2. /\ slot[id[t]] \in {ERR_INTERNAL_ERROR, ERR_TIMEOUT, id[t]}
          /\ slot[id[t]] = id[t] => id[t] \in executed
      BY <3>1 DEF ChannelInv, OnlyAnswers
    <3> QED
      BY <3>1, <3>2, ReturnStep
  <2>5. CASE EnsureBridge(t) \/ BridgeExists(t) \/ Connect(t) \/ InstallHandler(t)
    BY <2>5 DEF EnsureBridge, BridgeExists, Connect, InstallHandler, wireVars
  <2>6. CASE SendOk(t) \/ SendFails(t) \/ TimeOut(t)
    BY <2>6 DEF SendOk, SendFails, TimeOut, wireVars
  <2> QED
    BY <1>1, <2>1, <2>2, <2>3, <2>4, <2>5, <2>6 DEF ThreadStep, CallStep
<1>2. ASSUME \A t \in Threads : ~ ThreadStep(t)
      PROVE  [Channel!Next]_<<1 .. nextId - 1, executed, outcome>>
  <2>1. UNCHANGED <<nextId, outcome>>
    BY <1>2, Quiet
  <2>2. ASSUME NEW r \in Requests, HandleFrame(r) PROVE Channel!Next
    <3>1. r \in (1 .. nextId - 1) \ executed /\ r \in 1 .. MaxRequest
      BY <2>2 DEF HandleFrame, ChannelInv, SentOnce, Requests
    <3>2. Channel!Execute(r)
      BY <2>1, <2>2, <3>1 DEF HandleFrame, Channel!Execute
    <3> QED
      BY <3>1, <3>2 DEF Channel!Next
  <2>3. CASE ReaderStep \/ Shutdown \/ JoinReader \/ OnXfsEvent \/ ConnectionLost \/ UNCHANGED vars
    <3>1. executed' = executed
      BY <2>3 DEF ReaderStep, ReadResponse, Deliver, ReadEvent, ReadFails, DrainLock, DrainNext,
                  DrainWake, DrainEnds, Shutdown, JoinReader, OnXfsEvent, ConnectionLost, vars, wireVars
    <3> QED
      BY <2>1, <3>1
  <2> QED
    BY <1>2, <2>2, <2>3 DEF Next, ThreadStep
<1> QED
  BY <1>1, <1>2

(* Every behaviour of the client and the server is one of RpcChannel, for  *)
(* any threads and any number of requests: a call ends at most once, with  *)
(* an error or with the answer to its own request, which has been executed *)
(* exactly once.                                                           *)
THEOREM ImplementsRpcChannel == Spec => ImplementsChannel
<1>1. Init => Channel!Init
  BY DEF Init, Channel!Init, Requests
<1>2. TypeOK /\ ChannelInv /\ [Next]_vars => [Channel!Next]_<<1 .. nextId - 1, executed, outcome>>
  BY ChannelSimulation
<1> QED
  BY <1>1, <1>2, ChannelInvariant, PTL DEF Spec, ImplementsChannel, Channel!Spec

-----------------------------------------------------------------------------
(***************************************************************************)
(* The entry points and the EventRouter: XfsDll.                           *)
(***************************************************************************)
(* What a job was begun with still holds when its second step comes,       *)
(* although that step takes another mutex, unless its handle was used out  *)
(* of order meanwhile.                                                     *)
InOrder(t) ==
    LET j == job[t] IN
    /\ j.op # "idle" => j.h \in Handles
    /\ j.op = "open" => j.name \in Devices /\ (services[j.h] = None \/ j.h \in crossed)
    /\ j.op = "register" => /\ j.w \in Windows
                            /\ (services[j.h] = j.name /\ j.name # None) \/ j.h \in crossed
    /\ j.op = "deregister" => j.w \in Windows

JobsInOrder == \A t \in AppThreads : InOrder(t)

OneOpens ==
    \A t, u \in AppThreads :
        t # u /\ job[t].op = "open" /\ job[u].op = "open" /\ job[t].h = job[u].h => job[t].h \in crossed

EventTyped == copied # {} => event.h \in Handles /\ event.d \in Devices

IndexBound == \A d \in Devices : byLogical[d] # None => BoundTo(byLogical[d], d)
CopyBound == copied # {} => stale \/ BoundTo(event.h, event.d)

RouterInv ==
    /\ DllTypeOK /\ JobsInOrder /\ OneOpens /\ EventTyped
    /\ ClosedForgets /\ IndexBound /\ CopyBound

(* A step that leaves every handle bound to what it was bound to.          *)
BoundKept == \A h \in Handles, d \in Devices : BoundTo(h, d) => BoundTo(h, d)'

(* A step of an entry point that thread t is in.                           *)
Ongoing(t) ==
    \/ OpenSucceeds(t) \/ RequestEnds(t)
    \/ clear_service(t) \/ register_window(t) \/ deregister_window(t)

Begins(t, h) ==
    \/ \E d \in Devices : WFPOpen(t, h, d)
    \/ WFPExecute(t, h)
    \/ WFPClose(t, h)
    \/ \E w \in Windows : \E mask \in SUBSET Classes : WFPRegister(t, h, w, mask)
    \/ \E w \in Windows : \E mask \in SUBSET Classes : WFPDeregister(t, h, w, mask)

-----------------------------------------------------------------------------
LEMMA IdleTyped == Idle \in Job /\ Idle.op = "idle"
  BY DEF Idle, Job

LEMMA RouterInit == DllInit => RouterInv
<1> SUFFICES ASSUME DllInit PROVE RouterInv
  OBVIOUS
<1> USE DllAssumption DEF DllInit
<1>1. DllTypeOK
  BY IdleTyped DEF DllTypeOK, NoEvent
<1>2. \A t \in AppThreads : job[t].op = "idle"
  BY IdleTyped
<1>3. JobsInOrder /\ OneOpens
  BY <1>2 DEF JobsInOrder, InOrder, OneOpens
<1>4. EventTyped /\ ClosedForgets /\ IndexBound /\ CopyBound
  BY DEF EventTyped, ClosedForgets, IndexBound, CopyBound
<1> QED
  BY <1>1, <1>3, <1>4 DEF RouterInv

(* The job that a call of thread t for handle h begins.                    *)
LEMMA BeginJob ==
    ASSUME RouterInv, NEW t \in AppThreads, NEW h \in Handles, Begins(t, h)
    PROVE  /\ job' \in [AppThreads -> Job] /\ job[t].op = "idle"
           /\ \A u \in AppThreads : u # t => job'[u] = job[u]
           /\ job'[t].h = h /\ job'[t].op \in {"open", "execute", "clear", "register", "deregister"}
           /\ job'[t].op = "open" => job'[t].name \in Devices
           /\ job'[t].op = "register" => job'[t].w \in Windows /\ job'[t].name = services[h]
           /\ job'[t].op = "deregister" => job'[t].w \in Windows
<1>1. job \in [AppThreads -> Job] /\ services[h] \in Devices \union {None}
  BY DEF RouterInv, DllTypeOK
<1>2. ASSUME NEW d \in Devices, WFPOpen(t, h, d)
      PROVE  \E j \in Job : Begin(t, j) /\ j.h = h /\ j.op = "open" /\ j.name \in Devices
  <2> DEFINE j == [Idle EXCEPT !.op = "open", !.h = h, !.name = d]
  <2>1. j \in Job /\ j.h = h /\ j.op = "open" /\ j.name = d
    BY DEF Idle, Job
  <2>2. Begin(t, j)
    BY <1>2 DEF WFPOpen
  <2> QED
    BY <2>1, <2>2
<1>3. ASSUME WFPExecute(t, h) PROVE \E j \in Job : Begin(t, j) /\ j.h = h /\ j.op = "execute"
  <2> DEFINE j == [Idle EXCEPT !.op = "execute", !.h = h]
  <2>1. j \in Job /\ j.h = h /\ j.op = "execute"
    BY DEF Idle, Job
  <2>2. Begin(t, j)
    BY <1>3 DEF WFPExecute
  <2> QED
    BY <2>1, <2>2
<1>4. ASSUME WFPClose(t, h) PROVE \E j \in Job : Begin(t, j) /\ j.h = h /\ j.op = "clear"
  <2> DEFINE j == [Idle EXCEPT !.op = "clear", !.h = h]
  <2>1. j \in Job /\ j.h = h /\ j.op = "clear"
    BY DEF Idle, Job
  <2>2. Begin(t, j)
    BY <1>4 DEF WFPClose
  <2> QED
    BY <2>1, <2>2
<1>5. ASSUME NEW w \in Windows, NEW mask \in SUBSET Classes, WFPRegister(t, h, w, mask)
      PROVE  \E j \in Job : /\ Begin(t, j) /\ j.h = h /\ j.op = "register" /\ j.w \in Windows
                            /\ j.name = services[h]
  <2> DEFINE j == [op |-> "register", h |-> h, w |-> w, mask |-> mask, name |-> services[h]]
  <2>1. j \in Job /\ j.h = h /\ j.op = "register" /\ j.w = w /\ j.name = services[h]
    BY <1>1 DEF Job
  <2>2. Begin(t, j)
    BY <1>5 DEF WFPRegister
  <2> QED
    BY <2>1, <2>2
<1>6. ASSUME NEW w \in Windows, NEW mask \in SUBSET Classes, WFPDeregister(t, h, w, mask)
      PROVE  \E j \in Job : Begin(t, j) /\ j.h = h /\ j.op = "deregister" /\ j.w \in Windows
  <2> DEFINE j == [Idle EXCEPT !.op = "deregister", !.h = h, !.w = w, !.mask = mask]
  <2>1. j \in Job /\ j.h = h /\ j.op = "deregister" /\ j.w = w
    BY DEF Idle, Job
  <2>2. Begin(t, j)
    BY <1>6 DEF WFPDeregister
  <2> QED
    BY <2>1, <2>2
<1>7. \E j \in Job : /\ Begin(t, j) /\ j.h = h
                     /\ j.op \in {"open", "execute", "clear", "register", "deregister"}
                     /\ j.op = "open" => j.name \in Devices
                     /\ j.op = "register" => j.w \in Windows /\ j.name = services[h]
                     /\ j.op = "deregister" => j.w \in Windows
  BY <1>2, <1>3, <1>4, <1>5, <1>6 DEF Begins
<1>8. PICK j \in Job : /\ Begin(t, j) /\ j.h = h
                       /\ j.op \in {"open", "execute", "clear", "register", "deregister"}
                       /\ j.op = "open" => j.name \in Devices
                       /\ j.op = "register" => j.w \in Windows /\ j.name = services[h]
                       /\ j.op = "deregister" => j.w \in Windows
  BY <1>7
<1>9. job[t] = Idle /\ job' \in [AppThreads -> Job] /\ job'[t] = j
      /\ \A u \in AppThreads : u # t => job'[u] = job[u]
  BY <1>1, <1>8 DEF Begin
<1> QED
  BY <1>8, <1>9, IdleTyped

(* What beginning a call does to the rest: it drops the handle's binding,  *)
(* if it is WFPClose, and marks the handle, if it comes out of order.      *)
LEMMA BeginRest ==
    ASSUME RouterInv, NEW t \in AppThreads, NEW h \in Handles, Begins(t, h)
    PROVE  /\ UNCHANGED <<subs, byLogical, stale, event, copied>>
           /\ crossed \subseteq crossed' /\ crossed' \subseteq Handles
           /\ services' = services \/ (job'[t].op = "clear" /\ services' = [services EXCEPT ![h] = None])
           /\ job'[t].op = "open" => h \in crossed' \/ (services[h] = None /\ Under("open", h) = {})
           /\ job'[t].op = "register" => h \in crossed' \/ services[h] # None
           /\ job'[t].op = "clear" => h \in crossed' \/ Under("register", h) = {}
           /\ job'[t].op # "clear" => services' = services
<1>0. crossed \subseteq Handles /\ job \in [AppThreads -> Job]
  BY DEF RouterInv, DllTypeOK
<1>1. ASSUME NEW d \in Devices, WFPOpen(t, h, d)
      PROVE  /\ job'[t].op = "open" /\ services' = services
             /\ UNCHANGED <<subs, byLogical, stale, event, copied>>
             /\ crossed \subseteq crossed' /\ crossed' \subseteq Handles
             /\ h \in crossed' \/ (services[h] = None /\ Under("open", h) = {})
  BY <1>0, <1>1 DEF WFPOpen, Begin, Idle, CrossesIf, dispatchVars
<1>2. ASSUME WFPExecute(t, h)
      PROVE  /\ job'[t].op = "execute" /\ services' = services
             /\ UNCHANGED <<subs, byLogical, stale, event, copied, crossed>>
  BY <1>0, <1>2 DEF WFPExecute, Begin, Idle, dispatchVars
<1>3. ASSUME WFPClose(t, h)
      PROVE  /\ job'[t].op = "clear" /\ services' = [services EXCEPT ![h] = None]
             /\ UNCHANGED <<subs, byLogical, stale, event, copied>>
             /\ crossed \subseteq crossed' /\ crossed' \subseteq Handles
             /\ h \in crossed' \/ Under("register", h) = {}
  BY <1>0, <1>3 DEF WFPClose, Begin, Idle, CrossesIf, dispatchVars
<1>4. ASSUME NEW w \in Windows, NEW mask \in SUBSET Classes, WFPRegister(t, h, w, mask)
      PROVE  /\ job'[t].op = "register" /\ services' = services
             /\ UNCHANGED <<subs, byLogical, stale, event, copied>>
             /\ crossed \subseteq crossed' /\ crossed' \subseteq Handles
             /\ h \in crossed' \/ services[h] # None
  BY <1>0, <1>4 DEF WFPRegister, Begin, CrossesIf, dispatchVars
<1>5. ASSUME NEW w \in Windows, NEW mask \in SUBSET Classes, WFPDeregister(t, h, w, mask)
      PROVE  /\ job'[t].op = "deregister" /\ services' = services
             /\ UNCHANGED <<subs, byLogical, stale, event, copied, crossed>>
  BY <1>0, <1>5 DEF WFPDeregister, Begin, Idle, dispatchVars
<1> QED
  BY <1>0, <1>1, <1>2, <1>3, <1>4, <1>5 DEF Begins

(* The index and the copy stay right when no handle loses what it is bound *)
(* to.                                                                     *)
LEMMA BoundStays ==
    ASSUME RouterInv, BoundKept, UNCHANGED <<byLogical, event, copied, stale>>
    PROVE  EventTyped' /\ IndexBound' /\ CopyBound'
<1> USE DllAssumption
<1>1. EventTyped'
  BY DEF RouterInv, EventTyped
<1>2. IndexBound'
  <2>1. \A d \in Devices : byLogical[d] # None => byLogical[d] \in Handles
    BY DEF RouterInv, DllTypeOK
  <2> QED
    BY <2>1 DEF RouterInv, IndexBound, BoundKept, BoundTo, Clearing, Under
<1>3. CopyBound'
  BY DEF RouterInv, EventTyped, CopyBound, BoundKept, BoundTo, Clearing, Under
<1> QED
  BY <1>1, <1>2, <1>3

LEMMA BeginStep ==
    ASSUME RouterInv, NEW t \in AppThreads, NEW h \in Handles, Begins(t, h)
    PROVE  RouterInv'
<1> USE DllAssumption
<1>1. /\ job' \in [AppThreads -> Job] /\ job[t].op = "idle"
      /\ \A u \in AppThreads : u # t => job'[u] = job[u]
      /\ job'[t].h = h /\ job'[t].op \in {"open", "execute", "clear", "register", "deregister"}
      /\ job'[t].op = "open" => job'[t].name \in Devices
      /\ job'[t].op = "register" => job'[t].w \in Windows /\ job'[t].name = services[h]
      /\ job'[t].op = "deregister" => job'[t].w \in Windows
  BY BeginJob
<1>2. /\ UNCHANGED <<subs, byLogical, stale, event, copied>>
      /\ crossed \subseteq crossed' /\ crossed' \subseteq Handles
      /\ services' = services \/ (job'[t].op = "clear" /\ services' = [services EXCEPT ![h] = None])
      /\ job'[t].op = "open" => h \in crossed' \/ (services[h] = None /\ Under("open", h) = {})
      /\ job'[t].op = "register" => h \in crossed' \/ services[h] # None
      /\ job'[t].op = "clear" => h \in crossed' \/ Under("register", h) = {}
      /\ job'[t].op # "clear" => services' = services
  BY BeginRest
<1>3. services \in [Handles -> Devices \union {None}]
  BY DEF RouterInv, DllTypeOK
<1>4. /\ \A x \in Handles : x # h => services'[x] = services[x]
      /\ services'[h] = services[h] \/ (job'[t].op = "clear" /\ services'[h] = None)
  BY <1>2, <1>3
<1>5. \A x \in Handles : Clearing(x) => Clearing(x)'
  BY <1>1 DEF Clearing, Under
<1>6. job'[t].op = "clear" => Clearing(h)'
  BY <1>1 DEF Clearing, Under
<1>7. DllTypeOK'
  BY <1>1, <1>2, <1>3 DEF RouterInv, DllTypeOK
<1>8. BoundKept
  BY <1>2, <1>4, <1>5, <1>6 DEF BoundKept, BoundTo
<1>9. ClosedForgets'
  BY <1>2, <1>4, <1>5, <1>6 DEF RouterInv, ClosedForgets
<1>10. JobsInOrder'
  <2>1. InOrder(t)'
    BY <1>1, <1>2, <1>4 DEF InOrder
  <2>2. ASSUME NEW u \in AppThreads, u # t PROVE InOrder(u)'
    <3>1. InOrder(u) /\ job'[u] = job[u]
      BY <1>1, <2>2 DEF RouterInv, JobsInOrder
    <3>2. job[u].op = "register" /\ job[u].h = h /\ job'[t].op = "clear" => h \in crossed'
      BY <1>2 DEF Under
    <3> QED
      BY <1>2, <1>4, <3>1, <3>2 DEF InOrder
  <2> QED
    BY <2>1, <2>2 DEF JobsInOrder
<1>11. OneOpens'
  <2>1. ASSUME NEW u \in AppThreads, u # t, job'[t].op = "open", job[u].op = "open", job[u].h = h
        PROVE  h \in crossed'
    BY <1>2, <2>1 DEF Under
  <2> QED
    BY <1>1, <1>2, <2>1 DEF RouterInv, OneOpens
<1>12. EventTyped' /\ IndexBound' /\ CopyBound'
  BY <1>2, <1>8, BoundStays
<1> QED
  BY <1>7, <1>9, <1>10, <1>11, <1>12 DEF RouterInv

(* What the step of an entry point does to the jobs: thread t goes on or   *)
(* is done, the others stay where they are.                                *)
LEMMA OngoingJobs ==
    ASSUME RouterInv, NEW t \in AppThreads, Ongoing(t)
    PROVE  /\ job[t].h \in Handles
           /\ job' \in [AppThreads -> Job]
           /\ \A u \in AppThreads : u # t => job'[u] = job[u]
           /\ job'[t].op = "idle" \/ (job'[t].op = "execute" /\ job'[t].h = job[t].h)
<1>1. job[t].h \in Handles
  BY DEF Ongoing, OpenSucceeds, RequestEnds, clear_service, register_window, deregister_window,
         RouterInv, JobsInOrder, InOrder
<1>2. CASE clear_service(t)
  <2>1. job \in [AppThreads -> Job] /\ job' = [job EXCEPT ![t].op = "execute"]
    BY <1>2 DEF clear_service, RouterInv, DllTypeOK
  <2>2. [job[t] EXCEPT !.op = "execute"] \in Job
    BY <2>1 DEF Job
  <2> QED
    BY <1>1, <2>1, <2>2 DEF Job
<1>3. CASE ~ clear_service(t)
  <2>1. job \in [AppThreads -> Job] /\ job' = [job EXCEPT ![t] = Idle]
    BY <1>3 DEF Ongoing, OpenSucceeds, RequestEnds, register_window, deregister_window, End, RouterInv, DllTypeOK
  <2> QED
    BY <1>1, <2>1, IdleTyped
<1> QED
  BY <1>2, <1>3

(* The other jobs stay in order: no binding changes but that of a handle   *)
(* that was unbound or is marked, and a mark goes only from a handle that  *)
(* no such job uses.                                                       *)
LEMMA OngoingInOrder ==
    ASSUME RouterInv, NEW t \in AppThreads, Ongoing(t)
    PROVE  JobsInOrder' /\ OneOpens'
<1> USE DllAssumption
<1> DEFINE h == job[t].h
<1>0. /\ h \in Handles
      /\ job' \in [AppThreads -> Job]
      /\ \A u \in AppThreads : u # t => job'[u] = job[u]
      /\ job'[t].op = "idle" \/ (job'[t].op = "execute" /\ job'[t].h = h)
  BY OngoingJobs
<1>1. InOrder(t)'
  BY <1>0 DEF InOrder
<1>2. CASE OpenSucceeds(t)
  <2>1. /\ job[t].op = "open" /\ crossed' = crossed
        /\ \A x \in Handles : x # h => services'[x] = services[x]
        /\ services[h] = None \/ h \in crossed
    BY <1>2 DEF OpenSucceeds, RouterInv, DllTypeOK, JobsInOrder, InOrder
  <2>2. ASSUME NEW u \in AppThreads, u # t PROVE InOrder(u)'
    <3>1. InOrder(u) /\ job'[u] = job[u]
      BY <1>0, <2>2 DEF RouterInv, JobsInOrder
    <3>2. job[u].op \in {"open", "register"} /\ job[u].h = h => h \in crossed
      BY <2>1, <2>2, <3>1 DEF RouterInv, OneOpens, InOrder
    <3> QED
      BY <2>1, <3>1, <3>2 DEF InOrder
  <2>3. OneOpens'
    BY <1>0, <2>1 DEF RouterInv, OneOpens
  <2> QED
    BY <1>1, <2>2, <2>3 DEF JobsInOrder
<1>3. CASE clear_service(t)
  <2>1. services' = services /\ job[t].op = "clear"
        /\ crossed' = IF Under("register", h) \union Under("open", h) = {} THEN crossed \ {h} ELSE crossed
    BY <1>3 DEF clear_service, Cleared
  <2>2. ASSUME NEW u \in AppThreads, u # t, job[u].op \in {"open", "register"}, job[u].h \in crossed
        PROVE  job[u].h \in crossed'
    BY <2>1, <2>2 DEF Under
  <2>3. ASSUME NEW u \in AppThreads, u # t PROVE InOrder(u)'
    <3>1. InOrder(u) /\ job'[u] = job[u]
      BY <1>0, <2>3 DEF RouterInv, JobsInOrder
    <3> QED
      BY <2>1, <2>2, <2>3, <3>1 DEF InOrder
  <2>4. OneOpens'
    BY <1>0, <2>2 DEF RouterInv, OneOpens
  <2> QED
    BY <1>1, <2>3, <2>4 DEF JobsInOrder
<1>4. CASE RequestEnds(t) \/ register_window(t) \/ deregister_window(t)
  <2>1. services' = services /\ crossed' = crossed
    BY <1>4 DEF RequestEnds, register_window, deregister_window
  <2>2. ASSUME NEW u \in AppThreads, u # t PROVE InOrder(u)'
    BY <1>0, <2>1, <2>2 DEF RouterInv, JobsInOrder, InOrder
  <2>3. OneOpens'
    BY <1>0, <2>1 DEF RouterInv, OneOpens
  <2> QED
    BY <1>1, <2>2, <2>3 DEF JobsInOrder
<1> QED
  BY <1>2, <1>3, <1>4 DEF Ongoing

LEMMA OngoingStep ==
    ASSUME RouterInv, NEW t \in AppThreads, Ongoing(t)
    PROVE  RouterInv'
<1> USE DllAssumption
<1> DEFINE h == job[t].h
<1>0. /\ h \in Handles
      /\ job' \in [AppThreads -> Job]
      /\ \A u \in AppThreads : u # t => job'[u] = job[u]
      /\ job'[t].op = "idle" \/ (job'[t].op = "execute" /\ job'[t].h = h)
  BY OngoingJobs
<1>1. JobsInOrder' /\ OneOpens'
  BY OngoingInOrder
<1>2. \A x \in Handles : Clearing(x) => Clearing(x)' \/ (x = h /\ job[t].op = "clear")
  BY <1>0 DEF Clearing, Under
<1>3. /\ DllTypeOK /\ EventTyped /\ ClosedForgets /\ InOrder(t)
      /\ services \in [Handles -> Devices \union {None}] /\ job[t] \in Job
  BY DEF RouterInv, DllTypeOK, JobsInOrder
<1>4. CASE OpenSucceeds(t)
  <2>1. /\ job[t].op = "open" /\ job[t].name \in Devices /\ (services[h] = None \/ h \in crossed)
        /\ services' = [services EXCEPT ![h] = job[t].name]
        /\ UNCHANGED <<subs, byLogical, stale, crossed, event, copied>>
    BY <1>3, <1>4 DEF OpenSucceeds, InOrder, dispatchVars
  <2>2. DllTypeOK'
    BY <1>0, <1>3, <2>1 DEF DllTypeOK
  <2>3. BoundKept
    BY <1>2, <1>3, <2>1 DEF BoundKept, BoundTo
  <2>4. ClosedForgets'
    BY <1>2, <1>3, <2>1 DEF ClosedForgets
  <2> QED
    BY <1>1, <2>1, <2>2, <2>3, <2>4, BoundStays DEF RouterInv
<1>5. CASE RequestEnds(t) \/ deregister_window(t)
  <2>1. UNCHANGED <<services, byLogical, stale, crossed, event, copied>> /\ job[t].op # "clear"
    BY <1>5 DEF RequestEnds, deregister_window, dispatchVars
  <2>2. /\ subs' \in [Handles -> [Windows -> SUBSET Classes]]
        /\ \A x \in Handles : \A w \in Windows : subs'[x][w] \subseteq subs[x][w]
    <3>1. subs \in [Handles -> [Windows -> SUBSET Classes]]
      BY <1>3 DEF DllTypeOK
    <3>2. CASE RequestEnds(t)
      BY <3>1, <3>2 DEF RequestEnds
    <3>3. CASE deregister_window(t)
      <4> DEFINE gone == IF job[t].mask = {} THEN Classes ELSE job[t].mask
      <4>1. subs' = [subs EXCEPT ![h][job[t].w] = @ \ gone] /\ job[t].w \in Windows
        BY <1>3, <3>3 DEF deregister_window, InOrder
      <4> HIDE DEF gone
      <4> QED
        BY <1>0, <3>1, <4>1
    <3> QED
      BY <1>5, <3>2, <3>3
  <2>3. DllTypeOK'
    BY <1>0, <1>3, <2>1, <2>2 DEF DllTypeOK
  <2>4. BoundKept
    BY <1>2, <2>1 DEF BoundKept, BoundTo
  <2>5. ClosedForgets'
    BY <1>2, <1>3, <2>1, <2>2 DEF ClosedForgets
  <2> QED
    BY <1>1, <2>1, <2>3, <2>4, <2>5, BoundStays DEF RouterInv
<1>6. CASE clear_service(t)
  <2>1. /\ UNCHANGED <<services, copied, event>>
        /\ subs' \in [Handles -> [Windows -> SUBSET Classes]]
        /\ \A w \in Windows : subs'[h][w] = {}
        /\ \A x \in Handles : x # h => subs'[x] = subs[x]
        /\ stale' = (stale \/ event.h = h)
        /\ \A x \in Handles : x # h => (x \in crossed => x \in crossed')
        /\ crossed' \subseteq Handles
    BY <1>0, <1>3, <1>6 DEF clear_service, Cleared, DllTypeOK, dispatchVars
  <2>2. \A d \in Devices : byLogical'[d] = IF byLogical[d] = h THEN None ELSE byLogical[d]
    BY <1>6 DEF clear_service
  <2>3. byLogical' \in [Devices -> Handles \union {None}]
    BY <1>3, <1>6 DEF clear_service, DllTypeOK
  <2>4. DllTypeOK'
    <3>1. stale' \in BOOLEAN
      BY <2>1, Zenon
    <3> QED
      BY <1>0, <1>3, <2>1, <2>3, <3>1 DEF DllTypeOK
  <2>5. ClosedForgets'
    BY <1>2, <1>3, <2>1 DEF ClosedForgets
  <2>6. ASSUME NEW x \in Handles, x # h, NEW d \in Devices, BoundTo(x, d) PROVE BoundTo(x, d)'
    BY <1>2, <2>1, <2>6 DEF BoundTo
  <2>7. IndexBound'
    <3>1. ASSUME NEW d \in Devices, byLogical'[d] # None
          PROVE  byLogical'[d] = byLogical[d] /\ byLogical[d] \in Handles \ {h} /\ BoundTo(byLogical[d], d)
      BY <1>3, <2>2, <3>1 DEF DllTypeOK, RouterInv, IndexBound
    <3> QED
      BY <2>6, <3>1 DEF IndexBound, BoundTo, Clearing, Under
  <2>8. CopyBound' /\ EventTyped'
    <3>1. copied' # {} /\ ~ stale' =>
             event.h \in Handles \ {h} /\ event.d \in Devices /\ BoundTo(event.h, event.d)
      BY <1>3, <2>1 DEF RouterInv, CopyBound, EventTyped
    <3>2. EventTyped'
      BY <1>3, <2>1 DEF EventTyped
    <3> QED
      BY <2>1, <2>6, <3>1, <3>2 DEF CopyBound, BoundTo, Clearing, Under
  <2> QED
    BY <1>1, <2>4, <2>5, <2>7, <2>8 DEF RouterInv
<1>7. CASE register_window(t)
  <2>1. /\ job[t].op = "register" /\ job[t].w \in Windows /\ job[t].mask \subseteq Classes
        /\ (services[h] = job[t].name /\ job[t].name # None) \/ h \in crossed
        /\ job[t].name \in Devices \union {None}
        /\ UNCHANGED <<services, stale, crossed, event, copied>>
    BY <1>3, <1>7 DEF register_window, InOrder, Job, dispatchVars
  <2>2. /\ subs' \in [Handles -> [Windows -> SUBSET Classes]]
        /\ \A x \in Handles : x # h => subs'[x] = subs[x]
    BY <1>0, <1>3, <1>7, <2>1 DEF register_window, DllTypeOK
  <2>3. byLogical' = IF job[t].name = None THEN byLogical ELSE [byLogical EXCEPT ![job[t].name] = h]
    BY <1>7 DEF register_window
  <2>4. byLogical' \in [Devices -> Handles \union {None}]
    BY <1>0, <1>3, <2>1, <2>3 DEF DllTypeOK
  <2>5. DllTypeOK'
    BY <1>0, <1>3, <2>1, <2>2, <2>4 DEF DllTypeOK
  <2>6. ClosedForgets'
    BY <1>2, <1>3, <2>1, <2>2 DEF ClosedForgets
  <2>7. BoundKept
    BY <1>2, <2>1 DEF BoundKept, BoundTo
  <2>8. EventTyped' /\ CopyBound'
    BY <1>3, <2>1, <2>7 DEF RouterInv, EventTyped, CopyBound, BoundKept, BoundTo, Clearing, Under
  <2>9. ASSUME NEW d \in Devices, byLogical'[d] # None PROVE BoundTo(byLogical[d], d)'
    <3>1. CASE byLogical'[d] = byLogical[d]
      <4>1. byLogical[d] \in Handles /\ BoundTo(byLogical[d], d)
        BY <1>3, <2>9, <3>1 DEF RouterInv, DllTypeOK, IndexBound
      <4> QED
        BY <2>7, <3>1, <4>1 DEF BoundKept, BoundTo, Clearing, Under
    <3>2. CASE byLogical'[d] # byLogical[d]
      <4>1. d = job[t].name /\ byLogical'[d] = h
        BY <1>3, <2>3, <3>2 DEF DllTypeOK
      <4> QED
        BY <2>1, <4>1 DEF BoundTo
    <3> QED
      BY <3>1, <3>2
  <2> QED
    BY <1>1, <2>5, <2>6, <2>8, <2>9 DEF RouterInv, IndexBound
<1> QED
  BY <1>4, <1>5, <1>6, <1>7 DEF Ongoing

(* The reader thread copies the windows of a handle that is bound to the   *)
(* event's device, and posts to them.                                      *)
LEMMA DispatchStep ==
    ASSUME RouterInv, (\E d \in Devices, c \in Classes : dispatch(d, c)) \/ PostMessage
    PROVE  RouterInv'
<1> USE DllAssumption
<1>1. /\ UNCHANGED <<services, subs, byLogical, job, crossed>>
      /\ copied' \subseteq Windows /\ stale' \in BOOLEAN
  <2>1. CASE PostMessage
    <3>1. UNCHANGED <<services, subs, byLogical, job, crossed>> /\ copied' \subseteq Windows
      BY <2>1 DEF PostMessage, RouterInv, DllTypeOK
    <3>2. stale' \in BOOLEAN
      BY <2>1, Zenon DEF PostMessage
    <3> QED
      BY <3>1, <3>2
  <2>2. CASE ~ PostMessage
    BY <2>2 DEF dispatch
  <2> QED
    BY <2>1, <2>2
<1>2. /\ JobsInOrder' /\ OneOpens' /\ ClosedForgets' /\ IndexBound'
  BY <1>1 DEF RouterInv, JobsInOrder, InOrder, OneOpens, ClosedForgets, IndexBound, BoundTo,
              Clearing, Under
<1>3. CASE PostMessage
  <2>1. copied' # {} => copied # {} /\ event' = event /\ (stale' <=> stale)
    BY <1>3 DEF PostMessage
  <2>2. EventTyped' /\ CopyBound'
    BY <1>1, <2>1 DEF RouterInv, EventTyped, CopyBound, BoundTo, Clearing, Under
  <2>3. event' = event \/ event' = NoEvent
    BY <1>3 DEF PostMessage
  <2>4. DllTypeOK'
    BY <1>1, <2>3 DEF RouterInv, DllTypeOK, NoEvent
  <2> QED
    BY <1>2, <2>2, <2>4 DEF RouterInv
<1>4. ASSUME NEW d \in Devices, NEW c \in Classes, dispatch(d, c) PROVE RouterInv'
  <2>1. byLogical[d] \in Handles /\ BoundTo(byLogical[d], d)
    BY <1>4 DEF dispatch, RouterInv, DllTypeOK, IndexBound
  <2>2. event' = NoEvent \/ event' = [d |-> d, h |-> byLogical[d]]
    BY <1>4 DEF dispatch
  <2>3. copied' # {} => event' = [d |-> d, h |-> byLogical[d]]
    BY <1>4 DEF dispatch
  <2>4. DllTypeOK'
    BY <1>1, <2>1, <2>2 DEF RouterInv, DllTypeOK, NoEvent
  <2>5. EventTyped' /\ CopyBound'
    BY <1>1, <2>1, <2>3 DEF EventTyped, CopyBound, BoundTo, Clearing, Under
  <2> QED
    BY <1>2, <2>4, <2>5 DEF RouterInv
<1> QED
  BY <1>3, <1>4

LEMMA RouterStep == RouterInv /\ [DllNext]_dllVars => RouterInv'
<1> SUFFICES ASSUME RouterInv, [DllNext]_dllVars PROVE RouterInv'
  OBVIOUS
<1>1. CASE UNCHANGED dllVars
  BY <1>1 DEF dllVars, RouterInv, DllTypeOK, JobsInOrder, InOrder, OneOpens, EventTyped, ClosedForgets,
              IndexBound, CopyBound, BoundTo, Clearing, Under
<1>2. ASSUME NEW t \in AppThreads, NEW h \in Handles, Begins(t, h) PROVE RouterInv'
  BY <1>2, BeginStep
<1>3. ASSUME NEW t \in AppThreads, Ongoing(t) PROVE RouterInv'
  BY <1>3, OngoingStep
<1>4. CASE (\E d \in Devices, c \in Classes : dispatch(d, c)) \/ PostMessage
  BY <1>4, DispatchStep
<1> QED
  BY <1>1, <1>2, <1>3, <1>4 DEF DllNext, Ongoing, Begins

(* The router's state keeps its type, whatever thread calls for whatever   *)
(* handle.                                                                 *)
THEOREM DllTypeCorrect == DllSpec => []DllTypeOK
<1>1. RouterInv => DllTypeOK
  BY DEF RouterInv
<1> QED
  BY <1>1, RouterInit, RouterStep, PTL DEF DllSpec

(* The index leads to a handle bound to the event's device, and the        *)
(* windows dispatch copied are those of a handle that still is bound to it *)
(* while it posts, unless a close came after the copy; however the calls   *)
(* of any threads interleave between the service table's mutex and the     *)
(* router's, but for the handles that were used out of order.              *)
THEOREM EventsReachBound == DllSpec => []RoutedToBound
<1>1. RouterInv => RoutedToBound
  BY DEF RouterInv, RoutedToBound, IndexBound, CopyBound
<1> QED
  BY <1>1, RouterInit, RouterStep, PTL DEF DllSpec
=============================================================================
