------------------------------- MODULE XfsDll -------------------------------
(***************************************************************************)
(* The service-provider entry points of dllmain.cpp and the EventRouter    *)
(* behind them.  An application's threads open, register, deregister and   *)
(* close service handles; the bridge's reader thread dispatches device     *)
(* events to the windows registered at that time.  A request to the server *)
(* is what RpcChannel promises: it ends, some time later, with a result.   *)
(*                                                                         *)
(* An entry point takes g_services_mtx and the router's mutex one after    *)
(* the other, never both, so it is two steps: what it does under the       *)
(* first, and what it does under the second.  Any thread may call any      *)
(* entry point for any handle, open or not: nothing in the code orders the *)
(* calls for one handle, and `crossed` records the calls that it takes     *)
(* amiss.                                                                  *)
(***************************************************************************)
EXTENDS Integers, FiniteSets

CONSTANTS
    AppThreads, \* the application's threads
    Handles,   \* HSERVICE values the XFS manager gives out
    Windows,   \* HWND values
    Devices,   \* logical names of the server's devices ("IDC30", ...)
    Classes,   \* event classes, the bits of dwEventClass
    None       \* no handle, no window, no device

ASSUME DllAssumption ==
    None \notin Handles \union Windows \union Devices

VARIABLES
    services,  \* g_services: the logical name each open handle is bound to
    subs,      \* subs_: the class mask of each window, per handle
    byLogical, \* by_logical_: the handle that registered a logical name last
    job,       \* what each thread is doing
    event,     \* dispatch: the event's device and the handle its name led to
    copied,    \* dispatch: the windows of local_copy still to be posted to
    stale,     \* history: that handle was cleared after the copy was made
    crossed    \* history: handles used out of order since they were last cleared

dllVars == <<services, subs, byLogical, job, event, copied, stale, crossed>>
dispatchVars == <<event, copied>>

Idle == [op |-> "idle", h |-> None, w |-> None, mask |-> {}, name |-> None]
Job == [op : {"idle", "open", "close", "clear", "register", "deregister", "execute"},
        h : Handles \union {None}, w : Windows \union {None},
        mask : SUBSET Classes, name : Devices \union {None}]

DllTypeOK ==
    /\ services \in [Handles -> Devices \union {None}]
    /\ subs \in [Handles -> [Windows -> SUBSET Classes]]
    /\ byLogical \in [Devices -> Handles \union {None}]
    /\ job \in [AppThreads -> Job]
    /\ event \in [d : Devices \union {None}, h : Handles \union {None}]
    /\ copied \subseteq Windows
    /\ stale \in BOOLEAN
    /\ crossed \subseteq Handles

NoEvent == [d |-> None, h |-> None]

DllInit ==
    /\ services = [h \in Handles |-> None]
    /\ subs = [h \in Handles |-> [w \in Windows |-> {}]]
    /\ byLogical = [d \in Devices |-> None]
    /\ job = [t \in AppThreads |-> Idle]
    /\ event = NoEvent
    /\ copied = {}
    /\ stale = FALSE
    /\ crossed = {}

Begin(t, j) == job[t] = Idle /\ job' = [job EXCEPT ![t] = j]
End(t) == job' = [job EXCEPT ![t] = Idle]
Under(op, h) == {t \in AppThreads : job[t].op = op /\ job[t].h = h}

(* History: a call for h begins out of order.                              *)
CrossesIf(amiss, h) == crossed' = IF amiss THEN crossed \union {h} ELSE crossed
-----------------------------------------------------------------------------
(* WFPOpen: the request for a service of this class is on its way.  Out of *)
(* order for a handle that is bound already, or that another call opens.   *)
WFPOpen(t, h, d) ==
    /\ Begin(t, [Idle EXCEPT !.op = "open", !.h = h, !.name = d])
    /\ CrossesIf(services[h] # None \/ Under("open", h) # {}, h)
    /\ UNCHANGED <<services, subs, byLogical, stale, dispatchVars>>

(* The server answered 0 with the device's logical name.                   *)
OpenSucceeds(t) ==
    /\ job[t].op = "open"
    /\ services' = [services EXCEPT ![job[t].h] = job[t].name]
    /\ End(t)
    /\ UNCHANGED <<subs, byLogical, stale, crossed, dispatchVars>>

(* The request timed out or failed, or no device is of that class; the     *)
(* entry points that only ask the server end here too.                     *)
RequestEnds(t) ==
    /\ job[t].op \in {"open", "execute"}
    /\ End(t)
    /\ UNCHANGED <<services, subs, byLogical, stale, crossed, dispatchVars>>

(* WFPExecute and WFPGetInfo read the binding and ask the server (without  *)
(* one WFPExecute ends at once).                                           *)
WFPExecute(t, h) ==
    /\ Begin(t, [Idle EXCEPT !.op = "execute", !.h = h])
    /\ UNCHANGED <<services, subs, byLogical, stale, crossed, dispatchVars>>

(* WFPClose drops the binding, then the registrations, then asks.  Out of  *)
(* order while another call registers a window for the handle.             *)
WFPClose(t, h) ==
    /\ Begin(t, [Idle EXCEPT !.op = "clear", !.h = h])
    /\ services' = [services EXCEPT ![h] = None]
    /\ CrossesIf(Under("register", h) # {}, h)
    /\ UNCHANGED <<subs, byLogical, stale, dispatchVars>>

(* History: the router holds nothing of the handle any more, and no call   *)
(* under way will add to it what it read before.                           *)
Cleared(h) ==
    /\ stale' = (stale \/ event.h = h)
    /\ crossed' = IF Under("register", h) \union Under("open", h) = {}
                  THEN crossed \ {h} ELSE crossed

(* Variant: the index stays.                                               *)
clear_service_SubsOnly(t) ==
    /\ job[t].op = "clear"
    /\ subs' = [subs EXCEPT ![job[t].h] = [w \in Windows |-> {}]]
    /\ job' = [job EXCEPT ![t].op = "execute"]
    /\ Cleared(job[t].h)
    /\ UNCHANGED <<services, byLogical, dispatchVars>>

clear_service(t) ==
    /\ job[t].op = "clear"
    /\ subs' = [subs EXCEPT ![job[t].h] = [w \in Windows |-> {}]]
    /\ byLogical' = [d \in Devices |-> IF byLogical[d] = job[t].h THEN None ELSE byLogical[d]]
    /\ job' = [job EXCEPT ![t].op = "execute"]
    /\ Cleared(job[t].h)
    /\ UNCHANGED <<services, dispatchVars>>

(* WFPRegister: the logical name, if there is one, is read under           *)
(* g_services_mtx ...  Out of order for a handle that is not bound.        *)
WFPRegister(t, h, w, mask) ==
    /\ Begin(t, [op |-> "register", h |-> h, w |-> w, mask |-> mask, name |-> services[h]])
    /\ CrossesIf(services[h] = None, h)
    /\ UNCHANGED <<services, subs, byLogical, stale, dispatchVars>>

(* ... and used under the router's mutex: the mask is ORed into the        *)
(* window's, and the name now leads to this handle.                        *)
register_window(t) ==
    LET j == job[t] IN
    /\ j.op = "register"
    /\ subs' = [subs EXCEPT ![j.h][j.w] = @ \union j.mask]
    /\ byLogical' = IF j.name = None THEN byLogical ELSE [byLogical EXCEPT ![j.name] = j.h]
    /\ End(t)
    /\ UNCHANGED <<services, stale, crossed, dispatchVars>>

WFPDeregister(t, h, w, mask) ==
    /\ Begin(t, [Idle EXCEPT !.op = "deregister", !.h = h, !.w = w, !.mask = mask])
    /\ UNCHANGED <<services, subs, byLogical, stale, crossed, dispatchVars>>

deregister_window(t) ==
    LET j == job[t]
        gone == IF j.mask = {} THEN Classes ELSE j.mask
    IN
    /\ j.op = "deregister"
    /\ subs' = [subs EXCEPT ![j.h][j.w] = @ \ gone]
    /\ End(t)
    /\ UNCHANGED <<services, byLogical, stale, crossed, dispatchVars>>

-----------------------------------------------------------------------------
(* dispatch, on the reader thread: the subscriptions of the handle the     *)
(* name leads to are copied under the mutex ...                            *)
dispatch(d, c) ==
    /\ copied = {}
    /\ byLogical[d] # None
    /\ copied' = {w \in Windows : c \in subs[byLogical[d]][w]}
    /\ event' = IF copied' = {} THEN NoEvent ELSE [d |-> d, h |-> byLogical[d]]
    /\ stale' = FALSE
    /\ UNCHANGED <<services, subs, byLogical, job, crossed>>

(* ... and posted to after it is let go, whatever was closed meanwhile.    *)
PostMessage ==
    /\ \E w \in copied : copied' = copied \ {w}
    /\ event' = IF copied' = {} THEN NoEvent ELSE event
    /\ stale' = (stale /\ copied' # {})
    /\ UNCHANGED <<services, subs, byLogical, job, crossed>>

DllNext ==
    \/ \E t \in AppThreads :
        \/ \E h \in Handles :
            \/ \E d \in Devices : WFPOpen(t, h, d)
            \/ WFPExecute(t, h)
            \/ WFPClose(t, h)
            \/ \E w \in Windows :
                \/ \E mask \in SUBSET Classes \ {{}} : WFPRegister(t, h, w, mask)
                \/ \E mask \in SUBSET Classes : WFPDeregister(t, h, w, mask)
        \/ OpenSucceeds(t)
        \/ RequestEnds(t)
        \/ clear_service(t)
        \/ register_window(t)
        \/ deregister_window(t)
    \/ \E d \in Devices, c \in Classes : dispatch(d, c)
    \/ PostMessage

DllSpec == DllInit /\ [][DllNext]_dllVars
-----------------------------------------------------------------------------
Clearing(h) == Under("clear", h) # {}

BoundTo(h, d) == services[h] = d \/ Clearing(h) \/ h \in crossed

(* Once WFPClose has come to its request to the server, nothing of the     *)
(* handle is left in the router: no subscription that a later WFPOpen of   *)
(* the same HSERVICE value would bring back to life.                       *)
ClosedForgets ==
    \A h \in Handles :
        services[h] = None => \/ Clearing(h) \/ h \in crossed
                              \/ \A w \in Windows : subs[h][w] = {}

(***************************************************************************)
(* The router and the bindings agree: the index of a device's name leads   *)
(* to a handle that is bound to that very name or is being closed, and a   *)
(* closed handle has no windows left.  The handle whose windows dispatch   *)
(* copied is bound to the event's device while it posts to them, unless a  *)
(* WFPClose cleared it after the copy: only then does an event reach the   *)
(* windows of a handle that is closed, or bound anew.  Excepted are the    *)
(* handles used out of order since they were last cleared: a window        *)
(* registered while the handle is closed or is not bound, a handle opened  *)
(* twice.                                                                  *)
(***************************************************************************)
RoutedToBound ==
    /\ ClosedForgets
    /\ \A d \in Devices : byLogical[d] # None => BoundTo(byLogical[d], d)
    /\ copied # {} => stale \/ BoundTo(event.h, event.d)
=============================================================================
