----------------------------- MODULE RpcChannel -----------------------------
(***************************************************************************)
(* What a caller of BridgeClient::send_request may rely on, with the       *)
(* sockets, threads, mutexes and time-outs left out: a request is executed *)
(* by the backend at most once, possibly after its caller has given up;    *)
(* the call ends at most once, either with an error or with the answer to  *)
(* that very request, and with an answer only when it has been executed.   *)
(* BridgeClient.tla is shown to implement this module.                     *)
(***************************************************************************)
CONSTANTS
    Requests,   \* the requests, numbers from 1
    Errors      \* the error codes a call may return, negative

VARIABLES
    asked,      \* the requests whose send_request has begun
    executed,   \* the requests the backend has executed
    outcome     \* what the call returned, 0 before: a request stands for its answer

Init ==
    /\ asked = {}
    /\ executed = {}
    /\ outcome = [r \in Requests |-> 0]

Ask(r) ==
    /\ r \notin asked
    /\ asked' = asked \union {r}
    /\ UNCHANGED <<executed, outcome>>

Execute(r) ==
    /\ r \in asked \ executed
    /\ executed' = executed \union {r}
    /\ UNCHANGED <<asked, outcome>>

Return(r, o) ==
    /\ r \in asked
    /\ outcome[r] = 0
    /\ o = r => r \in executed
    /\ outcome' = [outcome EXCEPT ![r] = o]
    /\ UNCHANGED <<asked, executed>>

Next ==
    \E r \in Requests :
        \/ Ask(r)
        \/ Execute(r)
        \/ \E o \in Errors \union {r} : Return(r, o)

Spec == Init /\ [][Next]_<<asked, executed, outcome>>
=============================================================================
