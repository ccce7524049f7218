-------------------------- MODULE MCHostTransport --------------------------
(* Three configs of one kind, two of them seeded, that may be edited to    *)
(* share a port or to need none, two requests of the console at once and   *)
(* one restart.                                                            *)
EXTENDS HostTransport, TLC

CONSTANTS c1, c2, c3, r1, r2

MCConfigs == {c1, c2, c3}
MCRequests == {r1, r2}
MCSlots == 1 .. 3
TCP(p) == [kind |-> "ISO8583_TCP", port |-> p]
Asks(kind, port) == [kind |-> kind, port |-> port, profile |-> NotNamed]
MCInputs == {Asks("ISO8583_TCP", 2), Asks("IN_PROCESS", NoPort), Asks(NotNamed, 1),
             Asks("ISO8583_TCP", NoPort), Asks("ISO8583_TCP", 0),
             [Asks("ISO8583_TCP", 1) EXCEPT !.profile = "unknown"]}
MCSeeded == [c \in {c1, c2} |-> IF c = c1 THEN TCP(1) ELSE TCP(2)]
MCAutoStart == {c1}
=============================================================================
