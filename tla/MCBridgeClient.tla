--------------------------- MODULE MCBridgeClient ---------------------------
(* Two vendor threads of one application, three requests and one event.    *)
EXTENDS BridgeClient

CONSTANTS t1, t2

MCThreads == {t1, t2}
=============================================================================
