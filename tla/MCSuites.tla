------------------------------ MODULE MCSuites ------------------------------
(* A suite of two macros, one that opens a session and may leave it open,  *)
(* one that acts without opening its own, and a suite of none; two         *)
(* requests of the console.                                                *)
EXTENDS Suites

MCMacroIds == [s \in SuiteIds |-> IF s = "s1" THEN <<"withdraw", "inquire">> ELSE <<>>]
MCSteps == [m \in {"withdraw", "inquire"} |->
                IF m = "withdraw" THEN <<"Insert", "Check">> ELSE <<"Act">>]
=============================================================================
