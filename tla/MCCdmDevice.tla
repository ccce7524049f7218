----------------------------- MODULE MCCdmDevice ----------------------------
(* Small instances of CdmDevice for TLC: the three denominations of the    *)
(* default cassettes in units of Rp 10,000, with a few notes of each.      *)
EXTENDS CdmDevice

MCDenom == [u \in Cassettes |-> CASE u = "CASS1" -> 10
                                  [] u = "CASS2" -> 5
                                  [] OTHER -> 2]
MCMinimum == [u \in Cassettes |-> 1]
MCMaximum == [u \in Units |-> IF u = "CASS3" THEN 3 ELSE 2]
MCInitialCount == [u \in Cassettes |-> 2]

=============================================================================
