--------------------------- MODULE MCHostEmulator ---------------------------
(* Small instances of HostEmulator for TLC.                                *)
EXTENDS HostEmulator

MCAccountOf == [p \in Cards |-> CASE p = "cardA" -> "A"
                                  [] p = "cardB" -> "B"
                                  [] OTHER -> NoAccount]
MCPrefixOf == [p \in Cards |-> IF p = "cardA" THEN "4000" ELSE "4577"]
MCInitialBalance == [a \in Accounts |-> 6000000]
MCDailyLimit == [a \in Accounts |-> 4000000]
(* Below zero, the daily limit, and more than a switch carries.            *)
MCAmounts == {-2000000, 4000000, 6000000}
MCStans == 0 .. StanModulus - 1

MCSymmetry == Permutations(Requests)

=============================================================================
