------------------------------ MODULE MCAtmApp ------------------------------
(* Small instances of AtmApp for TLC.                                      *)
EXTENDS AtmApp

MCAccountOf == [p \in Cards |-> IF p = "card1" THEN "A" ELSE "B"]
MCInitialBalance == [a \in Accounts |-> 2]
MCDailyLimit == [a \in Accounts |-> 2]
MCStans == 0 .. MaxAuthorizations

MCSymmetry == Permutations(Tasks)

=============================================================================
