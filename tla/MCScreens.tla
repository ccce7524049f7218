----------------------------- MODULE MCScreens -----------------------------
(***************************************************************************)
(* What people do at the screens: the recorder behind the operator's       *)
(* console, and the customer's screen.  A behaviour is about one of them;  *)
(* `part' says which.                                                      *)
(*                                                                         *)
(* The recorder: two requests of the console at once; digit runs of 1, 3   *)
(* and 9, which make 3 and 4, 12 and 13 (the ends of what is a PIN) and 6  *)
(* (the demo PIN); three user actions, device events and edits together.   *)
(* The screen: two sessions, two wrapped calls at once.                    *)
(***************************************************************************)
EXTENDS MacroRecorder, AtmScreen

CONSTANTS r1, r2, s1, s2

VARIABLE part   \* "recorder" or "screen"

MCBudget == 3   \* bound: user actions, device events and edits, together

MCRequests == {r1, r2}
MCSlots == {s1, s2}
Symmetry == Permutations(MCRequests) \union Permutations(MCSlots)

MCInit ==
    /\ RecorderInit /\ ScreenInit
    /\ part \in {"recorder", "screen"}
    /\ part = "screen" => macro = [m \in Macros |-> NoMacro]

MCNext ==
    \/ /\ part = "recorder" /\ RecorderNext
       /\ actions' + events' + macroEdits' <= MCBudget
       /\ UNCHANGED <<screenVars, part>>
    \/ part = "screen" /\ ScreenNext /\ UNCHANGED <<recorderVars, part>>

MCSpec == MCInit /\ [][MCNext]_<<recorderVars, screenVars, part>>
=============================================================================
