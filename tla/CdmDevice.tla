------------------------------ MODULE CdmDevice -----------------------------
(***************************************************************************)
(* CdmDeviceService: the cash dispenser.  A command waits for the          *)
(* configured delay and then runs without interruption, so each command is *)
(* one step; the other actor is the timer that decides, three seconds      *)
(* after a PRESENT, that the customer took the notes.                      *)
(*                                                                         *)
(* A command that throws leaves everything as it was (except that an       *)
(* injected error is used up), so only its success is an action.  The      *)
(* commands that only report (CASH_UNIT_INFO, COUNT) and the two exchange  *)
(* commands, which are acknowledged and change nothing, are left out.      *)
(***************************************************************************)
EXTENDS Integers, Sequences, SequencesExt, FiniteSetsExt

CONSTANTS
    Cassettes,       \* the unit ids other than REJECT
    Denom,           \* CashUnit.denomination
    Minimum,         \* CashUnit.minimum: LOW at or below
    Maximum,         \* CashUnit.maximum, REJECT included
    InitialCount,    \* CashUnit.initialCount
    Requested,       \* the amounts DISPENSE is called with
    CustomNotes,     \* per denomination, how many notes a custom mix names
    MaxReject,       \* bound: notes in the REJECT unit
    NoCash

Units == Cassettes \cup {"REJECT"}

Denominations == {Denom[u] : u \in Cassettes}

(* A mix names some denominations and the number of notes of each, here    *)
(* one of the numbers N.                                                   *)
MixesOf(N) == UNION {[D -> N] : D \in SUBSET Denominations}

(* A dispense: the amount asked for and the mix that pays it.              *)
Bundle == [amount : Requested, notes : MixesOf(Nat)]

ASSUME CdmAssumption ==
    /\ "REJECT" \notin Cassettes
    /\ IsFiniteSet(Cassettes)
    /\ Denom \in [Cassettes -> Nat \ {0}]
    /\ \A u, v \in Cassettes : Denom[u] = Denom[v] => u = v
    /\ Minimum \in [Cassettes -> Nat]
    /\ Maximum \in [Units -> Nat]
    /\ InitialCount \in [Cassettes -> Nat]
    /\ \A u \in Cassettes : Minimum[u] < InitialCount[u] /\ InitialCount[u] <= Maximum[u]
    /\ Requested \subseteq Nat \ {0}
    /\ CustomNotes \subseteq Nat
    /\ NoCash \notin Bundle

VARIABLES
    count,           \* CashUnit.count
    status,          \* CashUnit.status of the cassettes
    presentedCash,   \* the last dispense, until it is taken or retracted
    takeTimer,       \* the take timer is armed
    cdmInjectedError,   \* an injected error is waiting
    shown,           \* history: presentedCash has been presented
    overtaken,       \* history: it was dispensed while the timer of the notes before it ran
    inside           \* history: notes put in, less those taken and those forgotten

cdmVars == <<count, status, presentedCash, takeTimer, cdmInjectedError, shown, overtaken, inside>>

CdmTypeOK ==
    /\ count \in [Units -> Nat]
    /\ status \in [Cassettes -> {"OK", "LOW", "EMPTY", "JAMMED"}]
    /\ presentedCash \in Bundle \cup {NoCash}
    /\ takeTimer \in BOOLEAN
    /\ cdmInjectedError \in BOOLEAN
    /\ shown \in BOOLEAN
    /\ overtaken \in BOOLEAN
    /\ inside \in Int

CdmInit ==
    /\ count = [u \in Units |-> IF u = "REJECT" THEN 0 ELSE InitialCount[u]]
    /\ status = [u \in Cassettes |-> "OK"]
    /\ presentedCash = NoCash
    /\ takeTimer = FALSE
    /\ cdmInjectedError = FALSE
    /\ shown = FALSE
    /\ overtaken = FALSE
    /\ inside = SumFunction(InitialCount)

-----------------------------------------------------------------------------
StatusOf(u, n) == CASE n = 0 -> "EMPTY"
                    [] n > 0 /\ n <= Minimum[u] -> "LOW"
                    [] OTHER -> "OK"

Worth(mix) == SumFunction([d \in DOMAIN mix |-> d * mix[d]])

Notes(mix) == SumFunction(mix)

(* The notes in the tray.                                                  *)
InTray == IF presentedCash = NoCash THEN 0 ELSE Notes(presentedCash.notes)

(* The cassettes calculateMinNotesMix draws on.                            *)
Spendable == {u \in Cassettes : status[u] # "JAMMED" /\ count[u] > 0}

(* Variant of LastDrawn: smallest notes first.                             *)
LastDrawn_Ascending(units) == CHOOSE u \in units : \A v \in units : Denom[v] <= Denom[u]

(* The one of the cassettes that comes last: largest notes first.          *)
LastDrawn(units) == CHOOSE u \in units : \A v \in units : Denom[u] <= Denom[v]

(* One cassette of the greedy choice.                                      *)
Take(sofar, u) ==
    LET take == Min({count[u], sofar.remaining \div Denom[u]})
    IN  IF take = 0 THEN sofar
        ELSE [remaining |-> sofar.remaining - take * Denom[u],
              mix |-> [d \in DOMAIN sofar.mix \cup {Denom[u]} |->
                          IF d = Denom[u] THEN take ELSE sofar.mix[d]]]

(* The greedy mix; it is refused when something remains.                   *)
calculateMinNotesMix(amount) ==
    LET drawn[units \in SUBSET Spendable] ==
            IF units = {} THEN [remaining |-> amount, mix |-> [d \in {} |-> 0]]
            ELSE Take(drawn[units \ {LastDrawn(units)}], LastDrawn(units))
    IN  drawn[Spendable]

(* The custom mixes that callers ask for, and those of them that add up to *)
(* the amount.                                                             *)
CustomMixes == MixesOf(CustomNotes)

validateCustomMix ==
    [amount \in Requested |-> {mix \in CustomMixes : Worth(mix) = amount}]

(* The mixes a DISPENSE of the amount may use.                             *)
MixesFor(amount) ==
    validateCustomMix[amount] \cup
    {g.mix : g \in {x \in {calculateMinNotesMix(amount)} : x.remaining = 0}}

UnitFor(d) == CHOOSE u \in Cassettes : Denom[u] = d

(* findSpendableUnitByDenom finds a cassette with enough notes, for each.  *)
Sufficient(mix) ==
    \A d \in DOMAIN mix : status[UnitFor(d)] # "JAMMED" /\ count[UnitFor(d)] >= mix[d]

(* The notes that a cassette gives for the mix.                            *)
Given(u, mix) == IF Denom[u] \in DOMAIN mix THEN mix[Denom[u]] ELSE 0

-----------------------------------------------------------------------------
(* The commands.  Each needs that no injected error is waiting.            *)

CdmRuns == ~ cdmInjectedError

(* A command that is not RESET uses up the injected error and throws; the  *)
(* operator's clearError changes the same.                                 *)
CdmThrowInjected ==
    /\ cdmInjectedError
    /\ cdmInjectedError' = FALSE
    /\ UNCHANGED <<count, status, presentedCash, takeTimer, shown, overtaken, inside>>

(* History: nothing in the device remembers the notes in the tray any more. *)
ForgetTray == inside' = inside - InTray

(* dispense: the status of a cassette in the mix goes to EMPTY or LOW and  *)
(* is otherwise left; presentedCash is overwritten, whatever it was; with  *)
(* present it runs present() too, and without it a running timer runs on.  *)
Dispense(amount, mix, present) ==
    /\ CdmRuns
    /\ mix \in MixesFor(amount)
    /\ Sufficient(mix)
    /\ count' = [u \in Units |-> IF u = "REJECT" THEN count[u] ELSE count[u] - Given(u, mix)]
    /\ status' = [u \in Cassettes |->
                     IF Denom[u] \in DOMAIN mix /\ StatusOf(u, count'[u]) # "OK"
                     THEN StatusOf(u, count'[u])
                     ELSE status[u]]
    /\ presentedCash' = [amount |-> amount, notes |-> mix]
    /\ takeTimer' = (present \/ takeTimer)
    /\ shown' = present
    /\ overtaken' = (takeTimer /\ ~ present)
    /\ ForgetTray
    /\ UNCHANGED cdmInjectedError

Present ==
    /\ CdmRuns
    /\ presentedCash # NoCash
    /\ takeTimer' = TRUE
    /\ shown' = TRUE
    /\ overtaken' = FALSE
    /\ UNCHANGED <<count, status, presentedCash, cdmInjectedError, inside>>

(* Variants of Retract: the notes are not counted; the timer is left on.   *)
Retract_NotCounted ==
    /\ CdmRuns
    /\ presentedCash # NoCash
    /\ presentedCash' = NoCash
    /\ takeTimer' = FALSE
    /\ shown' = FALSE
    /\ overtaken' = FALSE
    /\ UNCHANGED <<count, status, cdmInjectedError, inside>>

Retract_TimerLeft ==
    /\ CdmRuns
    /\ presentedCash # NoCash
    /\ count["REJECT"] + Notes(presentedCash.notes) <= MaxReject
    /\ count' = [count EXCEPT !["REJECT"] = @ + Notes(presentedCash.notes)]
    /\ presentedCash' = NoCash
    /\ shown' = FALSE
    /\ overtaken' = FALSE
    /\ UNCHANGED <<status, takeTimer, cdmInjectedError, inside>>

(* RETRACT and REJECT; MaxReject is a bound of the model, not of the code. *)
Retract ==
    /\ CdmRuns
    /\ presentedCash # NoCash
    /\ count["REJECT"] + Notes(presentedCash.notes) <= MaxReject
    /\ count' = [count EXCEPT !["REJECT"] = @ + Notes(presentedCash.notes)]
    /\ presentedCash' = NoCash
    /\ takeTimer' = FALSE
    /\ shown' = FALSE
    /\ overtaken' = FALSE
    /\ UNCHANGED <<status, cdmInjectedError, inside>>

(* RESET, which always runs, with notes in the tray too.                   *)
CdmReset ==
    /\ takeTimer' = FALSE
    /\ presentedCash' = NoCash
    /\ cdmInjectedError' = FALSE
    /\ shown' = FALSE
    /\ overtaken' = FALSE
    /\ ForgetTray
    /\ UNCHANGED <<count, status>>

-----------------------------------------------------------------------------
(* The take timer fires: the notes count as taken.                         *)
TakeTimeout ==
    /\ takeTimer
    /\ takeTimer' = FALSE
    /\ presentedCash' = NoCash
    /\ shown' = FALSE
    /\ overtaken' = FALSE
    /\ inside' = inside - InTray
    /\ UNCHANGED <<count, status, cdmInjectedError>>

(* The operator.                                                           *)
ReplenishCassette(u, n) ==
    /\ n <= Maximum[u]
    /\ count' = [count EXCEPT ![u] = n]
    /\ status' = IF u = "REJECT" THEN status ELSE [status EXCEPT ![u] = StatusOf(u, n)]
    /\ inside' = inside + n - count[u]
    /\ UNCHANGED <<presentedCash, takeTimer, cdmInjectedError, shown, overtaken>>

SimulateJam(u) ==
    /\ status' = [status EXCEPT ![u] = "JAMMED"]
    /\ UNCHANGED <<count, presentedCash, takeTimer, cdmInjectedError, shown, overtaken, inside>>

ClearJam(u) ==
    /\ status' = [status EXCEPT ![u] = StatusOf(u, count[u])]
    /\ UNCHANGED <<count, presentedCash, takeTimer, cdmInjectedError, shown, overtaken, inside>>

CdmInjectError ==
    /\ cdmInjectedError' = TRUE
    /\ UNCHANGED <<count, status, presentedCash, takeTimer, shown, overtaken, inside>>

CdmNext ==
    \/ \E amount \in Requested : \E mix \in MixesFor(amount), present \in BOOLEAN :
          Dispense(amount, mix, present)
    \/ Present \/ Retract \/ CdmReset \/ CdmThrowInjected \/ TakeTimeout \/ CdmInjectError
    \/ \E u \in Units : \E n \in 0 .. Maximum[u] : ReplenishCassette(u, n)
    \/ \E u \in Cassettes : SimulateJam(u) \/ ClearJam(u)

CdmSpec == CdmInit /\ [][CdmNext]_cdmVars

-----------------------------------------------------------------------------
(* EMPTY, LOW and OK agree with the count (dispense only ever lowers the   *)
(* status, never raises it).                                               *)
StatusMatchesCount ==
    \A u \in Cassettes : status[u] # "JAMMED" => status[u] = StatusOf(u, count[u])

(***************************************************************************)
(* A note leaves the machine's books only with a customer or with the      *)
(* record of the tray: those in the cassettes, in the REJECT unit and in   *)
(* the tray are those that were put in, less those taken, less those that  *)
(* were in the tray when a second DISPENSE overwrote presentedCash         *)
(* (cdm.service.ts:219) or a RESET cleared it (:61).  And what the         *)
(* operator's console shows of a cassette is true of it.                   *)
(***************************************************************************)
NotesConserved ==
    /\ inside = SumFunction(count) + InTray
    /\ StatusMatchesCount

(***************************************************************************)
(* The timer that declares the notes taken runs only while there are notes *)
(* in the tray; and these the customer was shown, unless a DISPENSE that   *)
(* does not present put them there while the timer of others was running.  *)
(***************************************************************************)
OnlyShownIsTaken == takeTimer => presentedCash # NoCash /\ (shown \/ overtaken)

(* Every mix worth the amount, and whether the cassettes can pay it.       *)
ExactMixes ==
    LET most == Max({Maximum[u] : u \in Cassettes})
    IN  [amount \in Requested |->
            {mix \in [Denominations -> 0 .. most] : Worth(mix) = amount}]

Payable(mix) ==
    \A u \in Cassettes : Given(u, mix) <= IF status[u] = "JAMMED" THEN 0 ELSE count[u]

(***************************************************************************)
(* The notes in the tray are worth what was asked for, whichever way the   *)
(* mix was chosen; and when calculateMinNotesMix finds a mix, it is exact  *)
(* and dispense can pay it, whichever cassettes are jammed or short.       *)
(***************************************************************************)
TrayWorthAmount ==
    presentedCash # NoCash => Worth(presentedCash.notes) = presentedCash.amount

MixIsExact ==
    \A amount \in Requested :
        LET g == calculateMinNotesMix(amount)
        IN  g.remaining = 0 => Worth(g.mix) = amount /\ Sufficient(g.mix)

(* "greedy min-notes": besides, no exact mix that the cassettes can pay    *)
(* has fewer notes (which is so for the denominations of the rupiah, not   *)
(* for any).                                                               *)
MixIsMinimal ==
    /\ TrayWorthAmount
    /\ MixIsExact
    /\ \A amount \in Requested :
          LET g == calculateMinNotesMix(amount)
          IN  g.remaining = 0 =>
                 \A mix \in ExactMixes[amount] : Payable(mix) => Notes(g.mix) <= Notes(mix)

=============================================================================
