------------------------------- MODULE MCPlant -------------------------------
(*****************************************************************************)
(* The parts of a node that face the machine, on small instances: positions  *)
(* and clocks (guard, transfer, frames), the cyclic executor, the field bus  *)
(* and the safety case.  `part` is the component a behaviour exercises; the  *)
(* others stay in one initial state, and no product of them is built.        *)
(*****************************************************************************)
EXTENDS GuardBand, TimeTransfer, Frames, Schedule, Fieldbus, SafetyCase, TLC

CONSTANTS th1, th2,  \* threads that poll the field bus
          e1, e2     \* checks of the safety case

VARIABLE part
plantVars == <<part, guardVars, transferVars, frameVars, scheduleVars, fieldVars, caseVars>>

ThreadSymmetry == Permutations({th1, th2})

\* A delegated volume, and true poses of frames.
OneVolume == {[low |-> -5, high |-> 4]}
ThreePoses == {[turn |-> 0, x |-> 0, y |-> 0], [turn |-> 1, x |-> 1, y |-> 0],
               [turn |-> 0, x |-> 2, y |-> 1]}
\* An emergency stop wired active low, a zone input, a coil and one that is
\* read only.
SignalSpace(s) == IF s \in {"coil", "fixed"} THEN "coil" ELSE "discrete_input"
WiredLow(s) == s = "estop"
IsSafety(s) == s \notin {"coil", "fixed"}
\* Every argument over three claims and two checks, with one that cites a claim
\* nobody defined and one that is circular; and arguments whose root is another
\* claim or none, or that cite a check nobody defined.
Tree == [n \in 1..3 |-> IF n = 1 THEN {2, 3} ELSE {}]
SmallCases ==
    {[root |-> 1, sub |-> s, by |-> e, kind |-> k] :
        s \in [1..3 -> SUBSET {2, 3}] \cup {[n \in 1..3 |-> IF n = 2 THEN {9} ELSE {2}],
                                            [n \in 1..3 |-> IF n = 2 THEN {1} ELSE {2}]},
        e \in [1..3 -> {{}, {e1}, {e2}}],
        k \in {[n \in 1..3 |-> IF n = 2 THEN x ELSE "argued"] : x \in Kinds}}
    \cup {[root |-> r, sub |-> Tree, by |-> e, kind |-> [n \in 1..3 |-> "argued"]] :
        r \in {1, 2, 9}, e \in [1..3 -> {{e1}, {e1, 9}}]}
FirstCase == CHOOSE s \in SmallCases : TRUE

-----------------------------------------------------------------------------
\* What a component that is not exercised starts from, where there is a choice.
Pinned ==
    /\ part # "guard" => at = [r \in Platforms |-> 0] /\ medium = [a |-> "ground", b |-> "air"]
    /\ part # "transfer" => offset = 0
    /\ part # "frames" => pose = [f \in FrameNames |-> [turn |-> 0, x |-> 0, y |-> 0]]
    /\ part # "schedule" => mode = [policy |-> "skip", autoReset |-> FALSE]
    /\ part # "case" => argument = FirstCase
PlantInit ==
    /\ part \in {"guard", "transfer", "frames", "schedule", "fieldbus", "case"}
    /\ Pinned
    /\ GuardInit /\ TransferInit /\ FrameInit /\ ScheduleInit /\ FieldbusInit /\ CaseInit
PlantNext ==
    /\ UNCHANGED part
    /\ \/ part = "guard" /\ GuardNext
          /\ UNCHANGED <<transferVars, frameVars, scheduleVars, fieldVars, caseVars>>
       \/ part = "transfer" /\ TransferNext
          /\ UNCHANGED <<guardVars, frameVars, scheduleVars, fieldVars, caseVars>>
       \/ part = "frames" /\ FrameNext
          /\ UNCHANGED <<guardVars, transferVars, scheduleVars, fieldVars, caseVars>>
       \/ part = "schedule" /\ ScheduleNext
          /\ UNCHANGED <<guardVars, transferVars, frameVars, fieldVars, caseVars>>
       \/ part = "fieldbus" /\ FieldbusNext
          /\ UNCHANGED <<guardVars, transferVars, frameVars, scheduleVars, caseVars>>
       \/ part = "case" /\ CaseNext
          /\ UNCHANGED <<guardVars, transferVars, frameVars, scheduleVars, fieldVars>>
PlantSpec == PlantInit /\ [][PlantNext]_plantVars
=============================================================================
