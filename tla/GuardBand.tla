------------------------------- MODULE GuardBand -------------------------------
(***************************************************************************)
(* Guard bands (spatial/state.py, spatial/guard.py, spatial/authority.py): *)
(* robots that move as they like within a speed limit, the last report of  *)
(* each, the box sized around it, and the two verdicts taken from the box: *)
(* two robots are apart, and a robot stays inside the volume delegated to  *)
(* another.                                                                *)
(*                                                                         *)
(* One axis; the boxes are axis-aligned, so the others are alike.  The     *)
(* covariances are probabilistic and left out (their extent is 0 here):    *)
(* what is checked is the part that "believes only the speed limit".       *)
(***************************************************************************)
EXTENDS Integers

CONSTANTS Limit,     \* speed_limit_mps
          Margin,    \* decision_margin_s: latency margin plus control period
          HalfWidth, \* half_width_ms of the reports' stamps
          Body,      \* body_radius_m
          Room,      \* bound: positions -Room..Room
          Volumes,   \* the volumes delegated: records [low, high]
          EndTime,   \* bound: instants explored
          NoReport

ASSUME GuardAssumption ==
    /\ {Limit, Margin, HalfWidth, Body, Room, EndTime} \subseteq Nat
    /\ \A v \in Volumes : v.low \in Int /\ v.high \in Int /\ v.low < v.high

VARIABLES
    time,      \* the observer's clock
    at,        \* where each robot is
    report,    \* its last StateReport
    medium,    \* its Morphology
    grant      \* the SpatialDelegation over robot "a", or NoReport

guardVars == <<time, at, report, medium, grant>>
Platforms == {"a", "b"}
Abs(x) == IF x < 0 THEN -x ELSE x
Larger(x, y) == IF x > y THEN x ELSE y

-----------------------------------------------------------------------------
(* The box: age_s, propagated_to, envelope_for *)

Age(r) == Larger(0, time - (report[r].stamp + HalfWidth))

\* The mean is carried forward; a report stamped in the future is held.
Centre(r) == report[r].position + report[r].velocity * Larger(0, time - report[r].stamp)

HorizonWithoutMargin(r) == Age(r)                             \* fault
Horizon(r) == Age(r) + Margin

\* reach_mps: a vehicle that turns round is only bound by its speed limit.
Reach(r) == Limit * Horizon(r)

\* max(statistical, reachable) + body radius, with a statistical bound of 0
HalfExtent(r) == Reach(r) + Body

Box(r) == [low |-> Centre(r) - HalfExtent(r), high |-> Centre(r) + HalfExtent(r)]

-----------------------------------------------------------------------------
(* The verdicts: check_separation and authorise *)

Interacts == {medium["a"], medium["b"]} # {"air", "subsurface"}
                /\ {medium["a"], medium["b"]} # {"ground", "subsurface"}
AxisMargin == Abs(Centre("a") - Centre("b")) - (HalfExtent("a") + HalfExtent("b"))
Separated == ~Interacts \/ AxisMargin > 0

ValidAt(d) == d.from <= time /\ time < d.until
Clearance(d) ==
    LET low == Box("a").low - d.low
        high == d.high - Box("a").high
    IN IF low < high THEN low ELSE high
Authorised ==
    /\ grant # NoReport /\ ValidAt(grant)
    /\ report["a"].velocity <= grant.speed
    /\ Clearance(grant) >= 0

-----------------------------------------------------------------------------
\* A robot is heard: its stamp is its true instant up to the clock's error;
\* the extremes of the error and of the velocity are explored.
Hear(r) ==
    /\ \E v \in {-Limit, Limit}, e \in {-HalfWidth, HalfWidth} :
          report' = [report EXCEPT ![r] = [position |-> at[r], velocity |-> v,
                                           stamp |-> time + e]]
    /\ UNCHANGED <<time, at, medium, grant>>

\* A delegation that ends; no capability of the safety layer can be named.
Delegate ==
    /\ grant = NoReport
    /\ \E v \in Volumes, until \in (time + 1)..EndTime :
          grant' = [low |-> v.low, high |-> v.high, from |-> time, until |-> until,
                    speed |-> Limit]
    /\ UNCHANGED <<time, at, report, medium>>

\* Time passes: every robot moves within its limit, whatever it reported.
Pass ==
    /\ time < EndTime /\ time' = time + 1
    /\ \E move \in [Platforms -> -Limit..Limit] :
          at' = [r \in Platforms |-> at[r] + move[r]]
    /\ UNCHANGED <<report, medium, grant>>

GuardInit ==
    /\ time = 0
    /\ at \in [a : {0}, b : {0, Room}]
    /\ report = [r \in Platforms |-> NoReport]
    /\ medium \in {[a |-> "ground", b |-> "air"], [a |-> "air", b |-> "subsurface"]}
    /\ grant = NoReport

GuardNext == \/ \E r \in Platforms : Hear(r)
             \/ Delegate \/ Pass
GuardSpec == GuardInit /\ [][GuardNext]_guardVars

-----------------------------------------------------------------------------
(* Properties *)

Heard(r) == report[r] # NoReport
\* The decision is taken and takes effect within the margin it allows for.
InMargin(r) == Heard(r) /\ (time - report[r].stamp) + 2 * HalfWidth <= Margin

\* A pair that check_separation calls clear does not touch, and a robot that
\* a delegation authorises is inside its volume, wherever the robots went
\* since they were heard, as long as their reports are within the margin.
VerdictIsReal ==
    /\ InMargin("a") /\ InMargin("b") /\ Separated /\ Interacts
          => Abs(at["a"] - at["b"]) > 2 * Body
    /\ InMargin("a") /\ Authorised
          => grant.low <= at["a"] - Body /\ at["a"] + Body <= grant.high
=============================================================================
