-------------------------------- MODULE Preflight --------------------------------
(***************************************************************************)
(* The digital twin in front of the reservation book (twin/preflight.py,   *)
(* twin/kinematic.py, twin/sync.py, and _preflight, _reserve and           *)
(* _release_reservation of fleet/service.py): a mission is simulated, the  *)
(* windows in which it crosses each cell are reserved, and the vehicle     *)
(* then drives as predicted.                                               *)
(*                                                                         *)
(* The grid is one row of cells and a vehicle crosses a cell per tick; the *)
(* trapezoidal profile and the turns only change how long a leg takes.  A  *)
(* tick is long against a dispatch, so time does not pass between a        *)
(* preflight and its reservation, but other dispatches do.                 *)
(***************************************************************************)
EXTENDS Reservations, Sequences

CONSTANTS Track,       \* the cells are 0..Track
          Blocked,     \* blocked cells of the grid
          Trips,       \* the missions: sequences of steps
          Full,        \* a full battery
          Charges,     \* batteries vehicles start with
          Floor,       \* reserve_battery
          MaxCells,    \* MAX_RESERVED_CELLS
          Threshold,   \* consecutive_threshold
          NoPlan

ASSUME PreflightAssumption ==
    /\ {Track, Full, Floor, MaxCells, Threshold} \subseteq Nat /\ Charges \subseteq 0..Full
    /\ Trips \subseteq Seq([kind : {"move", "pick", "wait", "charge"}, to : 0..Track, dwell : Nat,
                            target : Nat])

VARIABLES
    plan,      \* the mission each vehicle is dispatched on
    stands,    \* the cell a vehicle without a mission stands in
    battery,   \* and its battery
    streak,    \* TwinSync._streaks
    trusted    \* TwinSync._trusted

twinVars == <<plan, stands, battery, streak, trusted>>
Gap(x, y) == IF x < y THEN y - x ELSE x - y

-----------------------------------------------------------------------------
(* VehicleSim and the loop of preflight_mission *)

\* trace(): the cells of a straight leg, in order.
Trace(a, b) == [k \in 1..(Gap(a, b) + 1) |-> IF a <= b THEN a + k - 1 ELSE a - k + 1]

\* DifferentialDriveModel: one unit of time and two of energy for a cell.
DriveTime(a, b) == Gap(a, b)
Energy(leg, dwell) == 2 * leg + dwell

Travel(s, step) ==
    LET leg == DriveTime(s.at, step.to)
        dwell == IF step.kind = "pick" THEN step.dwell ELSE 0
        until == s.cursor + leg + dwell
        left == s.left - Energy(leg, dwell)
    IN [s EXCEPT !.at = step.to, !.cursor = until, !.left = IF left < 0 THEN 0 ELSE left,
                 !.seen = @ \o [k \in 1..(leg + 1) |->
                     [cell |-> Trace(s.at, step.to)[k], start |-> s.cursor, end |-> until]]]
Rest(s, step) ==
    [s EXCEPT !.cursor = @ + step.dwell, !.left = IF @ < step.dwell THEN 0 ELSE @ - step.dwell]
\* charge(): to the step's target_ratio, and never down to it.
Charge(s, step) ==
    LET goal == Least({Full, step.target})
    IN IF s.left < goal THEN [s EXCEPT !.cursor = @ + (goal - s.left), !.left = goal] ELSE s

After(s, step) ==
    CASE step.kind \in {"move", "pick"} -> Travel(s, step)
      [] step.kind = "charge" -> Charge(s, step)
      [] step.kind = "wait" -> Rest(s, step)

\* The state of the simulation after every step, with the battery's low water.
Simulated(steps, at, left, now) ==
    LET sim[k \in 0..Len(steps)] ==
            IF k = 0 THEN [at |-> at, left |-> left, cursor |-> now, low |-> left, seen |-> <<>>]
            ELSE LET s == After(sim[k - 1], steps[k]) IN [s EXCEPT !.low = Least({@, s.left})]
    IN sim

-----------------------------------------------------------------------------
(* What is reserved *)

\* _merge_windows: one window for each cell, the union, in first-visit order;
\* windows of no length are dropped.
FirstVisit(seen, c) == Least({k \in DOMAIN seen : seen[k].cell = c /\ seen[k].end > seen[k].start})
Visited(seen) == {seen[k].cell : k \in {k \in DOMAIN seen : seen[k].end > seen[k].start}}
MergedFirst(seen) ==                                         \* fault: later windows dropped
    {[cell |-> c, start |-> seen[FirstVisit(seen, c)].start,
      end |-> seen[FirstVisit(seen, c)].end] : c \in Visited(seen)}
Merged(seen) ==
    {LET all == {k \in DOMAIN seen : seen[k].cell = c /\ seen[k].end > seen[k].start}
     IN [cell |-> c, start |-> Least({seen[k].start : k \in all}),
         end |-> Most({seen[k].end : k \in all})] : c \in Visited(seen)}

\* The list is cut at MaxCells, in the order of first visits.
VisitedBefore(seen, c) == {d \in Visited(seen) : FirstVisit(seen, d) < FirstVisit(seen, c)}
Occupancy(seen) ==
    {w \in Merged(seen) : Cardinality(VisitedBefore(seen, w.cell)) < MaxCells}

SpaceTimeConflicts(windows) ==
    \E i \in Ids : Active(i) /\ \E w \in windows, t \in rows[i].segs :
        w.cell = t.cell /\ TogetherBare(w, t)

LowWater(sim, n) == sim[n].low

Feasible(sim, n) ==
    /\ \A k \in DOMAIN sim[n].seen : sim[n].seen[k].cell \notin Blocked
    /\ LowWater(sim, n) >= Floor
    /\ ~SpaceTimeConflicts(Merged(sim[n].seen))

-----------------------------------------------------------------------------
(* MissionService: _preflight, _reserve, _release_reservation *)

Dispatched(v, steps, stage, windows) ==
    [stage |-> stage, id |-> NoRow, windows |-> windows,
     sim |-> Simulated(steps, stands[v], battery[v], moment), steps |-> steps]

\* A twin that has diverged is not used: no preflight and no reservation.
RunPreflight(v, steps) ==
    /\ plan[v] = NoPlan
    /\ LET sim == Simulated(steps, stands[v], battery[v], moment)
       IN \/ /\ trusted[v] /\ Feasible(sim, Len(steps))
             /\ plan' = [plan EXCEPT ![v] =
                   Dispatched(v, steps, "checked", Occupancy(sim[Len(steps)].seen))]
          \/ /\ ~trusted[v]
             /\ plan' = [plan EXCEPT ![v] = Dispatched(v, steps, "blind", {})]
    /\ UNCHANGED <<bookVars, stands, battery, streak, trusted>>

\* Segments carry no guard and no box.  A conflict fails the mission.
Reserve(v, i) ==
    LET segs == {[cell |-> w.cell, start |-> w.start, end |-> w.end, guard |-> 0, box |-> NoBox] :
                    w \in plan[v].windows}
        horizon == Most({s.end : s \in segs}) - moment
        lease == Most({1, Least({MaxLease, horizon + Grace})})
    IN /\ plan[v] # NoPlan /\ plan[v].stage = "checked"
       /\ \A w \in Owners : plan[w] # NoPlan => plan[w].id # i
       /\ \/ /\ segs = {}
             /\ plan' = [plan EXCEPT ![v].stage = "blind"] /\ UNCHANGED rows
          \/ /\ segs # {}
             /\ Request(i, v, segs, lease, NoRow)
             /\ plan' = [plan EXCEPT ![v] = IF Granted(i, v, segs)
                                            THEN [@ EXCEPT !.stage = "driving", !.id = i] ELSE NoPlan]
       /\ UNCHANGED <<moment, skew, stands, battery, streak, trusted>>

Ended(p) == p.sim[Len(p.steps)].cursor <= moment

\* reconcile() sees the terminal state and releases what is still held.
Finish(v) ==
    /\ plan[v] # NoPlan /\ plan[v].stage # "checked" /\ Ended(plan[v])
    /\ stands' = [stands EXCEPT ![v] = plan[v].sim[Len(plan[v].steps)].at]
    /\ battery' = [battery EXCEPT ![v] = plan[v].sim[Len(plan[v].steps)].left]
    /\ plan' = [plan EXCEPT ![v] = NoPlan]
    /\ IF plan[v].id # NoRow /\ Active(plan[v].id) THEN Release(plan[v].id, v) ELSE UNCHANGED rows
    /\ UNCHANGED <<moment, skew, streak, trusted>>

\* TwinSync.observe: a sample within tolerance restores trust, Threshold
\* samples in a row beyond it take it away.
ObserveTwin(v, beyond) ==
    LET run == IF beyond THEN Least({streak[v] + 1, Threshold}) ELSE 0
    IN /\ streak' = [streak EXCEPT ![v] = run]
       /\ trusted' = [trusted EXCEPT ![v] = IF beyond THEN @ /\ run < Threshold ELSE TRUE]
       /\ UNCHANGED <<bookVars, plan, stands, battery>>

Drive ==
    /\ \A v \in Owners : plan[v] # NoPlan => plan[v].stage # "checked" /\ ~Ended(plan[v])
    /\ TimePasses
    /\ UNCHANGED twinVars

PreflightInit ==
    /\ moment = 0 /\ rows = [i \in Ids |-> NoRow] /\ skew = [o \in Owners |-> 0]
    /\ plan = [v \in Owners |-> NoPlan]
    /\ stands \in [Owners -> 0..Track] /\ \A v, w \in Owners : v # w => stands[v] # stands[w]
    /\ battery \in [Owners -> Charges]
    /\ streak = [v \in Owners |-> 0] /\ trusted = [v \in Owners |-> TRUE]
PreflightNext ==
    \/ \E v \in Owners : \/ \E steps \in Trips : RunPreflight(v, steps)
                         \/ \E i \in Ids : Reserve(v, i)
                         \/ Finish(v)
                         \/ \E beyond \in BOOLEAN : ObserveTwin(v, beyond)
    \/ Drive
PreflightSpec == PreflightInit /\ [][PreflightNext]_<<bookVars, twinVars>>

-----------------------------------------------------------------------------
(* Properties *)

Underway(v) == plan[v] # NoPlan /\ plan[v].stage = "driving" /\ ~Ended(plan[v])
StepNow(v) == Least({k \in DOMAIN plan[v].steps : moment < plan[v].sim[k].cursor})
Crossing(v) == plan[v].steps[StepNow(v)].kind \in {"move", "pick"}
CellNow(v) ==
    LET from == plan[v].sim[StepNow(v) - 1]
        leg == Trace(from.at, plan[v].sim[StepNow(v)].at)
    IN IF Crossing(v) THEN leg[Least({moment - from.cursor + 1, Len(leg)})] ELSE from.at

\* The cell a vehicle is in is among the first MaxCells cells of its own trip.
InList(v) ==
    Cardinality(VisitedBefore(plan[v].sim[Len(plan[v].steps)].seen, CellNow(v))) < MaxCells
OnRoute(v) == Underway(v) /\ Active(plan[v].id) /\ Crossing(v) /\ InList(v)

RoutesApart ==
    \A v, w \in Owners : v # w /\ OnRoute(v) /\ OnRoute(w) => CellNow(v) # CellNow(w)
BatteryHolds ==
    \A v \in Owners : Underway(v) => plan[v].sim[StepNow(v) - 1].left >= Floor
                                        /\ plan[v].sim[StepNow(v)].left >= Floor

\* Two vehicles that drive, pick or drop on routes granted to them are never
\* in one cell that is among the first MaxCells of both their trips, whoever
\* was dispatched between a preflight and its reservation: _reserve books no
\* cell past MAX_RESERVED_CELLS, and there vehicles may meet.  None runs below
\* the reserve before it is done: the low water was that of the whole trip.
PlanHolds == RoutesApart /\ BatteryHolds
=============================================================================
