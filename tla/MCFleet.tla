-------------------------------- MODULE MCFleet --------------------------------
(***************************************************************************)
(* The fleet's side of a mission on small instances: the vendors that move *)
(* robots, the reservations of space, and the preflight that plans before  *)
(* reserving.  `part` is the component a behaviour exercises; the others   *)
(* stay in one initial state.                                              *)
(***************************************************************************)
EXTENDS Preflight, Vendors, TLC

CONSTANTS j1, j2, o1, o2, i1, i2

VARIABLE part
fleetVars == <<part, bookVars, twinVars, vendorVars>>

FleetSymmetry == Permutations({j1, j2}) \cup Permutations({o1, o2}) \cup Permutations({i1, i2})

\* A step of a trip, and the trips vehicles are asked to make.
Leg(k, n, d) == [kind |-> k, to |-> n, dwell |-> d, target |-> 8]
SomeTrips == {<<Leg("move", 2, 0), Leg("pick", 1, 1)>>, <<Leg("wait", 0, 1), Leg("pick", 2, 1)>>,
              <<Leg("move", 2, 0), Leg("move", 0, 0), Leg("charge", 0, 0)>>}

TwinAtRest ==
    /\ plan = [v \in Owners |-> NoPlan] /\ stands = [v \in Owners |-> 0]
    /\ battery = [v \in Owners |-> Full]
    /\ streak = [v \in Owners |-> 0] /\ trusted = [v \in Owners |-> TRUE]
BookAtRest == moment = 0 /\ rows = [i \in Ids |-> NoRow] /\ skew = [o \in Owners |-> 0]

FleetInit ==
    \/ part = "vendors" /\ VendorInit /\ TwinAtRest /\ BookAtRest
    \/ part = "book" /\ BookInit /\ TwinAtRest /\ kind = "sim" /\ VendorInit
    \/ part = "preflight" /\ PreflightInit /\ kind = "sim" /\ VendorInit
FleetNext ==
    /\ UNCHANGED part
    /\ \/ part = "vendors" /\ VendorNext /\ UNCHANGED <<bookVars, twinVars>>
       \/ part = "book" /\ BookNext /\ UNCHANGED <<twinVars, vendorVars>>
       \/ part = "preflight" /\ PreflightNext /\ UNCHANGED vendorVars
FleetSpec == FleetInit /\ [][FleetNext]_fleetVars
=============================================================================
