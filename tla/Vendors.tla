-------------------------------- MODULE Vendors --------------------------------
(***************************************************************************)
(* The vendor adapters behind fleet/adapter.py: what a mission row says    *)
(* when the fleet manager is a VDA 5050 vehicle on MQTT (vda5050.py), a    *)
(* vendor's REST service (rest.py) or the simulation (simulated.py).       *)
(*                                                                         *)
(* One vehicle, one coordinator.  The VDA adapter is a cache of the last   *)
(* state message and publishes orders and instant actions on two topics:   *)
(* MQTT keeps the order of one topic only, and may lose a message.  The    *)
(* vehicle and the REST vendor are external.  submit(), cancel() and       *)
(* reconcile() are taken in the steps that touch the adapter; Missions     *)
(* interleaves them with each other.                                       *)
(***************************************************************************)
EXTENDS Naturals, Sequences, FiniteSets

CONSTANTS Jobs,      \* mission ids
          Kinds,     \* adapters explored: a subset of {"vda", "rest", "sim"}
          Nothing,   \* no order, no message
          Steps,     \* bound: nodes of an order
          MaxWire    \* bound: messages in flight on one topic

ASSUME VendorAssumption ==
    /\ Kinds \subseteq {"vda", "rest", "sim"} /\ Nothing \notin Jobs
    /\ Steps \in Nat \ {0} /\ MaxWire \in Nat

VARIABLES
    kind,      \* which adapter serves the fleet
    phase,     \* the mission row
    route,     \* the reservation of the mission
    thread,    \* submit() of each mission: idle, or about to call the vendor
    known,     \* _orders (VDA) or _missions (simulation) of the adapter
    raw,       \* VDA: _raw
    sheet,     \* VDA: _capabilities
    orders,    \* MQTT: topic "order"
    instants,  \* MQTT: topic "instantActions"
    news,      \* MQTT: topic "state"
    veh,       \* the vehicle
    ended,     \* what the vehicle did about each mission
    misread,   \* missions completed on a message about another order
    backed     \* missions whose row a vendor's word moved before dispatch

rowVars == <<phase, route, thread>>
cacheVars == <<known, raw, sheet>>
mqttVars == <<orders, instants, news>>
ghostVars == <<misread, backed>>
vendorVars == <<kind, rowVars, cacheVars, mqttVars, veh, ended, ghostVars>>

-----------------------------------------------------------------------------
(* The vehicle and the messages about it *)

IdleVehicle == [order |-> Nothing, left |-> 0, paused |-> FALSE, failed |-> FALSE]

\* A state message: orderId, open nodes and actions, paused, and a failed
\* action or fatal error.  A mode other than AUTOMATIC, an emergency stop, a
\* violated field, a low battery, a lost connection or a state that is too old
\* (_fresh: no clock here) only refuses work: then Select is not taken.
StateMessage == veh

\* VehicleState.dispatchable
Busy(s) == s.order # Nothing
Dispatchable(s) == ~s.failed /\ ~Busy(s)

\* list_vehicles of each adapter: the cached message, if any was heard, or the
\* vendor's own view of the vehicle.
View == IF kind = "vda" THEN raw ELSE veh

\* select_vehicle
Selectable == View # Nothing /\ Dispatchable(View)

\* capabilities().supports(): before the factsheet, and over REST, movement only.
SupportedVda(needsAction) == sheet \/ ~needsAction
SupportedRest(needsAction) == ~needsAction
Supported(needsAction) ==
    CASE kind = "vda" -> SupportedVda(needsAction)
      [] kind = "rest" -> SupportedRest(needsAction)
      [] OTHER -> TRUE

Publish(queue, m) == IF Len(queue) < MaxWire THEN {Append(queue, m)} ELSE {}
\* MissionState.terminal
Terminal == {"completed", "failed", "cancelled", "rejected"}
\* Rows that no vehicle has been asked for, as cancel() takes them.
Undispatched == {"accepted", "preflight"}
ReleaseRoute(m) == IF route[m] = "held" THEN [route EXCEPT ![m] = "released"] ELSE route

-----------------------------------------------------------------------------
(* submit(): selection, reservation and prepare_dispatch, then the call *)

Select(m, needsAction) ==
    /\ phase[m] = "none" /\ Selectable
    /\ IF Supported(needsAction)
       THEN /\ phase' = [phase EXCEPT ![m] = "dispatching"]
            /\ route' = [route EXCEPT ![m] = "held"]
            /\ thread' = [thread EXCEPT ![m] = "send"]
       ELSE /\ phase' = [phase EXCEPT ![m] = "failed"]
            /\ UNCHANGED <<route, thread>>
    \* capabilities() asks for the factsheet that is missing.
    /\ IF kind = "vda" /\ ~sheet
       THEN instants' \in Publish(instants, "factsheetRequest") \cup {instants}
       ELSE UNCHANGED instants
    /\ UNCHANGED <<kind, cacheVars, orders, news, veh, ended, ghostVars>>

\* mark_assigned leaves a row that is no longer dispatching alone.
Assigned(m) ==
    /\ phase' = IF phase[m] = "dispatching" THEN [phase EXCEPT ![m] = "assigned"] ELSE phase
    /\ route' = IF phase[m] \in Terminal THEN ReleaseRoute(m) ELSE route
Refuse(m) ==
    /\ phase' = IF phase[m] \in Terminal THEN phase
                ELSE [phase EXCEPT ![m] = "failed"]
    /\ route' = ReleaseRoute(m)
Took(m) ==
    /\ veh' = [IdleVehicle EXCEPT !.order = m, !.left = Steps, !.paused = veh.paused]
    /\ ended' = [ended EXCEPT ![m] = "took"]

\* Vda5050Adapter.dispatch: publish, and only then remember the order.
DispatchVda(m) ==
    /\ kind = "vda"
    /\ orders' \in Publish(orders, m)
    /\ known' = [known EXCEPT ![m] = "assigned"]
    /\ Assigned(m)
    /\ UNCHANGED <<veh, ended>>

\* SimulatedFleetManager.dispatch: one mission per vehicle.
DispatchSim(m) ==
    /\ kind = "sim"
    /\ IF Busy(veh)
       THEN Refuse(m) /\ UNCHANGED <<known, veh, ended>>
       ELSE Took(m) /\ known' = [known EXCEPT ![m] = "assigned"] /\ Assigned(m)
    /\ UNCHANGED orders

\* RestFleetAdapter.dispatch: the vendor takes the job or answers an error.
DispatchRest(m) ==
    /\ kind = "rest"
    /\ \/ ~Busy(veh) /\ Took(m) /\ Assigned(m)
       \/ Refuse(m) /\ UNCHANGED <<veh, ended>>
    /\ UNCHANGED <<known, orders>>

Dispatch(m) ==
    /\ thread[m] = "send"
    /\ DispatchVda(m) \/ DispatchSim(m) \/ DispatchRest(m)
    /\ thread' = [thread EXCEPT ![m] = "idle"]
    /\ UNCHANGED <<kind, raw, sheet, instants, news, ghostVars>>

-----------------------------------------------------------------------------
(* reconcile(): mission_state of each adapter and what becomes of the row *)

\* mission_state_from
MissionStateFrom(s, m) ==
    IF s.order # m THEN "completed"
    ELSE IF s.failed THEN "failed"
    ELSE IF s.left = 0 THEN "completed"
    ELSE IF s.paused THEN "paused" ELSE "running"

VdaReports(m) ==
    IF known[m] = "none" THEN {}
    ELSE IF raw = Nothing THEN {"assigned"} ELSE {MissionStateFrom(raw, m)}

\* The neutral states a REST vendor's word may map to: state_values, an
\* upper-cased name of MissionState, or RUNNING for an unknown word.
RestReports(m) ==
    CASE ended[m] = "took" -> {"accepted", "preflight", "assigned", "running", "paused"}
      [] ended[m] = "done" -> {"completed"}
      [] ended[m] = "failed" -> {"failed", "rejected"}
      [] ended[m] = "dropped" -> {"cancelled"}
      [] OTHER -> {}

SimReports(m) ==
    IF known[m] = "none" THEN {}
    ELSE IF veh.order = m THEN {IF veh.left = Steps THEN "assigned" ELSE "running"}
    ELSE {known[m]}

\* Nothing at all: the adapter raises and the row is skipped.
Reports(m) ==
    CASE kind = "vda" -> VdaReports(m)
      [] kind = "rest" -> RestReports(m)
      [] OTHER -> SimReports(m)

Reconcile(m) ==
    /\ phase[m] \in {"dispatching", "accepted", "preflight", "assigned", "running", "paused"}
    /\ \E r \in Reports(m) :
          /\ phase' = [phase EXCEPT ![m] = r]
          /\ route' = IF r \in Terminal THEN ReleaseRoute(m) ELSE route
          /\ misread' = IF kind = "vda" /\ raw # Nothing /\ raw.order # m
                        THEN misread \cup {m} ELSE misread
          /\ backed' = IF r \in Undispatched THEN backed \cup {m} ELSE backed
    /\ UNCHANGED <<kind, thread, cacheVars, mqttVars, veh, ended>>

-----------------------------------------------------------------------------
(* cancel() and halt_all() *)

DropOrder(m) ==
    /\ veh' = [IdleVehicle EXCEPT !.paused = veh.paused]
    /\ ended' = [ended EXCEPT ![m] = "dropped"]

CancelRow(m) ==
    /\ phase' = [phase EXCEPT ![m] = "cancelled"]
    /\ route' = ReleaseRoute(m)

\* A row that is not dispatched is cancelled without the vendor.
CancelEarly(m) ==
    /\ phase[m] \in Undispatched
    /\ CancelRow(m)
    /\ UNCHANGED <<kind, thread, cacheVars, mqttVars, veh, ended, ghostVars>>

\* Vda5050Adapter.cancel: True once cancelOrder is published.
CancelVda(m) ==
    /\ kind = "vda" /\ known[m] # "none"
    /\ instants' \in Publish(instants, "cancelOrder")
    /\ CancelRow(m)
    /\ UNCHANGED <<known, veh, ended>>

CancelSimAlways(m) ==                                         \* fault: vehicle kept
    /\ kind = "sim" /\ known[m] # "none"
    /\ known' = [known EXCEPT ![m] = "cancelled"]
    /\ CancelRow(m)
    /\ UNCHANGED <<veh, ended, instants>>
CancelSim(m) ==
    /\ kind = "sim" /\ known[m] = "assigned"
    /\ known' = [known EXCEPT ![m] = "cancelled"]
    /\ IF veh.order = m THEN DropOrder(m) ELSE UNCHANGED <<veh, ended>>
    /\ CancelRow(m)
    /\ UNCHANGED instants

\* RestFleetAdapter.cancel: an error after the vendor obeyed is a refusal.
CancelRest(m) ==
    /\ kind = "rest" /\ ended[m] = "took"
    /\ DropOrder(m)
    /\ CancelRow(m) \/ UNCHANGED <<phase, route>>
    /\ UNCHANGED <<known, instants>>

Cancel(m) ==
    /\ phase[m] \in {"dispatching", "assigned", "running", "paused"}
    /\ CancelVda(m) \/ CancelSim(m) \/ CancelRest(m)
    /\ UNCHANGED <<kind, thread, raw, sheet, orders, news, ghostVars>>

\* request_stop_all: startPause on the wire, or a paused vehicle.
RequestStop ==
    /\ IF kind = "vda"
       THEN instants' \in Publish(instants, "startPause") /\ UNCHANGED veh
       ELSE veh' = [veh EXCEPT !.paused = TRUE] /\ UNCHANGED instants
    /\ UNCHANGED <<kind, rowVars, cacheVars, orders, news, ended, ghostVars>>

-----------------------------------------------------------------------------
(* Messages from the vehicle: on_message and _ingest_state *)

IngestState ==
    /\ kind = "vda" /\ news # <<>>
    /\ raw' = Head(news) /\ news' = Tail(news)
    /\ UNCHANGED <<kind, rowVars, known, sheet, orders, instants, veh, ended, ghostVars>>

\* A factsheet comes when the vehicle connects or is asked for one.
IngestFactsheet ==
    /\ kind = "vda" /\ ~sheet /\ sheet' = TRUE
    /\ UNCHANGED <<kind, rowVars, known, raw, mqttVars, veh, ended, ghostVars>>

\* A new process: the rows stay, what the VDA adapter remembers is gone.
Restart ==
    /\ kind # "sim"
    /\ known' = [m \in Jobs |-> "none"] /\ raw' = Nothing
    /\ sheet' = FALSE
    /\ thread' = [m \in Jobs |-> "idle"]
    /\ UNCHANGED <<kind, phase, route, mqttVars, veh, ended, ghostVars>>

-----------------------------------------------------------------------------
(* The vehicle (external), and MQTT *)

VehicleTakesOrder ==
    /\ orders # <<>> /\ orders' = Tail(orders)
    /\ \/ veh.left = 0 /\ Took(Head(orders))
       \/ UNCHANGED <<veh, ended>>
    /\ UNCHANGED <<kind, rowVars, cacheVars, instants, news, ghostVars>>

VehicleObeys ==
    /\ instants # <<>> /\ instants' = Tail(instants)
    /\ CASE Head(instants) = "cancelOrder" /\ veh.left > 0 ->
              DropOrder(veh.order)
         [] Head(instants) = "startPause" ->
              veh' = [veh EXCEPT !.paused = TRUE] /\ UNCHANGED ended
         [] OTHER -> UNCHANGED <<veh, ended>>
    /\ UNCHANGED <<kind, rowVars, cacheVars, orders, news, ghostVars>>

VehicleReports ==
    /\ kind = "vda" /\ news' \in Publish(news, StateMessage)
    /\ UNCHANGED <<kind, rowVars, cacheVars, orders, instants, veh, ended, ghostVars>>

Lost ==
    /\ \/ orders # <<>> /\ orders' = Tail(orders) /\ UNCHANGED <<instants, news>>
       \/ instants # <<>> /\ instants' = Tail(instants) /\ UNCHANGED <<orders, news>>
       \/ news # <<>> /\ news' = Tail(news) /\ UNCHANGED <<orders, instants>>
    /\ UNCHANGED <<kind, rowVars, cacheVars, veh, ended, ghostVars>>

\* _advance_vehicle: a halted vehicle makes no progress and does not fail.
Moving == veh.left > 0 /\ ~veh.paused
Advance ==
    /\ Moving
    /\ veh' = IF veh.left = 1 /\ kind # "vda" THEN IdleVehicle
              ELSE [veh EXCEPT !.left = @ - 1]
    /\ ended' = IF veh.left = 1 THEN [ended EXCEPT ![veh.order] = "done"] ELSE ended
    /\ known' = IF veh.left = 1 /\ kind = "sim"
                THEN [known EXCEPT ![veh.order] = "completed"] ELSE known
    /\ UNCHANGED <<kind, rowVars, raw, sheet, mqttVars, ghostVars>>

\* The simulation never fails a mission; a finished VDA order may be cleared.
VehicleChanges ==
    /\ \/ kind # "sim" /\ veh.left > 0
          /\ veh' = [veh EXCEPT !.failed = TRUE, !.left = 0]
          /\ ended' = [ended EXCEPT ![veh.order] = "failed"]
       \/ veh.left = 0 /\ veh' = [veh EXCEPT !.order = Nothing, !.failed = FALSE] /\ UNCHANGED ended
       \/ veh' = [veh EXCEPT !.paused = FALSE] /\ UNCHANGED ended
    /\ UNCHANGED <<kind, rowVars, cacheVars, mqttVars, ghostVars>>

-----------------------------------------------------------------------------
VendorInit ==
    /\ kind \in Kinds
    /\ phase = [m \in Jobs |-> "none"] /\ route = [m \in Jobs |-> "none"]
    /\ thread = [m \in Jobs |-> "idle"]
    /\ known = [m \in Jobs |-> "none"] /\ raw = Nothing
    /\ sheet = FALSE
    /\ orders = <<>> /\ instants = <<>> /\ news = <<>>
    /\ veh = IdleVehicle
    /\ ended = [m \in Jobs |-> "none"]
    /\ misread = {} /\ backed = {}

VendorNext ==
    \/ \E m \in Jobs : \/ \E a \in BOOLEAN : Select(m, a)
                       \/ Dispatch(m) \/ Reconcile(m) \/ CancelEarly(m) \/ Cancel(m)
    \/ RequestStop \/ IngestState \/ IngestFactsheet \/ Restart
    \/ VehicleTakesOrder \/ VehicleObeys \/ VehicleReports \/ Lost
    \/ Advance \/ VehicleChanges

VendorSpec == VendorInit /\ [][VendorNext]_vendorVars

-----------------------------------------------------------------------------
(* Properties *)

\* What reconcile() writes is what the vehicle did: a mission is completed
\* only if the vehicle finished it, unless a VDA state message about another
\* order was read as the end of this one.
CompletedIsDone ==
    \A m \in Jobs : phase[m] = "completed" => ended[m] = "done" \/ m \in misread

\* A mission recorded as cancelled is not driven, except over MQTT, where a
\* published cancelOrder may be lost or overtake its order, and after a REST
\* vendor's word put a driving mission back before its dispatch.
CancelledIsStopped ==
    \A m \in Jobs : phase[m] = "cancelled" /\ ended[m] = "took"
                       => kind = "vda" \/ m \in backed

\* The phase of a mission says what its vehicle does, whichever adapter
\* translates the vendor's words.
PhaseIsReal == CompletedIsDone /\ CancelledIsStopped
=============================================================================
