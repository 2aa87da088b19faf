------------------------------- MODULE Missions -------------------------------
(***************************************************************************)
(* Fleet missions (fleet/service.py over storage/missions_repo.py): a      *)
(* submission is recorded, gated, preflighted, reserved, fenced, recorded  *)
(* as dispatching, handed to a vendor's fleet manager, and recorded as     *)
(* assigned; cancellations and the leader's reconcile loop work on the     *)
(* same rows; every process may exit between two steps.                    *)
(*                                                                         *)
(* One step is one transaction or one call to the vendor.  Leadership is   *)
(* the abstract one that LeaderLease implements.  The vendor is external:  *)
(* it may take a mission and still raise (a lost REST answer); what it     *)
(* answers otherwise is what the vehicle does (fleet/simulated.py).        *)
(***************************************************************************)
EXTENDS Leadership, FiniteSets

CONSTANTS MissionIds,
          Ambiguity,  \* TRUE iff a vendor call may take effect and raise
          MaxTerm     \* bound: terms explored

ASSUME MissionAssumption == Ambiguity \in BOOLEAN /\ MaxTerm \in Nat

VARIABLES
    row,         \* durable: work_items rows of kind 'mission'
    booked,      \* durable: the reservation "mission-<id>"
    up,          \* nodes whose process runs
    tracked,     \* _reserved of each node: missions it holds a reservation for
    sub,         \* the thread inside submit() of each mission
    can,         \* a thread inside cancel() of each mission
    rec,         \* the reconcile loop of each node
    vendor,      \* environment: what the vehicle does about a mission
    dispatches,  \* environment: times a vendor took the mission
    ambiguous    \* environment: missions whose dispatch took effect and raised

missionVars == <<row, booked, up, tracked, sub, can, rec, vendor, dispatches, ambiguous>>
allVars == <<leadershipVars, missionVars>>
worldVars == <<vendor, dispatches, ambiguous>>

-----------------------------------------------------------------------------
(* Rows: the lifecycle state and the mission phase *)

Early == {"accepted", "preflight"}
Driving == {"assigned", "running", "paused"}
Phases == Early \cup Driving \cup {"none", "dispatching", "completed", "failed",
                                   "cancelled", "rejected"}
LifecycleStates == {"absent", "queued", "running", "succeeded", "failed", "cancelled"}
Rows == [state : LifecycleStates, phase : Phases, fleet : BOOLEAN, dispatched : BOOLEAN]
NoRow == [state |-> "absent", phase |-> "none", fleet |-> FALSE, dispatched |-> FALSE]

\* _STATE_TO_LIFECYCLE
Lifecycle(phase) ==
    CASE phase \in Early -> "queued"
      [] phase \in Driving -> "running"
      [] phase = "completed" -> "succeeded"
      [] phase \in {"failed", "rejected"} -> "failed"
      [] phase = "cancelled" -> "cancelled"

ActiveRow(r) == r.state \in {"queued", "running"}
Terminal(phase) == phase \in {"completed", "failed", "cancelled", "rejected"}
SetPhase(m, ph) == [row EXCEPT ![m] = [@ EXCEPT !.state = Lifecycle(ph), !.phase = ph]]

\* The guards of prepare_dispatch, mark_assigned and finish.
CanPrepareActive(r) == ActiveRow(r)                         \* fault: CAS too wide
CanPrepare(r) == r.state = "queued" /\ r.phase \in Early
CanAssign(r) == r.state = "running" /\ r.phase = "dispatching"
CanFinish(r) == ActiveRow(r) /\ r.phase \in Early \cup Driving \cup {"dispatching"}

-----------------------------------------------------------------------------
(* _release_reservation: only the node that made the reservation knows it *)

ReleaseReservation(n, m) ==
    /\ tracked' = [tracked EXCEPT ![n] = @ \ {m}]
    /\ booked' = IF m \in tracked[n] /\ booked[m] = "granted"
                 THEN [booked EXCEPT ![m] = "released"]
                 ELSE booked

NoThread == [pc |-> "idle", node |-> None, fence |-> 0]
SubGoto(m, label) == sub' = [sub EXCEPT ![m] = [@ EXCEPT !.pc = label]]
SubDone(m) == sub' = [sub EXCEPT ![m] = NoThread]
CanGoto(m, label) == can' = [can EXCEPT ![m] = [@ EXCEPT !.pc = label]]
CanDone(m) == can' = [can EXCEPT ![m] = NoThread]

-----------------------------------------------------------------------------
(* submit() and _dispatch() *)

RetriesFinished(r) == ~ActiveRow(r)                         \* fault: rows are reused
Acceptable(r) == r.state = "absent"

\* accept: only the request that creates the row goes on.  The request may
\* name its fleet.
Submit(m, n) ==
    /\ n \in up /\ Acceptable(row[m])
    /\ \E named \in BOOLEAN :
          row' = [row EXCEPT ![m] = [NoRow EXCEPT !.state = "queued",
                                        !.phase = "accepted", !.fleet = named]]
    /\ sub' = [sub EXCEPT ![m] = [pc |-> "gate", node |-> n, fence |-> 0]]
    /\ UNCHANGED <<leadershipVars, booked, up, tracked, can, rec, worldVars>>

\* Safety latch, leadership and vehicle selection: refused, or the term of
\* the proof is kept.
Gate(m) ==
    /\ sub[m].pc = "gate"
    /\ \/ /\ live /\ leader = sub[m].node
          /\ sub' = [sub EXCEPT ![m] = [@ EXCEPT !.pc = "preflight", !.fence = term]]
       \/ SubGoto(m, "reject")
    /\ UNCHANGED <<leadershipVars, row, booked, up, tracked, can, rec, worldVars>>

\* Without a (trusted) twin nothing is recorded or reserved.
Preflight(m) ==
    /\ sub[m].pc = "preflight"
    /\ \/ SubGoto(m, "guard") /\ UNCHANGED row
       \/ /\ row' = IF row[m].state = "queued" /\ row[m].phase = "accepted"
                    THEN SetPhase(m, "preflight") ELSE row
          /\ \E next \in {"reserve", "reject"} : SubGoto(m, next)
    /\ UNCHANGED <<leadershipVars, booked, up, tracked, can, rec, worldVars>>

\* _reserve: granted, in conflict, or nothing to reserve (no book, no occupancy).
Reserve(m) ==
    LET n == sub[m].node IN
    /\ sub[m].pc = "reserve"
    /\ \/ /\ booked' = [booked EXCEPT ![m] = "granted"]
          /\ tracked' = [tracked EXCEPT ![n] = @ \cup {m}]
          /\ SubGoto(m, "guard")
       \/ /\ \E next \in {"reject", "guard"} : SubGoto(m, next)
          /\ UNCHANGED <<booked, tracked>>
    /\ UNCHANGED <<leadershipVars, row, up, can, rec, worldVars>>

\* LeaderLease!GuardIsCurrent
GuardPasses(m) == live /\ leader = sub[m].node /\ term = sub[m].fence

Guard(m) ==
    /\ sub[m].pc = "guard"
    /\ SubGoto(m, IF GuardPasses(m) THEN "prepare" ELSE "reject")
    /\ UNCHANGED <<leadershipVars, row, booked, up, tracked, can, rec, worldVars>>

\* prepare_dispatch; a mission that was cancelled meanwhile is dropped.
Prepare(m) ==
    /\ sub[m].pc = "prepare"
    /\ IF CanPrepare(row[m])
       THEN /\ row' = [row EXCEPT ![m] = [state |-> "running", phase |-> "dispatching",
                                          fleet |-> TRUE, dispatched |-> TRUE]]
            /\ SubGoto(m, "send")
            /\ UNCHANGED <<booked, tracked>>
       ELSE /\ ReleaseReservation(sub[m].node, m)
            /\ IF ActiveRow(row[m]) THEN SubGoto(m, "reject") ELSE SubDone(m)
            /\ UNCHANGED row
    /\ UNCHANGED <<leadershipVars, up, can, rec, worldVars>>

\* registry.dispatch: the vendor takes the mission, refuses it, or takes it
\* and raises.
Send(m) ==
    /\ sub[m].pc = "send"
    /\ \/ /\ vendor' = [vendor EXCEPT ![m] = "active"]
          /\ dispatches' = [dispatches EXCEPT ![m] = @ + 1]
          /\ \/ SubGoto(m, "assign") /\ UNCHANGED ambiguous
             \/ Ambiguity /\ SubGoto(m, "drop") /\ ambiguous' = ambiguous \cup {m}
       \/ SubGoto(m, "drop") /\ UNCHANGED worldVars
    /\ UNCHANGED <<leadershipVars, row, booked, up, tracked, can, rec>>

\* except FaspError: release, then raise.
Drop(m) ==
    /\ sub[m].pc = "drop"
    /\ ReleaseReservation(sub[m].node, m)
    /\ SubGoto(m, "reject")
    /\ UNCHANGED <<leadershipVars, row, up, can, rec, worldVars>>

\* mark_assigned; a row that left "dispatching" but still runs is left alone.
Assign(m) ==
    /\ sub[m].pc = "assign"
    /\ IF CanAssign(row[m])
       THEN row' = SetPhase(m, "assigned") /\ UNCHANGED <<booked, tracked>>
       ELSE /\ IF row[m].state = "running" THEN UNCHANGED <<booked, tracked>>
               ELSE ReleaseReservation(sub[m].node, m)
            /\ UNCHANGED row
    /\ SubDone(m)
    /\ UNCHANGED <<leadershipVars, up, can, rec, worldVars>>

\* submit()'s except clauses: finish REJECTED, then release.
Reject(m) ==
    /\ sub[m].pc = "reject"
    /\ row' = IF CanFinish(row[m]) THEN SetPhase(m, "rejected") ELSE row
    /\ SubGoto(m, "release")
    /\ UNCHANGED <<leadershipVars, booked, up, tracked, can, rec, worldVars>>

SubmitRelease(m) ==
    /\ sub[m].pc = "release"
    /\ ReleaseReservation(sub[m].node, m)
    /\ SubDone(m)
    /\ UNCHANGED <<leadershipVars, row, up, can, rec, worldVars>>

-----------------------------------------------------------------------------
(* cancel(), on any node *)

CancelGet(m, n) ==
    /\ n \in up /\ can[m].pc = "idle" /\ ActiveRow(row[m])
    /\ can' = [can EXCEPT ![m] = [pc |-> "early", node |-> n, fence |-> 0]]
    /\ UNCHANGED <<leadershipVars, row, booked, up, tracked, sub, rec, worldVars>>

\* A mission that is not dispatched yet is cancelled without the vendor.
CancelEarly(m) ==
    /\ can[m].pc = "early"
    /\ IF CanPrepare(row[m])
       THEN row' = SetPhase(m, "cancelled") /\ CanGoto(m, "release")
       ELSE CanGoto(m, "read") /\ UNCHANGED row
    /\ UNCHANGED <<leadershipVars, booked, up, tracked, sub, rec, worldVars>>

CancelRead(m) ==
    /\ can[m].pc = "read"
    /\ IF ActiveRow(row[m]) /\ row[m].fleet THEN CanGoto(m, "vendor") ELSE CanDone(m)
    /\ UNCHANGED <<leadershipVars, row, booked, up, tracked, sub, rec, worldVars>>

RefusalIgnored(m) == CanGoto(m, "finish")                    \* fault
Refused(m) == CanDone(m)

\* registry.cancel: True after the vehicle gave the mission up; False or an
\* error otherwise, and for a mission the vendor does not know.
CancelVendor(m) ==
    /\ can[m].pc = "vendor"
    /\ \/ /\ vendor[m] = "active"
          /\ vendor' = [vendor EXCEPT ![m] = "cancelled"]
          /\ CanGoto(m, "finish") \/ (Ambiguity /\ Refused(m))
       \/ Refused(m) /\ UNCHANGED vendor
    /\ UNCHANGED <<leadershipVars, row, booked, up, tracked, sub, rec,
                   dispatches, ambiguous>>

CancelFinish(m) ==
    /\ can[m].pc = "finish"
    /\ IF CanFinish(row[m])
       THEN row' = SetPhase(m, "cancelled") /\ CanGoto(m, "release")
       ELSE /\ IF row[m].state = "cancelled" THEN CanGoto(m, "release") ELSE CanDone(m)
            /\ UNCHANGED row
    /\ UNCHANGED <<leadershipVars, booked, up, tracked, sub, rec, worldVars>>

CancelRelease(m) ==
    /\ can[m].pc = "release"
    /\ ReleaseReservation(can[m].node, m)
    /\ CanDone(m)
    /\ UNCHANGED <<leadershipVars, row, up, sub, rec, worldVars>>

-----------------------------------------------------------------------------
(* reconcile(), on the node that believes it leads *)

NoRecord == [pc |-> "idle", mission |-> None, phase |-> "none", report |-> "none"]
RecDone(n) == rec' = [rec EXCEPT ![n] = NoRecord]

\* What mission_state may say of a mission the vendor took.
Reported(v) == IF v = "active" THEN Driving ELSE {v}

\* active(): a record that names no fleet is skipped.
ReconcileRead(n, m) ==
    /\ n \in up /\ live /\ leader = n /\ rec[n].pc = "idle"
    /\ ActiveRow(row[m]) /\ row[m].fleet
    /\ rec' = [rec EXCEPT ![n] = [NoRecord EXCEPT !.pc = "query", !.mission = m,
                                                  !.phase = row[m].phase]]
    /\ UNCHANGED <<leadershipVars, row, booked, up, tracked, sub, can, worldVars>>

ReconcileQuery(n) ==
    LET m == rec[n].mission IN
    /\ rec[n].pc = "query"
    /\ \/ /\ vendor[m] # "none"
          /\ \E r \in Reported(vendor[m]) :
                rec' = [rec EXCEPT ![n] = [@ EXCEPT !.pc = "apply", !.report = r]]
       \/ RecDone(n)
    /\ UNCHANGED <<leadershipVars, row, booked, up, tracked, sub, can, worldVars>>

\* A non-terminal report is written only over the phase that was read.
AnyPhase(r, phase) == r.state # "absent"                     \* fault: no CAS
SamePhase(r, phase) ==
    /\ r.state = (IF phase = "dispatching" THEN "running" ELSE Lifecycle(phase))
    /\ r.phase = phase

ReconcileApply(n) ==
    LET m == rec[n].mission report == rec[n].report IN
    /\ rec[n].pc = "apply"
    /\ IF Terminal(report)
       THEN IF CanFinish(row[m])
            THEN /\ row' = SetPhase(m, report)
                 /\ rec' = [rec EXCEPT ![n] = [@ EXCEPT !.pc = "release"]]
            ELSE RecDone(n) /\ UNCHANGED row
       ELSE /\ row' = IF SamePhase(row[m], rec[n].phase) THEN SetPhase(m, report) ELSE row
            /\ RecDone(n)
    /\ UNCHANGED <<leadershipVars, booked, up, tracked, sub, can, worldVars>>

ReconcileRelease(n) ==
    /\ rec[n].pc = "release"
    /\ ReleaseReservation(n, rec[n].mission)
    /\ RecDone(n)
    /\ UNCHANGED <<leadershipVars, row, up, sub, can, worldVars>>

-----------------------------------------------------------------------------
(* The vehicles, the reservation's own lease, processes and leadership *)

VendorFinish(m) ==
    /\ vendor[m] = "active"
    /\ \E v \in {"completed", "failed"} : vendor' = [vendor EXCEPT ![m] = v]
    /\ UNCHANGED <<leadershipVars, row, booked, up, tracked, sub, can, rec,
                   dispatches, ambiguous>>

ReservationExpires(m) ==
    /\ booked[m] = "granted"
    /\ booked' = [booked EXCEPT ![m] = "expired"]
    /\ UNCHANGED <<leadershipVars, row, up, tracked, sub, can, rec, worldVars>>

Exit(n) ==
    /\ n \in up
    /\ up' = up \ {n}
    /\ tracked' = [tracked EXCEPT ![n] = {}]
    /\ sub' = [m \in MissionIds |-> IF sub[m].node = n THEN NoThread ELSE sub[m]]
    /\ can' = [m \in MissionIds |-> IF can[m].node = n THEN NoThread ELSE can[m]]
    /\ RecDone(n)
    /\ UNCHANGED <<leadershipVars, row, booked, worldVars>>

Launch(n) ==
    /\ n \notin up
    /\ up' = up \cup {n}
    /\ UNCHANGED <<leadershipVars, row, booked, tracked, sub, can, rec, worldVars>>

LeadershipStep ==
    /\ \/ Lapse
       \/ \E n \in up : Elect(n) \/ Revive(n) \/ Surrender(n)
    /\ term' <= MaxTerm
    /\ UNCHANGED missionVars

-----------------------------------------------------------------------------
MissionInit ==
    /\ LeadershipInit
    /\ row = [m \in MissionIds |-> NoRow]
    /\ booked = [m \in MissionIds |-> "none"]
    /\ up = Nodes
    /\ tracked = [n \in Nodes |-> {}]
    /\ sub = [m \in MissionIds |-> NoThread]
    /\ can = [m \in MissionIds |-> NoThread]
    /\ rec = [n \in Nodes |-> NoRecord]
    /\ vendor = [m \in MissionIds |-> "none"]
    /\ dispatches = [m \in MissionIds |-> 0]
    /\ ambiguous = {}

SubmitStep(m) ==
    \/ Gate(m) \/ Preflight(m) \/ Reserve(m) \/ Guard(m) \/ Prepare(m) \/ Send(m)
    \/ Drop(m) \/ Assign(m) \/ Reject(m) \/ SubmitRelease(m)
CancelStep(m) ==
    \/ CancelEarly(m) \/ CancelRead(m) \/ CancelVendor(m) \/ CancelFinish(m)
    \/ CancelRelease(m)
ReconcileStep(n) == ReconcileQuery(n) \/ ReconcileApply(n) \/ ReconcileRelease(n)

MissionNext ==
    \/ \E m \in MissionIds, n \in Nodes :
          Submit(m, n) \/ CancelGet(m, n) \/ ReconcileRead(n, m)
    \/ \E m \in MissionIds :
          SubmitStep(m) \/ CancelStep(m) \/ VendorFinish(m) \/ ReservationExpires(m)
    \/ \E n \in Nodes : ReconcileStep(n) \/ Exit(n) \/ Launch(n)
    \/ LeadershipStep

MissionSpec == MissionInit /\ [][MissionNext]_allVars

-----------------------------------------------------------------------------
(* Properties *)

Labels == {"idle", "gate", "preflight", "reserve", "guard", "prepare", "send",
           "drop", "assign", "reject", "release", "early", "read", "vendor",
           "finish", "query", "apply"}

\* One type invariant for the rows, the reservations and the threads.
MissionTypeOK ==
    /\ leader \in Nodes \cup {None} /\ term \in Nat /\ live \in BOOLEAN
    /\ row \in [MissionIds -> Rows]
    /\ booked \in [MissionIds -> {"none", "granted", "released", "expired"}]
    /\ up \subseteq Nodes
    /\ tracked \in [Nodes -> SUBSET MissionIds]
    /\ sub \in [MissionIds -> [pc : Labels, node : Nodes \cup {None}, fence : Nat]]
    /\ can \in [MissionIds -> [pc : Labels, node : Nodes \cup {None}, fence : Nat]]
    /\ rec \in [Nodes -> [pc : Labels, mission : MissionIds \cup {None},
                          phase : Phases, report : Phases]]
    /\ vendor \in [MissionIds -> {"none", "active", "completed", "failed", "cancelled"}]
    /\ dispatches \in [MissionIds -> Nat]
    /\ ambiguous \subseteq MissionIds

\* One request never puts two vehicles to work (submit's comment on
\* idempotent resubmission), over restarts, cancellations and elections.
DispatchedOnce == \A m \in MissionIds : dispatches[m] <= 1

\* A vehicle that works on a mission has a running row, so that reconcile()
\* looks after it, and its route is not released under it, unless the vendor
\* call itself reported a failure.
WorkIsTracked ==
    \A m \in MissionIds : vendor[m] = "active" /\ m \notin ambiguous
                             => row[m].state = "running" /\ booked[m] # "released"

\* A row says what the vehicle did: a mission is recorded completed only if
\* the vehicle completed it, and cancelled only if no vehicle will drive it.
OutcomeIsReal ==
    \A m \in MissionIds :
        /\ row[m].state = "succeeded" => vendor[m] = "completed"
        /\ row[m].state = "cancelled" => vendor[m] \in {"none", "cancelled"}

\* The abstract lifecycle, read off the mission rows.
Items == INSTANCE WorkItems WITH
            Items <- MissionIds,
            state <- [m \in MissionIds |-> row[m].state],
            started <- {m \in MissionIds : row[m].dispatched},
            called <- {m \in MissionIds : dispatches[m] > 0}

\* Mission rows follow the same abstract lifecycle as intents: what
\* reconcile() writes over them never revives a row or undoes a dispatch.
ImplementsWorkItems == Items!AbsSpec
=============================================================================
