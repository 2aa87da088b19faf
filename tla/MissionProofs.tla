---------------------------- MODULE MissionProofs ----------------------------
(***************************************************************************)
(* Machine-checked facts about Missions, for every set of coordinators and *)
(* missions and any number of terms.  The inductive invariant MissionInv   *)
(* says, mission by mission, what the row, the reservation, the submitting *)
(* and the cancelling thread and the vehicle can be together.              *)
(***************************************************************************)
EXTENDS Missions, TLAPS

SubLabels == {"idle", "gate", "preflight", "reserve", "guard", "prepare", "send",
              "drop", "assign", "reject", "release"}
CanLabels == {"idle", "early", "read", "vendor", "finish", "release"}
RecLabels == {"idle", "query", "apply", "release"}
Closed == {"succeeded", "failed", "cancelled"}
BeforePrepare == {"gate", "preflight", "reserve", "guard", "prepare"}
GaveUp == {"drop", "reject", "release"}

\* A row's state and phase agree, and it has been dispatched exactly if it
\* left the queue by prepare_dispatch.
RowOk(r) ==
    /\ r.state = "absent" <=> r.phase = "none"
    /\ r.state = "queued" <=> r.phase \in Early
    /\ r.state = "running" <=> r.phase \in Driving \cup {"dispatching"}
    /\ r.state \in {"absent", "queued"} => ~r.dispatched
    /\ r.state = "running" => r.dispatched

\* The submitting thread at label s: nothing was sent before "send", where the
\* row is still its own and the route its own; it gives up only work that no
\* vehicle took, or that the vendor call was ambiguous about.
SubOk(r, b, s, v, amb) ==
    /\ s # "idle" => r.state # "absent"
    /\ s \in BeforePrepare => ~r.dispatched
    /\ s = "send" => r.state = "running" /\ r.phase = "dispatching" /\ v = "none" /\ b # "released"
    /\ s = "assign" => v # "none"
    /\ s \in GaveUp => v = "none" \/ amb

\* The vehicle: it has work only of a dispatched row, taken once, and the row
\* runs until the vehicle is done.
VehicleOk(r, b, s, v, d, amb) ==
    /\ v # "none" => r.dispatched
    /\ amb => v # "none"
    /\ d = IF v = "none" THEN 0 ELSE 1
    /\ v = "active" /\ ~amb => r.state = "running"
    /\ b # "none" => r.state # "absent"
    /\ b = "released" => \/ r.state \in Closed
                         \/ v = "none" /\ s \in {"idle", "reject", "release"}
                         \/ amb
    /\ r.state = "succeeded" => v = "completed"
    /\ r.state = "cancelled" => v \in {"none", "cancelled"}

\* The cancelling thread finishes what the vehicle gave up, and releases what
\* is recorded as cancelled.
CancelOk(r, c, v) ==
    /\ c # "idle" => r.state # "absent"
    /\ c = "finish" => v = "cancelled"
    /\ c = "release" => r.state = "cancelled"

MissionOk(r, b, s, c, v, d, amb) ==
    RowOk(r) /\ SubOk(r, b, s, v, amb) /\ VehicleOk(r, b, s, v, d, amb) /\ CancelOk(r, c, v)

\* The reconcile loop carries a report about a mission some vehicle took; a
\* terminal one is what the vehicle did for good.
ReconcileOk(x) ==
    /\ x.pc # "idle" => x.mission \in MissionIds /\ x.phase \in Early \cup Driving \cup {"dispatching"}
    /\ x.pc = "apply" => /\ vendor[x.mission] # "none"
                         /\ x.report \in Driving \cup {"completed", "failed", "cancelled"}
                         /\ Terminal(x.report) => vendor[x.mission] = x.report
    /\ x.pc = "release" => row[x.mission].state \in Closed

LabelInv ==
    /\ \A m \in MissionIds : sub[m].pc \in SubLabels /\ can[m].pc \in CanLabels
    /\ \A n \in Nodes : rec[n].pc \in RecLabels

MissionInv ==
    /\ MissionTypeOK
    /\ LabelInv
    /\ \A m \in MissionIds : MissionOk(row[m], booked[m], sub[m].pc, can[m].pc, vendor[m],
                                       dispatches[m], m \in ambiguous)
    /\ \A n \in Nodes : ReconcileOk(rec[n])

-----------------------------------------------------------------------------
(* Operators *)

\* SetPhase changes one row, to a phase and the lifecycle state of it.
LEMMA SetPhaseRow ==
    ASSUME row \in [MissionIds -> Rows], NEW m \in MissionIds, NEW ph \in Phases \ {"none", "dispatching"}
    PROVE  /\ SetPhase(m, ph) \in [MissionIds -> Rows]
           /\ SetPhase(m, ph)[m].phase = ph
           /\ SetPhase(m, ph)[m].state = Lifecycle(ph)
           /\ SetPhase(m, ph)[m].fleet = row[m].fleet
           /\ SetPhase(m, ph)[m].dispatched = row[m].dispatched
           /\ \A x \in MissionIds : x # m => SetPhase(m, ph)[x] = row[x]
  <1>1. Lifecycle(ph) \in LifecycleStates
    BY DEF Lifecycle, LifecycleStates, Phases, Early, Driving
  <1> QED BY <1>1 DEF SetPhase, Rows, Phases

\* A release touches the reservation of one mission, granted before.
LEMMA ReleaseOne ==
    ASSUME MissionTypeOK, NEW n, NEW m \in MissionIds, ReleaseReservation(n, m)
    PROVE  /\ tracked' \in [Nodes -> SUBSET MissionIds]
           /\ booked' \in [MissionIds -> {"none", "granted", "released", "expired"}]
           /\ \A x \in MissionIds : x # m => booked'[x] = booked[x]
           /\ booked'[m] = booked[m] \/ (booked[m] = "granted" /\ booked'[m] = "released")
  BY DEF MissionTypeOK, ReleaseReservation

\* Where a thread goes next.
ThreadSet == [pc : Labels, node : Nodes \cup {None}, fence : Nat]
LEMMA LabelFacts == SubLabels \subseteq Labels /\ CanLabels \subseteq Labels /\ RecLabels \subseteq Labels
                    /\ NoThread \in ThreadSet
  BY DEF SubLabels, CanLabels, RecLabels, Labels, NoThread, ThreadSet
LEMMA SubMoves ==
    ASSUME MissionTypeOK, NEW m \in MissionIds
    PROVE  /\ \A l \in SubLabels : SubGoto(m, l) => /\ sub' \in [MissionIds -> ThreadSet]
                                                  /\ sub'[m].pc = l
                                                  /\ \A x \in MissionIds : x # m => sub'[x] = sub[x]
           /\ SubDone(m) => /\ sub' \in [MissionIds -> ThreadSet]
                            /\ sub'[m].pc = "idle"
                            /\ \A x \in MissionIds : x # m => sub'[x] = sub[x]
  <1>1. sub \in [MissionIds -> ThreadSet]
    BY DEF MissionTypeOK, ThreadSet
  <1>2. ASSUME NEW l \in SubLabels, SubGoto(m, l)
        PROVE  /\ sub' \in [MissionIds -> ThreadSet] /\ sub'[m].pc = l
               /\ \A x \in MissionIds : x # m => sub'[x] = sub[x]
    BY <1>1, <1>2, LabelFacts DEF SubGoto, ThreadSet
  <1>3. ASSUME SubDone(m)
        PROVE  /\ sub' \in [MissionIds -> ThreadSet] /\ sub'[m].pc = "idle"
               /\ \A x \in MissionIds : x # m => sub'[x] = sub[x]
    <2>1. sub' = [sub EXCEPT ![m] = NoThread] BY <1>3 DEF SubDone
    <2> QED BY <1>1, <2>1, LabelFacts DEF NoThread
  <1> QED BY <1>2, <1>3
LEMMA CanMoves ==
    ASSUME MissionTypeOK, NEW m \in MissionIds
    PROVE  /\ \A l \in CanLabels : CanGoto(m, l) => /\ can' \in [MissionIds -> ThreadSet]
                                                  /\ can'[m].pc = l
                                                  /\ \A x \in MissionIds : x # m => can'[x] = can[x]
           /\ CanDone(m) => /\ can' \in [MissionIds -> ThreadSet]
                            /\ can'[m].pc = "idle"
                            /\ \A x \in MissionIds : x # m => can'[x] = can[x]
  <1>1. can \in [MissionIds -> ThreadSet]
    BY DEF MissionTypeOK, ThreadSet
  <1>2. ASSUME NEW l \in CanLabels, CanGoto(m, l)
        PROVE  /\ can' \in [MissionIds -> ThreadSet] /\ can'[m].pc = l
               /\ \A x \in MissionIds : x # m => can'[x] = can[x]
    BY <1>1, <1>2, LabelFacts DEF CanGoto, ThreadSet
  <1>3. ASSUME CanDone(m)
        PROVE  /\ can' \in [MissionIds -> ThreadSet] /\ can'[m].pc = "idle"
               /\ \A x \in MissionIds : x # m => can'[x] = can[x]
    <2>1. can' = [can EXCEPT ![m] = NoThread] BY <1>3 DEF CanDone
    <2> QED BY <1>1, <2>1, LabelFacts DEF NoThread
  <1> QED BY <1>2, <1>3

\* What a step of one mission's threads or vehicle leaves as it was.
OnlyMission(m) ==
    /\ \A x \in MissionIds \ {m} :
          /\ row'[x] = row[x] /\ booked'[x] = booked[x] /\ sub'[x] = sub[x] /\ can'[x] = can[x]
          /\ vendor'[x] = vendor[x] /\ dispatches'[x] = dispatches[x]
          /\ x \in ambiguous' <=> x \in ambiguous
    /\ row[m].state \in Closed => row'[m].state \in Closed
    /\ vendor'[m] # vendor[m] => vendor[m] \in {"none", "active"} /\ vendor'[m] # "none"

MissionOkNow(m) == MissionOk(row[m], booked[m], sub[m].pc, can[m].pc, vendor[m],
                             dispatches[m], m \in ambiguous)

\* So it keeps the invariant if it keeps the types and its own mission right.
LEMMA OneMission ==
    ASSUME MissionInv, NEW m \in MissionIds, OnlyMission(m), rec' = rec,
           MissionTypeOK', sub'[m].pc \in SubLabels, can'[m].pc \in CanLabels, MissionOkNow(m)'
    PROVE  MissionInv'
  <1>1. \A x \in MissionIds : MissionOkNow(x)'
    <2> TAKE x \in MissionIds
    <2>1. CASE x = m BY <2>1
    <2>2. CASE x # m BY <2>2 DEF MissionInv, OnlyMission, MissionOkNow
    <2> QED BY <2>1, <2>2
  <1>2. \A n \in Nodes : ReconcileOk(rec[n])'
    <2> TAKE n \in Nodes
    <2>1. ReconcileOk(rec[n]) /\ rec'[n] = rec[n] BY DEF MissionInv
    <2> DEFINE x == rec[n].mission
    <2>2. CASE rec[n].pc = "idle" BY <2>1, <2>2 DEF ReconcileOk
    <2>3. CASE rec[n].pc # "idle" /\ x # m
      BY <2>1, <2>3 DEF ReconcileOk, OnlyMission
    <2>4. CASE rec[n].pc # "idle" /\ x = m
      BY <2>1, <2>4 DEF ReconcileOk, OnlyMission, Terminal
    <2> QED BY <2>2, <2>3, <2>4
  <1>3. LabelInv'
    BY DEF MissionInv, LabelInv, OnlyMission
  <1> QED BY <1>1, <1>2, <1>3 DEF MissionInv, MissionOkNow

-----------------------------------------------------------------------------
(* Steps of submit() and _dispatch() *)

\* accept() creates the row.
LEMMA SubmitInd ==
    ASSUME MissionInv, NEW m \in MissionIds, NEW n \in Nodes, Submit(m, n)
    PROVE  MissionInv'
  <1>1. MissionOkNow(m) /\ MissionTypeOK /\ LabelInv
    BY DEF MissionInv, MissionOkNow
  <1>a. PICK named \in BOOLEAN : row' = [row EXCEPT ![m] = [NoRow EXCEPT !.state = "queued",
                                                 !.phase = "accepted", !.fleet = named]]
    BY DEF Submit
  <1>b. [NoRow EXCEPT !.state = "queued", !.phase = "accepted", !.fleet = named] \in Rows
    BY DEF NoRow, Rows, Phases, Early, LifecycleStates
  <1>c. row' \in [MissionIds -> Rows]
    BY <1>1, <1>a, <1>b DEF MissionTypeOK
  <1>d. [pc |-> "gate", node |-> n, fence |-> 0] \in ThreadSet
    BY LabelFacts DEF ThreadSet, SubLabels
  <1>2. OnlyMission(m) /\ rec' = rec
    BY <1>1, <1>d, SubMoves, CanMoves DEF MissionTypeOK, OnlyMission, Submit, Acceptable, NoRow, Early, Driving, Closed, SubLabels, CanLabels, BeforePrepare, GaveUp, leadershipVars, worldVars, MissionOkNow, MissionOk, RowOk, SubOk, VehicleOk, CancelOk
  <1>3. MissionOkNow(m)' /\ sub'[m].pc \in SubLabels /\ can'[m].pc \in CanLabels
    BY <1>1, <1>d, SubMoves, CanMoves DEF LabelInv, MissionTypeOK, Submit, Acceptable, NoRow, Early, Driving, Closed, SubLabels, CanLabels, BeforePrepare, GaveUp, leadershipVars, worldVars, MissionOkNow, MissionOk, RowOk, SubOk, VehicleOk, CancelOk
  <1>4. sub' \in [MissionIds -> ThreadSet] /\ can' \in [MissionIds -> ThreadSet]
    BY <1>1, <1>d, SubMoves, CanMoves DEF MissionTypeOK, Submit, SubLabels, CanLabels, ThreadSet
  <1>5. MissionTypeOK'
    BY <1>1, <1>4, <1>c DEF MissionTypeOK, ThreadSet, Submit, leadershipVars, worldVars
  <1> QED BY <1>2, <1>3, <1>5, OneMission

\* Refused, or on with the term of the proof.
LEMMA GateInd ==
    ASSUME MissionInv, NEW m \in MissionIds, Gate(m)
    PROVE  MissionInv'
  <1>1. MissionOkNow(m) /\ MissionTypeOK /\ LabelInv
    BY DEF MissionInv, MissionOkNow
  <1>a. sub \in [MissionIds -> ThreadSet] /\ term \in Nat
    BY <1>1 DEF MissionTypeOK, ThreadSet
  <1>b. /\ sub' \in [MissionIds -> ThreadSet] /\ sub'[m].pc \in {"preflight", "reject"}
        /\ \A x \in MissionIds : x # m => sub'[x] = sub[x]
    <2>1. CASE sub' = [sub EXCEPT ![m] = [@ EXCEPT !.pc = "preflight", !.fence = term]]
      BY <1>a, <2>1, LabelFacts DEF ThreadSet, SubLabels
    <2>2. CASE SubGoto(m, "reject")
      BY <1>1, <2>2, SubMoves DEF SubLabels
    <2> QED BY <2>1, <2>2 DEF Gate
  <1>c. /\ sub[m].pc = "gate"
        /\ UNCHANGED <<leadershipVars, row, booked, up, tracked, can, rec, worldVars>>
    BY DEF Gate
  <1>2. OnlyMission(m) /\ rec' = rec
    BY <1>1, <1>b, <1>c DEF MissionTypeOK, OnlyMission, Closed, SubLabels, CanLabels, BeforePrepare, GaveUp, leadershipVars, worldVars, MissionOkNow, MissionOk, RowOk, SubOk, VehicleOk, CancelOk
  <1>3. MissionOkNow(m)' /\ sub'[m].pc \in SubLabels /\ can'[m].pc \in CanLabels
    BY <1>1, <1>b, <1>c DEF LabelInv, MissionTypeOK, Closed, SubLabels, CanLabels, BeforePrepare, GaveUp, leadershipVars, worldVars, MissionOkNow, MissionOk, RowOk, SubOk, VehicleOk, CancelOk
  <1>4. sub' \in [MissionIds -> ThreadSet] /\ can' \in [MissionIds -> ThreadSet]
    BY <1>1, <1>b, <1>c DEF MissionTypeOK, SubLabels, CanLabels, ThreadSet
  <1>5. MissionTypeOK'
    BY <1>1, <1>4, <1>c DEF MissionTypeOK, ThreadSet, leadershipVars, worldVars
  <1> QED BY <1>2, <1>3, <1>5, OneMission

\* The twin answers, or there is none.
LEMMA PreflightInd ==
    ASSUME MissionInv, NEW m \in MissionIds, Preflight(m)
    PROVE  MissionInv'
  <1>1. MissionOkNow(m) /\ MissionTypeOK /\ LabelInv
    BY DEF MissionInv, MissionOkNow
  <1>a. /\ row' \in [MissionIds -> Rows]
        /\ \A x \in MissionIds : x # m => row'[x] = row[x]
        /\ \/ row'[m] = row[m]
           \/ /\ row[m].state = "queued" /\ row'[m].state = "queued"
              /\ row'[m].phase = "preflight" /\ row'[m].dispatched = row[m].dispatched
    <2>1. "preflight" \in Phases \ {"none", "dispatching"} /\ Lifecycle("preflight") = "queued"
      BY DEF Phases, Early, Driving, Lifecycle
    <2>2. row \in [MissionIds -> Rows]
      BY <1>1 DEF MissionTypeOK
    <2>3. row' = row \/ (row[m].state = "queued" /\ row' = SetPhase(m, "preflight"))
      BY DEF Preflight
    <2>4. CASE row' = row
      BY <2>2, <2>4
    <2>5. CASE row[m].state = "queued" /\ row' = SetPhase(m, "preflight")
      BY <2>1, <2>2, <2>5, SetPhaseRow
    <2> QED BY <2>3, <2>4, <2>5
  <1>b. /\ sub[m].pc = "preflight"
        /\ \E l \in {"guard", "reserve", "reject"} : SubGoto(m, l)
        /\ UNCHANGED <<leadershipVars, booked, up, tracked, can, rec, worldVars>>
    BY DEF Preflight
  <1>2. OnlyMission(m) /\ rec' = rec
    BY <1>1, <1>a, <1>b, SubMoves, CanMoves DEF MissionTypeOK, OnlyMission, Early, Driving, Closed, SubLabels, CanLabels, BeforePrepare, GaveUp, leadershipVars, worldVars, MissionOkNow, MissionOk, RowOk, SubOk, VehicleOk, CancelOk
  <1>3. MissionOkNow(m)' /\ sub'[m].pc \in SubLabels /\ can'[m].pc \in CanLabels
    BY <1>1, <1>a, <1>b, SubMoves, CanMoves DEF LabelInv, MissionTypeOK, Early, Driving, Closed, SubLabels, CanLabels, BeforePrepare, GaveUp, leadershipVars, worldVars, MissionOkNow, MissionOk, RowOk, SubOk, VehicleOk, CancelOk
  <1>4. sub' \in [MissionIds -> ThreadSet] /\ can' \in [MissionIds -> ThreadSet]
    BY <1>1, <1>a, <1>b, SubMoves, CanMoves DEF MissionTypeOK, SubLabels, CanLabels, ThreadSet
  <1>5. MissionTypeOK'
    BY <1>1, <1>4, <1>a, <1>b DEF MissionTypeOK, ThreadSet, leadershipVars, worldVars
  <1> QED BY <1>2, <1>3, <1>5, OneMission

\* The route is granted, in conflict or not needed.
LEMMA ReserveInd ==
    ASSUME MissionInv, NEW m \in MissionIds, Reserve(m)
    PROVE  MissionInv'
  <1>1. MissionOkNow(m) /\ MissionTypeOK /\ LabelInv
    BY DEF MissionInv, MissionOkNow
  <1>a. tracked' = tracked \/ tracked' = [tracked EXCEPT ![sub[m].node] = @ \cup {m}]
    BY DEF Reserve
  <1>b. tracked' \in [Nodes -> SUBSET MissionIds]
    BY <1>1, <1>a DEF MissionTypeOK
  <1>c. booked' \in [MissionIds -> {"none", "granted", "released", "expired"}]
    BY <1>1 DEF MissionTypeOK, Reserve
  <1>2. OnlyMission(m) /\ rec' = rec
    BY <1>1, SubMoves, CanMoves DEF MissionTypeOK, OnlyMission, Reserve, Closed, SubLabels, CanLabels, BeforePrepare, GaveUp, leadershipVars, worldVars, MissionOkNow, MissionOk, RowOk, SubOk, VehicleOk, CancelOk
  <1>3. MissionOkNow(m)' /\ sub'[m].pc \in SubLabels /\ can'[m].pc \in CanLabels
    BY <1>1, SubMoves, CanMoves DEF LabelInv, MissionTypeOK, Reserve, Closed, SubLabels, CanLabels, BeforePrepare, GaveUp, leadershipVars, worldVars, MissionOkNow, MissionOk, RowOk, SubOk, VehicleOk, CancelOk
  <1>4. sub' \in [MissionIds -> ThreadSet] /\ can' \in [MissionIds -> ThreadSet]
    BY <1>1, SubMoves, CanMoves DEF MissionTypeOK, Reserve, SubLabels, CanLabels, ThreadSet
  <1>5. MissionTypeOK'
    BY <1>1, <1>4, <1>b, <1>c DEF MissionTypeOK, ThreadSet, Reserve, leadershipVars, worldVars
  <1> QED BY <1>2, <1>3, <1>5, OneMission

\* guard() passes or refuses.
LEMMA GuardInd ==
    ASSUME MissionInv, NEW m \in MissionIds, Guard(m)
    PROVE  MissionInv'
  <1>1. MissionOkNow(m) /\ MissionTypeOK /\ LabelInv
    BY DEF MissionInv, MissionOkNow
  <1>2. OnlyMission(m) /\ rec' = rec
    BY <1>1, SubMoves, CanMoves DEF MissionTypeOK, OnlyMission, Guard, Closed, SubLabels, CanLabels, BeforePrepare, GaveUp, leadershipVars, worldVars, MissionOkNow, MissionOk, RowOk, SubOk, VehicleOk, CancelOk
  <1>3. MissionOkNow(m)' /\ sub'[m].pc \in SubLabels /\ can'[m].pc \in CanLabels
    BY <1>1, SubMoves, CanMoves DEF LabelInv, MissionTypeOK, Guard, Closed, SubLabels, CanLabels, BeforePrepare, GaveUp, leadershipVars, worldVars, MissionOkNow, MissionOk, RowOk, SubOk, VehicleOk, CancelOk
  <1>4. sub' \in [MissionIds -> ThreadSet] /\ can' \in [MissionIds -> ThreadSet]
    BY <1>1, SubMoves, CanMoves DEF MissionTypeOK, Guard, SubLabels, CanLabels, ThreadSet
  <1>5. MissionTypeOK'
    BY <1>1, <1>4 DEF MissionTypeOK, ThreadSet, Guard, leadershipVars, worldVars
  <1> QED BY <1>2, <1>3, <1>5, OneMission

\* prepare_dispatch: only a mission that is still early goes on.
LEMMA PrepareInd ==
    ASSUME MissionInv, NEW m \in MissionIds, Prepare(m)
    PROVE  MissionInv'
  <1>1. MissionOkNow(m) /\ MissionTypeOK /\ LabelInv
    BY DEF MissionInv, MissionOkNow
  <1>a. CASE CanPrepare(row[m])
    <2>1. [state |-> "running", phase |-> "dispatching", fleet |-> TRUE, dispatched |-> TRUE] \in Rows
      BY DEF Rows, LifecycleStates, Phases
    <2>2. row' \in [MissionIds -> Rows]
      BY <1>1, <1>a, <2>1 DEF Prepare, MissionTypeOK
    <2>3. sub' \in [MissionIds -> ThreadSet] /\ can' \in [MissionIds -> ThreadSet]
      BY <1>1, <1>a, SubMoves DEF Prepare, SubLabels, MissionTypeOK, ThreadSet
    <2>4. MissionTypeOK'
      BY <1>1, <1>a, <2>2, <2>3 DEF Prepare, MissionTypeOK, ThreadSet, leadershipVars, worldVars
    <2>5. OnlyMission(m) /\ rec' = rec
      BY <1>1, <1>a, SubMoves DEF MissionTypeOK, OnlyMission, Prepare, CanPrepare, SubLabels, Closed, worldVars
    <2>6. MissionOkNow(m)' /\ sub'[m].pc \in SubLabels /\ can'[m].pc \in CanLabels
      BY <1>1, <1>a, SubMoves DEF LabelInv, MissionTypeOK, Prepare, CanPrepare, Closed, SubLabels, CanLabels, BeforePrepare, GaveUp, worldVars, Early, Driving, MissionOkNow, MissionOk, RowOk, SubOk, VehicleOk, CancelOk
    <2> QED BY <2>4, <2>5, <2>6, OneMission
  <1>b. CASE ~CanPrepare(row[m])
    <2>1. ReleaseReservation(sub[m].node, m) /\ UNCHANGED row /\ sub[m].pc = "prepare"
      BY <1>b DEF Prepare
    <2>2. ~ActiveRow(row[m]) /\ SubDone(m)
      BY <1>1, <1>b DEF Prepare, ActiveRow, CanPrepare, Early, Driving, MissionOkNow, MissionOk, RowOk, SubOk, VehicleOk, CancelOk, BeforePrepare
    <2>3. MissionTypeOK'
      BY <1>1, <2>1, <2>2, SubMoves, ReleaseOne DEF Prepare, MissionTypeOK, ThreadSet, leadershipVars, worldVars
    <2>4. OnlyMission(m) /\ rec' = rec
      BY <1>1, <2>1, <2>2, SubMoves, ReleaseOne DEF MissionTypeOK, OnlyMission, Prepare, Closed, worldVars
    <2>5. row[m].state \in Closed
      BY <1>1, <2>1, <2>2 DEF ActiveRow, MissionTypeOK, Rows, LifecycleStates, Closed, MissionOkNow, MissionOk, RowOk, SubOk, VehicleOk, CancelOk
    <2>6. MissionOkNow(m)' /\ sub'[m].pc \in SubLabels /\ can'[m].pc \in CanLabels
      BY <1>1, <2>1, <2>2, <2>5, SubMoves, ReleaseOne DEF LabelInv, MissionTypeOK, Prepare, Closed, SubLabels, CanLabels, BeforePrepare, GaveUp, worldVars, Early, Driving, MissionOkNow, MissionOk, RowOk, SubOk, VehicleOk, CancelOk
    <2> QED BY <2>3, <2>4, <2>6, OneMission
  <1> QED BY <1>a, <1>b

\* The vendor takes the mission, refuses it, or both.
LEMMA SendInd ==
    ASSUME MissionInv, NEW m \in MissionIds, Send(m)
    PROVE  MissionInv'
  <1>1. MissionOkNow(m) /\ MissionTypeOK /\ LabelInv
    BY DEF MissionInv, MissionOkNow
  <1>a. dispatches' = dispatches \/ dispatches' = [dispatches EXCEPT ![m] = @ + 1]
    BY DEF Send, worldVars
  <1>b. dispatches' \in [MissionIds -> Nat]
    BY <1>1, <1>a DEF MissionTypeOK
  <1>c. /\ vendor' \in [MissionIds -> {"none", "active", "completed", "failed", "cancelled"}]
        /\ ambiguous' \subseteq MissionIds
    BY <1>1 DEF MissionTypeOK, Send, worldVars
  <1>2. OnlyMission(m) /\ rec' = rec
    BY <1>1, SubMoves, CanMoves DEF MissionTypeOK, OnlyMission, Send, Closed, SubLabels, CanLabels, BeforePrepare, GaveUp, leadershipVars, worldVars, MissionOkNow, MissionOk, RowOk, SubOk, VehicleOk, CancelOk
  <1>3. MissionOkNow(m)' /\ sub'[m].pc \in SubLabels /\ can'[m].pc \in CanLabels
    BY <1>1, SubMoves, CanMoves DEF LabelInv, MissionTypeOK, Send, Closed, SubLabels, CanLabels, BeforePrepare, GaveUp, leadershipVars, worldVars, MissionOkNow, MissionOk, RowOk, SubOk, VehicleOk, CancelOk
  <1>4. sub' \in [MissionIds -> ThreadSet] /\ can' \in [MissionIds -> ThreadSet]
    BY <1>1, SubMoves, CanMoves DEF MissionTypeOK, Send, SubLabels, CanLabels, ThreadSet
  <1>5. MissionTypeOK'
    BY <1>1, <1>4, <1>b, <1>c DEF MissionTypeOK, ThreadSet, Send, leadershipVars, worldVars
  <1> QED BY <1>2, <1>3, <1>5, OneMission

\* The refused route is released.
LEMMA DropInd ==
    ASSUME MissionInv, NEW m \in MissionIds, Drop(m)
    PROVE  MissionInv'
  <1>1. MissionOkNow(m) /\ MissionTypeOK /\ LabelInv
    BY DEF MissionInv, MissionOkNow
  <1>2. OnlyMission(m) /\ rec' = rec
    BY <1>1, SubMoves, CanMoves, ReleaseOne DEF MissionTypeOK, OnlyMission, Drop, Closed, SubLabels, CanLabels, BeforePrepare, GaveUp, leadershipVars, worldVars, MissionOkNow, MissionOk, RowOk, SubOk, VehicleOk, CancelOk
  <1>3. MissionOkNow(m)' /\ sub'[m].pc \in SubLabels /\ can'[m].pc \in CanLabels
    BY <1>1, SubMoves, CanMoves, ReleaseOne DEF LabelInv, MissionTypeOK, Drop, Closed, SubLabels, CanLabels, BeforePrepare, GaveUp, leadershipVars, worldVars, MissionOkNow, MissionOk, RowOk, SubOk, VehicleOk, CancelOk
  <1>4. sub' \in [MissionIds -> ThreadSet] /\ can' \in [MissionIds -> ThreadSet]
    BY <1>1, SubMoves, CanMoves, ReleaseOne DEF MissionTypeOK, Drop, SubLabels, CanLabels, ThreadSet
  <1>5. MissionTypeOK'
    BY <1>1, <1>4, ReleaseOne DEF MissionTypeOK, ThreadSet, Drop, leadershipVars, worldVars
  <1> QED BY <1>2, <1>3, <1>5, OneMission

\* mark_assigned, or the row is no longer dispatching.
LEMMA AssignInd ==
    ASSUME MissionInv, NEW m \in MissionIds, Assign(m)
    PROVE  MissionInv'
  <1>1. MissionOkNow(m) /\ MissionTypeOK /\ LabelInv
    BY DEF MissionInv, MissionOkNow
  <1>a. /\ row' \in [MissionIds -> Rows]
        /\ \A x \in MissionIds : x # m => row'[x] = row[x]
        /\ \/ row'[m] = row[m]
           \/ /\ row[m].state = "running" /\ row'[m].state = "running"
              /\ row'[m].phase = "assigned" /\ row'[m].dispatched = row[m].dispatched
    <2>1. "assigned" \in Phases \ {"none", "dispatching"} /\ Lifecycle("assigned") = "running"
      BY DEF Phases, Early, Driving, Lifecycle
    <2>2. row \in [MissionIds -> Rows]
      BY <1>1 DEF MissionTypeOK
    <2>3. CASE CanAssign(row[m])
      <3>1. row' = SetPhase(m, "assigned") BY <2>3 DEF Assign
      <3>2. row[m].state = "running" BY <2>3 DEF CanAssign
      <3> QED BY <2>1, <2>2, <3>1, <3>2, SetPhaseRow
    <2>4. CASE ~CanAssign(row[m])
      <3>1. row' = row BY <2>4 DEF Assign
      <3> QED BY <2>2, <3>1
    <2> QED BY <2>3, <2>4
  <1>b. /\ tracked' \in [Nodes -> SUBSET MissionIds]
        /\ booked' \in [MissionIds -> {"none", "granted", "released", "expired"}]
        /\ \A x \in MissionIds : x # m => booked'[x] = booked[x]
        /\ \/ booked'[m] = booked[m]
           \/ booked[m] = "granted" /\ booked'[m] = "released" /\ row[m].state # "running"
    <2>1. CASE UNCHANGED <<booked, tracked>> BY <1>1, <2>1 DEF MissionTypeOK
    <2>2. CASE ReleaseReservation(sub[m].node, m) /\ row[m].state # "running"
      BY <1>1, <2>2, ReleaseOne
    <2> QED BY <2>1, <2>2 DEF Assign, CanAssign
  <1>c. /\ sub[m].pc = "assign" /\ SubDone(m)
        /\ UNCHANGED <<leadershipVars, up, can, rec, worldVars>>
    BY DEF Assign
  <1>d. row[m].state # "running" => row[m].state \in Closed
    BY <1>1, <1>c DEF MissionTypeOK, Rows, LifecycleStates, Closed, MissionOkNow, MissionOk, RowOk, SubOk, VehicleOk, CancelOk
  <1>2. OnlyMission(m) /\ rec' = rec
    BY <1>1, <1>a, <1>b, <1>c, <1>d, SubMoves, CanMoves DEF MissionTypeOK, OnlyMission, Early, Driving, Closed, SubLabels, CanLabels, BeforePrepare, GaveUp, leadershipVars, worldVars, MissionOkNow, MissionOk, RowOk, SubOk, VehicleOk, CancelOk
  <1>3. MissionOkNow(m)' /\ sub'[m].pc \in SubLabels /\ can'[m].pc \in CanLabels
    BY <1>1, <1>a, <1>b, <1>c, <1>d, SubMoves, CanMoves DEF LabelInv, MissionTypeOK, Early, Driving, Closed, SubLabels, CanLabels, BeforePrepare, GaveUp, leadershipVars, worldVars, MissionOkNow, MissionOk, RowOk, SubOk, VehicleOk, CancelOk
  <1>4. sub' \in [MissionIds -> ThreadSet] /\ can' \in [MissionIds -> ThreadSet]
    BY <1>1, <1>a, <1>b, <1>c, <1>d, SubMoves, CanMoves DEF MissionTypeOK, Early, Driving, SubLabels, CanLabels, ThreadSet
  <1>5. MissionTypeOK'
    BY <1>1, <1>4, <1>a, <1>b, <1>c DEF MissionTypeOK, ThreadSet, Early, Driving, leadershipVars, worldVars
  <1> QED BY <1>2, <1>3, <1>5, OneMission

\* submit() records the rejection.
LEMMA RejectInd ==
    ASSUME MissionInv, NEW m \in MissionIds, Reject(m)
    PROVE  MissionInv'
  <1>1. MissionOkNow(m) /\ MissionTypeOK /\ LabelInv
    BY DEF MissionInv, MissionOkNow
  <1>a. /\ row' \in [MissionIds -> Rows]
        /\ \A x \in MissionIds : x # m => row'[x] = row[x]
        /\ \/ row'[m] = row[m]
           \/ /\ row[m].state \in {"queued", "running"} /\ row'[m].state = "failed"
              /\ row'[m].phase = "rejected" /\ row'[m].dispatched = row[m].dispatched
    <2>1. "rejected" \in Phases \ {"none", "dispatching"} /\ Lifecycle("rejected") = "failed"
      BY DEF Phases, Early, Driving, Lifecycle
    <2>2. row \in [MissionIds -> Rows]
      BY <1>1 DEF MissionTypeOK
    <2>3. row' = row \/ (row[m].state \in {"queued", "running"} /\ row' = SetPhase(m, "rejected"))
      BY DEF Reject, CanFinish, ActiveRow
    <2>4. CASE row' = row
      BY <2>2, <2>4
    <2>5. CASE row[m].state \in {"queued", "running"} /\ row' = SetPhase(m, "rejected")
      BY <2>1, <2>2, <2>5, SetPhaseRow
    <2> QED BY <2>3, <2>4, <2>5
  <1>b. /\ sub[m].pc = "reject" /\ SubGoto(m, "release")
        /\ UNCHANGED <<leadershipVars, booked, up, tracked, can, rec, worldVars>>
    BY DEF Reject
  <1>2. OnlyMission(m) /\ rec' = rec
    BY <1>1, <1>a, <1>b, SubMoves, CanMoves DEF MissionTypeOK, OnlyMission, Early, Driving, Closed, SubLabels, CanLabels, BeforePrepare, GaveUp, leadershipVars, worldVars, MissionOkNow, MissionOk, RowOk, SubOk, VehicleOk, CancelOk
  <1>3. MissionOkNow(m)' /\ sub'[m].pc \in SubLabels /\ can'[m].pc \in CanLabels
    BY <1>1, <1>a, <1>b, SubMoves, CanMoves DEF LabelInv, MissionTypeOK, Early, Driving, Closed, SubLabels, CanLabels, BeforePrepare, GaveUp, leadershipVars, worldVars, MissionOkNow, MissionOk, RowOk, SubOk, VehicleOk, CancelOk
  <1>4. sub' \in [MissionIds -> ThreadSet] /\ can' \in [MissionIds -> ThreadSet]
    BY <1>1, <1>a, <1>b, SubMoves, CanMoves DEF MissionTypeOK, Early, Driving, SubLabels, CanLabels, ThreadSet
  <1>5. MissionTypeOK'
    BY <1>1, <1>4, <1>a, <1>b DEF MissionTypeOK, ThreadSet, Early, Driving, leadershipVars, worldVars
  <1> QED BY <1>2, <1>3, <1>5, OneMission

\* and releases the route.
LEMMA SubmitReleaseInd ==
    ASSUME MissionInv, NEW m \in MissionIds, SubmitRelease(m)
    PROVE  MissionInv'
  <1>1. MissionOkNow(m) /\ MissionTypeOK /\ LabelInv
    BY DEF MissionInv, MissionOkNow
  <1>2. OnlyMission(m) /\ rec' = rec
    BY <1>1, SubMoves, CanMoves, ReleaseOne DEF MissionTypeOK, OnlyMission, SubmitRelease, Closed, SubLabels, CanLabels, BeforePrepare, GaveUp, leadershipVars, worldVars, MissionOkNow, MissionOk, RowOk, SubOk, VehicleOk, CancelOk
  <1>3. MissionOkNow(m)' /\ sub'[m].pc \in SubLabels /\ can'[m].pc \in CanLabels
    BY <1>1, SubMoves, CanMoves, ReleaseOne DEF LabelInv, MissionTypeOK, SubmitRelease, Closed, SubLabels, CanLabels, BeforePrepare, GaveUp, leadershipVars, worldVars, MissionOkNow, MissionOk, RowOk, SubOk, VehicleOk, CancelOk
  <1>4. sub' \in [MissionIds -> ThreadSet] /\ can' \in [MissionIds -> ThreadSet]
    BY <1>1, SubMoves, CanMoves, ReleaseOne DEF MissionTypeOK, SubmitRelease, SubLabels, CanLabels, ThreadSet
  <1>5. MissionTypeOK'
    BY <1>1, <1>4, ReleaseOne DEF MissionTypeOK, ThreadSet, SubmitRelease, leadershipVars, worldVars
  <1> QED BY <1>2, <1>3, <1>5, OneMission

-----------------------------------------------------------------------------
(* Steps of cancel() *)

\* A cancel of an active mission begins.
LEMMA CancelGetInd ==
    ASSUME MissionInv, NEW m \in MissionIds, NEW n \in Nodes, CancelGet(m, n)
    PROVE  MissionInv'
  <1>1. MissionOkNow(m) /\ MissionTypeOK /\ LabelInv
    BY DEF MissionInv, MissionOkNow
  <1>d. [pc |-> "early", node |-> n, fence |-> 0] \in ThreadSet
    BY LabelFacts DEF ThreadSet, CanLabels
  <1>2. OnlyMission(m) /\ rec' = rec
    BY <1>1, <1>d, SubMoves, CanMoves DEF MissionTypeOK, OnlyMission, CancelGet, ActiveRow, Closed, SubLabels, CanLabels, BeforePrepare, GaveUp, leadershipVars, worldVars, MissionOkNow, MissionOk, RowOk, SubOk, VehicleOk, CancelOk
  <1>3. MissionOkNow(m)' /\ sub'[m].pc \in SubLabels /\ can'[m].pc \in CanLabels
    BY <1>1, <1>d, SubMoves, CanMoves DEF LabelInv, MissionTypeOK, CancelGet, ActiveRow, Closed, SubLabels, CanLabels, BeforePrepare, GaveUp, leadershipVars, worldVars, MissionOkNow, MissionOk, RowOk, SubOk, VehicleOk, CancelOk
  <1>4. sub' \in [MissionIds -> ThreadSet] /\ can' \in [MissionIds -> ThreadSet]
    BY <1>1, <1>d, SubMoves, CanMoves DEF MissionTypeOK, CancelGet, SubLabels, CanLabels, ThreadSet
  <1>5. MissionTypeOK'
    BY <1>1, <1>4 DEF MissionTypeOK, ThreadSet, CancelGet, leadershipVars, worldVars
  <1> QED BY <1>2, <1>3, <1>5, OneMission

\* A mission that is not dispatched is cancelled at once.
LEMMA CancelEarlyInd ==
    ASSUME MissionInv, NEW m \in MissionIds, CancelEarly(m)
    PROVE  MissionInv'
  <1>1. MissionOkNow(m) /\ MissionTypeOK /\ LabelInv
    BY DEF MissionInv, MissionOkNow
  <1>a. /\ row' \in [MissionIds -> Rows]
        /\ \A x \in MissionIds : x # m => row'[x] = row[x]
        /\ \/ row'[m] = row[m]
           \/ /\ row[m].state \in {"queued", "running"} /\ row'[m].state = "cancelled"
              /\ row'[m].phase = "cancelled" /\ row'[m].dispatched = row[m].dispatched
    <2>1. "cancelled" \in Phases \ {"none", "dispatching"} /\ Lifecycle("cancelled") = "cancelled"
      BY DEF Phases, Early, Driving, Lifecycle
    <2> QED BY <1>1, <2>1, SetPhaseRow DEF CancelEarly, CanFinish, CanPrepare, ActiveRow, MissionTypeOK
  <1>b. /\ can[m].pc = "early"
        /\ \/ /\ row[m].state = "queued" /\ row'[m].state = "cancelled" /\ CanGoto(m, "release")
           \/ UNCHANGED row /\ CanGoto(m, "read")
        /\ UNCHANGED <<leadershipVars, booked, up, tracked, sub, rec, worldVars>>
    BY <1>1, SetPhaseRow DEF CancelEarly, CanPrepare, Phases, Early, Driving, Lifecycle, MissionTypeOK
  <1>2. OnlyMission(m) /\ rec' = rec
    BY <1>1, <1>a, <1>b, SubMoves, CanMoves DEF MissionTypeOK, OnlyMission, Early, Driving, Closed, SubLabels, CanLabels, BeforePrepare, GaveUp, leadershipVars, worldVars, MissionOkNow, MissionOk, RowOk, SubOk, VehicleOk, CancelOk
  <1>3. MissionOkNow(m)' /\ sub'[m].pc \in SubLabels /\ can'[m].pc \in CanLabels
    BY <1>1, <1>a, <1>b, SubMoves, CanMoves DEF LabelInv, MissionTypeOK, Early, Driving, Closed, SubLabels, CanLabels, BeforePrepare, GaveUp, leadershipVars, worldVars, MissionOkNow, MissionOk, RowOk, SubOk, VehicleOk, CancelOk
  <1>4. sub' \in [MissionIds -> ThreadSet] /\ can' \in [MissionIds -> ThreadSet]
    BY <1>1, <1>a, <1>b, SubMoves, CanMoves DEF MissionTypeOK, Early, Driving, SubLabels, CanLabels, ThreadSet
  <1>5. MissionTypeOK'
    BY <1>1, <1>4, <1>a, <1>b DEF MissionTypeOK, ThreadSet, Early, Driving, leadershipVars, worldVars
  <1> QED BY <1>2, <1>3, <1>5, OneMission

\* The row is read again.
LEMMA CancelReadInd ==
    ASSUME MissionInv, NEW m \in MissionIds, CancelRead(m)
    PROVE  MissionInv'
  <1>1. MissionOkNow(m) /\ MissionTypeOK /\ LabelInv
    BY DEF MissionInv, MissionOkNow
  <1>2. OnlyMission(m) /\ rec' = rec
    BY <1>1, SubMoves, CanMoves DEF MissionTypeOK, OnlyMission, CancelRead, Closed, SubLabels, CanLabels, BeforePrepare, GaveUp, leadershipVars, worldVars, MissionOkNow, MissionOk, RowOk, SubOk, VehicleOk, CancelOk
  <1>3. MissionOkNow(m)' /\ sub'[m].pc \in SubLabels /\ can'[m].pc \in CanLabels
    BY <1>1, SubMoves, CanMoves DEF LabelInv, MissionTypeOK, CancelRead, Closed, SubLabels, CanLabels, BeforePrepare, GaveUp, leadershipVars, worldVars, MissionOkNow, MissionOk, RowOk, SubOk, VehicleOk, CancelOk
  <1>4. sub' \in [MissionIds -> ThreadSet] /\ can' \in [MissionIds -> ThreadSet]
    BY <1>1, SubMoves, CanMoves DEF MissionTypeOK, CancelRead, SubLabels, CanLabels, ThreadSet
  <1>5. MissionTypeOK'
    BY <1>1, <1>4 DEF MissionTypeOK, ThreadSet, CancelRead, leadershipVars, worldVars
  <1> QED BY <1>2, <1>3, <1>5, OneMission

\* The vendor is asked.
LEMMA CancelVendorInd ==
    ASSUME MissionInv, NEW m \in MissionIds, CancelVendor(m)
    PROVE  MissionInv'
  <1>1. MissionOkNow(m) /\ MissionTypeOK /\ LabelInv
    BY DEF MissionInv, MissionOkNow
  <1>a. vendor' \in [MissionIds -> {"none", "active", "completed", "failed", "cancelled"}]
    BY <1>1 DEF MissionTypeOK, CancelVendor
  <1>b. \/ CanGoto(m, "finish") /\ vendor[m] = "active" /\ vendor'[m] = "cancelled"
        \/ CanDone(m) /\ vendor[m] = "active" /\ vendor'[m] = "cancelled"
        \/ CanDone(m) /\ UNCHANGED vendor
    BY <1>1 DEF CancelVendor, Refused, MissionTypeOK
  <1>c. /\ can[m].pc = "vendor"
        /\ \A x \in MissionIds : x # m => vendor'[x] = vendor[x]
        /\ UNCHANGED <<leadershipVars, row, booked, up, tracked, sub, rec, dispatches, ambiguous>>
    BY <1>1 DEF CancelVendor, MissionTypeOK
  <1>2. OnlyMission(m) /\ rec' = rec
    BY <1>1, <1>a, <1>b, <1>c, SubMoves, CanMoves DEF MissionTypeOK, OnlyMission, Closed, SubLabels, CanLabels, BeforePrepare, GaveUp, leadershipVars, worldVars, MissionOkNow, MissionOk, RowOk, SubOk, VehicleOk, CancelOk
  <1>3. MissionOkNow(m)' /\ sub'[m].pc \in SubLabels /\ can'[m].pc \in CanLabels
    BY <1>1, <1>a, <1>b, <1>c, SubMoves, CanMoves DEF LabelInv, MissionTypeOK, Closed, SubLabels, CanLabels, BeforePrepare, GaveUp, leadershipVars, worldVars, MissionOkNow, MissionOk, RowOk, SubOk, VehicleOk, CancelOk
  <1>4. sub' \in [MissionIds -> ThreadSet] /\ can' \in [MissionIds -> ThreadSet]
    BY <1>1, <1>a, <1>b, <1>c, SubMoves, CanMoves DEF MissionTypeOK, SubLabels, CanLabels, ThreadSet
  <1>5. MissionTypeOK'
    BY <1>1, <1>4, <1>a, <1>c DEF MissionTypeOK, ThreadSet, leadershipVars, worldVars
  <1> QED BY <1>2, <1>3, <1>5, OneMission

\* The confirmed stop is recorded.
LEMMA CancelFinishInd ==
    ASSUME MissionInv, NEW m \in MissionIds, CancelFinish(m)
    PROVE  MissionInv'
  <1>1. MissionOkNow(m) /\ MissionTypeOK /\ LabelInv
    BY DEF MissionInv, MissionOkNow
  <1>a. /\ row' \in [MissionIds -> Rows]
        /\ \A x \in MissionIds : x # m => row'[x] = row[x]
        /\ \/ row'[m] = row[m]
           \/ /\ row[m].state \in {"queued", "running"} /\ row'[m].state = "cancelled"
              /\ row'[m].phase = "cancelled" /\ row'[m].dispatched = row[m].dispatched
    <2>1. "cancelled" \in Phases \ {"none", "dispatching"} /\ Lifecycle("cancelled") = "cancelled"
      BY DEF Phases, Early, Driving, Lifecycle
    <2>2. row \in [MissionIds -> Rows]
      BY <1>1 DEF MissionTypeOK
    <2>3. row' = row \/ (row[m].state \in {"queued", "running"} /\ row' = SetPhase(m, "cancelled"))
      BY DEF CancelFinish, CanFinish, ActiveRow
    <2>4. CASE row' = row
      BY <2>2, <2>4
    <2>5. CASE row[m].state \in {"queued", "running"} /\ row' = SetPhase(m, "cancelled")
      BY <2>1, <2>2, <2>5, SetPhaseRow
    <2> QED BY <2>3, <2>4, <2>5
  <1>b. /\ can[m].pc = "finish"
        /\ \/ row'[m].state = "cancelled" /\ CanGoto(m, "release")
           \/ UNCHANGED row /\ CanDone(m)
        /\ UNCHANGED <<leadershipVars, booked, up, tracked, sub, rec, worldVars>>
    <2>1. "cancelled" \in Phases \ {"none", "dispatching"} /\ Lifecycle("cancelled") = "cancelled"
      BY DEF Phases, Early, Driving, Lifecycle
    <2>2. row \in [MissionIds -> Rows]
      BY <1>1 DEF MissionTypeOK
    <2>3. SetPhase(m, "cancelled")[m].state = "cancelled"
      BY <2>1, <2>2, SetPhaseRow
    <2> QED BY <2>3 DEF CancelFinish
  <1>2. OnlyMission(m) /\ rec' = rec
    BY <1>1, <1>a, <1>b, SubMoves, CanMoves DEF MissionTypeOK, OnlyMission, Early, Driving, Closed, SubLabels, CanLabels, BeforePrepare, GaveUp, leadershipVars, worldVars, MissionOkNow, MissionOk, RowOk, SubOk, VehicleOk, CancelOk
  <1>3. MissionOkNow(m)' /\ sub'[m].pc \in SubLabels /\ can'[m].pc \in CanLabels
    BY <1>1, <1>a, <1>b, SubMoves, CanMoves DEF LabelInv, MissionTypeOK, Early, Driving, Closed, SubLabels, CanLabels, BeforePrepare, GaveUp, leadershipVars, worldVars, MissionOkNow, MissionOk, RowOk, SubOk, VehicleOk, CancelOk
  <1>4. sub' \in [MissionIds -> ThreadSet] /\ can' \in [MissionIds -> ThreadSet]
    BY <1>1, <1>a, <1>b, SubMoves, CanMoves DEF MissionTypeOK, Early, Driving, SubLabels, CanLabels, ThreadSet
  <1>5. MissionTypeOK'
    BY <1>1, <1>4, <1>a, <1>b DEF MissionTypeOK, ThreadSet, Early, Driving, leadershipVars, worldVars
  <1> QED BY <1>2, <1>3, <1>5, OneMission

\* and its route released.
LEMMA CancelReleaseInd ==
    ASSUME MissionInv, NEW m \in MissionIds, CancelRelease(m)
    PROVE  MissionInv'
  <1>1. MissionOkNow(m) /\ MissionTypeOK /\ LabelInv
    BY DEF MissionInv, MissionOkNow
  <1>2. OnlyMission(m) /\ rec' = rec
    BY <1>1, SubMoves, CanMoves, ReleaseOne DEF MissionTypeOK, OnlyMission, CancelRelease, Closed, SubLabels, CanLabels, BeforePrepare, GaveUp, leadershipVars, worldVars, MissionOkNow, MissionOk, RowOk, SubOk, VehicleOk, CancelOk
  <1>3. MissionOkNow(m)' /\ sub'[m].pc \in SubLabels /\ can'[m].pc \in CanLabels
    BY <1>1, SubMoves, CanMoves, ReleaseOne DEF LabelInv, MissionTypeOK, CancelRelease, Closed, SubLabels, CanLabels, BeforePrepare, GaveUp, leadershipVars, worldVars, MissionOkNow, MissionOk, RowOk, SubOk, VehicleOk, CancelOk
  <1>4. sub' \in [MissionIds -> ThreadSet] /\ can' \in [MissionIds -> ThreadSet]
    BY <1>1, SubMoves, CanMoves, ReleaseOne DEF MissionTypeOK, CancelRelease, SubLabels, CanLabels, ThreadSet
  <1>5. MissionTypeOK'
    BY <1>1, <1>4, ReleaseOne DEF MissionTypeOK, ThreadSet, CancelRelease, leadershipVars, worldVars
  <1> QED BY <1>2, <1>3, <1>5, OneMission

-----------------------------------------------------------------------------
(* Vehicles and reservations *)

\* A vehicle ends its work.
LEMMA VendorFinishInd ==
    ASSUME MissionInv, NEW m \in MissionIds, VendorFinish(m)
    PROVE  MissionInv'
  <1>1. MissionOkNow(m) /\ MissionTypeOK /\ LabelInv
    BY DEF MissionInv, MissionOkNow
  <1>2. OnlyMission(m) /\ rec' = rec
    BY <1>1, SubMoves, CanMoves DEF MissionTypeOK, OnlyMission, VendorFinish, Closed, SubLabels, CanLabels, BeforePrepare, GaveUp, leadershipVars, worldVars, MissionOkNow, MissionOk, RowOk, SubOk, VehicleOk, CancelOk
  <1>3. MissionOkNow(m)' /\ sub'[m].pc \in SubLabels /\ can'[m].pc \in CanLabels
    BY <1>1, SubMoves, CanMoves DEF LabelInv, MissionTypeOK, VendorFinish, Closed, SubLabels, CanLabels, BeforePrepare, GaveUp, leadershipVars, worldVars, MissionOkNow, MissionOk, RowOk, SubOk, VehicleOk, CancelOk
  <1>4. sub' \in [MissionIds -> ThreadSet] /\ can' \in [MissionIds -> ThreadSet]
    BY <1>1, SubMoves, CanMoves DEF MissionTypeOK, VendorFinish, SubLabels, CanLabels, ThreadSet
  <1>5. MissionTypeOK'
    BY <1>1, <1>4 DEF MissionTypeOK, ThreadSet, VendorFinish, leadershipVars, worldVars
  <1> QED BY <1>2, <1>3, <1>5, OneMission

\* A reservation's own lease ends.
LEMMA ReservationExpiresInd ==
    ASSUME MissionInv, NEW m \in MissionIds, ReservationExpires(m)
    PROVE  MissionInv'
  <1>1. MissionOkNow(m) /\ MissionTypeOK /\ LabelInv
    BY DEF MissionInv, MissionOkNow
  <1>2. OnlyMission(m) /\ rec' = rec
    BY <1>1, SubMoves, CanMoves DEF MissionTypeOK, OnlyMission, ReservationExpires, Closed, SubLabels, CanLabels, BeforePrepare, GaveUp, leadershipVars, worldVars, MissionOkNow, MissionOk, RowOk, SubOk, VehicleOk, CancelOk
  <1>3. MissionOkNow(m)' /\ sub'[m].pc \in SubLabels /\ can'[m].pc \in CanLabels
    BY <1>1, SubMoves, CanMoves DEF LabelInv, MissionTypeOK, ReservationExpires, Closed, SubLabels, CanLabels, BeforePrepare, GaveUp, leadershipVars, worldVars, MissionOkNow, MissionOk, RowOk, SubOk, VehicleOk, CancelOk
  <1>4. sub' \in [MissionIds -> ThreadSet] /\ can' \in [MissionIds -> ThreadSet]
    BY <1>1, SubMoves, CanMoves DEF MissionTypeOK, ReservationExpires, SubLabels, CanLabels, ThreadSet
  <1>5. MissionTypeOK'
    BY <1>1, <1>4 DEF MissionTypeOK, ThreadSet, ReservationExpires, leadershipVars, worldVars
  <1> QED BY <1>2, <1>3, <1>5, OneMission

-----------------------------------------------------------------------------
(* reconcile(), processes and leadership *)

RecordSet == [pc : Labels, mission : MissionIds \cup {None}, phase : Phases, report : Phases]

\* The loop goes on to its next record.
LEMMA RecDoneOk ==
    ASSUME MissionInv, NEW n \in Nodes, RecDone(n)
    PROVE  /\ rec' \in [Nodes -> RecordSet] /\ rec'[n].pc = "idle"
           /\ \A x \in Nodes : x # n => rec'[x] = rec[x]
  <1>1. NoRecord \in RecordSet /\ rec \in [Nodes -> RecordSet]
    BY DEF NoRecord, RecordSet, Labels, Phases, MissionInv, MissionTypeOK
  <1>2. rec' = [rec EXCEPT ![n] = NoRecord] BY DEF RecDone
  <1> QED BY <1>1, <1>2 DEF NoRecord

\* What a step of one node's loop has to keep.
LEMMA OneLoop ==
    ASSUME MissionInv, NEW n \in Nodes, rec' \in [Nodes -> RecordSet], rec'[n].pc \in RecLabels,
           \A x \in Nodes : x # n => rec'[x] = rec[x], ReconcileOk(rec[n])',
           UNCHANGED <<leadershipVars, row, booked, up, tracked, sub, can, worldVars>>
    PROVE  MissionInv'
  <1>1. MissionTypeOK'
    BY DEF MissionInv, MissionTypeOK, RecordSet, leadershipVars, worldVars
  <1>2. LabelInv'
    BY DEF MissionInv, LabelInv
  <1>3. \A m \in MissionIds : MissionOkNow(m)'
    BY DEF MissionInv, MissionOkNow, worldVars
  <1>4. \A x \in Nodes : ReconcileOk(rec[x])'
    BY DEF MissionInv, ReconcileOk, worldVars
  <1> QED BY <1>1, <1>2, <1>3, <1>4 DEF MissionInv, MissionOkNow

\* active() and mission_state() only read.
LEMMA ReconcileReadInd ==
    ASSUME MissionInv, NEW n \in Nodes, NEW m \in MissionIds, ReconcileRead(n, m)
    PROVE  MissionInv'
  <1> DEFINE new == [NoRecord EXCEPT !.pc = "query", !.mission = m, !.phase = row[m].phase]
  <1>1. /\ row[m].phase \in Phases /\ row[m].phase \in Early \cup Driving \cup {"dispatching"}
        /\ rec \in [Nodes -> RecordSet]
    BY DEF MissionInv, MissionTypeOK, ReconcileRead, ActiveRow, MissionOk, RowOk, Rows, RecordSet
  <1>2. /\ new \in RecordSet /\ new.pc = "query" /\ new.mission = m /\ new.phase = row[m].phase
    BY <1>1, LabelFacts DEF NoRecord, RecordSet, RecLabels, Phases
  <1>3. rec' = [rec EXCEPT ![n] = new]
    BY DEF ReconcileRead
  <1>4. rec' \in [Nodes -> RecordSet] /\ rec'[n] = new /\ \A x \in Nodes : x # n => rec'[x] = rec[x]
    BY <1>1, <1>2, <1>3
  <1>5. ReconcileOk(rec[n])'
    BY <1>1, <1>2, <1>4 DEF ReconcileOk
  <1> QED BY <1>2, <1>4, <1>5, OneLoop DEF ReconcileRead, RecLabels

LEMMA ReconcileQueryInd ==
    ASSUME MissionInv, NEW n \in Nodes, ReconcileQuery(n)
    PROVE  MissionInv'
  <1> DEFINE m == rec[n].mission
  <1>1. rec[n].pc = "query" /\ ReconcileOk(rec[n]) /\ rec \in [Nodes -> RecordSet]
    BY DEF MissionInv, MissionTypeOK, ReconcileQuery, RecordSet
  <1>2. CASE RecDone(n)
    BY <1>2, RecDoneOk, OneLoop DEF ReconcileQuery, ReconcileOk, RecLabels
  <1>3. ASSUME vendor[m] # "none", NEW r \in Reported(vendor[m]),
               rec' = [rec EXCEPT ![n] = [@ EXCEPT !.pc = "apply", !.report = r]]
        PROVE  MissionInv'
    <2>1. m \in MissionIds /\ vendor[m] \in {"active", "completed", "failed", "cancelled"}
      BY <1>1, <1>3 DEF ReconcileOk, MissionInv, MissionTypeOK
    <2>2. /\ r \in Driving \cup {"completed", "failed", "cancelled"}
          /\ Terminal(r) => vendor[m] = r
      BY <1>3, <2>1 DEF Reported, Terminal, Driving
    <2>3. r \in Phases /\ "apply" \in Labels
      BY <2>2 DEF Phases, Labels
    <2>4. /\ rec' \in [Nodes -> RecordSet] /\ \A x \in Nodes : x # n => rec'[x] = rec[x]
          /\ rec'[n].pc = "apply" /\ rec'[n].mission = m /\ rec'[n].phase = rec[n].phase
          /\ rec'[n].report = r
      BY <1>1, <1>3, <2>3 DEF RecordSet
    <2>5. ReconcileOk(rec[n])'
      BY <1>1, <1>3, <2>1, <2>2, <2>4 DEF ReconcileOk, ReconcileQuery, worldVars
    <2> QED BY <2>4, <2>5, OneLoop DEF ReconcileQuery, RecLabels
  <1> QED BY <1>2, <1>3 DEF ReconcileQuery

\* A report is written over the row: a terminal one closes it, another one
\* moves the phase of a running row.
LEMMA ReconcileApplyInd ==
    ASSUME MissionInv, NEW n \in Nodes, ReconcileApply(n)
    PROVE  MissionInv'
  <1>0. PICK m : m = rec[n].mission OBVIOUS
  <1> USE <1>0
  <1> DEFINE report == rec[n].report
  <1>1. /\ rec[n].pc = "apply" /\ ReconcileOk(rec[n]) /\ rec \in [Nodes -> RecordSet]
        /\ UNCHANGED <<leadershipVars, booked, up, tracked, sub, can, worldVars>>
    BY DEF MissionInv, MissionTypeOK, ReconcileApply, RecordSet
  <1>2. /\ m \in MissionIds /\ vendor[m] # "none" /\ row[m].dispatched /\ MissionOkNow(m)
        /\ report \in Driving \cup {"completed", "failed", "cancelled"}
        /\ Terminal(report) => vendor[m] = report
        /\ rec[n].phase \in Early \cup Driving \cup {"dispatching"}
    BY <1>1 DEF ReconcileOk, MissionInv, MissionOkNow, MissionOk, VehicleOk
  <1>3. report \in Phases \ {"none", "dispatching"}
    BY <1>2 DEF Phases, Driving
  <1>4. /\ rec' \in [Nodes -> RecordSet] /\ rec'[n].pc \in {"idle", "release"}
        /\ rec'[n].pc = "release" => /\ Terminal(report) /\ CanFinish(row[m]) /\ row' = SetPhase(m, report)
                                     /\ rec'[n].mission = m /\ rec'[n].phase = rec[n].phase
        /\ \A x \in Nodes : x # n => rec'[x] = rec[x]
    <2>1. CASE RecDone(n) BY <2>1, RecDoneOk
    <2>2. CASE /\ Terminal(report) /\ CanFinish(row[m]) /\ row' = SetPhase(m, report)
               /\ rec' = [rec EXCEPT ![n] = [@ EXCEPT !.pc = "release"]]
      BY <1>1, <2>2, LabelFacts DEF RecordSet, RecLabels
    <2> QED BY <2>1, <2>2 DEF ReconcileApply
  <1>5. /\ row' \in [MissionIds -> Rows]
        /\ \A x \in MissionIds : x # m => row'[x] = row[x]
        /\ \/ row'[m] = row[m]
           \/ /\ row[m].state = "running" /\ row'[m].dispatched = row[m].dispatched
              /\ row'[m].phase = report /\ row'[m].state = Lifecycle(report)
    <2>1. CASE row' = row
      BY <1>2, <2>1 DEF MissionInv, MissionTypeOK
    <2>2. CASE row' = SetPhase(m, report) /\ (CanFinish(row[m]) \/ SamePhase(row[m], rec[n].phase))
      <3>1. row[m].state \notin {"absent", "queued"}
        BY <1>2 DEF MissionOkNow, MissionOk, RowOk
      <3>2. row[m].state = "running"
        <4>1. CASE CanFinish(row[m]) BY <3>1, <4>1 DEF CanFinish, ActiveRow
        <4>2. CASE SamePhase(row[m], rec[n].phase)
          <5>1. rec[n].phase \notin Early
            BY <1>2, <3>1, <4>2 DEF SamePhase, MissionOkNow, MissionOk, RowOk
          <5> QED BY <1>2, <4>2, <5>1 DEF SamePhase, MissionOkNow, MissionOk, RowOk
        <4> QED BY <2>2, <4>1, <4>2
      <3>3. row \in [MissionIds -> Rows] BY DEF MissionInv, MissionTypeOK
      <3>4. PICK ph \in Phases \ {"none", "dispatching"} : ph = report BY <1>3
      <3> HIDE DEF report
      <3>5. row' = SetPhase(m, ph) BY <2>2, <3>4
      <3>6. /\ SetPhase(m, ph) \in [MissionIds -> Rows]
            /\ SetPhase(m, ph)[m].phase = ph /\ SetPhase(m, ph)[m].state = Lifecycle(ph)
            /\ SetPhase(m, ph)[m].dispatched = row[m].dispatched
            /\ \A x \in MissionIds : x # m => SetPhase(m, ph)[x] = row[x]
        <4>1. m \in MissionIds BY <1>2
        <4> HIDE <1>0
        <4> QED BY <3>3, <4>1, SetPhaseRow
      <3> QED BY <1>2, <3>2, <3>4, <3>5, <3>6
    <2> QED BY <2>1, <2>2 DEF ReconcileApply
  <1>6. MissionOkNow(m)'
    <2>1. UNCHANGED <<booked, sub, can, vendor, dispatches, ambiguous>>
      BY <1>1 DEF worldVars
    <2>2. CASE row'[m] = row[m]
      BY <1>2, <2>1, <2>2 DEF MissionOkNow
    <2>3. CASE /\ row[m].state = "running" /\ row'[m].dispatched = row[m].dispatched
               /\ row'[m].phase = report /\ row'[m].state = Lifecycle(report)
      <3>1. CASE report \in Driving
        <4>1. row'[m].state = "running"
          BY <2>3, <3>1 DEF Lifecycle, Driving, Early
        <4> QED BY <1>2, <2>1, <2>3, <3>1, <4>1
                DEF MissionOkNow, MissionOk, RowOk, SubOk, VehicleOk, CancelOk, Driving, Early, Closed
      <3>2. CASE report \in {"completed", "failed", "cancelled"}
        <4>1. /\ vendor[m] = report /\ row'[m].state \in Closed
              /\ row'[m].state = "succeeded" => report = "completed"
              /\ row'[m].state = "cancelled" => report = "cancelled"
          BY <1>2, <2>3, <3>2 DEF Lifecycle, Driving, Early, Closed, Terminal
        <4> QED BY <1>2, <2>1, <2>3, <3>2, <4>1
                DEF MissionOkNow, MissionOk, RowOk, SubOk, VehicleOk, CancelOk, Driving, Early, Closed
      <3> QED BY <1>2, <3>1, <3>2
    <2> QED BY <1>5, <2>2, <2>3
  <1>7. \A x \in MissionIds : MissionOkNow(x)'
    <2> TAKE x \in MissionIds
    <2>1. UNCHANGED <<booked, sub, can, vendor, dispatches, ambiguous>>
      BY <1>1 DEF worldVars
    <2>2. CASE x = m BY <1>6, <2>2
    <2>3. CASE x # m BY <1>5, <2>1, <2>3 DEF MissionInv, MissionOkNow
    <2> QED BY <2>2, <2>3
  <1>8. row[m].state \in Closed => row'[m].state \in Closed
    BY <1>5 DEF Closed
  <1>9. \A x \in Nodes : ReconcileOk(rec[x])'
    <2> TAKE x \in Nodes
    <2>1. CASE x # n
      BY <1>1, <1>2, <1>4, <1>5, <1>8, <2>1 DEF MissionInv, ReconcileOk, worldVars
    <2>2. CASE x = n /\ rec'[n].pc = "idle"
      BY <2>2 DEF ReconcileOk
    <2>3. CASE x = n /\ rec'[n].pc = "release"
      <3>1. row'[m].state = Lifecycle(report)
        BY <1>2, <1>3, <1>4, <2>3, SetPhaseRow DEF MissionInv, MissionTypeOK
      <3>2. row'[m].state \in Closed
        BY <1>2, <1>4, <2>3, <3>1 DEF Terminal, Lifecycle, Closed, Early, Driving
      <3> QED BY <1>2, <1>4, <2>3, <3>2 DEF ReconcileOk
    <2> QED BY <1>4, <2>1, <2>2, <2>3
  <1>10. LabelInv'
    BY <1>1, <1>4 DEF MissionInv, LabelInv, RecLabels
  <1>11. MissionTypeOK'
    BY <1>1, <1>4, <1>5 DEF MissionInv, MissionTypeOK, RecordSet, leadershipVars, worldVars
  <1> QED BY <1>7, <1>9, <1>10, <1>11 DEF MissionInv, MissionOkNow

\* The route of a closed mission is released.
LEMMA ReconcileReleaseInd ==
    ASSUME MissionInv, NEW n \in Nodes, ReconcileRelease(n)
    PROVE  MissionInv'
  <1> DEFINE m == rec[n].mission
  <1>1. /\ m \in MissionIds /\ row[m].state \in Closed /\ MissionTypeOK
    BY DEF MissionInv, ReconcileOk, ReconcileRelease
  <1>2. /\ ReleaseReservation(n, m) /\ RecDone(n)
        /\ UNCHANGED <<leadershipVars, row, up, sub, can, worldVars>>
    BY DEF ReconcileRelease
  <1>3. \A x \in MissionIds : MissionOkNow(x)'
    BY <1>1, <1>2, ReleaseOne
       DEF MissionInv, MissionOkNow, MissionOk, RowOk, SubOk, VehicleOk, CancelOk, worldVars, Closed
  <1>4. \A x \in Nodes : ReconcileOk(rec[x])'
    BY <1>2, RecDoneOk DEF MissionInv, ReconcileOk, worldVars
  <1>5. LabelInv'
    BY <1>2, RecDoneOk DEF MissionInv, LabelInv, RecLabels
  <1>6. MissionTypeOK'
    BY <1>1, <1>2, ReleaseOne, RecDoneOk DEF MissionTypeOK, RecordSet, leadershipVars, worldVars
  <1> QED BY <1>3, <1>4, <1>5, <1>6 DEF MissionInv, MissionOkNow

\* A process exits with its threads and what it knew of reservations.
LEMMA ExitInd ==
    ASSUME MissionInv, NEW n \in Nodes, Exit(n)
    PROVE  MissionInv'
  <1>1. /\ sub' \in [MissionIds -> ThreadSet] /\ can' \in [MissionIds -> ThreadSet]
        /\ \A m \in MissionIds : sub'[m] = sub[m] \/ sub'[m].pc = "idle"
        /\ \A m \in MissionIds : can'[m] = can[m] \/ can'[m].pc = "idle"
    BY LabelFacts DEF MissionInv, MissionTypeOK, Exit, NoThread, ThreadSet
  <1>2. /\ tracked' \in [Nodes -> SUBSET MissionIds] /\ up' \subseteq Nodes
        /\ RecDone(n) /\ UNCHANGED <<leadershipVars, row, booked, worldVars>>
    BY DEF MissionInv, MissionTypeOK, Exit
  <1>3. \A m \in MissionIds : MissionOkNow(m)'
    <2> TAKE m \in MissionIds
    <2> QED BY <1>1, <1>2 DEF MissionInv, MissionOkNow, MissionOk, RowOk, SubOk, VehicleOk, CancelOk,
            worldVars, BeforePrepare, GaveUp, LabelInv, SubLabels
  <1>4. \A x \in Nodes : ReconcileOk(rec[x])'
    BY <1>2, RecDoneOk DEF MissionInv, ReconcileOk, worldVars
  <1>5. LabelInv'
    BY <1>1, <1>2, RecDoneOk DEF MissionInv, LabelInv, SubLabels, CanLabels, RecLabels
  <1>6. MissionTypeOK'
    BY <1>1, <1>2, RecDoneOk DEF MissionInv, MissionTypeOK, RecordSet, ThreadSet, leadershipVars, worldVars
  <1> QED BY <1>3, <1>4, <1>5, <1>6 DEF MissionInv, MissionOkNow

\* Launches and elections touch no mission.
LEMMA NodeInd ==
    ASSUME MissionInv, LeadershipStep \/ \E n \in Nodes : Launch(n)
    PROVE  MissionInv'
  <1>1. /\ up' \subseteq Nodes
        /\ UNCHANGED <<row, booked, tracked, sub, can, rec, vendor, dispatches, ambiguous>>
    BY DEF MissionInv, MissionTypeOK, LeadershipStep, Launch, missionVars, worldVars
  <1>2. leader' \in Nodes \cup {None} /\ term' \in Nat
    BY DEF MissionInv, MissionTypeOK, LeadershipStep, Launch, leadershipVars, Lapse, Elect, Revive, Surrender
  <1>3. live' \in BOOLEAN
    BY Zenon DEF MissionInv, MissionTypeOK, LeadershipStep, Launch, leadershipVars, Lapse, Elect, Revive, Surrender
  <1>4. MissionTypeOK'
    BY <1>1, <1>2, <1>3 DEF MissionInv, MissionTypeOK
  <1>5. LabelInv' /\ (\A m \in MissionIds : MissionOkNow(m)') /\ (\A n \in Nodes : ReconcileOk(rec[n])')
    BY <1>1 DEF MissionInv, LabelInv, MissionOkNow, ReconcileOk
  <1> QED BY <1>4, <1>5 DEF MissionInv, MissionOkNow

LEMMA MissionInitInd == MissionInit => MissionInv
  <1> SUFFICES ASSUME MissionInit PROVE MissionInv OBVIOUS
  <1>1. NoRow \in Rows /\ NoThread \in ThreadSet /\ NoRecord \in RecordSet
    BY LabelFacts DEF NoRow, Rows, LifecycleStates, Phases, NoRecord, RecordSet, Labels
  <1>2. MissionTypeOK
    BY <1>1 DEF MissionInit, LeadershipInit, MissionTypeOK, ThreadSet, RecordSet
  <1>3. LabelInv
    BY DEF MissionInit, LabelInv, NoThread, NoRecord, SubLabels, CanLabels, RecLabels
  <1>4. \A m \in MissionIds : MissionOkNow(m)
    BY DEF MissionInit, NoRow, NoThread, MissionOkNow, MissionOk, RowOk, SubOk, VehicleOk, CancelOk,
       Early, Driving, BeforePrepare, GaveUp
  <1>5. \A n \in Nodes : ReconcileOk(rec[n])
    BY DEF MissionInit, NoRecord, ReconcileOk
  <1> QED BY <1>2, <1>3, <1>4, <1>5 DEF MissionInv, MissionOkNow

LEMMA MissionNextInd ==
    ASSUME MissionInv, [MissionNext]_allVars
    PROVE  MissionInv'
  <1>1. ASSUME NEW m \in MissionIds, NEW n \in Nodes,
               Submit(m, n) \/ CancelGet(m, n) \/ ReconcileRead(n, m)
        PROVE  MissionInv'
    BY <1>1, SubmitInd, CancelGetInd, ReconcileReadInd
  <1>2. ASSUME NEW m \in MissionIds, SubmitStep(m) PROVE MissionInv'
    BY <1>2, GateInd, PreflightInd, ReserveInd, GuardInd, PrepareInd, SendInd, DropInd, AssignInd,
       RejectInd, SubmitReleaseInd DEF SubmitStep
  <1>3. ASSUME NEW m \in MissionIds, CancelStep(m) PROVE MissionInv'
    BY <1>3, CancelEarlyInd, CancelReadInd, CancelVendorInd, CancelFinishInd, CancelReleaseInd DEF CancelStep
  <1>4. ASSUME NEW m \in MissionIds, VendorFinish(m) \/ ReservationExpires(m) PROVE MissionInv'
    BY <1>4, VendorFinishInd, ReservationExpiresInd
  <1>5. ASSUME NEW n \in Nodes, ReconcileStep(n) PROVE MissionInv'
    BY <1>5, ReconcileQueryInd, ReconcileApplyInd, ReconcileReleaseInd DEF ReconcileStep
  <1>6. ASSUME NEW n \in Nodes, Exit(n) PROVE MissionInv'
    BY <1>6, ExitInd
  <1>7. CASE LeadershipStep \/ \E n \in Nodes : Launch(n)
    BY <1>7, NodeInd
  <1>8. CASE UNCHANGED allVars
    <2>1. UNCHANGED <<leader, term, live, row, booked, up, tracked, sub, can, rec, vendor, dispatches, ambiguous>>
      BY <1>8 DEF allVars, leadershipVars, missionVars
    <2> QED BY <2>1 DEF MissionInv, MissionTypeOK, LabelInv, ReconcileOk
  <1> QED BY <1>1, <1>2, <1>3, <1>4, <1>5, <1>6, <1>7, <1>8 DEF MissionNext

LEMMA MissionInvariant == MissionSpec => []MissionInv
  <1>1. MissionInv /\ [MissionNext]_allVars => MissionInv'
    BY MissionNextInd
  <1> QED BY <1>1, MissionInitInd, PTL DEF MissionSpec

\* MissionSpec keeps every variable in its type.
THEOREM MissionTypeCorrect == MissionSpec => []MissionTypeOK
  BY MissionInvariant, PTL DEF MissionInv

\* However submissions, cancellations, elections and exits interleave, no
\* mission is handed to a vendor twice (_dispatch behind prepare_dispatch).
THEOREM DispatchOnce == MissionSpec => []DispatchedOnce
  <1>1. MissionInv => DispatchedOnce
    BY DEF MissionInv, MissionOk, VehicleOk, DispatchedOnce
  <1> QED BY <1>1, MissionInvariant, PTL

\* A vehicle at work has a running row and its route, unless the vendor call
\* that put it to work raised (_dispatch's except clause).
THEOREM TrackedWork == MissionSpec => []WorkIsTracked
  <1>1. MissionInv => WorkIsTracked
    BY DEF MissionInv, MissionOk, RowOk, VehicleOk, WorkIsTracked, Closed
  <1> QED BY <1>1, MissionInvariant, PTL

\* What finish() records of a mission is what the vehicle did.
THEOREM RealOutcome == MissionSpec => []OutcomeIsReal
  <1>1. MissionInv => OutcomeIsReal
    BY DEF MissionInv, MissionOk, VehicleOk, OutcomeIsReal
  <1> QED BY <1>1, MissionInvariant, PTL

-----------------------------------------------------------------------------
(* Missions implement the lifecycle of WorkItems *)

\* A step that moves no row and hands nothing over is not seen there.
LEMMA ItemsStutter ==
    ASSUME \A m \in MissionIds : row'[m].state = row[m].state /\ row'[m].dispatched = row[m].dispatched,
           UNCHANGED dispatches
    PROVE  UNCHANGED Items!absVars
  <1>1. [m \in MissionIds |-> row'[m].state] = [m \in MissionIds |-> row[m].state]
    OBVIOUS
  <1>2. {m \in MissionIds : row'[m].dispatched} = {m \in MissionIds : row[m].dispatched}
    OBVIOUS
  <1> QED BY <1>1, <1>2 DEF Items!absVars

\* A row is created, withdrawn from the queue or settled.
LEMMA ItemsEdge ==
    ASSUME NEW m \in MissionIds,
           \A x \in MissionIds : x # m => row'[x] = row[x],
           row'[m].dispatched = row[m].dispatched, UNCHANGED dispatches,
           \/ row[m].state = "absent" /\ row'[m].state = "queued"
           \/ row[m].state = "queued" /\ row'[m].state \in {"failed", "cancelled"}
           \/ row[m].state = "running" /\ row'[m].state \in Closed
    PROVE  Items!AbsNext
  <1>1. [x \in MissionIds |-> row'[x].state]
           = [[x \in MissionIds |-> row[x].state] EXCEPT ![m] = row'[m].state]
    OBVIOUS
  <1>2. {x \in MissionIds : row'[x].dispatched} = {x \in MissionIds : row[x].dispatched}
    OBVIOUS
  <1>3. CASE row[m].state = "absent" /\ row'[m].state = "queued"
    <2>1. Items!Create(m) BY <1>1, <1>2, <1>3 DEF Items!Create
    <2> QED BY <2>1 DEF Items!AbsNext
  <1>4. CASE row[m].state = "queued" /\ row'[m].state \in {"failed", "cancelled"}
    <2>1. Items!Withdraw(m) BY <1>1, <1>2, <1>4 DEF Items!Withdraw
    <2> QED BY <2>1 DEF Items!AbsNext
  <1>5. CASE row[m].state = "running" /\ row'[m].state \in Closed
    <2>1. Items!Settle(m) BY <1>1, <1>2, <1>5 DEF Items!Settle, Closed
    <2> QED BY <2>1 DEF Items!AbsNext
  <1> QED BY <1>3, <1>4, <1>5

\* prepare_dispatch starts the item.
LEMMA ItemsStart ==
    ASSUME NEW m \in MissionIds, \A x \in MissionIds : x # m => row'[x] = row[x],
           row[m].state = "queued", row'[m].state = "running", row'[m].dispatched = TRUE,
           UNCHANGED dispatches
    PROVE  Items!AbsNext
  <1>1. [x \in MissionIds |-> row'[x].state]
           = [[x \in MissionIds |-> row[x].state] EXCEPT ![m] = "running"]
    OBVIOUS
  <1>2. {x \in MissionIds : row'[x].dispatched} = {x \in MissionIds : row[x].dispatched} \cup {m}
    OBVIOUS
  <1>3. Items!Start(m) BY <1>1, <1>2 DEF Items!Start
  <1> QED BY <1>3 DEF Items!AbsNext

\* The vendor that takes a mission is the executor's one call.
LEMMA ItemsCall ==
    ASSUME NEW m \in MissionIds, dispatches \in [MissionIds -> Nat], dispatches[m] = 0,
           row[m].dispatched, dispatches' = [dispatches EXCEPT ![m] = @ + 1], UNCHANGED row
    PROVE  Items!AbsNext
  <1>1. dispatches'[m] > 0 /\ \A x \in MissionIds : x # m => dispatches'[x] = dispatches[x]
    OBVIOUS
  <1>2. {x \in MissionIds : dispatches'[x] > 0} = {x \in MissionIds : dispatches[x] > 0} \cup {m}
    BY <1>1
  <1>3. ~(dispatches[m] > 0)
    OBVIOUS
  <1>4. Items!Call(m) BY <1>2, <1>3 DEF Items!Call
  <1> QED BY <1>4 DEF Items!AbsNext

\* SetPhase on an active row is such an edge, or a change of phase only.
LEMMA ItemsPhase ==
    ASSUME MissionInv, NEW m \in MissionIds, UNCHANGED dispatches,
           NEW ph \in Phases \ {"none", "dispatching"}, row' = SetPhase(m, ph),
           \/ row[m].state = "queued" /\ ph \in {"preflight", "cancelled", "rejected"}
           \/ row[m].state = "running" /\ ph \notin Early
    PROVE  Items!AbsNext \/ UNCHANGED Items!absVars
  <1>1. /\ row'[m].state = Lifecycle(ph) /\ row'[m].dispatched = row[m].dispatched
        /\ \A x \in MissionIds : x # m => row'[x] = row[x]
    BY SetPhaseRow DEF MissionInv, MissionTypeOK
  <1>2. \/ row[m].state = "queued" /\ Lifecycle(ph) \in {"queued", "failed", "cancelled"}
        \/ row[m].state = "running" /\ Lifecycle(ph) \in Closed \cup {"running"}
    BY DEF Lifecycle, Phases, Early, Driving, Closed
  <1>3. CASE Lifecycle(ph) = row[m].state
    BY <1>1, <1>3, ItemsStutter
  <1>4. CASE Lifecycle(ph) # row[m].state
    BY <1>1, <1>2, <1>4, ItemsEdge DEF Closed
  <1> QED BY <1>3, <1>4

LEMMA ItemsStep == MissionInv /\ [MissionNext]_allVars => [Items!AbsNext]_(Items!absVars)
  <1> SUFFICES ASSUME MissionInv, [MissionNext]_allVars
               PROVE  Items!AbsNext \/ UNCHANGED Items!absVars
    OBVIOUS
  <1>0. /\ row \in [MissionIds -> Rows] /\ dispatches \in [MissionIds -> Nat]
        /\ \A m \in MissionIds : RowOk(row[m])
    BY DEF MissionInv, MissionTypeOK, MissionOk
  <1>1. CASE UNCHANGED <<row, dispatches>>
    BY <1>1, ItemsStutter
  <1>2. ASSUME NEW m \in MissionIds, NEW n \in Nodes, Submit(m, n)
        PROVE  Items!AbsNext
    <2>1. PICK named \in BOOLEAN :
            row' = [row EXCEPT ![m] = [NoRow EXCEPT !.state = "queued", !.phase = "accepted", !.fleet = named]]
      BY <1>2 DEF Submit
    <2>2. /\ row'[m].state = "queued" /\ row'[m].dispatched = FALSE
          /\ \A x \in MissionIds : x # m => row'[x] = row[x]
      BY <1>0, <2>1 DEF NoRow
    <2>3. row[m].state = "absent" /\ row[m].dispatched = FALSE /\ UNCHANGED dispatches
      BY <1>0, <1>2 DEF Submit, Acceptable, RowOk, worldVars, Rows
    <2> QED BY <2>2, <2>3, ItemsEdge
  <1>3. ASSUME NEW m \in MissionIds, SubmitStep(m)
        PROVE  Items!AbsNext \/ UNCHANGED Items!absVars
    <2>1. CASE Gate(m) \/ Reserve(m) \/ Guard(m) \/ Drop(m) \/ SubmitRelease(m)
      BY <1>1, <2>1 DEF Gate, Reserve, Guard, Drop, SubmitRelease, worldVars
    <2>2. CASE Preflight(m)
      <3>1. UNCHANGED dispatches BY <2>2 DEF Preflight, worldVars
      <3>2. row' = row \/ (row[m].state = "queued" /\ row' = SetPhase(m, "preflight"))
        BY <2>2 DEF Preflight
      <3> QED BY <1>1, <3>1, <3>2, ItemsPhase DEF Phases, Early
    <2>3. CASE Prepare(m)
      <3>1. UNCHANGED dispatches BY <2>3 DEF Prepare, worldVars
      <3>2. \/ row' = row
            \/ /\ row[m].state = "queued"
               /\ row' = [row EXCEPT ![m] = [state |-> "running", phase |-> "dispatching",
                                             fleet |-> TRUE, dispatched |-> TRUE]]
        BY <2>3 DEF Prepare, CanPrepare
      <3>3. CASE row[m].state = "queued"
                 /\ row' = [row EXCEPT ![m] = [state |-> "running", phase |-> "dispatching",
                                               fleet |-> TRUE, dispatched |-> TRUE]]
        <4>1. /\ row'[m].state = "running" /\ row'[m].dispatched = TRUE
              /\ \A x \in MissionIds : x # m => row'[x] = row[x]
          BY <1>0, <3>3
        <4> QED BY <3>1, <3>3, <4>1, ItemsStart
      <3> QED BY <1>1, <3>1, <3>2, <3>3
    <2>4. CASE Send(m)
      <3>1. UNCHANGED row /\ sub[m].pc = "send" BY <2>4 DEF Send
      <3>2. dispatches[m] = 0 /\ row[m].dispatched
        BY <3>1 DEF MissionInv, MissionOk, RowOk, SubOk, VehicleOk
      <3>3. UNCHANGED dispatches \/ dispatches' = [dispatches EXCEPT ![m] = @ + 1]
        BY <2>4 DEF Send, worldVars
      <3> QED BY <1>0, <1>1, <3>1, <3>2, <3>3, ItemsCall
    <2>5. CASE Assign(m)
      <3>1. UNCHANGED dispatches BY <2>5 DEF Assign, worldVars
      <3>2. row' = row \/ (row[m].state = "running" /\ row' = SetPhase(m, "assigned"))
        BY <2>5 DEF Assign, CanAssign
      <3> QED BY <1>1, <3>1, <3>2, ItemsPhase DEF Phases, Early, Driving
    <2>6. CASE Reject(m)
      <3>1. UNCHANGED dispatches BY <2>6 DEF Reject, worldVars
      <3>2. row' = row \/ (row[m].state \in {"queued", "running"} /\ row' = SetPhase(m, "rejected"))
        BY <2>6 DEF Reject, CanFinish, ActiveRow
      <3> QED BY <1>1, <3>1, <3>2, ItemsPhase DEF Phases, Early
    <2> QED BY <1>3, <2>1, <2>2, <2>3, <2>4, <2>5, <2>6 DEF SubmitStep
  <1>4. ASSUME NEW m \in MissionIds, CancelStep(m)
        PROVE  Items!AbsNext \/ UNCHANGED Items!absVars
    <2>1. UNCHANGED dispatches
      BY <1>4 DEF CancelStep, CancelEarly, CancelRead, CancelVendor, CancelFinish, CancelRelease, worldVars
    <2>2. row' = row \/ (row[m].state \in {"queued", "running"} /\ row' = SetPhase(m, "cancelled"))
      BY <1>4 DEF CancelStep, CancelEarly, CancelRead, CancelVendor, CancelFinish, CancelRelease,
         CanPrepare, CanFinish, ActiveRow
    <2> QED BY <1>1, <2>1, <2>2, ItemsPhase DEF Phases, Early
  <1>5. ASSUME NEW n \in Nodes, ReconcileApply(n)
        PROVE  Items!AbsNext \/ UNCHANGED Items!absVars
    <2>1. PICK m, report : m = rec[n].mission /\ report = rec[n].report OBVIOUS
    <2>2. UNCHANGED dispatches BY <1>5 DEF ReconcileApply, worldVars
    <2>3. ReconcileOk(rec[n]) /\ rec[n].pc = "apply" BY <1>5 DEF MissionInv, ReconcileApply
    <2>4. m \in MissionIds /\ report \in Driving \cup {"completed", "failed", "cancelled"}
          /\ vendor[m] # "none" /\ rec[n].phase \in Early \cup Driving \cup {"dispatching"}
      BY <2>1, <2>3 DEF ReconcileOk
    <2>5. row[m].dispatched BY <2>4 DEF MissionInv, MissionOk, VehicleOk
    <2>6. CASE row' = SetPhase(m, report) /\ (CanFinish(row[m]) \/ SamePhase(row[m], rec[n].phase))
      <3>1. row[m].state \in {"queued", "running"}
        BY <1>0, <2>4, <2>6 DEF CanFinish, ActiveRow, SamePhase, RowOk
      <3>2. row[m].state = "running" BY <1>0, <2>4, <2>5, <3>1 DEF RowOk
      <3>3. report \in Phases \ {"none", "dispatching"} /\ report \notin Early
        BY <2>4 DEF Phases, Driving, Early
      <3> QED BY <2>2, <2>4, <2>6, <3>2, <3>3, ItemsPhase
    <2> QED BY <1>1, <1>5, <2>1, <2>2, <2>6 DEF ReconcileApply
  <1>6. CASE \/ \E m \in MissionIds, n \in Nodes : CancelGet(m, n) \/ ReconcileRead(n, m)
             \/ \E m \in MissionIds : VendorFinish(m) \/ ReservationExpires(m)
             \/ \E n \in Nodes : ReconcileQuery(n) \/ ReconcileRelease(n) \/ Exit(n) \/ Launch(n)
             \/ LeadershipStep \/ UNCHANGED allVars
    BY <1>1, <1>6 DEF CancelGet, ReconcileRead, VendorFinish, ReservationExpires, ReconcileQuery,
       ReconcileRelease, Exit, Launch, LeadershipStep, allVars, missionVars, worldVars
  <1> QED BY <1>2, <1>3, <1>4, <1>5, <1>6 DEF MissionNext, ReconcileStep

\* Mission rows follow the lifecycle of WORK_ITEMS.md: reconcile() revives no
\* row, and a vendor is called at most once and only for a started item.
THEOREM MissionRefinement == MissionSpec => ImplementsWorkItems
  <1>1. MissionInit => Items!AbsInit
    BY DEF MissionInit, NoRow, Items!AbsInit
  <1> QED BY <1>1, MissionInvariant, ItemsStep, PTL DEF MissionSpec, ImplementsWorkItems, Items!AbsSpec
=============================================================================
