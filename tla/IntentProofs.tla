---------------------------- MODULE IntentProofs ----------------------------
(***************************************************************************)
(* Machine-checked facts about IntentHarness, for every set of keys,       *)
(* messages, peers and threads and every number of crashes.  The           *)
(* inductive invariant IndInv relates three counters the code keeps apart: *)
(* the audit chain's task.running entries, the futures on the pool and the *)
(* adapter calls.                                                          *)
(***************************************************************************)
EXTENDS IntentHarness, FiniteSetTheorems, TLAPS

\* A thread that is not idle serves something, and the reconciler only takes
\* the steps of _execute_admitted_intent.
ThreadInv ==
    /\ \A w \in Workers : pc[w] # "idle" => cur[w] \in Messages
    /\ \A w \in Workers : pc[w] = "reply" => resp[w] \in Responses
    /\ pc[Reconciler] \in {"idle", "validate", "start", "await"}
    /\ pc[Reconciler] # "idle" => rkey \in Keys

\* Work that never started has no future; a start is spent on at most one
\* call, the one the future still owes included.
StartInv ==
    \A k \in Keys :
        /\ started[k] <= 1
        /\ calls[k] <= started[k]
        /\ job[k] = "queued" => calls[k] = 0
        /\ job[k] # "none" => started[k] = 1
        /\ task[k].state \in {"absent", "queued"} \/ task[k].phase = "rejected"
              => started[k] = 0

IndInv == TypeOK /\ ThreadInv /\ StartInv

\* The claim set keeps two threads off one message: a busy request thread has
\* its message claimed, nobody else serves it, and past insert_if_new the
\* inbox holds no answer to it yet.
ClaimInv ==
    \A w \in Workers : pc[w] # "idle" =>
        /\ cur[w] \in claims
        /\ pc[w] # "insert" => inbox[cur[w]] = "pending"
        /\ \A v \in Workers \ {w} : pc[v] # "idle" => cur[v] # cur[w]

ReplyInv == ClaimInv /\ ReplyStable

\* Only running work is marked for cancellation.
CancelInv ==
    /\ \A k \in Keys : task[k].phase = "cancel_requested" => task[k].state = "running"
    /\ CancelPendingIsServed

BacklogInv == IsFiniteSet(ActiveKeys) /\ BacklogBounded

-----------------------------------------------------------------------------
(* What the row updates return *)

\* Move and Mark change one row and keep it a row.
LEMMA MoveRow ==
    ASSUME task \in [Keys -> Rows], NEW k \in Keys, NEW s \in States, NEW ph \in Phases
    PROVE  /\ Move(k, s, ph) \in [Keys -> Rows]
           /\ Move(k, s, ph)[k].state = s
           /\ Move(k, s, ph)[k].phase = ph
           /\ \A j \in Keys : j # k => Move(k, s, ph)[j] = task[j]
  BY DEF Move, Rows

LEMMA MarkRow ==
    ASSUME task \in [Keys -> Rows], NEW k \in Keys, NEW ph \in Phases
    PROVE  /\ Mark(k, ph) \in [Keys -> Rows]
           /\ Mark(k, ph)[k].state = task[k].state
           /\ Mark(k, ph)[k].phase = ph
           /\ \A j \in Keys : j # k => Mark(k, ph)[j] = task[j]
  BY DEF Mark, Rows

\* A busy thread serves a key.
LEMMA ServedKey ==
    ASSUME TypeOK, ThreadInv, NEW w \in Threads, pc[w] # "idle"
    PROVE  KeyServed(w) \in Keys
  BY EnvelopeAssumption, ThreadAssumption DEF ThreadInv, KeyServed, Threads

\* Handing over to another label or to a response keeps the thread state well
\* formed.
LEMMA GotoTyped ==
    ASSUME TypeOK, ThreadInv, NEW w \in Threads, pc[w] # "idle", NEW l \in PCs \ {"idle", "reply"},
           Goto(w, l), w = Reconciler => l \in {"validate", "start", "await"}
    PROVE  /\ claims' \subseteq Messages
           /\ pc' \in [Threads -> PCs]
           /\ cur' \in [Workers -> Messages \cup {None}]
           /\ rkey' \in Keys \cup {None}
           /\ resp' \in [Workers -> Responses \cup {"none"}]
           /\ ThreadInv'
  BY ThreadAssumption DEF TypeOK, ThreadInv, Goto, Threads, PCs

LEMMA ReturnTyped ==
    ASSUME TypeOK, ThreadInv, NEW w \in Threads, pc[w] # "idle", NEW r \in Responses, Return(w, r)
    PROVE  /\ claims' \subseteq Messages
           /\ pc' \in [Threads -> PCs]
           /\ cur' \in [Workers -> Messages \cup {None}]
           /\ rkey' \in Keys \cup {None}
           /\ resp' \in [Workers -> Responses \cup {"none"}]
           /\ ThreadInv'
  BY ThreadAssumption DEF TypeOK, ThreadInv, Return, Threads, PCs

LEMMA ReleaseTyped ==
    ASSUME TypeOK, ThreadInv, NEW w \in Workers, Release(w)
    PROVE  /\ claims' \subseteq Messages
           /\ pc' \in [Threads -> PCs]
           /\ cur' \in [Workers -> Messages \cup {None}]
           /\ rkey' \in Keys \cup {None}
           /\ resp' \in [Workers -> Responses \cup {"none"}]
           /\ ThreadInv'
  BY ThreadAssumption DEF TypeOK, ThreadInv, Release, Threads, PCs

-----------------------------------------------------------------------------
(* IndInv holds initially and every action preserves it *)

LEMMA InitInd == Init => IndInv
  <1> SUFFICES ASSUME Init PROVE IndInv OBVIOUS
  <1>1. TypeOK
    BY DEF Init, EmptyNode, TypeOK, Rows, States, Phases, PCs, JobStates
  <1>2. ThreadInv
    BY DEF Init, EmptyNode, ThreadInv, Threads
  <1>3. StartInv
    BY DEF Init, EmptyNode, StartInv
  <1> QED BY <1>1, <1>2, <1>3 DEF IndInv

\* Request threads: admission, replay and recording of responses.
LEMMA AcceptInd ==
    ASSUME IndInv, NEW w \in Workers,
           \/ \E m \in Messages : Deliver(w, m) \/ DeliverBusy(m)
           \/ Insert(w) \/ Reply(w)
    PROVE  IndInv'
  <1>1. CASE \E m \in Messages : Deliver(w, m)
    BY <1>1, ThreadAssumption DEF IndInv, TypeOK, ThreadInv, StartInv, Deliver, Threads, PCs,
       dbVars, poolVars, envVars
  <1>2. CASE \E m \in Messages : DeliverBusy(m)
    BY <1>2 DEF IndInv, TypeOK, ThreadInv, StartInv, DeliverBusy,
       dbVars, poolVars, envVars, threadVars
  <1>3. CASE Insert(w)
    <2>1. cur[w] \in Messages /\ w \in Threads
      BY <1>3 DEF IndInv, ThreadInv, Insert, Threads
    <2>2. CASE ~Dispatchable(inbox[cur[w]])
      <3>1. Release(w) BY <1>3, <2>2 DEF Insert
      <3>2. heard' \in [Messages -> SUBSET Responses]
        BY <1>3, <2>1, <2>2 DEF Insert, IndInv, TypeOK
      <3> QED BY <1>3, <2>1, <2>2, <3>1, <3>2, ReleaseTyped
          DEF IndInv, TypeOK, StartInv, Insert, poolVars, envVars
    <2>3. CASE Dispatchable(inbox[cur[w]])
      BY <1>3, <2>1, <2>3, ThreadAssumption
         DEF IndInv, TypeOK, ThreadInv, StartInv, Insert, Threads, PCs, poolVars, envVars
    <2> QED BY <2>2, <2>3
  <1>4. CASE Reply(w)
    <2>1. cur[w] \in Messages /\ resp[w] \in Responses /\ Release(w)
      BY <1>4 DEF IndInv, ThreadInv, Reply
    <2> QED BY <1>4, <2>1, ReleaseTyped
        DEF IndInv, TypeOK, StartInv, Reply, poolVars, envVars
  <1> QED BY <1>1, <1>2, <1>3, <1>4

\* intent.propose up to the queued row.
LEMMA ProposeInd ==
    ASSUME IndInv, NEW w \in Workers,
           ProposeRefused(w) \/ ProposeNew(w) \/ ProposeFull(w) \/ ProposeDuplicate(w)
    PROVE  IndInv'
  <1> DEFINE k == KeyServed(w)
  <1>0. /\ k \in Keys /\ w \in Threads /\ cur[w] \in Messages /\ w # Reconciler
        /\ pc[w] = "dispatch" /\ k = KeyOf[cur[w]]
    BY ServedKey, ThreadAssumption
       DEF IndInv, ThreadInv, Threads, KeyServed, ProposeRefused, ProposeNew, ProposeFull,
           ProposeDuplicate, Dispatching
  <1>1. CASE ProposeRefused(w)
    BY <1>0, <1>1, ReturnTyped
       DEF IndInv, TypeOK, StartInv, ProposeRefused, Responses, dbVars, poolVars, envVars
  <1>2. CASE ProposeNew(w)
    <2>1. /\ task' \in [Keys -> Rows]
          /\ task[k].state = "absent"
          /\ \A j \in Keys : j # k => task'[j] = task[j]
      BY <1>0, <1>2, EnvelopeAssumption DEF ProposeNew, IndInv, TypeOK, Rows, States, Phases
    <2>2. Goto(w, "validate") /\ "validate" \in PCs \ {"idle", "reply"}
      BY <1>2 DEF ProposeNew, PCs
    <2> HIDE DEF k
    <2> QED BY <1>0, <1>2, <2>1, <2>2, GotoTyped
        DEF IndInv, TypeOK, StartInv, ProposeNew, poolVars, envVars
  <1>3. CASE ProposeFull(w)
    BY <1>0, <1>3, ReleaseTyped
       DEF IndInv, TypeOK, StartInv, ProposeFull, poolVars, envVars
  <1>4. CASE ProposeDuplicate(w)
    <2>1. \/ \E r \in Responses : Return(w, r)
          \/ Goto(w, "validate") /\ "validate" \in PCs \ {"idle", "reply"}
      BY <1>0, <1>4 DEF ProposeDuplicate, TaskResponse, Responses, PCs
    <2> QED BY <1>0, <1>4, <2>1, GotoTyped, ReturnTyped
        DEF IndInv, TypeOK, StartInv, ProposeDuplicate, dbVars, poolVars, envVars
  <1> QED BY <1>1, <1>2, <1>3, <1>4

\* A row that implies a response implies one of the protocol's.
LEMMA ResponseTyped ==
    ASSUME NEW row
    PROVE  TaskResponse(row) \in Responses /\ CancelResponse(row) \in Responses
  BY DEF TaskResponse, CancelResponse, Responses

\* Recording an outcome changes at most the row of a running task.
LEMMA OutcomeRow ==
    ASSUME TypeOK, NEW k \in Keys, ApplyOutcome(k)
    PROVE  /\ task' \in [Keys -> Rows]
           /\ \A j \in Keys : task'[j] = task[j]
                 \/ (task'[j].state \in {"succeeded", "failed"} /\ task'[j].phase = "none")
           /\ job' = [job EXCEPT ![k] = "none"]
  <1>1. job' = [job EXCEPT ![k] = "none"]
    BY DEF ApplyOutcome
  <1>2. CASE CanCommit(task[k])
    <2>1. PICK s \in {"succeeded", "failed"} : task' = Move(k, s, "none")
      BY <1>2 DEF ApplyOutcome, Recordable
    <2>2. s \in States /\ "none" \in Phases /\ task \in [Keys -> Rows]
      BY DEF States, Phases, TypeOK
    <2> QED BY <1>1, <2>1, <2>2, MoveRow
  <1>3. CASE ~CanCommit(task[k])
    BY <1>1, <1>3 DEF ApplyOutcome, TypeOK
  <1> QED BY <1>2, <1>3

\* _execute_admitted_intent: validation, the start CAS, the bounded wait.
LEMMA ExecuteInd ==
    ASSUME IndInv, NEW w \in Threads, ExecuteStep(w)
    PROVE  IndInv'
  <1> DEFINE k == KeyServed(w)
  <1>0. k \in Keys /\ pc[w] \in {"validate", "start", "await"}
    BY ServedKey
       DEF IndInv, ExecuteStep, Validate, StartRunning, StartLost, Commit, Timeout
  <1>1. CASE Validate(w)
    <2>1. CASE k \in permitted
      <3>1. Goto(w, "start") /\ "start" \in PCs \ {"idle", "reply"} /\ UNCHANGED task
        BY <1>1, <2>1 DEF Validate, PCs
      <3> QED BY <1>0, <1>1, <3>1, GotoTyped
          DEF IndInv, TypeOK, StartInv, Validate, poolVars, envVars
    <2>2. CASE k \notin permitted
      <3>1. Return(w, "error") /\ "error" \in Responses
        BY <1>1, <2>2 DEF Validate, Responses
      <3>2. task' = task \/ (task[k].state = "queued" /\ task' = Move(k, "failed", "rejected"))
        BY <1>1, <2>2 DEF Validate, CanReject
      <3>3. task' \in [Keys -> Rows]
        BY <1>0, <3>2, MoveRow DEF IndInv, TypeOK, States, Phases
      <3>4. \A j \in Keys : task'[j] = task[j] \/ (j = k /\ task[j].state = "queued")
        BY <1>0, <3>2, MoveRow DEF IndInv, TypeOK, States, Phases
      <3> HIDE DEF k
      <3> QED BY <1>0, <1>1, <3>1, <3>3, <3>4, ReturnTyped
          DEF IndInv, TypeOK, StartInv, Validate, poolVars, envVars
    <2> QED BY <2>1, <2>2
  <1>2. CASE StartRunning(w)
    <2>1. Goto(w, "await") /\ "await" \in PCs \ {"idle", "reply"}
      BY <1>2 DEF StartRunning, PCs
    <2>2. task[k].state = "queued" /\ task' = Move(k, "running", "none")
      BY <1>2 DEF StartRunning, CanStart
    <2>3. /\ task' \in [Keys -> Rows] /\ task'[k].state = "running" /\ task'[k].phase = "none"
          /\ \A j \in Keys : j # k => task'[j] = task[j]
      <3>1. task \in [Keys -> Rows] BY DEF IndInv, TypeOK
      <3>2. "running" \in States /\ "none" \in Phases BY DEF States, Phases
      <3> HIDE DEF k
      <3> QED BY <1>0, <2>2, <3>1, <3>2, MoveRow
    <2>4. /\ started' = [started EXCEPT ![k] = @ + 1]
          /\ job' = [job EXCEPT ![k] = "queued"]
      BY <1>2 DEF StartRunning
    <2>5. started[k] = 0 /\ calls[k] = 0
      BY <1>0, <2>2 DEF IndInv, StartInv, TypeOK
    <2> HIDE DEF k
    <2>6. StartInv'
      BY <1>0, <1>2, <2>3, <2>4, <2>5 DEF IndInv, TypeOK, StartInv, StartRunning
    <2> QED BY <1>0, <1>2, <2>1, <2>3, <2>4, <2>6, GotoTyped
        DEF IndInv, TypeOK, StartRunning, envVars, JobStates
  <1>3. CASE StartLost(w)
    BY <1>0, <1>3, ReturnTyped, ResponseTyped
       DEF IndInv, TypeOK, StartInv, StartLost, dbVars, poolVars, envVars
  <1>4. CASE Commit(w)
    <2>1. \E r \in Responses : Return(w, r)
      BY <1>4, ResponseTyped DEF Commit
    <2>2. ApplyOutcome(k) BY <1>4 DEF Commit
    <2>3. /\ task' \in [Keys -> Rows]
          /\ \A j \in Keys : task'[j] = task[j]
                \/ (task'[j].state \in {"succeeded", "failed"} /\ task'[j].phase = "none")
          /\ job' = [job EXCEPT ![k] = "none"]
      BY <1>0, <2>2, OutcomeRow DEF IndInv
    <2> HIDE DEF k
    <2>5. StartInv'
      BY <1>0, <1>4, <2>3 DEF IndInv, TypeOK, StartInv, Commit
    <2> QED BY <1>0, <1>4, <2>1, <2>3, <2>5, ReturnTyped
        DEF IndInv, TypeOK, Commit, envVars, JobStates
  <1>5. CASE Timeout(w)
    BY <1>0, <1>5, ReturnTyped
       DEF IndInv, TypeOK, StartInv, Timeout, Responses, dbVars, envVars
  <1> QED BY <1>1, <1>2, <1>3, <1>4, <1>5 DEF ExecuteStep

\* The adapter pool and the late done-callback.
LEMMA PoolInd ==
    ASSUME IndInv, NEW k \in Keys, PoolStep(k)
    PROVE  IndInv'
  <1>1. CASE JobStart(k)
    BY <1>1 DEF IndInv, TypeOK, ThreadInv, StartInv, JobStart, JobStates,
       dbVars, threadVars, envVars
  <1>2. CASE EffectHappens(k)
    BY <1>2 DEF IndInv, TypeOK, ThreadInv, StartInv, EffectHappens,
       dbVars, threadVars, envVars
  <1>3. CASE JobFinish(k)
    BY <1>3 DEF IndInv, TypeOK, ThreadInv, StartInv, JobFinish, JobStates,
       dbVars, threadVars, envVars
  <1>4. CASE LateCommit(k)
    <2>1. ApplyOutcome(k) BY <1>4 DEF LateCommit
    <2>2. /\ task' \in [Keys -> Rows]
          /\ \A j \in Keys : task'[j] = task[j]
                \/ (task'[j].state \in {"succeeded", "failed"} /\ task'[j].phase = "none")
          /\ job' = [job EXCEPT ![k] = "none"]
      BY <2>1, OutcomeRow DEF IndInv
    <2>4. StartInv'
      BY <1>4, <2>2 DEF IndInv, TypeOK, StartInv, LateCommit
    <2> QED BY <1>4, <2>2, <2>4
        DEF IndInv, TypeOK, ThreadInv, LateCommit, threadVars, envVars, JobStates
  <1> QED BY <1>1, <1>2, <1>3, <1>4 DEF PoolStep

\* A step that only changes rows of started or withdrawn work keeps StartInv.
LEMMA RowStepInd ==
    ASSUME IndInv, task' \in [Keys -> Rows],
           \A j \in Keys :
              \/ task'[j] = task[j]
              \/ task[j].state = "queued"
              \/ /\ task'[j].state \notin {"absent", "queued"}
                 /\ task'[j].phase # "rejected"
              \/ task'[j].state = task[j].state /\ task'[j].phase = task[j].phase,
           UNCHANGED <<started, calls, job>>
    PROVE  StartInv'
  BY DEF IndInv, TypeOK, StartInv

\* task.cancel and task.status.
LEMMA CancelInd ==
    ASSUME IndInv, NEW w \in Workers,
           \/ CancelFirst(w) \/ CancelRead(w) \/ CancelRequest(w) \/ CancelHook(w)
           \/ CancelConfirm(w) \/ ResumeRunning(w) \/ CancelReport(w) \/ TaskStatus(w)
    PROVE  IndInv'
  <1> DEFINE k == KeyServed(w)
  <1>0. k \in Keys /\ w \in Threads /\ pc[w] # "idle" /\ w # Reconciler
    BY ServedKey, ThreadAssumption
       DEF IndInv, Threads, CancelFirst, CancelRead, CancelRequest, CancelHook, CancelConfirm,
           ResumeRunning, CancelReport, TaskStatus, Dispatching
  <1>1. \/ \E r \in Responses : Return(w, r)
        \/ \E l \in PCs \ {"idle", "reply"} : Goto(w, l)
    <2>1. /\ "cancelled" \in Responses /\ "error" \in Responses /\ "too_late" \in Responses
          /\ {"cancel_read", "cancel_request", "cancel_hook", "cancel_confirm", "resume",
              "report"} \subseteq PCs \ {"idle", "reply"}
      BY DEF Responses, PCs
    <2> QED BY <2>1, ResponseTyped
        DEF CancelFirst, CancelRead, CancelRequest, CancelHook, CancelConfirm,
            ResumeRunning, CancelReport, TaskStatus
  <1>2. \/ task' = task
        \/ CanCancel(task[k]) /\ task' = Move(k, "cancelled", "none")
        \/ CanRequestCancel(task[k]) /\ task' = Mark(k, "cancel_requested")
        \/ CanResume(task[k]) /\ task' = Mark(k, "none")
    BY DEF CancelFirst, CancelRead, CancelRequest, CancelHook, CancelConfirm,
           ResumeRunning, CancelReport, TaskStatus, dbVars
  <1>3. UNCHANGED <<started, inbox, poolVars, envVars, heard>>
    BY DEF CancelFirst, CancelRead, CancelRequest, CancelHook, CancelConfirm,
           ResumeRunning, CancelReport, TaskStatus, dbVars
  <1>4. /\ task' \in [Keys -> Rows]
        /\ \A j \in Keys : task'[j] = task[j] \/ task[j].state = "queued"
              \/ (task'[j].state \notin {"absent", "queued"} /\ task'[j].phase # "rejected")
    <2>1. CASE task' = task BY <2>1 DEF IndInv, TypeOK
    <2>2. CASE task' = Move(k, "cancelled", "none")
      BY <1>0, <2>2, MoveRow DEF IndInv, TypeOK, States, Phases
    <2>3. CASE CanRequestCancel(task[k]) /\ task' = Mark(k, "cancel_requested")
      BY <1>0, <2>3, MarkRow DEF IndInv, TypeOK, Phases, CanRequestCancel
    <2>4. CASE CanResume(task[k]) /\ task' = Mark(k, "none")
      BY <1>0, <2>4, MarkRow DEF IndInv, TypeOK, Phases, CanResume
    <2> QED BY <1>2, <2>1, <2>2, <2>3, <2>4
  <1> HIDE DEF k
  <1>5. StartInv'
    BY <1>3, <1>4, RowStepInd DEF poolVars
  <1>6. TypeOK' /\ ThreadInv'
    BY <1>0, <1>1, <1>3, <1>4, GotoTyped, ReturnTyped DEF IndInv, TypeOK, poolVars, envVars
  <1> QED BY <1>5, <1>6 DEF IndInv

\* The reconciler loop and the passing of deadlines.
LEMMA ReconcilerInd ==
    ASSUME IndInv, NEW k \in Keys, ReconcilerStep(k) \/ Elapse(k)
    PROVE  IndInv'
  <1>0. task \in [Keys -> Rows] /\ {"failed", "unknown", "succeeded"} \subseteq States
        /\ {"rejected", "outcome_unknown", "reconciled"} \subseteq Phases
    BY DEF IndInv, TypeOK, States, Phases
  <1>1. CASE ExpireLease(k)
    <2>1. task' = Move(k, "unknown", "outcome_unknown") BY <1>1 DEF ExpireLease
    <2>2. StartInv' BY <1>0, <1>1, <2>1, MoveRow, RowStepInd DEF ExpireLease, poolVars
    <2> QED BY <1>0, <1>1, <2>1, <2>2, MoveRow
        DEF IndInv, TypeOK, ThreadInv, ExpireLease, threadVars, poolVars, envVars
  <1>2. CASE Recover(k)
    <2>1. CASE task[k].owner \in paired
      BY <1>2, <2>1, ThreadAssumption
         DEF IndInv, TypeOK, ThreadInv, StartInv, Recover, ReconcilerFree, Threads, PCs,
             poolVars, envVars
    <2>2. CASE task[k].owner \notin paired
      <3>1. task' = Move(k, "failed", "rejected") /\ task[k].state = "queued"
        BY <1>2, <2>2 DEF Recover
      <3>2. StartInv' BY <1>0, <1>2, <3>1, MoveRow, RowStepInd DEF Recover, poolVars
      <3> QED BY <1>0, <1>2, <2>2, <3>1, <3>2, MoveRow
          DEF IndInv, TypeOK, ThreadInv, Recover, threadVars, poolVars, envVars
    <2> QED BY <2>1, <2>2
  <1>3. CASE Reconcile(k)
    <2>1. PICK s \in {"succeeded", "failed"} : task' = Move(k, s, "reconciled")
      BY <1>3 DEF Reconcile
    <2>2. s \in States BY <1>0
    <2>3. StartInv' BY <1>0, <1>3, <2>1, <2>2, MoveRow, RowStepInd DEF Reconcile, poolVars
    <2> QED BY <1>0, <1>3, <2>1, <2>2, <2>3, MoveRow
        DEF IndInv, TypeOK, ThreadInv, Reconcile, threadVars, poolVars, envVars
  <1>4. CASE Elapse(k)
    <2>0. task' = [task EXCEPT ![k] = [task[k] EXCEPT !.due = TRUE]]
      BY <1>4 DEF Elapse
    <2>1. /\ task' \in [Keys -> Rows]
          /\ \A j \in Keys : task'[j].state = task[j].state /\ task'[j].phase = task[j].phase
      BY <1>0, <2>0 DEF Rows
    <2>2. StartInv' BY <1>4, <2>1, RowStepInd DEF Elapse, poolVars
    <2> QED BY <1>4, <2>1, <2>2
        DEF IndInv, TypeOK, ThreadInv, Elapse, threadVars, poolVars, envVars
  <1> QED BY <1>1, <1>2, <1>3, <1>4 DEF ReconcilerStep

\* Crash, restart and operator decisions.
LEMMA ProcessInd ==
    ASSUME IndInv, Crash \/ Restart \/ BootDone \/ OutsideStep
    PROVE  IndInv'
  <1>1. CASE Crash
    BY <1>1 DEF IndInv, TypeOK, ThreadInv, StartInv, Crash, Threads, PCs, JobStates, dbVars
  <1>2. CASE Restart
    BY <1>2 DEF IndInv, TypeOK, ThreadInv, StartInv, Restart, dbVars, threadVars, poolVars
  <1>3. CASE BootDone
    BY <1>3 DEF IndInv, TypeOK, ThreadInv, StartInv, BootDone, dbVars, threadVars, poolVars
  <1>4. CASE OutsideStep
    BY <1>4, BoundAssumption
       DEF IndInv, TypeOK, ThreadInv, StartInv, OutsideStep, ChangePairing, ChangePolicy, ExpireEnvelope,
           dbVars, threadVars, poolVars
  <1> QED BY <1>1, <1>2, <1>3, <1>4

\* Every step keeps the inductive invariant.
LEMMA NextInd == IndInv /\ [Next]_vars => IndInv'
  <1> SUFFICES ASSUME IndInv, [Next]_vars PROVE IndInv' OBVIOUS
  <1>1. CASE UNCHANGED vars
    BY <1>1 DEF vars, IndInv, TypeOK, ThreadInv, StartInv
  <1>2. CASE \E w \in Workers, m \in Messages : Deliver(w, m)
    BY <1>2, AcceptInd
  <1>3. CASE \E m \in Messages : DeliverBusy(m)
    BY <1>3 DEF IndInv, TypeOK, ThreadInv, StartInv, DeliverBusy,
       dbVars, poolVars, envVars, threadVars
  <1>4. CASE \E w \in Workers : RequestStep(w)
    BY <1>4, AcceptInd, ProposeInd, CancelInd DEF RequestStep
  <1>5. CASE \E w \in Threads : ExecuteStep(w)
    BY <1>5, ExecuteInd
  <1>6. CASE \E k \in Keys : PoolStep(k) \/ ReconcilerStep(k) \/ Elapse(k)
    BY <1>6, PoolInd, ReconcilerInd
  <1>7. CASE Crash \/ Restart \/ BootDone \/ OutsideStep
    BY <1>7, ProcessInd
  <1> QED BY <1>1, <1>2, <1>3, <1>4, <1>5, <1>6, <1>7 DEF Next

\* The harness keeps its durable rows, threads and pool well formed.
THEOREM TypeCorrect == Spec => []TypeOK
  <1>1. IndInv => TypeOK BY DEF IndInv
  <1> QED BY <1>1, InitInd, NextInd, PTL DEF Spec

\* However often an intent is proposed, re-delivered, recovered or raced by a
\* cancellation, and however often the process crashes, the adapter is called
\* at most once per idempotency key.
THEOREM AtMostOnce == Spec => []AtMostOneCall
  <1>1. IndInv => AtMostOneCall
    BY DEF IndInv, StartInv, TypeOK, AtMostOneCall
  <1> QED BY <1>1, InitInd, NextInd, PTL DEF Spec

\* A rejected intent, or one still queued, has not reached the adapter and
\* has no future left that could: rejection is a promise of no effect.
THEOREM RejectionIsFinal == Spec => []UnstartedNeverCalled
  <1>1. IndInv => UnstartedNeverCalled
    BY DEF IndInv, StartInv, TypeOK, UnstartedNeverCalled
  <1> QED BY <1>1, InitInd, NextInd, PTL DEF Spec

-----------------------------------------------------------------------------
(* The harness implements the work-item lifecycle *)

\* A step that changes no lifecycle state, no start and no call stutters.
LEMMA AbsStutter ==
    ASSUME \A j \in Keys : task'[j].state = task[j].state, UNCHANGED <<started, calls>>
    PROVE  UNCHANGED Abs!absVars
  BY DEF Abs!absVars

\* A step that moves one row along an edge of the lifecycle is an abstract
\* step of that item.
LEMMA AbsEdge ==
    ASSUME NEW k \in Keys, NEW s \in States, NEW ph \in Phases,
           task' = Move(k, s, ph), task \in [Keys -> Rows],
           \/ task[k].state = "queued" /\ s \in {"failed", "cancelled"}
           \/ task[k].state = "running" /\ s \in {"succeeded", "failed", "cancelled", "unknown"}
           \/ task[k].state = "unknown" /\ s \in {"succeeded", "failed"},
           UNCHANGED <<started, calls>>
    PROVE  Abs!AbsNext
  <1> DEFINE st == [j \in Keys |-> task[j].state]
  <1>1. \A j \in Keys : task'[j].state = IF j = k THEN s ELSE task[j].state
    BY MoveRow
  <1>2. [j \in Keys |-> task'[j].state] = [st EXCEPT ![k] = s]
    BY <1>1
  <1>3. Abs!Withdraw(k) \/ Abs!Settle(k) \/ Abs!Verify(k)
    BY <1>2 DEF Abs!Withdraw, Abs!Settle, Abs!Verify
  <1> QED BY <1>3 DEF Abs!AbsNext

\* Creating a row is an abstract creation.
LEMMA AbsCreate ==
    ASSUME NEW k \in Keys, task[k].state = "absent", task'[k].state = "queued",
           \A j \in Keys : j # k => task'[j] = task[j], UNCHANGED <<started, calls>>
    PROVE  Abs!AbsNext
  <1>1. [j \in Keys |-> task'[j].state]
           = [[j \in Keys |-> task[j].state] EXCEPT ![k] = "queued"]
    OBVIOUS
  <1>2. Abs!Create(k) BY <1>1 DEF Abs!Create
  <1> QED BY <1>2 DEF Abs!AbsNext

\* The start CAS is an abstract start.
LEMMA AbsStart ==
    ASSUME NEW k \in Keys, task[k].state = "queued", task'[k].state = "running",
           \A j \in Keys : j # k => task'[j] = task[j],
           started \in [Keys -> Nat], started' = [started EXCEPT ![k] = @ + 1], UNCHANGED calls
    PROVE  Abs!AbsNext
  <1>1. [j \in Keys |-> task'[j].state]
           = [[j \in Keys |-> task[j].state] EXCEPT ![k] = "running"]
    OBVIOUS
  <1>2. started'[k] > 0 /\ \A j \in Keys : j # k => started'[j] = started[j]
    OBVIOUS
  <1>3. {j \in Keys : started'[j] > 0} = {j \in Keys : started[j] > 0} \cup {k}
    BY <1>2
  <1>4. Abs!Start(k) BY <1>1, <1>3 DEF Abs!Start
  <1> QED BY <1>4 DEF Abs!AbsNext

\* An adapter call for started work is an abstract call.
LEMMA AbsCall ==
    ASSUME NEW k \in Keys, calls \in [Keys -> Nat], calls[k] = 0, started[k] = 1,
           calls' = [calls EXCEPT ![k] = @ + 1], UNCHANGED <<task, started>>
    PROVE  Abs!AbsNext
  <1>1. calls'[k] > 0 /\ \A j \in Keys : j # k => calls'[j] = calls[j]
    OBVIOUS
  <1>2. {j \in Keys : calls'[j] > 0} = {j \in Keys : calls[j] > 0} \cup {k}
    BY <1>1
  <1>3. started[k] > 0 /\ ~(calls[k] > 0)
    OBVIOUS
  <1>4. Abs!Call(k) BY <1>2, <1>3 DEF Abs!Call
  <1> QED BY <1>4 DEF Abs!AbsNext

\* Every step of the harness is a lifecycle step or a stuttering step.
LEMMA AbsStep == IndInv /\ [Next]_vars => [Abs!AbsNext]_(Abs!absVars)
  <1> SUFFICES ASSUME IndInv, [Next]_vars
               PROVE  Abs!AbsNext \/ UNCHANGED Abs!absVars
    OBVIOUS
  <1>0. task \in [Keys -> Rows] BY DEF IndInv, TypeOK
  <1>1. CASE UNCHANGED <<task, started, calls>>
    BY <1>1, AbsStutter
  <1>2. ASSUME NEW w \in Workers, RequestStep(w)
        PROVE  Abs!AbsNext \/ UNCHANGED Abs!absVars
    <2> DEFINE k == KeyServed(w)
    <2>0. k \in Keys
      BY <1>2, ServedKey DEF IndInv, Threads, RequestStep, Insert, Reply, ProposeRefused,
         ProposeNew, ProposeFull, ProposeDuplicate, CancelFirst, CancelRead, CancelRequest,
         CancelHook, CancelConfirm, ResumeRunning, CancelReport, TaskStatus, Dispatching
    <2>1. CASE ProposeNew(w)
      <3>1. /\ \A j \in Keys : j # k => task'[j] = task[j]
            /\ task[k].state = "absent" /\ task'[k].state = "queued"
            /\ UNCHANGED <<started, calls>>
        BY <1>0, <2>0, <2>1 DEF ProposeNew, poolVars
      <3> HIDE DEF k
      <3> QED BY <2>0, <3>1, AbsCreate
    <2>2. CASE task' = Move(k, "cancelled", "none") /\ CanCancel(task[k])
               /\ UNCHANGED <<started, calls>>
      <3> HIDE DEF k
      <3> QED BY <1>0, <2>0, <2>2, AbsEdge DEF CanCancel, States, Phases
    <2>3. CASE (\E ph \in Phases : task' = Mark(k, ph)) /\ UNCHANGED <<started, calls>>
      <3>1. \A j \in Keys : task'[j].state = task[j].state
        BY <1>0, <2>0, <2>3, MarkRow
      <3> QED BY <2>3, <3>1, AbsStutter
    <2>4. ProposeNew(w) \/ UNCHANGED <<task, started, calls>>
            \/ (task' = Move(k, "cancelled", "none") /\ CanCancel(task[k])
                  /\ UNCHANGED <<started, calls>>)
            \/ ((\E ph \in Phases : task' = Mark(k, ph)) /\ UNCHANGED <<started, calls>>)
      <3>1. "cancel_requested" \in Phases /\ "none" \in Phases BY DEF Phases
      <3>2. CASE Insert(w) \/ Reply(w) \/ ProposeRefused(w) \/ ProposeFull(w)
                    \/ ProposeDuplicate(w)
        BY <3>2 DEF Insert, Reply, ProposeRefused, ProposeFull, ProposeDuplicate, dbVars, poolVars
      <3>3. CASE CancelFirst(w) \/ CancelConfirm(w)
        BY <3>3 DEF CancelFirst, CancelConfirm, poolVars
      <3>4. CASE CancelRead(w) \/ CancelHook(w) \/ CancelReport(w) \/ TaskStatus(w)
        BY <3>4 DEF CancelRead, CancelHook, CancelReport, TaskStatus, dbVars, poolVars
      <3>5. CASE CancelRequest(w) \/ ResumeRunning(w)
        BY <3>1, <3>5 DEF CancelRequest, ResumeRunning, poolVars
      <3> QED BY <1>2, <3>2, <3>3, <3>4, <3>5 DEF RequestStep
    <2> QED BY <1>1, <2>1, <2>2, <2>3, <2>4
  <1>3. ASSUME NEW w \in Threads, ExecuteStep(w)
        PROVE  Abs!AbsNext \/ UNCHANGED Abs!absVars
    <2> DEFINE k == KeyServed(w)
    <2>0. k \in Keys
      BY <1>3, ServedKey
         DEF IndInv, ExecuteStep, Validate, StartRunning, StartLost, Commit, Timeout
    <2>1. CASE StartRunning(w)
      <3>1. /\ task[k].state = "queued"
            /\ task' = Move(k, "running", "none")
            /\ started' = [started EXCEPT ![k] = @ + 1] /\ UNCHANGED calls
        BY <2>1 DEF StartRunning, CanStart
      <3>2. task'[k].state = "running" /\ \A j \in Keys : j # k => task'[j] = task[j]
        BY <1>0, <2>0, <3>1, MoveRow DEF States, Phases
      <3>3. started \in [Keys -> Nat] BY DEF IndInv, TypeOK
      <3> HIDE DEF k
      <3> QED BY <2>0, <3>1, <3>2, <3>3, AbsStart
    <2>2. CASE Validate(w)
      <3>1. UNCHANGED <<started, calls>> BY <2>2 DEF Validate, poolVars
      <3>2. task' = task \/ (CanReject(task[k]) /\ task' = Move(k, "failed", "rejected"))
        BY <2>2 DEF Validate
      <3>3. CASE CanReject(task[k]) /\ task' = Move(k, "failed", "rejected")
        <4> HIDE DEF k
        <4> QED BY <1>0, <2>0, <3>1, <3>3, AbsEdge DEF CanReject, States, Phases
      <3> QED BY <1>1, <3>1, <3>2, <3>3
    <2>3. CASE StartLost(w) \/ Timeout(w)
      BY <1>1, <2>3 DEF StartLost, Timeout, dbVars, poolVars
    <2>4. CASE Commit(w)
      <3>1. UNCHANGED <<started, calls>> /\ ApplyOutcome(k) BY <2>4 DEF Commit
      <3>2. CASE ~CanCommit(task[k])
        BY <1>1, <3>1, <3>2 DEF ApplyOutcome
      <3>3. CASE CanCommit(task[k])
        <4>1. PICK s \in {"succeeded", "failed"} : task' = Move(k, s, "none")
          BY <3>1, <3>3 DEF ApplyOutcome, Recordable
        <4> HIDE DEF k
        <4> QED BY <1>0, <2>0, <3>1, <3>3, <4>1, AbsEdge DEF CanCommit, States, Phases
      <3> QED BY <3>2, <3>3
    <2> QED BY <1>3, <2>1, <2>2, <2>3, <2>4 DEF ExecuteStep
  <1>4. ASSUME NEW k \in Keys, PoolStep(k) \/ ReconcilerStep(k) \/ Elapse(k)
        PROVE  Abs!AbsNext \/ UNCHANGED Abs!absVars
    <2>1. CASE JobStart(k)
      <3>1. /\ job[k] = "queued" /\ calls' = [calls EXCEPT ![k] = @ + 1]
            /\ UNCHANGED <<task, started>>
        BY <2>1 DEF JobStart, dbVars
      <3>2. calls[k] = 0 /\ started[k] = 1 /\ calls \in [Keys -> Nat]
        BY <3>1 DEF IndInv, StartInv, TypeOK
      <3> QED BY <3>1, <3>2, AbsCall
    <2>2. CASE EffectHappens(k) \/ JobFinish(k)
      BY <1>1, <2>2 DEF EffectHappens, JobFinish, dbVars
    <2>3. CASE LateCommit(k)
      <3>1. UNCHANGED <<started, calls>> /\ ApplyOutcome(k) BY <2>3 DEF LateCommit
      <3>2. CASE ~CanCommit(task[k])
        BY <1>1, <3>1, <3>2 DEF ApplyOutcome
      <3>3. CASE CanCommit(task[k])
        <4>1. PICK s \in {"succeeded", "failed"} : task' = Move(k, s, "none")
          BY <3>1, <3>3 DEF ApplyOutcome, Recordable
        <4> QED BY <1>0, <3>1, <3>3, <4>1, AbsEdge DEF CanCommit, States, Phases
      <3> QED BY <3>2, <3>3
    <2>4. CASE ExpireLease(k)
      <3>1. /\ task' = Move(k, "unknown", "outcome_unknown") /\ task[k].state = "running"
            /\ UNCHANGED <<started, calls>>
        BY <2>4 DEF ExpireLease, CanExpire, poolVars
      <3> QED BY <1>0, <3>1, AbsEdge DEF States, Phases
    <2>5. CASE Recover(k)
      <3>1. UNCHANGED <<started, calls>> /\ task[k].state = "queued"
        BY <2>5 DEF Recover, poolVars
      <3>2. task' = task \/ task' = Move(k, "failed", "rejected")
        BY <2>5 DEF Recover, threadVars
      <3>3. CASE task' = Move(k, "failed", "rejected")
        <4> QED BY <1>0, <3>1, <3>3, AbsEdge DEF States, Phases
      <3> QED BY <1>1, <3>1, <3>2, <3>3
    <2>6. CASE Reconcile(k)
      <3>1. PICK s \in {"succeeded", "failed"} :
               /\ task' = Move(k, s, "reconciled") /\ task[k].state = "unknown"
               /\ UNCHANGED <<started, calls>>
        BY <2>6 DEF Reconcile, poolVars
      <3> QED BY <1>0, <3>1, AbsEdge DEF States, Phases
    <2>7. CASE Elapse(k)
      <3>1. task' = [task EXCEPT ![k] = [task[k] EXCEPT !.due = TRUE]]
            /\ UNCHANGED <<started, calls>>
        BY <2>7 DEF Elapse, poolVars
      <3>2. \A j \in Keys : task'[j].state = task[j].state BY <1>0, <3>1 DEF Rows
      <3> QED BY <3>1, <3>2, AbsStutter
    <2> QED BY <1>4, <2>1, <2>2, <2>3, <2>4, <2>5, <2>6, <2>7 DEF PoolStep, ReconcilerStep
  <1>5. CASE \/ UNCHANGED vars \/ Crash \/ Restart \/ BootDone \/ OutsideStep
             \/ \E w \in Workers, m \in Messages : Deliver(w, m)
             \/ \E m \in Messages : DeliverBusy(m)
    BY <1>1, <1>5 DEF vars, Crash, Restart, BootDone, OutsideStep, ChangePairing, ChangePolicy, ExpireEnvelope,
       Deliver, DeliverBusy, dbVars, poolVars
  <1> QED BY <1>2, <1>3, <1>4, <1>5 DEF Next

\* The intent path implements the lifecycle of WORK_ITEMS.md, with at most one
\* executor call per item and none for an item that was never started.
THEOREM Refinement == Spec => ImplementsLifecycle
  <1>1. Init => Abs!AbsInit
    BY DEF Init, EmptyNode, Abs!AbsInit
  <1> QED BY <1>1, InitInd, NextInd, AbsStep, PTL DEF Spec, ImplementsLifecycle, Abs!AbsSpec

-----------------------------------------------------------------------------
(* Replay: every sender hears one answer *)

\* The placeholders of the inbox are not responses, and a pending message was
\* answered to nobody.
LEMMA Unanswered ==
    ASSUME IndInv, ReplyStable, NEW m \in Messages, inbox[m] \in {"absent", "pending"}
    PROVE  heard[m] = {}
  <1>1. heard[m] \subseteq Responses /\ heard[m] \subseteq {inbox[m]}
    BY DEF IndInv, TypeOK, ReplyStable
  <1>2. "absent" \notin Responses /\ "pending" \notin Responses
    BY DEF Responses
  <1> QED BY <1>1, <1>2

\* A step that leaves the inbox, the claims and the heard answers alone, and
\* moves only threads that are past the insert, keeps ReplyInv.
LEMMA HandedOn ==
    ASSUME ReplyInv, UNCHANGED <<claims, cur, inbox, heard>>,
           \A v \in Workers : pc'[v] = pc[v] \/ pc[v] \notin {"idle", "insert"}
    PROVE  ReplyInv'
  BY DEF ReplyInv, ClaimInv, ReplyStable

\* A thread that leaves accept() leaves the others as they were.
LEMMA ReleaseKeeps ==
    ASSUME IndInv, ClaimInv, NEW w \in Workers, Release(w), pc[w] # "idle",
           \A m \in Messages : m # cur[w] => inbox'[m] = inbox[m]
    PROVE  ClaimInv'
  <1>1. \A v \in Workers : v # w => pc'[v] = pc[v] /\ cur'[v] = cur[v]
    BY DEF Release, IndInv, TypeOK, Threads
  <1>2. pc'[w] = "idle"
    BY DEF Release, IndInv, TypeOK, Threads
  <1> QED BY <1>1, <1>2 DEF ClaimInv, Release, IndInv, ThreadInv

\* Claim, insert_if_new, set_response and the discarded admission.
LEMMA AcceptReply ==
    ASSUME IndInv, ReplyInv, NEW w \in Workers,
           \/ \E m \in Messages : Deliver(w, m)
           \/ Insert(w) \/ Reply(w) \/ ProposeFull(w)
    PROVE  ReplyInv'
  <1>1. CASE \E m \in Messages : Deliver(w, m)
    <2>1. PICK m \in Messages : Deliver(w, m) BY <1>1
    <2>2. /\ pc'[w] = "insert" /\ cur'[w] = m /\ m \notin claims /\ claims' = claims \cup {m}
          /\ \A v \in Workers : v # w => pc'[v] = pc[v] /\ cur'[v] = cur[v]
      BY <2>1 DEF Deliver, Claimable, IndInv, TypeOK, Threads
    <2>3. ClaimInv' BY <2>1, <2>2 DEF Deliver, dbVars, ReplyInv, ClaimInv
    <2> QED BY <2>1, <2>3 DEF Deliver, dbVars, ReplyInv, ReplyStable
  <1>2. CASE Insert(w)
    <2>1. pc[w] = "insert" /\ cur[w] \in Messages /\ w \in Threads
      BY <1>2 DEF Insert, IndInv, ThreadInv, Threads
    <2>2. CASE ~Dispatchable(inbox[cur[w]])
      <3>1. Release(w) /\ inbox' = inbox
        BY <1>2, <2>2 DEF Insert
      <3>2. heard' = [heard EXCEPT ![cur[w]] = @ \cup ({inbox[cur[w]]} \cap Responses)]
        BY <1>2, <2>2 DEF Insert
      <3>3. ReplyStable' BY <2>1, <3>1, <3>2 DEF ReplyInv, ReplyStable, IndInv, TypeOK
      <3> QED BY <2>1, <3>1, <3>3, ReleaseKeeps DEF ReplyInv
    <2>3. CASE Dispatchable(inbox[cur[w]])
      <3>1. /\ inbox' = [inbox EXCEPT ![cur[w]] = "pending"]
            /\ pc' = [pc EXCEPT ![w] = "dispatch"] /\ UNCHANGED <<claims, cur, heard>>
        BY <1>2, <2>3 DEF Insert
      <3>2. heard[cur[w]] = {}
        BY <2>1, <2>3, Unanswered DEF Dispatchable, ReplyInv
      <3>3. ReplyStable' BY <2>1, <3>1, <3>2 DEF ReplyInv, ReplyStable, IndInv, TypeOK
      <3>4. \A v \in Workers : v # w => pc'[v] = pc[v]
        BY <3>1 DEF IndInv, TypeOK
      <3>5. ClaimInv'
        BY <2>1, <3>1, <3>4 DEF ReplyInv, ClaimInv, IndInv, TypeOK, ThreadInv
      <3> QED BY <3>3, <3>5 DEF ReplyInv
    <2> QED BY <2>2, <2>3
  <1>3. CASE Reply(w)
    <2>1. /\ pc[w] = "reply" /\ cur[w] \in Messages /\ Release(w)
          /\ inbox' = [inbox EXCEPT ![cur[w]] = resp[w]]
          /\ heard' = [heard EXCEPT ![cur[w]] = @ \cup {resp[w]}]
      BY <1>3 DEF Reply, IndInv, ThreadInv
    <2>2. heard[cur[w]] = {}
      BY <2>1, Unanswered DEF ReplyInv, ClaimInv
    <2>3. ReplyStable' BY <2>1, <2>2 DEF ReplyInv, ReplyStable, IndInv, TypeOK
    <2>4. \A m \in Messages : m # cur[w] => inbox'[m] = inbox[m]
      BY <2>1 DEF IndInv, TypeOK
    <2> QED BY <2>1, <2>3, <2>4, ReleaseKeeps DEF ReplyInv
  <1>4. CASE ProposeFull(w)
    <2>1. /\ pc[w] = "dispatch" /\ cur[w] \in Messages /\ Release(w)
          /\ inbox' = [inbox EXCEPT ![cur[w]] = "absent"] /\ heard' = heard
      BY <1>4 DEF ProposeFull, Dispatching, IndInv, ThreadInv
    <2>2. heard[cur[w]] = {}
      BY <2>1, Unanswered DEF ReplyInv, ClaimInv
    <2>3. ReplyStable' BY <2>1, <2>2 DEF ReplyInv, ReplyStable, IndInv, TypeOK
    <2>4. \A m \in Messages : m # cur[w] => inbox'[m] = inbox[m]
      BY <2>1 DEF IndInv, TypeOK
    <2> QED BY <2>1, <2>3, <2>4, ReleaseKeeps DEF ReplyInv
  <1> QED BY <1>1, <1>2, <1>3, <1>4

\* Handlers pass on the thread they run on and touch no other.
LEMMA HandlerThread ==
    ASSUME IndInv, NEW w \in Threads, pc[w] # "idle",
           (\E l \in PCs : Goto(w, l)) \/ (\E r \in Responses : Return(w, r))
    PROVE  /\ UNCHANGED <<claims, cur>>
           /\ \A v \in Threads : v # w => pc'[v] = pc[v]
  BY DEF Goto, Return, IndInv, TypeOK

\* What the steps of _execute_admitted_intent do to their thread.
LEMMA ExecuteThread ==
    ASSUME IndInv, NEW w \in Threads, ExecuteStep(w)
    PROVE  /\ pc[w] \in {"validate", "start", "await"}
           /\ (\E l \in PCs : Goto(w, l)) \/ (\E r \in Responses : Return(w, r))
           /\ UNCHANGED <<inbox, heard, crashes>>
  <1>1. "start" \in PCs /\ "await" \in PCs /\ "error" \in Responses /\ "progress" \in Responses
    BY DEF PCs, Responses
  <1> QED BY <1>1, ResponseTyped
      DEF ExecuteStep, Validate, StartRunning, StartLost, Commit, Timeout, dbVars, envVars

\* What the handlers of a dispatched envelope do to their thread.
LEMMA HandlerStep ==
    ASSUME IndInv, NEW w \in Workers,
           \/ ProposeRefused(w) \/ ProposeNew(w) \/ ProposeDuplicate(w)
           \/ CancelFirst(w) \/ CancelRead(w) \/ CancelRequest(w) \/ CancelHook(w)
           \/ CancelConfirm(w) \/ ResumeRunning(w) \/ CancelReport(w) \/ TaskStatus(w)
    PROVE  /\ pc[w] \in {"dispatch", "cancel_read", "cancel_request", "cancel_hook",
                         "cancel_confirm", "resume", "report"}
           /\ (\E l \in PCs : Goto(w, l)) \/ (\E r \in Responses : Return(w, r))
           /\ UNCHANGED <<inbox, heard, crashes>>
  <1>1. /\ {"validate", "cancel_read", "cancel_request", "cancel_hook", "cancel_confirm",
            "resume", "report"} \subseteq PCs
        /\ {"error", "cancelled", "too_late"} \subseteq Responses
    BY DEF PCs, Responses
  <1>2. CASE ProposeRefused(w) \/ ProposeNew(w) \/ ProposeDuplicate(w)
    BY <1>1, <1>2, ResponseTyped
       DEF ProposeRefused, ProposeNew, ProposeDuplicate, Dispatching, dbVars, envVars
  <1>3. CASE CancelFirst(w) \/ CancelRead(w) \/ CancelRequest(w) \/ CancelHook(w)
    BY <1>1, <1>3, ResponseTyped
       DEF CancelFirst, CancelRead, CancelRequest, CancelHook, Dispatching, dbVars, envVars
  <1>4. CASE CancelConfirm(w) \/ ResumeRunning(w) \/ CancelReport(w) \/ TaskStatus(w)
    BY <1>1, <1>4, ResponseTyped
       DEF CancelConfirm, ResumeRunning, CancelReport, TaskStatus, Dispatching, dbVars, envVars
  <1> QED BY <1>2, <1>3, <1>4

\* The pool, the reconciler, time and the operator leave request threads,
\* claims and the inbox alone.
LEMMA OutsideThread ==
    ASSUME IndInv,
           \/ \E k \in Keys : PoolStep(k) \/ ReconcilerStep(k) \/ Elapse(k)
           \/ Restart \/ BootDone \/ OutsideStep
    PROVE  /\ UNCHANGED <<claims, cur, inbox, heard, crashes>>
           /\ \A v \in Workers : pc'[v] = pc[v]
  <1>1. CASE \E k \in Keys : PoolStep(k)
    BY <1>1 DEF PoolStep, JobStart, EffectHappens, JobFinish, LateCommit,
       dbVars, threadVars, envVars
  <1>2. CASE \E k \in Keys : ExpireLease(k) \/ Reconcile(k) \/ Elapse(k)
    BY <1>2 DEF ExpireLease, Reconcile, Elapse, threadVars, envVars
  <1>3. CASE \E k \in Keys : Recover(k)
    BY <1>3, ThreadAssumption DEF Recover, threadVars, envVars, IndInv, TypeOK, Threads
  <1>4. CASE Restart \/ BootDone \/ OutsideStep
    BY <1>4 DEF Restart, BootDone, OutsideStep, ChangePairing, ChangePolicy, ExpireEnvelope,
       dbVars, threadVars
  <1> QED BY <1>1, <1>2, <1>3, <1>4 DEF ReconcilerStep

\* Every step keeps one answer per message.
LEMMA ReplyNext == IndInv /\ ReplyInv /\ [Next]_vars => ReplyInv'
  <1> SUFFICES ASSUME IndInv, ReplyInv, [Next]_vars PROVE ReplyInv' OBVIOUS
  <1>1. CASE UNCHANGED vars
    BY <1>1, HandedOn DEF vars
  <1>2. CASE \E w \in Workers, m \in Messages : Deliver(w, m)
    BY <1>2, AcceptReply
  <1>3. CASE \E m \in Messages : DeliverBusy(m)
    <2>1. ClaimInv' BY <1>3 DEF DeliverBusy, ReplyInv, ClaimInv, dbVars, threadVars
    <2>2. ReplyStable'
      BY <1>3 DEF DeliverBusy, ReplyInv, ReplyStable, dbVars, IndInv, TypeOK
    <2> QED BY <2>1, <2>2 DEF ReplyInv
  <1>4. ASSUME NEW w \in Workers, RequestStep(w) PROVE ReplyInv'
    <2>1. CASE Insert(w) \/ Reply(w) \/ ProposeFull(w)
      BY <2>1, AcceptReply
    <2>2. CASE ~(Insert(w) \/ Reply(w) \/ ProposeFull(w))
      <3>1. /\ pc[w] \notin {"idle", "insert"}
            /\ (\E l \in PCs : Goto(w, l)) \/ (\E r \in Responses : Return(w, r))
            /\ UNCHANGED <<inbox, heard>>
        BY <1>4, <2>2, HandlerStep DEF RequestStep
      <3> QED BY <3>1, HandlerThread, HandedOn DEF Threads
    <2> QED BY <2>1, <2>2
  <1>5. ASSUME NEW w \in Threads, ExecuteStep(w) PROVE ReplyInv'
    <2>1. /\ pc[w] \notin {"idle", "insert"}
          /\ (\E l \in PCs : Goto(w, l)) \/ (\E r \in Responses : Return(w, r))
          /\ UNCHANGED <<inbox, heard>>
      BY <1>5, ExecuteThread
    <2> QED BY <2>1, HandlerThread, HandedOn DEF Threads
  <1>6. CASE \/ \E k \in Keys : PoolStep(k) \/ ReconcilerStep(k) \/ Elapse(k)
             \/ Restart \/ BootDone \/ OutsideStep
    BY <1>6, OutsideThread, HandedOn
  <1>7. CASE Crash
    <2>1. \A w \in Workers : pc'[w] = "idle" BY <1>7 DEF Crash, Threads
    <2>2. ClaimInv' BY <2>1 DEF ClaimInv
    <2> QED BY <1>7, <2>2 DEF Crash, dbVars, ReplyInv, ReplyStable
  <1> QED BY <1>1, <1>2, <1>3, <1>4, <1>5, <1>6, <1>7 DEF Next

\* A sender never hears two different final answers to one envelope, over
\* duplicates, concurrent deliveries, full backlogs and restarts, and what it
\* heard is what the inbox holds (replay dedup of accept()).
THEOREM OneAnswer == Spec => []ReplyStable
  <1>1. Init => ReplyInv
    BY DEF Init, EmptyNode, ReplyInv, ClaimInv, ReplyStable, Threads
  <1>2. ReplyInv => ReplyStable BY DEF ReplyInv
  <1> QED BY <1>1, <1>2, InitInd, NextInd, ReplyNext, PTL DEF Spec

-----------------------------------------------------------------------------
(* Rows: cancellation marks and the backlog *)

\* What a step may do to row j when it neither creates nor marks one: nothing
\* that counts, or a move of existing work that clears the mark and revives
\* nothing.
KeptRow(j) == task'[j].state = task[j].state /\ task'[j].phase = task[j].phase
MovedRow(j) ==
    /\ task[j].state # "absent"
    /\ task'[j].phase # "cancel_requested"
    /\ task'[j].state \in {"queued", "running"} => task[j].state \in {"queued", "running"}

\* One guarded move is such a step.
LEMMA MoveEdge ==
    ASSUME task \in [Keys -> Rows], NEW k \in Keys, NEW s \in States, NEW ph \in Phases,
           task' = Move(k, s, ph), task[k].state # "absent", ph # "cancel_requested",
           s \in {"queued", "running"} => task[k].state \in {"queued", "running"}
    PROVE  \A j \in Keys : KeptRow(j) \/ MovedRow(j)
  <1>1. \A j \in Keys : j # k => KeptRow(j)
    BY MoveRow DEF KeptRow
  <1>2. MovedRow(k)
    BY MoveRow DEF MovedRow
  <1> QED BY <1>1, <1>2

\* Recording an outcome is such a step.
LEMMA OutcomeEdge ==
    ASSUME task \in [Keys -> Rows], NEW k \in Keys, ApplyOutcome(k)
    PROVE  \A j \in Keys : KeptRow(j) \/ MovedRow(j)
  <1>1. CASE CanCommit(task[k])
    <2>1. PICK s \in {"succeeded", "failed"} : task' = Move(k, s, "none")
      BY <1>1 DEF ApplyOutcome, Recordable
    <2>2. s \in States /\ "none" \in Phases /\ task[k].state # "absent"
      BY <1>1 DEF States, Phases, CanCommit
    <2> QED BY <2>1, <2>2, MoveEdge
  <1>2. CASE ~CanCommit(task[k])
    BY <1>2 DEF ApplyOutcome, KeptRow
  <1> QED BY <1>1, <1>2

\* _execute_admitted_intent moves rows that way.
LEMMA ExecuteEdge ==
    ASSUME IndInv, NEW w \in Threads, ExecuteStep(w)
    PROVE  \A j \in Keys : KeptRow(j) \/ MovedRow(j)
  <1> DEFINE k == KeyServed(w)
  <1>0. k \in Keys /\ task \in [Keys -> Rows]
    BY ExecuteThread, ServedKey DEF IndInv, TypeOK
  <1>1. /\ {"failed", "running"} \subseteq States /\ {"none", "rejected"} \subseteq Phases
    BY DEF States, Phases
  <1>2. CASE task' = task
    BY <1>2 DEF KeptRow
  <1>3. CASE Validate(w)
    <2>1. task' = task \/ (task[k].state = "queued" /\ task' = Move(k, "failed", "rejected"))
      BY <1>3 DEF Validate, CanReject
    <2> HIDE DEF k
    <2> QED BY <1>0, <1>1, <1>2, <2>1, MoveEdge
  <1>4. CASE StartRunning(w)
    <2>1. task[k].state = "queued" /\ task' = Move(k, "running", "none")
      BY <1>4 DEF StartRunning, CanStart
    <2> HIDE DEF k
    <2> QED BY <1>0, <1>1, <2>1, MoveEdge
  <1>5. CASE StartLost(w) \/ Timeout(w)
    BY <1>2, <1>5 DEF StartLost, Timeout, dbVars
  <1>6. CASE Commit(w)
    <2>1. ApplyOutcome(k) BY <1>6 DEF Commit
    <2> HIDE DEF k
    <2> QED BY <1>0, <2>1, OutcomeEdge
  <1> QED BY <1>3, <1>4, <1>5, <1>6 DEF ExecuteStep

\* The pool, the reconciler and time move rows that way.
LEMMA OutsideEdge ==
    ASSUME IndInv, NEW k \in Keys, PoolStep(k) \/ ReconcilerStep(k) \/ Elapse(k)
    PROVE  \A j \in Keys : KeptRow(j) \/ MovedRow(j)
  <1>0. task \in [Keys -> Rows]
    BY DEF IndInv, TypeOK
  <1>1. /\ {"failed", "succeeded", "unknown"} \subseteq States
        /\ {"none", "rejected", "outcome_unknown", "reconciled"} \subseteq Phases
    BY DEF States, Phases
  <1>2. CASE task' = task
    BY <1>2 DEF KeptRow
  <1>3. CASE JobStart(k) \/ EffectHappens(k) \/ JobFinish(k)
    BY <1>2, <1>3 DEF JobStart, EffectHappens, JobFinish, dbVars
  <1>4. CASE LateCommit(k)
    BY <1>0, <1>4, OutcomeEdge DEF LateCommit
  <1>5. CASE ExpireLease(k)
    <2>1. task[k].state = "running" /\ task' = Move(k, "unknown", "outcome_unknown")
      BY <1>5 DEF ExpireLease, CanExpire
    <2> QED BY <1>0, <1>1, <2>1, MoveEdge
  <1>6. CASE Recover(k)
    <2>1. task' = task \/ (task[k].state = "queued" /\ task' = Move(k, "failed", "rejected"))
      BY <1>6 DEF Recover, threadVars
    <2> QED BY <1>0, <1>1, <1>2, <2>1, MoveEdge
  <1>7. CASE Reconcile(k)
    <2>1. PICK s \in {"succeeded", "failed"} :
              task[k].state = "unknown" /\ task' = Move(k, s, "reconciled")
      BY <1>7 DEF Reconcile
    <2> QED BY <1>0, <1>1, <2>1, MoveEdge
  <1>8. CASE Elapse(k)
    <2>1. task' = [task EXCEPT ![k] = [task[k] EXCEPT !.due = TRUE]]
      BY <1>8 DEF Elapse
    <2> QED BY <1>0, <2>1 DEF Rows, KeptRow
  <1> QED BY <1>3, <1>4, <1>5, <1>6, <1>7, <1>8 DEF PoolStep, ReconcilerStep

\* The handlers other than the creating and the marking one move rows that way.
LEMMA HandlerEdge ==
    ASSUME IndInv, NEW w \in Workers, RequestStep(w), ~ProposeNew(w), ~CancelRequest(w)
    PROVE  \A j \in Keys : KeptRow(j) \/ MovedRow(j)
  <1> DEFINE k == KeyServed(w)
  <1>0. task \in [Keys -> Rows]
    BY DEF IndInv, TypeOK
  <1>1. "cancelled" \in States /\ "none" \in Phases
    BY DEF States, Phases
  <1>2. CASE task' = task
    BY <1>2 DEF KeptRow
  <1>3. CASE Insert(w) \/ Reply(w) \/ ProposeRefused(w) \/ ProposeFull(w) \/ ProposeDuplicate(w)
    BY <1>2, <1>3 DEF Insert, Reply, ProposeRefused, ProposeFull, ProposeDuplicate, dbVars
  <1>4. CASE CancelRead(w) \/ CancelHook(w) \/ CancelReport(w) \/ TaskStatus(w)
    BY <1>2, <1>4 DEF CancelRead, CancelHook, CancelReport, TaskStatus, dbVars
  <1>5. CASE CancelFirst(w) \/ CancelConfirm(w) \/ ResumeRunning(w)
    <2>1. k \in Keys
      BY <1>5, HandlerStep, ServedKey DEF IndInv, Threads
    <2>2. CASE CancelFirst(w) \/ CancelConfirm(w)
      <3>1. task' = task \/ (CanCancel(task[k]) /\ task' = Move(k, "cancelled", "none"))
        BY <2>2 DEF CancelFirst, CancelConfirm
      <3>2. CanCancel(task[k]) => task[k].state # "absent"
        BY DEF CanCancel
      <3> HIDE DEF k
      <3> QED BY <1>0, <1>1, <1>2, <2>1, <3>1, <3>2, MoveEdge
    <2>3. CASE ResumeRunning(w)
      <3>1. task' = task \/ (task[k].state = "running" /\ task' = Mark(k, "none"))
        BY <2>3 DEF ResumeRunning, CanResume
      <3>2. ASSUME task[k].state = "running", task' = Mark(k, "none")
            PROVE  \A j \in Keys : KeptRow(j) \/ MovedRow(j)
        <4>1. \A j \in Keys : j # k => KeptRow(j)
          BY <1>0, <1>1, <2>1, <3>2, MarkRow DEF KeptRow
        <4>2. MovedRow(k)
          BY <1>0, <1>1, <2>1, <3>2, MarkRow DEF MovedRow
        <4> QED BY <4>1, <4>2
      <3> QED BY <1>2, <3>1, <3>2
    <2> QED BY <1>5, <2>2, <2>3
  <1> QED BY <1>3, <1>4, <1>5 DEF RequestStep

\* Every step of the harness creates one row, marks one row, or moves rows
\* that way.
LEMMA RowEdge ==
    ASSUME IndInv, [Next]_vars
    PROVE  \/ \E w \in Workers : ProposeNew(w)
           \/ \E w \in Workers : CancelRequest(w)
           \/ \A j \in Keys : KeptRow(j) \/ MovedRow(j)
  <1>1. CASE task' = task
    BY <1>1 DEF KeptRow
  <1>2. CASE \/ UNCHANGED vars \/ Crash \/ Restart \/ BootDone \/ OutsideStep
             \/ \E w \in Workers, m \in Messages : Deliver(w, m)
             \/ \E m \in Messages : DeliverBusy(m)
    BY <1>1, <1>2 DEF vars, Crash, Restart, BootDone, OutsideStep, ChangePairing, ChangePolicy, ExpireEnvelope,
       Deliver, DeliverBusy, dbVars
  <1>3. CASE \E w \in Workers : RequestStep(w)
    BY <1>3, HandlerEdge
  <1>4. CASE \E w \in Threads : ExecuteStep(w)
    BY <1>4, ExecuteEdge
  <1>5. CASE \E k \in Keys : PoolStep(k) \/ ReconcilerStep(k) \/ Elapse(k)
    BY <1>5, OutsideEdge
  <1> QED BY <1>2, <1>3, <1>4, <1>5 DEF Next

\* What creating and what marking a row does to the rows.
LEMMA NewRow ==
    ASSUME IndInv, NEW w \in Workers, ProposeNew(w)
    PROVE  /\ KeyServed(w) \in Keys /\ task[KeyServed(w)].state = "absent" /\ HasCapacity
           /\ task'[KeyServed(w)].phase = "none"
           /\ \A j \in Keys : j # KeyServed(w) => task'[j] = task[j]
  <1>1. KeyServed(w) \in Keys
    BY HandlerStep, ServedKey DEF IndInv, Threads
  <1> QED BY <1>1 DEF ProposeNew, IndInv, TypeOK

LEMMA MarkedRow ==
    ASSUME IndInv, NEW w \in Workers, CancelRequest(w)
    PROVE  \/ task' = task
           \/ /\ KeyServed(w) \in Keys /\ task[KeyServed(w)].state = "running"
              /\ task'[KeyServed(w)].state = "running"
              /\ pc'[w] = "cancel_hook" /\ UNCHANGED cur
              /\ \A j \in Keys : j # KeyServed(w) => task'[j] = task[j]
  <1>1. KeyServed(w) \in Keys /\ task \in [Keys -> Rows] /\ w \in Threads
    BY HandlerStep, ServedKey DEF IndInv, Threads, TypeOK
  <1>2. "cancel_requested" \in Phases
    BY DEF Phases
  <1>3. CASE CanRequestCancel(task[KeyServed(w)])
    <2>1. task' = Mark(KeyServed(w), "cancel_requested") /\ Goto(w, "cancel_hook")
      BY <1>3 DEF CancelRequest
    <2> QED BY <1>1, <1>2, <1>3, <2>1, MarkRow DEF CanRequestCancel, Goto, IndInv, TypeOK
  <1>4. CASE ~CanRequestCancel(task[KeyServed(w)])
    BY <1>4 DEF CancelRequest
  <1> QED BY <1>3, <1>4

-----------------------------------------------------------------------------
(* The backlog *)

\* One more element.
LEMMA OneMore ==
    ASSUME NEW S, IsFiniteSet(S), NEW x
    PROVE  IsFiniteSet(S \cup {x}) /\ Cardinality(S \cup {x}) <= Cardinality(S) + 1
  <1>1. Cardinality(S) \in Nat BY FS_CardinalityType
  <1>2. CASE x \in S
    <2>1. PICK T : T = S \cup {x} OBVIOUS
    <2>2. T = S BY <1>2, <2>1
    <2>3. Cardinality(T) <= Cardinality(S) + 1 BY <1>1, <2>2
    <2> QED BY <2>1, <2>2, <2>3
  <1>3. CASE x \notin S
    <2>1. IsFiniteSet(S \cup {x}) /\ Cardinality(S \cup {x}) = Cardinality(S) + 1
      BY <1>3, FS_AddElement
    <2> QED BY <1>1, <2>1
  <1> QED BY <1>2, <1>3

\* Only a proposal that found capacity adds to the backlog.
LEMMA BacklogNext == IndInv /\ BacklogInv /\ [Next]_vars => BacklogInv'
  <1> SUFFICES ASSUME IndInv, BacklogInv, [Next]_vars PROVE BacklogInv' OBVIOUS
  <1>1. CASE ActiveKeys' \subseteq ActiveKeys
    <2>1. IsFiniteSet(ActiveKeys') /\ Cardinality(ActiveKeys') <= Cardinality(ActiveKeys)
      BY <1>1, FS_Subset DEF BacklogInv
    <2>2. Cardinality(ActiveKeys') \in Nat /\ Cardinality(ActiveKeys) \in Nat
      BY <2>1, FS_CardinalityType DEF BacklogInv
    <2> QED BY <2>1, <2>2, BoundAssumption DEF BacklogInv, BacklogBounded
  <1>2. ASSUME NEW w \in Workers, ProposeNew(w) PROVE BacklogInv'
    <2>1. ActiveKeys' \subseteq ActiveKeys \cup {KeyServed(w)} /\ HasCapacity
      BY <1>2, NewRow DEF ActiveKeys, Active
    <2>2. /\ IsFiniteSet(ActiveKeys \cup {KeyServed(w)})
          /\ Cardinality(ActiveKeys \cup {KeyServed(w)}) <= Cardinality(ActiveKeys) + 1
      <3>1. IsFiniteSet(ActiveKeys) BY DEF BacklogInv
      <3> QED BY <3>1, OneMore
    <2>3. /\ IsFiniteSet(ActiveKeys')
          /\ Cardinality(ActiveKeys') <= Cardinality(ActiveKeys \cup {KeyServed(w)})
      BY <2>1, <2>2, FS_Subset
    <2>4. /\ Cardinality(ActiveKeys') \in Nat /\ Cardinality(ActiveKeys) \in Nat
          /\ Cardinality(ActiveKeys \cup {KeyServed(w)}) \in Nat
      BY <2>2, <2>3, FS_CardinalityType DEF BacklogInv
    <2> QED BY <2>1, <2>2, <2>3, <2>4, BoundAssumption
        DEF BacklogInv, BacklogBounded, HasCapacity
  <1>3. ASSUME NEW w \in Workers, CancelRequest(w) PROVE ActiveKeys' \subseteq ActiveKeys
    BY <1>3, MarkedRow DEF ActiveKeys, Active
  <1>4. CASE \A j \in Keys : KeptRow(j) \/ MovedRow(j)
    BY <1>1, <1>4 DEF KeptRow, MovedRow, ActiveKeys, Active
  <1> QED BY <1>1, <1>2, <1>3, <1>4, RowEdge

\* However proposals, recoveries and restarts interleave, the durable backlog
\* stays within max_inflight_tasks: capacity is looked at in the transaction
\* that inserts.
THEOREM BacklogLimit == Spec => []BacklogBounded
  <1>1. Init => BacklogInv
    <2> SUFFICES ASSUME Init PROVE BacklogInv OBVIOUS
    <2>1. ActiveKeys = {} BY DEF Init, EmptyNode, ActiveKeys, Active
    <2> QED BY <2>1, FS_EmptySet, BoundAssumption DEF BacklogInv, BacklogBounded
  <1>2. BacklogInv => BacklogBounded BY DEF BacklogInv
  <1> QED BY <1>1, <1>2, InitInd, NextInd, BacklogNext, PTL DEF Spec

-----------------------------------------------------------------------------
(* Pending cancellations *)

\* The part of _handle_cancel between the request and its outcome.
CancelPCs == {"cancel_hook", "cancel_confirm", "resume"}

\* A thread in that part keeps its key until the mark is gone.
LEMMA ServerStays ==
    ASSUME IndInv, CancelInv, [Next]_vars, ~Crash, NEW v \in Workers, pc[v] \in CancelPCs
    PROVE  \/ pc'[v] \in CancelPCs /\ cur'[v] = cur[v]
           \/ task'[KeyOf[cur[v]]].phase # "cancel_requested"
  <1>0. /\ v \in Threads /\ v # Reconciler /\ KeyServed(v) = KeyOf[cur[v]] /\ KeyServed(v) \in Keys
        /\ pc[v] # "idle"
    BY ServedKey, ThreadAssumption DEF IndInv, Threads, CancelPCs, KeyServed
  <1>1. CASE pc'[v] = pc[v] /\ cur'[v] = cur[v]
    BY <1>1
  <1>2. ASSUME NEW w \in Threads, w # v, pc[w] # "idle",
               (\E l \in PCs : Goto(w, l)) \/ (\E r \in Responses : Return(w, r))
        PROVE  pc'[v] = pc[v] /\ cur'[v] = cur[v]
    BY <1>0, <1>2, HandlerThread
  <1>3. CASE UNCHANGED vars
    BY <1>1, <1>3 DEF vars
  <1>4. CASE \E w \in Workers, m \in Messages : Deliver(w, m)
    BY <1>0, <1>1, <1>4 DEF Deliver, IndInv, TypeOK
  <1>5. CASE \E m \in Messages : DeliverBusy(m)
    BY <1>1, <1>5 DEF DeliverBusy, threadVars
  <1>6. CASE \/ \E k \in Keys : PoolStep(k) \/ ReconcilerStep(k) \/ Elapse(k)
             \/ Restart \/ BootDone \/ OutsideStep
    BY <1>1, <1>6, OutsideThread
  <1>7. ASSUME NEW w \in Threads, ExecuteStep(w) PROVE pc'[v] = pc[v] /\ cur'[v] = cur[v]
    <2>1. w # v BY <1>7, ExecuteThread DEF CancelPCs
    <2> QED BY <1>2, <1>7, <2>1, ExecuteThread
  <1>8. ASSUME NEW w \in Workers, w # v, RequestStep(w)
        PROVE  pc'[v] = pc[v] /\ cur'[v] = cur[v]
    <2>1. CASE Insert(w) \/ Reply(w) \/ ProposeFull(w)
      BY <1>0, <1>8, <2>1 DEF Insert, Reply, ProposeFull, Release, IndInv, TypeOK
    <2>2. CASE ~(Insert(w) \/ Reply(w) \/ ProposeFull(w))
      <3>1. /\ pc[w] # "idle"
            /\ (\E l \in PCs : Goto(w, l)) \/ (\E r \in Responses : Return(w, r))
        BY <1>8, <2>2, HandlerStep DEF RequestStep
      <3> QED BY <1>2, <1>8, <3>1 DEF Threads
    <2> QED BY <2>1, <2>2
  <1>9. CASE RequestStep(v)
    <2>1. CancelHook(v) \/ CancelConfirm(v) \/ ResumeRunning(v)
      BY <1>9 DEF RequestStep, CancelPCs, Insert, Reply, ProposeRefused, ProposeNew,
         ProposeFull, ProposeDuplicate, CancelFirst, CancelRead, CancelRequest, CancelReport,
         TaskStatus, Dispatching
    <2>2. CASE CancelHook(v)
      BY <1>0, <2>2 DEF CancelHook, Goto, CancelPCs, IndInv, TypeOK
    <2>3. CASE CancelConfirm(v)
      <3>1. CASE CanCancel(task[KeyServed(v)])
        <4>1. task' = Move(KeyServed(v), "cancelled", "none") BY <2>3, <3>1 DEF CancelConfirm
        <4> QED BY <1>0, <4>1, MoveRow DEF IndInv, TypeOK, States, Phases
      <3>2. CASE ~CanCancel(task[KeyServed(v)])
        <4>1. Goto(v, "resume") BY <2>3, <3>2 DEF CancelConfirm
        <4> QED BY <1>0, <4>1 DEF Goto, CancelPCs, IndInv, TypeOK
      <3> QED BY <3>1, <3>2
    <2>4. CASE ResumeRunning(v)
      <3>1. CASE CanResume(task[KeyServed(v)])
        <4>1. task' = Mark(KeyServed(v), "none") BY <2>4, <3>1 DEF ResumeRunning
        <4> QED BY <1>0, <4>1, MarkRow DEF IndInv, TypeOK, Phases
      <3>2. CASE ~CanResume(task[KeyServed(v)])
        <4>1. task' = task BY <2>4, <3>2 DEF ResumeRunning
        <4> QED BY <1>0, <3>2, <4>1 DEF CancelInv, CanResume
      <3> QED BY <3>1, <3>2
    <2> QED BY <2>1, <2>2, <2>3, <2>4
  <1>10. CASE \E w \in Workers : RequestStep(w)
    BY <1>1, <1>8, <1>9, <1>10
  <1> QED BY <1>1, <1>3, <1>4, <1>5, <1>6, <1>7, <1>10 DEF Next

\* Only a crash adds to the crashes.
LEMMA CrashCount ==
    ASSUME IndInv, [Next]_vars
    PROVE  Crash \/ crashes' = crashes
  <1>1. CASE Crash
    BY <1>1
  <1>2. CASE UNCHANGED vars
    BY <1>2 DEF vars
  <1>3. CASE \/ \E w \in Workers, m \in Messages : Deliver(w, m)
             \/ \E m \in Messages : DeliverBusy(m)
    BY <1>3 DEF Deliver, DeliverBusy, envVars
  <1>4. CASE \E w \in Workers : RequestStep(w)
    BY <1>4, HandlerStep DEF RequestStep, Insert, Reply, ProposeFull, envVars
  <1>5. CASE \E w \in Threads : ExecuteStep(w)
    BY <1>5, ExecuteThread
  <1>6. CASE \/ \E k \in Keys : PoolStep(k) \/ ReconcilerStep(k) \/ Elapse(k)
             \/ Restart \/ BootDone \/ OutsideStep
    BY <1>6, OutsideThread
  <1> QED BY <1>1, <1>2, <1>3, <1>4, <1>5, <1>6 DEF Next

\* Every step keeps the marks on running work and served.
LEMMA CancelNext == IndInv /\ CancelInv /\ [Next]_vars => CancelInv'
  <1> SUFFICES ASSUME IndInv, CancelInv, [Next]_vars PROVE CancelInv' OBVIOUS
  <1>1. \A k \in Keys : task'[k].phase = "cancel_requested" => task'[k].state = "running"
    <2>1. ASSUME NEW w \in Workers, ProposeNew(w), NEW k \in Keys,
                 task'[k].phase = "cancel_requested"
          PROVE  task'[k].state = "running"
      <3>1. k # KeyServed(w) /\ task'[k] = task[k] BY <2>1, NewRow
      <3> QED BY <2>1, <3>1 DEF CancelInv
    <2>2. ASSUME NEW w \in Workers, CancelRequest(w)
          PROVE  \A k \in Keys : task'[k] = task[k] \/ task'[k].state = "running"
      BY <2>2, MarkedRow
    <2>3. CASE \A j \in Keys : KeptRow(j) \/ MovedRow(j)
      BY <2>3 DEF KeptRow, MovedRow, CancelInv
    <2> QED BY <2>1, <2>2, <2>3, RowEdge DEF CancelInv
  <1>2. ASSUME crashes' = 0, NEW k \in Keys, task'[k].phase = "cancel_requested"
        PROVE  \E w \in Workers : pc'[w] \in CancelPCs /\ KeyOf[cur'[w]] = k
    <2>0. ~Crash /\ crashes = 0
      <3>1. Crash \/ crashes' = crashes BY CrashCount
      <3>2. Crash => crashes' # 0 BY DEF Crash, IndInv, TypeOK
      <3> QED BY <1>2, <3>1, <3>2
    <2>1. CASE task[k].phase = "cancel_requested"
      <3>1. PICK v \in Workers : pc[v] \in CancelPCs /\ KeyOf[cur[v]] = k
        BY <2>0, <2>1 DEF CancelInv, CancelPendingIsServed, CancelPCs
      <3> QED BY <1>2, <2>0, <3>1, ServerStays
    <2>2. CASE task[k].phase # "cancel_requested"
      <3>1. CASE \E w \in Workers : ProposeNew(w)
        BY <1>2, <2>2, <3>1, NewRow
      <3>2. ASSUME NEW w \in Workers, CancelRequest(w)
            PROVE  \E v \in Workers : pc'[v] \in CancelPCs /\ KeyOf[cur'[v]] = k
        <4>1. k = KeyServed(w) /\ pc'[w] = "cancel_hook" /\ cur' = cur
          BY <1>2, <2>2, <3>2, MarkedRow
        <4> QED BY <4>1, ThreadAssumption DEF KeyServed, CancelPCs
      <3>3. CASE \A j \in Keys : KeptRow(j) \/ MovedRow(j)
        BY <1>2, <2>2, <3>3 DEF KeptRow, MovedRow
      <3> QED BY <3>1, <3>2, <3>3, RowEdge
    <2> QED BY <2>1, <2>2
  <1> QED BY <1>1, <1>2 DEF CancelInv, CancelPendingIsServed, CancelPCs

\* Without a crash, a row marked cancel_requested always has a request thread
\* that is about to clear the mark: the reconciler, late callbacks, other
\* cancellations and the lease sweep never strand it.
THEOREM CancelServed == Spec => []CancelPendingIsServed
  <1>1. Init => CancelInv
    BY DEF Init, EmptyNode, CancelInv, CancelPendingIsServed
  <1>2. CancelInv => CancelPendingIsServed BY DEF CancelInv
  <1> QED BY <1>1, <1>2, InitInd, NextInd, CancelNext, PTL DEF Spec
=============================================================================
