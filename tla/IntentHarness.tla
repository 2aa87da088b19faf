---------------------------- MODULE IntentHarness ----------------------------
(***************************************************************************)
(* The intent path of FaspHarness (fasp_harness/core.py): signed envelopes *)
(* of the kinds intent.propose, task.cancel and task.status are delivered  *)
(* at least once, deduplicated through the durable inbox, and drive        *)
(* durable task rows (storage/tasks_repo.py over work_items_repo.py)       *)
(* through an adapter that runs on a bounded thread pool.  Request threads,*)
(* the reconciler thread, the pool, late done-callbacks and the operator   *)
(* interleave; the process may crash between any two transactions.        *)
(*                                                                         *)
(* One step is one database transaction (Database.write is BEGIN IMMEDIATE *)
(* under a lock) or one call out of the process.  Timestamps are abstract: *)
(* `due` says that the deadline a row currently has (STALE_INTENT_AGE for  *)
(* a queued row, lease_until for a running one) has passed.                *)
(***************************************************************************)
EXTENDS Naturals, FiniteSets

CONSTANTS Keys,        \* idempotency keys of intents
          Peers,       \* authenticated senders
          Payloads,    \* intent bodies, told apart only by equality
          Messages,    \* message ids; one signed envelope each
          Workers,     \* threads that serve envelopes
          Reconciler,  \* the fasp-task-reconciler thread
          MaxActive,   \* max_inflight_tasks
          PoolSize,    \* adapter_concurrency
          MaxCrashes,  \* bound: crashes explored
          Revocable,   \* bound: peers whose pairing changes
          Contested,   \* bound: keys whose policy verdict changes
          Expirable,   \* bound: messages whose envelope may expire
          None,        \* no message, no key, no peer
          Kind, KeyOf, PeerOf, PayloadOf   \* what each envelope says

Threads == Workers \cup {Reconciler}
Kinds == {"propose", "cancel", "status"}

ASSUME EnvelopeAssumption ==
    /\ Kind \in [Messages -> Kinds]
    /\ KeyOf \in [Messages -> Keys]
    /\ PeerOf \in [Messages -> Peers]
    /\ PayloadOf \in [Messages -> Payloads]
ASSUME BoundAssumption ==
    /\ MaxActive \in Nat /\ PoolSize \in Nat /\ MaxCrashes \in Nat
    /\ Revocable \subseteq Peers /\ Contested \subseteq Keys
    /\ Expirable \subseteq Messages
ASSUME ThreadAssumption == Reconciler \notin Workers

VARIABLES
    task,       \* durable: work_items rows of kind 'intent'
    started,    \* durable: number of task.running entries in the audit chain
    inbox,      \* durable: "absent", "pending" (no response yet) or the response
    paired,     \* durable: peers that _peer() accepts now
    expired,    \* messages whose envelope is past its expires_at
    permitted,  \* keys that capability, layer, risk and grant checks admit now
    mode,       \* "up", "down" or "boot" (start-up lease sweep)
    claims,     \* _inflight_messages
    pc,         \* where each thread is
    cur,        \* the message a request thread serves
    rkey,       \* the key the reconciler re-drives
    resp,       \* the response a thread is about to record
    job,        \* the future of each key on the pool
    late,       \* keys whose future carries the done-callback
    calls,      \* environment: adapter.handle invocations per key
    effect,     \* environment: keys whose external effect took place
    heard,      \* environment: final responses each sender received
    crashes

vars == <<task, started, inbox, paired, expired, permitted, mode, claims, pc, cur,
          rkey, resp, job, late, calls, effect, heard, crashes>>
dbVars == <<task, started, inbox>>
threadVars == <<claims, pc, cur, rkey, resp>>
poolVars == <<job, late, calls, effect>>
envVars == <<paired, expired, permitted, mode, crashes>>

-----------------------------------------------------------------------------
(* Rows and responses *)

States == {"absent", "queued", "running", "succeeded", "failed",
           "cancelled", "unknown"}
Phases == {"none", "cancel_requested", "rejected", "outcome_unknown",
           "reconciled"}
Responses == {"progress", "result", "fail", "cancelled", "unknown",
              "too_late", "error"}
PCs == {"idle", "insert", "dispatch", "validate", "start", "await",
        "cancel_read", "cancel_request", "cancel_hook", "cancel_confirm",
        "resume", "report", "reply"}
JobStates == {"none", "queued", "executing", "ok", "err"}

Rows == [state : States, phase : Phases, due : BOOLEAN,
         owner : Peers \cup {None}, payload : Payloads \cup {None}]

Active(k) == task[k].state \in {"queued", "running"}
ActiveKeys == {k \in Keys : Active(k)}
Settled(k) == task[k].state \in {"succeeded", "failed", "cancelled", "unknown"}
KeyServed(w) == IF w = Reconciler THEN rkey ELSE KeyOf[cur[w]]
Executing == {k \in Keys : job[k] = "executing"}

\* _task_response: the response a stored row implies.
TaskResponse(row) ==
    CASE row.state = "succeeded" -> "result"
      [] row.state = "failed"    -> "fail"
      [] row.state = "cancelled" -> "cancelled"
      [] row.state = "unknown"   -> "unknown"
      [] OTHER                   -> "progress"

\* The tail of _handle_cancel: the response for the row last read.
CancelResponse(row) == IF row.state = "cancelled" THEN "cancelled" ELSE "too_late"

-----------------------------------------------------------------------------
(* Guarded transitions of TasksRepo; each is one transaction.  The          *)
(* definitions marked "fault" are never used by the specification: each is *)
(* a plausible bug that some property below must notice.                   *)

Move(k, s, ph) == [task EXCEPT ![k] = [@ EXCEPT !.state = s, !.phase = ph,
                                                  !.due = FALSE]]
Mark(k, ph) == [task EXCEPT ![k] = [@ EXCEPT !.phase = ph]]

CanReject(row) == row.state = "queued"

CanStartActive(row) == row.state \in {"queued", "running"}    \* fault: CAS too wide
CanStart(row) == row.state = "queued"

CanCommitAnyState(row) ==                                     \* fault: no state check
    row.phase \in {"none", "cancel_requested"}
CanCommit(row) ==
    row.state = "running" /\ row.phase \in {"none", "cancel_requested"}
CanRequestCancel(row) == row.state = "running" /\ row.phase = "none"
CanCancel(row) ==
    \/ row.state = "queued"
    \/ row.state = "running" /\ row.phase = "cancel_requested"

CanResumePlain(row) == row.state = "running" /\ row.phase = "none"  \* fault: phase
CanResume(row) == row.state = "running" /\ row.phase = "cancel_requested"

CanExpirePlain(row) ==                     \* fault: pending cancels are skipped
    row.state = "running" /\ row.phase = "none" /\ row.due
CanExpire(row) == row.state = "running" /\ row.due

\* work_items.create: an existing row wins before capacity is looked at.
HasCapacityOffByOne == Cardinality(ActiveKeys) <= MaxActive    \* fault
HasCapacity == Cardinality(ActiveKeys) < MaxActive

-----------------------------------------------------------------------------
(* accept(): verify, claim, insert, dispatch, record *)

\* _claim_message: at most one thread dispatches a message.
AlwaysClaimable(m) == m \in Messages       \* fault: no claim check
Claimable(m) == m \notin claims

\* _verify_envelope: freshness and the pairing.  Signatures hold; an envelope
\* over the peer's rate limit is refused with nothing changed, so Deliver is
\* not taken then.
Verified(m) == m \notin expired /\ PeerOf[m] \in paired

\* A verified envelope whose message nobody dispatches yet.
Deliver(w, m) ==
    /\ mode = "up" /\ pc[w] = "idle" /\ Verified(m)
    /\ Claimable(m)
    /\ claims' = claims \cup {m}
    /\ cur' = [cur EXCEPT ![w] = m]
    /\ pc' = [pc EXCEPT ![w] = "insert"]
    /\ UNCHANGED <<dbVars, rkey, resp, poolVars, envVars, heard>>

\* The message is being dispatched already: the caller gets the recorded
\* response if there is one, a retryable "in progress" answer otherwise.
DeliverBusy(m) ==
    /\ mode = "up" /\ Verified(m) /\ m \in claims
    /\ inbox[m] \in Responses
    /\ heard' = [heard EXCEPT ![m] = @ \cup {inbox[m]}]
    /\ UNCHANGED <<dbVars, threadVars, poolVars, envVars>>

\* Leave accept(): the finally clause drops the claim.
Release(w) ==
    /\ claims' = claims \ {cur[w]}
    /\ cur' = [cur EXCEPT ![w] = None]
    /\ pc' = [pc EXCEPT ![w] = "idle"]
    /\ resp' = [resp EXCEPT ![w] = "none"]
    /\ UNCHANGED rkey

OnlyNewIsDispatched(st) == st = "absent"   \* fault: unanswered replay is dropped
Dispatchable(st) == st \in {"absent", "pending"}

\* insert_if_new; an answered message is answered again from the record, an
\* unanswered one (a crashed process admitted it) is dispatched again.
Insert(w) ==
    /\ pc[w] = "insert"
    /\ \/ /\ ~Dispatchable(inbox[cur[w]])
          /\ heard' = [heard EXCEPT ![cur[w]] = @ \cup ({inbox[cur[w]]} \cap Responses)]
          /\ Release(w)
          /\ UNCHANGED inbox
       \/ /\ Dispatchable(inbox[cur[w]])
          /\ inbox' = [inbox EXCEPT ![cur[w]] = "pending"]
          /\ pc' = [pc EXCEPT ![w] = "dispatch"]
          /\ UNCHANGED <<claims, cur, rkey, resp, heard>>
    /\ UNCHANGED <<task, started, poolVars, envVars>>

\* set_response, return to the caller, release the claim.  A caller that
\* misses the reply only hears less.
Reply(w) ==
    /\ pc[w] = "reply"
    /\ inbox' = [inbox EXCEPT ![cur[w]] = resp[w]]
    /\ heard' = [heard EXCEPT ![cur[w]] = @ \cup {resp[w]}]
    /\ Release(w)
    /\ UNCHANGED <<task, started, poolVars, envVars>>

Goto(w, label) ==
    /\ pc' = [pc EXCEPT ![w] = label]
    /\ UNCHANGED <<claims, cur, rkey, resp>>

\* A handler returns response r (a FaspError is recorded as "error"); the
\* reconciler has no caller and simply goes on with its loop.
Return(w, r) ==
    IF w = Reconciler
    THEN /\ pc' = [pc EXCEPT ![w] = "idle"]
         /\ rkey' = None
         /\ UNCHANGED <<claims, cur, resp>>
    ELSE /\ pc' = [pc EXCEPT ![w] = "reply"]
         /\ resp' = [resp EXCEPT ![w] = r]
         /\ UNCHANGED <<claims, cur, rkey>>

Dispatching(w, kind) == pc[w] = "dispatch" /\ Kind[cur[w]] = kind

-----------------------------------------------------------------------------
(* intent.propose: _handle_intent and _execute_admitted_intent *)

\* The capability prefix check fails before anything is stored.
ProposeRefused(w) ==
    /\ Dispatching(w, "propose")
    /\ KeyServed(w) \notin permitted
    /\ Return(w, "error")
    /\ UNCHANGED <<dbVars, poolVars, envVars, heard>>

\* tasks.propose created the queued row.
ProposeNew(w) ==
    LET k == KeyServed(w) m == cur[w] IN
    /\ Dispatching(w, "propose")
    /\ task[k].state = "absent"
    /\ HasCapacity
    /\ task' = [task EXCEPT ![k] = [state |-> "queued", phase |-> "none",
                    due |-> FALSE, owner |-> PeerOf[m], payload |-> PayloadOf[m]]]
    /\ Goto(w, "validate")
    /\ UNCHANGED <<started, inbox, poolVars, envVars, heard>>

\* AdmissionRejected: the inbox row is discarded so that the sender may retry.
ProposeFull(w) ==
    /\ Dispatching(w, "propose")
    /\ task[KeyServed(w)].state = "absent"
    /\ ~HasCapacity
    /\ inbox' = [inbox EXCEPT ![cur[w]] = "absent"]
    /\ Release(w)
    /\ UNCHANGED <<task, started, poolVars, envVars, heard>>

\* The key exists (rows are never deleted, so propose and the following get
\* see the same existence): answer from the row, or re-drive a queued one.
ProposeDuplicate(w) ==
    LET k == KeyServed(w) m == cur[w] row == task[k] IN
    /\ Dispatching(w, "propose")
    /\ row.state # "absent"
    /\ IF row.owner # PeerOf[m] \/ row.payload # PayloadOf[m] \/ row.phase = "rejected"
       THEN Return(w, "error")
       ELSE IF row.state = "queued"
            THEN Goto(w, "validate")
            ELSE Return(w, TaskResponse(row))
    /\ UNCHANGED <<dbVars, poolVars, envVars, heard>>

\* Capability, layer, risk and grant checks against current policy; a failed
\* check is _reject_task: a guarded transition, then the error is raised.
Validate(w) ==
    LET k == KeyServed(w) IN
    /\ pc[w] = "validate"
    /\ IF k \in permitted
       THEN Goto(w, "start") /\ UNCHANGED task
       ELSE /\ task' = IF CanReject(task[k]) THEN Move(k, "failed", "rejected") ELSE task
            /\ Return(w, "error")
    /\ UNCHANGED <<started, inbox, poolVars, envVars, heard>>

\* start_running admits exactly one executor, which submits to the pool.
StartRunning(w) ==
    LET k == KeyServed(w) IN
    /\ pc[w] = "start"
    /\ CanStart(task[k])
    /\ task' = Move(k, "running", "none")
    /\ started' = [started EXCEPT ![k] = @ + 1]
    /\ job' = [job EXCEPT ![k] = "queued"]
    /\ Goto(w, "await")
    /\ UNCHANGED <<inbox, late, calls, effect, envVars, heard>>

\* Lost the race to a cancel, a recovery or another proposal.
StartLost(w) ==
    /\ pc[w] = "start"
    /\ ~CanStart(task[KeyServed(w)])
    /\ Return(w, TaskResponse(task[KeyServed(w)]))
    /\ UNCHANGED <<dbVars, poolVars, envVars, heard>>

-----------------------------------------------------------------------------
(* The adapter pool, _run_adapter_bounded and _apply_task_outcome *)

JobStart(k) ==
    /\ job[k] = "queued"
    /\ Cardinality(Executing) < PoolSize
    /\ job' = [job EXCEPT ![k] = "executing"]
    /\ calls' = [calls EXCEPT ![k] = @ + 1]
    /\ UNCHANGED <<dbVars, threadVars, late, effect, envVars, heard>>

\* handle() takes external effect while it runs.
EffectHappens(k) ==
    /\ job[k] = "executing" /\ k \notin effect
    /\ effect' = effect \cup {k}
    /\ UNCHANGED <<dbVars, threadVars, job, late, calls, envVars, heard>>

\* handle() returns (its effect done) or raises.
JobFinish(k) ==
    /\ job[k] = "executing"
    /\ \/ k \in effect /\ job' = [job EXCEPT ![k] = "ok"]
       \/ job' = [job EXCEPT ![k] = "err"]
    /\ UNCHANGED <<dbVars, threadVars, late, calls, effect, envVars, heard>>

\* What an ended call may be recorded as: an output that cannot be
\* materialised fails the task.
Recordable(k) == IF job[k] = "ok" THEN {"succeeded", "failed"} ELSE {"failed"}

\* _apply_task_outcome: a row that moved on meanwhile is left alone.
ApplyOutcome(k) ==
    /\ IF CanCommit(task[k])
       THEN \E s \in Recordable(k) : task' = Move(k, s, "none")
       ELSE UNCHANGED task
    /\ job' = [job EXCEPT ![k] = "none"]

\* future.result() returned in time.
Commit(w) ==
    LET k == KeyServed(w) IN
    /\ pc[w] = "await"
    /\ job[k] \in {"ok", "err"}
    /\ ApplyOutcome(k)
    /\ Return(w, TaskResponse(task'[k]))
    /\ UNCHANGED <<started, inbox, late, calls, effect, envVars, heard>>

\* FutureTimeoutError: register the done-callback, answer task.progress.
Timeout(w) ==
    /\ pc[w] = "await"
    /\ late' = late \cup {KeyServed(w)}
    /\ Return(w, "progress")
    /\ UNCHANGED <<dbVars, job, calls, effect, envVars, heard>>

\* _on_adapter_done on the pool thread (or at once, when already finished).
LateCommit(k) ==
    /\ k \in late
    /\ job[k] \in {"ok", "err"}
    /\ ApplyOutcome(k)
    /\ late' = late \ {k}
    /\ UNCHANGED <<started, inbox, threadVars, calls, effect, envVars, heard>>

-----------------------------------------------------------------------------
(* task.cancel (_handle_cancel) and task.status (_handle_task_status) *)

OwnsTask(w) == /\ task[KeyServed(w)].state # "absent"
               /\ task[KeyServed(w)].owner = PeerOf[cur[w]]

\* Ownership check, then the first cancel_immediately.  Its two transactions
\* are one step: a row that is not queued never becomes queued.
CancelFirst(w) ==
    LET k == KeyServed(w) IN
    /\ Dispatching(w, "cancel")
    /\ IF ~OwnsTask(w)
       THEN Return(w, "error") /\ UNCHANGED task
       ELSE IF CanCancel(task[k])
            THEN task' = Move(k, "cancelled", "none") /\ Return(w, "cancelled")
            ELSE Goto(w, "cancel_read") /\ UNCHANGED task
    /\ UNCHANGED <<started, inbox, poolVars, envVars, heard>>

\* Read the row again; only one that is plainly running is worth a request.
CancelRead(w) ==
    LET row == task[KeyServed(w)] IN
    /\ pc[w] = "cancel_read"
    /\ IF CanRequestCancel(row)
       THEN Goto(w, "cancel_request")
       ELSE Return(w, CancelResponse(row))
    /\ UNCHANGED <<dbVars, poolVars, envVars, heard>>

\* request_cancel; on failure the row read before decides the response.
CancelRequest(w) ==
    LET k == KeyServed(w) IN
    /\ pc[w] = "cancel_request"
    /\ IF CanRequestCancel(task[k])
       THEN task' = Mark(k, "cancel_requested") /\ Goto(w, "cancel_hook")
       ELSE Return(w, "too_late") /\ UNCHANGED task
    /\ UNCHANGED <<started, inbox, poolVars, envVars, heard>>

\* The adapter's cancel hook accepts, or declines (no hook, False, raised).
CancelHook(w) ==
    /\ pc[w] = "cancel_hook"
    /\ \E next \in {"cancel_confirm", "resume"} : Goto(w, next)
    /\ UNCHANGED <<dbVars, poolVars, envVars, heard>>

CancelConfirm(w) ==
    LET k == KeyServed(w) IN
    /\ pc[w] = "cancel_confirm"
    /\ IF CanCancel(task[k])
       THEN task' = Move(k, "cancelled", "none") /\ Return(w, "cancelled")
       ELSE Goto(w, "resume") /\ UNCHANGED task
    /\ UNCHANGED <<started, inbox, poolVars, envVars, heard>>

ResumeRunning(w) ==
    LET k == KeyServed(w) IN
    /\ pc[w] = "resume"
    /\ task' = IF CanResume(task[k]) THEN Mark(k, "none") ELSE task
    /\ Goto(w, "report")
    /\ UNCHANGED <<started, inbox, poolVars, envVars, heard>>

CancelReport(w) ==
    /\ pc[w] = "report"
    /\ Return(w, CancelResponse(task[KeyServed(w)]))
    /\ UNCHANGED <<dbVars, poolVars, envVars, heard>>

TaskStatus(w) ==
    /\ Dispatching(w, "status")
    /\ Return(w, IF OwnsTask(w) THEN TaskResponse(task[KeyServed(w)]) ELSE "error")
    /\ UNCHANGED <<dbVars, poolVars, envVars, heard>>

-----------------------------------------------------------------------------
(* The reconciler loop, crash and restart, time and operators *)

ReconcilerFree == mode = "up" /\ pc[Reconciler] = "idle"

\* expire_stale_leases, at start-up and from the loop.
ExpireLease(k) ==
    /\ mode = "boot" \/ ReconcilerFree
    /\ CanExpire(task[k])
    /\ task' = Move(k, "unknown", "outcome_unknown")
    /\ UNCHANGED <<started, inbox, threadVars, poolVars, envVars, heard>>

\* recover_interrupted_intents: a stale queued row is re-driven by the
\* reconciler, or rejected when its owner is no longer a valid peer.
Recover(k) ==
    /\ ReconcilerFree
    /\ task[k].state = "queued" /\ task[k].due
    /\ \/ /\ task[k].owner \in paired
          /\ pc' = [pc EXCEPT ![Reconciler] = "validate"]
          /\ rkey' = k
          /\ UNCHANGED <<task, claims, cur, resp>>
       \/ /\ task[k].owner \notin paired
          /\ task' = Move(k, "failed", "rejected")
          /\ UNCHANGED threadVars
    /\ UNCHANGED <<started, inbox, poolVars, envVars, heard>>

\* reconcile_task: the adapter's read-only evidence settles an unknown row;
\* inconclusive evidence leaves it (a stuttering step).
Reconcile(k) ==
    /\ ReconcilerFree
    /\ task[k].state = "unknown"
    /\ task' = Move(k, IF k \in effect THEN "succeeded" ELSE "failed", "reconciled")
    /\ UNCHANGED <<started, inbox, threadVars, poolVars, envVars, heard>>

\* The process dies: threads, claims, pool and callbacks are gone.
Crash ==
    /\ mode # "down" /\ crashes < MaxCrashes
    /\ mode' = "down" /\ crashes' = crashes + 1
    /\ claims' = {}
    /\ pc' = [w \in Threads |-> "idle"]
    /\ cur' = [w \in Workers |-> None]
    /\ rkey' = None
    /\ resp' = [w \in Workers |-> "none"]
    /\ job' = [k \in Keys |-> "none"]
    /\ late' = {}
    /\ UNCHANGED <<dbVars, paired, expired, permitted, calls, effect, heard>>

Restart ==
    /\ mode = "down"
    /\ mode' = "boot"
    /\ UNCHANGED <<dbVars, threadVars, poolVars, paired, expired, permitted, crashes, heard>>

\* The constructor's sweep found nothing (more) to expire.
BootDone ==
    /\ mode = "boot"
    /\ \A k \in Keys : ~CanExpire(task[k])
    /\ mode' = "up"
    /\ UNCHANGED <<dbVars, threadVars, poolVars, paired, expired, permitted, crashes, heard>>

Elapse(k) ==
    /\ Active(k) /\ ~task[k].due
    /\ task' = [task EXCEPT ![k] = [@ EXCEPT !.due = TRUE]]
    /\ UNCHANGED <<started, inbox, threadVars, poolVars, envVars, heard>>

\* revoke_peer, confirm_peer
ChangePairing(p) ==
    /\ paired' = IF p \in paired THEN paired \ {p} ELSE paired \cup {p}
    /\ UNCHANGED <<dbVars, threadVars, poolVars, expired, permitted, mode, crashes, heard>>

\* An envelope that is still retried passes its expires_at.
ExpireEnvelope(m) ==
    /\ expired' = expired \cup {m}
    /\ UNCHANGED <<dbVars, threadVars, poolVars, paired, permitted, mode, crashes, heard>>

\* issue_grant, revoke_grant, a capability appearing or disappearing
ChangePolicy(k) ==
    /\ permitted' = IF k \in permitted THEN permitted \ {k} ELSE permitted \cup {k}
    /\ UNCHANGED <<dbVars, threadVars, poolVars, paired, expired, mode, crashes, heard>>

-----------------------------------------------------------------------------
\* A node started for the first time: nothing stored, nobody served.
EmptyNode ==
    /\ task = [k \in Keys |-> [state |-> "absent", phase |-> "none",
                               due |-> FALSE, owner |-> None, payload |-> None]]
    /\ started = [k \in Keys |-> 0]
    /\ inbox = [m \in Messages |-> "absent"]
    /\ paired = Peers /\ permitted = Keys
    /\ mode = "up" /\ claims = {}
    /\ pc = [w \in Threads |-> "idle"]
    /\ cur = [w \in Workers |-> None]
    /\ rkey = None
    /\ resp = [w \in Workers |-> "none"]
    /\ job = [k \in Keys |-> "none"]
    /\ late = {}
    /\ calls = [k \in Keys |-> 0]
    /\ effect = {}
    /\ heard = [m \in Messages |-> {}]
    /\ crashes = 0
Init == EmptyNode /\ expired = {}

\* Steps of _execute_admitted_intent, shared by requests and recovery.
ExecuteStep(w) == Validate(w) \/ StartRunning(w) \/ StartLost(w)
                     \/ Commit(w) \/ Timeout(w)

\* Steps that only a request thread takes.
RequestStep(w) ==
    \/ Insert(w) \/ Reply(w)
    \/ ProposeRefused(w) \/ ProposeNew(w) \/ ProposeFull(w) \/ ProposeDuplicate(w)
    \/ CancelFirst(w) \/ CancelRead(w) \/ CancelRequest(w) \/ CancelHook(w)
    \/ CancelConfirm(w) \/ ResumeRunning(w) \/ CancelReport(w)
    \/ TaskStatus(w)

PoolStep(k) == JobStart(k) \/ EffectHappens(k) \/ JobFinish(k) \/ LateCommit(k)

ReconcilerStep(k) == ExpireLease(k) \/ Recover(k) \/ Reconcile(k)

\* The operators and the envelopes' clocks.
OutsideStep == \/ \E p \in Revocable : ChangePairing(p)
               \/ \E k \in Contested : ChangePolicy(k)
               \/ \E m \in Expirable : ExpireEnvelope(m)

Next ==
    \/ \E w \in Workers, m \in Messages : Deliver(w, m)
    \/ \E m \in Messages : DeliverBusy(m)
    \/ \E w \in Workers : RequestStep(w)
    \/ \E w \in Threads : ExecuteStep(w)
    \/ \E k \in Keys : PoolStep(k) \/ ReconcilerStep(k) \/ Elapse(k)
    \/ Crash \/ Restart \/ BootDone
    \/ OutsideStep

Spec == Init /\ [][Next]_vars

-----------------------------------------------------------------------------
(* Properties *)

\* One type invariant for the durable rows, the threads and the pool.
TypeOK ==
    /\ task \in [Keys -> Rows]
    /\ started \in [Keys -> Nat]
    /\ inbox \in [Messages -> {"absent", "pending"} \cup Responses]
    /\ paired \subseteq Peers /\ expired \subseteq Messages /\ permitted \subseteq Keys
    /\ mode \in {"up", "down", "boot"}
    /\ claims \subseteq Messages
    /\ pc \in [Threads -> PCs]
    /\ cur \in [Workers -> Messages \cup {None}]
    /\ rkey \in Keys \cup {None}
    /\ resp \in [Workers -> Responses \cup {"none"}]
    /\ job \in [Keys -> JobStates]
    /\ late \subseteq Keys
    /\ calls \in [Keys -> Nat]
    /\ effect \subseteq Keys
    /\ heard \in [Messages -> SUBSET Responses]
    /\ crashes \in Nat

\* The adapter is called at most once per idempotency key, over duplicates,
\* concurrent proposals, recovery, cancellation races, crashes and restarts
\* (the claim made where _handle_intent re-drives a queued row).
AtMostOneCall == \A k \in Keys : calls[k] <= 1

\* An intent that policy rejected, or that is still queued, has never
\* reached the adapter and never will from the pool: _reject_task and
\* start_running exclude each other.
UnstartedNeverCalled ==
    \A k \in Keys :
        task[k].state \in {"absent", "queued"} \/ task[k].phase = "rejected"
            => job[k] = "none" /\ calls[k] = 0

\* A sender that delivers one envelope many times, concurrently and across
\* restarts, never hears two different final responses (replay dedup of
\* accept()), and what it heard is what the inbox holds.
ReplyStable == \A m \in Messages : heard[m] \subseteq {inbox[m]}

\* The durable backlog never exceeds max_inflight_tasks.
BacklogBounded == Cardinality(ActiveKeys) <= MaxActive

\* Until a crash loses a thread, a row marked cancel_requested has a request
\* thread that will clear it: a declined cancellation cannot stay pending.
CancelPendingIsServed ==
    crashes = 0 =>
        \A k \in Keys : task[k].phase = "cancel_requested" =>
            \E w \in Workers : /\ pc[w] \in {"cancel_hook", "cancel_confirm", "resume"}
                               /\ KeyOf[cur[w]] = k

\* The abstract lifecycle, read off the task rows.
Abs == INSTANCE WorkItems WITH
          Items <- Keys,
          state <- [k \in Keys |-> task[k].state],
          started <- {k \in Keys : started[k] > 0},
          called <- {k \in Keys : calls[k] > 0}

\* The rows implement the abstract lifecycle, adapter calls included: a
\* settled row is never revived and a start is never undone, by a late
\* callback, a cancellation, the lease sweep or recovery.
ImplementsLifecycle == Abs!AbsSpec

-----------------------------------------------------------------------------
(* Liveness *)

\* Threads run; the reconciler loop runs every ten seconds; timeouts fire;
\* time passes; a supervisor restarts a dead process.  Nothing is assumed of
\* the adapter: a call may hang for ever.
Fairness ==
    /\ \A w \in Workers : WF_vars(RequestStep(w))
    /\ \A w \in Threads : WF_vars(ExecuteStep(w))
    /\ \A k \in Keys : WF_vars(Elapse(k)) /\ SF_vars(ReconcilerStep(k))
    /\ WF_vars(Restart) /\ WF_vars(BootDone)

FairSpec == Spec /\ Fairness

\* Every admitted task settles (completed, failed, cancelled or unknown),
\* whatever the adapter does and whoever crashes: no row wedges the queue.
AdmittedSettles == \A k \in Keys : Active(k) ~> Settled(k)

\* A sender retries, below its rate limit, until it has an answer.
FairDelivery ==
    FairSpec /\ \A m \in Messages : SF_vars(\E w \in Workers : Deliver(w, m))

\* A message admitted by a process that then died is answered once the
\* sender keeps delivering it, instead of being wedged for ever; only an
\* envelope that is no longer accepted (expired, or of a peer that was
\* withdrawn) stays unanswered.
PendingIsAnswered ==
    \A m \in Messages : inbox[m] = "pending" ~> (inbox[m] # "pending" \/ ~Verified(m))
=============================================================================
