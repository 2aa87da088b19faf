------------------------------ MODULE WorkItems ------------------------------
(***************************************************************************)
(* What the durable work-item store promises about one kind of work, seen  *)
(* from outside: the lifecycle drawn in WORK_ITEMS.md                      *)
(*                                                                         *)
(*    queued -> running -> succeeded | failed | cancelled                  *)
(*                      -> unknown -> succeeded | failed                   *)
(*                                                                         *)
(* with the two exits that leave the queue without starting anything       *)
(* (rejection, cancellation), and the promise that matters to the outside  *)
(* world: the executor is called at most once for an item, and only for an *)
(* item that was started.  IntentHarness and Missions implement it.        *)
(***************************************************************************)
CONSTANT Items          \* identities of work items (idempotency keys)

VARIABLES state,        \* lifecycle state of each item, "absent" before creation
          started,      \* items that ever entered "running"
          called        \* items the executor has been called for

absVars == <<state, started, called>>

Lifecycle == {"absent", "queued", "running", "succeeded", "failed",
              "cancelled", "unknown"}

Create(i) ==
    /\ state[i] = "absent"
    /\ state' = [state EXCEPT ![i] = "queued"]
    /\ UNCHANGED <<started, called>>

\* Rejected by validation, or cancelled, before anything was executed.
Withdraw(i) ==
    /\ state[i] = "queued"
    /\ \E s \in {"failed", "cancelled"} : state' = [state EXCEPT ![i] = s]
    /\ UNCHANGED <<started, called>>

Start(i) ==
    /\ state[i] = "queued"
    /\ state' = [state EXCEPT ![i] = "running"]
    /\ started' = started \cup {i}
    /\ UNCHANGED called

Settle(i) ==
    /\ state[i] = "running"
    /\ \E s \in {"succeeded", "failed", "cancelled", "unknown"} :
          state' = [state EXCEPT ![i] = s]
    /\ UNCHANGED <<started, called>>

Verify(i) ==
    /\ state[i] = "unknown"
    /\ \E s \in {"succeeded", "failed"} : state' = [state EXCEPT ![i] = s]
    /\ UNCHANGED <<started, called>>

\* The call may come late (the pool was busy), never twice, never unstarted.
Call(i) ==
    /\ i \in started \ called
    /\ called' = called \cup {i}
    /\ UNCHANGED <<state, started>>

AbsInit ==
    /\ state = [i \in Items |-> "absent"]
    /\ started = {} /\ called = {}

AbsNext ==
    \E i \in Items : Create(i) \/ Withdraw(i) \/ Start(i) \/ Settle(i)
                        \/ Verify(i) \/ Call(i)

AbsSpec == AbsInit /\ [][AbsNext]_absVars
=============================================================================
