# A TLA+ verification of the FASP harness

This directory models the FASP harness (`fasp_harness/`) and the state its
TypeScript bridges keep (`bridge_core/`): how signed requests become durable
work that an adapter executes, how one coordinator of a pair comes to lead, how
missions reach a vendor's vehicles and the space they drive through, how the
supervisory safety halt gates all motion, what a node reads from the machine
next to it, and what peers exchange: pairing, streams, channels, artifacts,
queued messages, mesh letters, and the log and card of an agent. TLC checks the
models on small instances; TLAPS proves every safety property the passing runs
check, refinements included, for every value of the constants (one of them,
`SpaceIsNotShared`, under a named relation between constants). `PROJECT.json`
maps each definition to the lines it models and lists the runs, the fault
variants, the theorems, the hazards and the disagreements found between
documents and code.

## 1. The system

A *node* is one process (`deployment.py`) around one SQLite file. Every
database write is `BEGIN IMMEDIATE` under a lock (`storage/db.py`), so a
transaction is the unit of atomicity; between transactions threads, processes
and crashes interleave freely.

| Component | State it keeps | Operations | What makes it correct |
|---|---|---|---|
| Intent execution (`core.py`, `storage/tasks_repo.py`, `storage/inbox_repo.py`) | task rows, inbox, claims in memory, adapter pool | `accept`, propose / cancel / status handlers, bounded wait, late callback, reconciler, start-up recovery | one adapter call per key, stable replies, honest outcomes, everything settles |
| Work-item store (`storage/work_items_repo.py`) | rows with state and phase | compare-and-set `transition`, `create`, stale sweep | the lifecycle of `WORK_ITEMS.md`, the backlog bound |
| Leader lease (`edge/lease.py`) | one row (holder, fence, expiry), proof in memory | campaign, renew, `guard`, stop and release | one holder per fence, a believer holds the row |
| Mission service (`fleet/service.py`, `storage/missions_repo.py`) | mission rows, reservations | submit, cancel, reconcile | one dispatch per mission, no untracked vehicle, route kept |
| Safety supervisor (`safety/interlock.py`) | latch, sequence, last sample | poll, demand, clear, permit | no motion under a halt, fresh permission, confirmed clear |
| Cyclic executor, watchdog (`realtime/`) | releases, tallies, last pet, latch | cycle, overrun policies, pet, expiry, reset | releases run or counted, a stall is caught in bounded time |
| Outbox (`edge/outbox.py`), agent CLI delivery | queued messages, attempts | enqueue, claim, send, dead-letter | at-least-once, order per destination, the queue drains |
| Relay hub and client (`transport/relay_*.py`) | mailboxes | accept, poll, ack, expiry | receipt implies acceptance |
| Channels and ingress (`channels.py`, `transport/runtime.py`) | sockets, sends that are out, byte budget, places in the pool | bind, push, unbind, revoke, run | the budget is what is out |
| Reservations (`robotics.py`, `storage/reservations_repo.py`) | granted space-time windows | request by cell or box, release, expiry | no two robots in one place, clocks that are off included |
| Digital twin (`twin/`) | trust in a twin, plans | preflight, observe | a plan holds while it is driven |
| Fleet vendors (`fleet/vda5050.py`, `rest.py`, `simulated.py`) | orders, last messages | dispatch, cancel, mission_state | a phase is what the vehicle did |
| Spatial state (`spatial/`) | reports, clock samples, frame links | separation and authority verdicts, estimate, lookup | a verdict is true of the world, not only of the report |
| Fieldbus (`industrial/modbus.py`) | one socket, transaction numbers | read, write, time out, reconnect | a sample is of one instant of the call |
| Safety case (`safety/case.py`) | claims, executed evidence | validate, verify | one answer to one question |
| Streams (`streaming.py`, `storage/streams_repo.py`) | stream rows, retained packets, subscribers | open, subscribe, packet, close | no gap, no second acceptance, consent at the push |
| Trust (`storage/peers_repo.py`, `grants_repo.py`, `audit/chain.py`, connect and ping in `agent_cli.py`) | pairings, grants, audit rows, registry files | hello, confirm, revoke, issue, scan, connect | authority is what the operator approved |
| Artifacts (`artifacts/store.py`) | rows, files | put, fetch, purge | a row has its bytes |
| Mesh (`resilience/`) | letters carried, offers made | originate, accept, tick | a letter arrives, expires or is dropped |
| Bridges (`bridge_core/`) | log, identity card, channel | append, renew, rotate, reconcile, send | the log verifies, the card is sound, the channel keeps its order |

Interactions. A transport thread calls `accept()`; the intent handler submits
to the adapter pool and waits a bounded time; a callback commits what comes
later; the reconciler thread sweeps leases and re-drives queued rows. A
mission submission asks `permit_motion()`, the twin, the reservations, the
lease's `guard()` and finally the vendor; the reconcile loop of the leader
asks the vendor for outcomes. The poll loop feeds the supervisor; its overrun
handler, the watchdog and peers demand halts; only a local operator clears.
Peers that an operator paired open streams, push over websockets and fetch
artifacts; each of these asks the pairing and grant tables again at its own
step, so a revocation can fall between any two of them.

What is hard here: two threads on one idempotency key; a crash between any two
transactions; a result that arrives after its caller, its lease or its
cancellation; a lease that changes hands while guarded work is under way; a
vendor call that takes effect and fails; a slow controller reading stored over
a newer one; a halt racing a clear; a poll that never returns; clocks that are
off in opposite directions; a late answer on a shared socket; a file written
and its row not, or the other way round; a reconnection closed at an await. The
`hazards`
list names each at its line.

## 2. Modules

| Module | Models | Uses |
|---|---|---|
| `WorkItems` | abstract: what the work-item store promises | |
| `IntentHarness` | the intent path of `core.py` and its repositories | implements `WorkItems` |
| `Leadership` | abstract: numbered terms with one leader | |
| `LeaderLease` | `edge/lease.py` | implements `Leadership` |
| `Missions` | `fleet/service.py`, `storage/missions_repo.py`, the registry | extends `Leadership`, implements `WorkItems` |
| `SafetySupervisor` | `safety/interlock.py`, the poll loop, the watchdog | |
| `Delivery` | `edge/outbox.py`, delivery in `agent_cli.py`, `transport/relay_*.py` | |
| `Vendors` | the adapters of `fleet/` with the vehicle behind each | |
| `Reservations` | `robotics.py`, `storage/reservations_repo.py`, `spatial/reservation.py` | |
| `Preflight` | `twin/`, and the dispatch steps of `fleet/service.py` around it | extends `Reservations` |
| `GuardBand`, `TimeTransfer`, `Frames` | `spatial/` | |
| `Schedule` | `realtime/scheduler.py`, `realtime/watchdog.py` | |
| `Fieldbus` | `industrial/modbus.py` | |
| `SafetyCase` | `safety/case.py` | |
| `Streams` | `streaming.py`, `storage/streams_repo.py`, `protocol/volatile.py`, the handlers of `core.py` | |
| `Channels` | `channels.py`, `transport/runtime.py`, the endpoint of `transport/http_app.py` | |
| `Artifacts` | `artifacts/store.py` | |
| `Pairing` | `storage/peers_repo.py`, `grants_repo.py`, `audit/chain.py`, commands of `agent_cli.py` | |
| `Mesh` | `resilience/mesh.py` over `resilience/faults.py` | |
| `ActionLog`, `AgentCard`, `PeerLink` | `bridge_core/` | |
| `MCIntent`, `MCSettle` (both `IntentHarness`), `MCMissions`, `MCDelivery` | instances of one component | |
| `MCSafety`, `MCFleet`, `MCPlant`, `MCExchange`, `MCAgents` | instances of several components | |
| `IntentProofs`, `MissionProofs`, `DeliveryProofs` | theorems of `IntentHarness`, `Missions`, `Delivery` | |
| `FleetProofs` | theorems of `LeaderLease`, `Vendors`, `Reservations`, `Preflight` | |
| `SafetyProofs` | theorems of `SafetySupervisor`, `SafetyCase` | |
| `ExchangeProofs` | theorems of `Streams`, `Artifacts`, `Pairing`, `Channels` | |
| `AgentProofs` | theorems of `ActionLog`, `AgentCard`, `PeerLink` | |
| `PlantProofs` | theorems of `Schedule`, `Fieldbus`, `GuardBand`, `TimeTransfer`, `Frames` | |

Definitions marked `fault` next to an action's guard are plausible bugs. No
specification uses them; each shows that some property notices it.

### IntentHarness

`task` holds the rows of kind `intent` (state, phase, whether the current
deadline has passed, owner, payload), `inbox` the recorded responses, `claims`
the in-memory `_inflight_messages`, `pc`/`cur`/`rkey`/`resp` the threads,
`job`/`late` the futures and the done-callbacks. `calls`, `effect` and `heard`
are the outside world: adapter invocations, real effects, replies received.

`Deliver` is the start of `accept()` (verification and the claim). `Verified`
is what verification asks of a message that can change: its peer is still paired
and its `expires_at` has not passed (`expired`, set by the external
`ExpireEnvelope`). The rate limit refuses with no trace in the state: that is
`Deliver` not being taken. `Insert`,
`Reply` and `Release` its database steps; `ProposeNew`, `ProposeFull`,
`ProposeDuplicate` and `ProposeRefused` the outcomes of `_handle_intent`;
`Validate`, `StartRunning`, `StartLost`, `Commit` and `Timeout` are
`_execute_admitted_intent` and `_run_adapter_bounded`; `LateCommit` is
`_on_adapter_done`. The `Cancel*` actions and `ResumeRunning` are
`_handle_cancel`, one per transaction or adapter call. `ExpireLease`,
`Recover` and `Reconcile` are the loop of `asgi_server.py`; `Crash`, `Restart`
and `BootDone` lose exactly what `FaspHarness.__init__` builds anew.

Abstractions: a message id names one envelope; a deadline is the flag `due`,
set by `Elapse`; the synchronous wait may time out at any moment; a reply may
be lost (`heard` may stay behind); the pool starts queued calls in any order;
pushes to the peer carry no state and are left out.

### LeaderLease and Leadership

The clock reading, the transaction and the store of the proof are three steps,
and `guard()` reads the row and the clock in two, as the code does. `Stop`
does not wait for a campaign under way: the join is bounded. All nodes read
one clock, the scope that `describe()` states. `Leadership` keeps what
`Missions` needs: a term ends by lapsing or by surrender, and a renewal based
on an old reading may revive the current term.

### Missions

`row` is the work-item row with its mission phase, `booked` the reservation,
`tracked` the per-process `_reserved`, `sub`/`can`/`rec` the threads inside
`submit`, `cancel` and `reconcile`, `vendor`/`dispatches`/`ambiguous` the
outside world. The vendor is external and answers like `simulated.py`, except
that with `Ambiguity` a dispatch may take effect and raise, as a REST or MQTT
call can. Gate and preflight may refuse at any time. A node always has a lease
here, and one that stops is taken as one that exits.

### SafetySupervisor

One step is a critical section of the supervisor's or watchdog's lock or one
reading. `PollSample` and `PollStore` are `poll()`, shared by the loop and by
`clear()`, so a slow reading can be stored over a newer one. `_sequence` is
kept as what `clear()` asks of it (`moved`). Time is in ticks and ages stop
past their limits. The controller is external: it demands, trips, is reset by
hand at the machine, or never answers. A reading is one instant; it is stored
within `ReadTime` or not at all (it may hang before it). A driver is
configured, which `require_controller` enforces for motion.

### Delivery

`out` holds the outbox rows, `lock` the delivery lock, `pc` and `batch` the CLI
processes inside `_deliver`, `mail` the hub's mailboxes, `worker` the
receiver's relay thread, `inbox` the answers the receiver has recorded. A
message is named by its row id. `stray` and `running` are HTTP copies that
outlive their caller: on the way, or inside `accept()`.

`Round` is the lock with `recover_inflight` and `claim_ready`; `HttpBegin`,
`HttpEnd` and `HttpTimeout` are a request and its end, with the fallback to the
relay; `RelayPost` and `RelayReply` are `send_request`; `Worker*` are
`process_once`; `Mark` is one of the three marks. A process ends by a crash or
by the exception that a receipt without a response raises in `_deliver`; both
leave rows in flight. `NodeStart` is the recovery that a starting coordinator
does without the lock. `accept()` is reduced to what the sender can tell:
refused, busy, in dispatch elsewhere, or an answer that is recorded; the
receiver is one process (the relay thread of `asgi_server.py`, which shares the
claims of the HTTP handlers). Backoff is a choice made at the claim. Left out:
radio, several hubs, `requeue_dead` (no caller), retention of sent rows.

### Vendors

`phase` and `route` are the mission row, `known`, `raw` and `sheet` what an
adapter keeps in memory, `orders`, `instants` and `news` the MQTT topics, `veh`
and `ended` the vehicle. MQTT keeps the order of one topic only and may lose a
message; a restart forgets the orders. There is no clock: a state that is too
old, a lost connection, a low battery or a mode that is not automatic only
keeps `Select` from being taken. The REST vendor may use any word `rest.py`
maps to a phase, `preflight` and `rejected` included. `submit`, `cancel` and
`reconcile` are taken in the steps that touch the adapter; `Missions` has their
interleavings with each other. Two histories mark where the code cannot know
better: `misread` (a VDA message about another order taken as the end of this
one) and `backed` (a vendor's word that moves a row before its dispatch, where
a cancel no longer asks the vehicle). `PhaseIsReal` speaks of all other
missions; over MQTT it says nothing of a cancelled one, whose published
`cancelOrder` may be lost or overtake its order.

### Reservations and Preflight

`rows` is the table with its segments, `skew` how far each owner's clock leads.
One axis stands for three. `Preflight` puts the twin in front of the same book:
`RunPreflight` simulates the trip in whole cells and ticks (a charge goes up to
the step's `target_ratio`, never down to it), `Reserve` asks for its merged
windows, cut at `MAX_RESERVED_CELLS` in the order of first visits, `Drive`
moves the vehicles, and other dispatches come between the two. Mission segments
carry no guard band, and an untrusted twin means no preflight and no
reservation, as in the code. The conflict test does not exclude the requester's
own rows.

### GuardBand, TimeTransfer, Frames

Robots move as they like within a speed limit, on one axis, and a verdict is
taken from the last report; the covariances are left out. `guard.py` spends the
decision margin on the age of a report ahead of time, so a peer that has turned
around since its report is covered only while the report is within that margin
(`InMargin`); `VerdictIsReal` speaks of those verdicts and of no others.
`TimeTransfer` keeps four stamps over any delays and the fallback branch of
`estimate()`. `SamplesCoverOffset` says that every sample covers the true offset
with its own round trip and that filtering keeps the tightest one. What the
branch then returns pairs the newest sample's offset with the least queued
sample's round trip (`clock.py:329`), and that is not covered: the run
`clock_estimate` shows it. `Frames` has quarter turns
in the plane and one number for a covariance.

### Schedule, Fieldbus, SafetyCase

`Schedule` is the executor with its three overrun policies and the watchdog with
its own thread; sleeping, working and `on_overrun` take any time. In `Fieldbus`
two threads share one Modbus client; a timed-out request may still be served on
a socket the client has closed (`orphans`), and a timed-out write still applied.
`SafetyCase` turns `evaluate()`'s recursion into a stack of frames; a check may
give another answer every time it runs. `Sound` is `validate()`: the root and
every claim and check that is referenced are defined, and there is no cycle.

### Streams, Channels, Artifacts, Pairing

`Streams` is one stream of one producer with the thread in the packet handler,
the thread in `close()` and an operator who revokes and grants meanwhile. A
packet that meets a lapsed lease closes the stream under the registry's lock
(`ReadStream`); `expire()` on its own ends the row first, without that lock, and
drops the rest later (`ExpireLease`, `CloseDrop`). One handler is enough:
`packet()` runs under the registry's lock (`streaming.py:204`) and
`VolatileInbox.accept` holds its own across the whole handler, so a second one
could only push out an earlier packet meanwhile.
`Channels` has a step for every section under the registry's or the
dispatcher's lock. `Artifacts` separates every transaction from every file
operation, with the death of the process between any two. `Pairing` is the
peer, grant, revocation and audit tables, and the commands of `agent_cli.py` as
processes of several steps, while addresses change hands.

### Mesh, ActionLog, AgentCard, PeerLink

In `Mesh` a frame that is lost, damaged or refused is one action, reordering is
the choice of the next frame, and a copy that stays on the wire is a duplicate.
`ActionLog` is the log file with its lock file between writers of several
processes; a line is its seq, the digest it names and its own, and `torn` counts
the appends that left a line which does not parse. In `AgentCard` an
operation is the list of writes it makes, all of them or, when the process
dies, the first few, the next of which may be half written. `PeerLink` is the
websocket that is dialled again, one action per callback.

### Compositions

`MCSafety`, `MCFleet`, `MCPlant`, `MCExchange` and `MCAgents` extend several
components that share no state. The variable `part` names the one a behaviour
exercises; the others stay in one initial state, so a run is the union of its
parts and not their product. The two parts of `MCIntent` are two sets of
envelopes: those of the other part have expired when they come. Components that
do interact are composed in the modules themselves: `Missions` with
`Leadership`, `Preflight` with `Reservations`.

## 3. Runs

| Run | Instance | Shows |
|---|---|---|
| `intent_race` | races: one key, two proposals, two cancels, two threads, one crash; admission: two keys of two peers, one slot, a foreign proposal, a poll | `AtMostOneCall`, `ReplyStable`, `CancelPendingIsServed`, refinement of `WorkItems`; `BacklogBounded` |
| `intent_settle` | one key, a proposal that may expire and a cancel, changing pairing and policy, one crash, fairness | `AdmittedSettles`, `PendingIsAnswered` |
| `mission` | two coordinators, one mission, two terms, ambiguous vendor | `DispatchedOnce`, `WorkIsTracked`, `OutcomeIsReal`, refinement of `WorkItems` |
| `safety` | one operator, one dispatcher, the loop, the watchdog, fairness; two nodes and a worker on one lease, TTL 2, times 0 to 3, three fences | `NoGrantUnderHalt`, `PermissionIsFresh`, `ClearIsConfirmed`, `WedgedPollHalts`; `TermHasOneHolder`, `LeaderHoldsLease`, refinement of `Leadership` |
| `delivery` | two drains, two messages to one peer, two attempts, mailboxes of one frame, one late HTTP copy, any number of crashes, fairness | `SentIsAccepted`, `OvertakenOnlyIfDead`, `QueueDrains` |
| `fleet` | two missions on each vendor; two robots and two reservation ids on two cells or boxes; two vehicles on three trips | `PhaseIsReal`, `NoSharedSpace`, `PlanHolds` |
| `plant` | two robots, one delegated volume; one clock pair; three frames; one loop and watchdog; two threads on one bus; every case of three claims | `VerdictIsReal`, `SamplesCoverOffset`, `LookupIsHonest`, `ScheduleIsKept`, `StallIsCaught`, `SampleIsFresh`, `ReportIsOneAnswer` |
| `exchange` | one stream, two packets, one subscriber; three sockets of two peers; two digests, two creators; two systems around the node | `StreamIsKept`, `PushIsConsented`, `BudgetIsExact`, `RowHasBytes`, `TrustIsConsented` |
| `agents` | two writers, four lines; four operations on the card and one crash; three posts and two drops; two letters over three nodes, fairness | `LogChains`, `CardIsSound`, `LinkKeepsOrder`, `MeshDelivers` |
| `frames_chain` | three frames | **violated** `ChainMapsPoints` |
| `clock_estimate` | one clock pair, samples in two buckets | **violated** `EstimateCoversOffset` |
| `log_death` | two writers, one death | **violated** `LogSurvivesDeath` |

The three violated properties are sentences of the source that the code does not
keep.

- `ChainMapsPoints`: `FrameLink.compose` chains two transforms in the order that
  applies the second hop first, so a looked-up chain of two hops with a turn maps
  a point to a wrong place. `LookupIsHonest` excludes exactly those chains. The
  test of composition computes its expected value with the same composition.
- `EstimateCoversOffset`: below `min_samples_for_skew`, `estimate()` puts the
  newest filtered sample's offset in the middle of an interval whose half width
  is half the best round trip, which is another sample's. When an older sample
  was faster, the true offset may lie outside the interval.
- `LogSurvivesDeath`: a bridge process that dies within its append leaves half a
  line. The header calls the log safe across processes and the lock of a crashed
  process safe to reclaim, but `verify()` goes through `entries()`, whose
  `JSON.parse` raises there, as does every later append that catches up.

Disagreements between documents and code that the models contain and no run
states:

- A second `task.cancel` finds the phase the first one left and completes its
  unconfirmed request (`storage/tasks_repo.py:152`, against `WORK_ITEMS.md:38`).
- The live lease sweep turns a slow task `unknown`, and its late result then
  has no row to go to (`transport/asgi_server.py:243`, against `core.py:744`).
- A vendor call that takes effect and raises leaves a vehicle on a rejected
  mission (`fleet/service.py:159`, against `fleet/service.py:28`). The history
  `ambiguous` marks it and `WorkIsTracked` speaks of all other missions.
- The fence is read before the vendor call and not enforced at it
  (`fleet/service.py:143`, against `edge/lease.py:13`).
- A demand read while the latch is set does not move the sequence number that
  `clear()` re-checks (`safety/interlock.py:153`, against line 214).
  `permit_motion` still refuses on that sample, and the next poll latches again.
- The bridges' log is called safe across processes (`bridge_core/log.ts:9`);
  its constructor reads the entries and measures the file without the lock, and
  a stale lock is removed by name, so a live writer's may be. `gaps` records the
  lines appended on top of one that was measured and not read, and `robbed` that
  a live writer's lock was removed: `LogChains` says of every other line that it
  follows the one before it, and of a log without such a line, without a robbed
  lock and without half a line that it verifies.
- `bridge_core/fsjson.ts:2` calls its writes atomic; `writeJson` overwrites in
  place (line 43). A torn `renewal.json` is never repaired.
- One reconciliation of the card may replay an entry of the log that is out of
  date and declare a tool that is gone, or drop one that is there; the next one
  settles it, which is what `CardIsSound` asks.

Bounds. Two threads and the reconciler are enough for every pair of steps to
race, and a key's rows do not depend on other keys except through the backlog,
which the admission part of `intent_race` checks with two keys. That part asks
one request at a time, without a crash and without a queued row whose deadline
has passed, since none of these takes a slot. One crash loses everything a
process has; a second finds the same durable state. On the lease, three fences
allow a takeover and a return, and three ticks with a TTL of two let a term
lapse, be taken over and be read late. Two terms allow the fence to go stale once,
and a mission is dispatched at most once in any term. In `safety`, one tick of
staleness, one of reading time and two of watchdog timeout put every limit in
reach with the limits different from each other where the code's defaults are;
the deadline of zero ticks is `min(period, stale / 2)` rounded down. In
`delivery`, an order and its cancellation are the two messages whose order
matters; two attempts give a retry and an exhausted one, and a mailbox of one
frame is full as soon as a stale receipt is in it. With one destination a batch
has one message, so that destinations do not disturb each other is not checked.

In `fleet`, two missions let one order's message be taken for another's, and a
topic of one message is lost or overtaken by the other topic's; clocks lead by
up to one tick, the boxes are at distances where only the guard band keeps them
apart; the trips include a dwell that two windows must cover together, and one
of three cells while a reservation lists two, so that the cut is taken. In
`plant`, the margin is longer than the run so that a report stays usable while
the peer turns around; a period of two and eight beats let a cycle end before,
on and after a release; three requests are a timed-out one, its late answer and
the next; with three claims there is a shared one, a cycle and a dangling one.
In `exchange`, one retained packet and one credit put every limit in reach; a
budget of five bytes fits two frames of two and refuses the third; two days and
a retention of one let a row end while a put or a fetch is under way; one
pending peer fills the table. In `agents`, four lines let a writer append after
a line that is out of place; a crash at each write of each of four operations
covers a rotation cut short and what follows it; a queue of two with one heavy
post reaches both limits; a node that carries one letter must drop one.

Where an instance of the core is small, the theorems below are the argument
that size does not matter. `CHECK_DEADLOCK FALSE` is set everywhere because
clients may stop sending, missions are finite and bounds end runs.

Fairness. `FairSpec` assumes that threads run, that the reconciler loop comes
round for each row again and again (strong: it acts every ten seconds on rows
that may be busy in between), that time passes and that a supervisor restarts a
dead process. `FairDelivery` adds a sender that retries until it is answered
(the outbox and `agent_cli` do). Nothing is assumed of the adapter: a call may
hang for ever. `DeliveryFairness` assumes that drains are run, that their calls
end, and that signed envelopes expire; nothing of the network, the hub or the
receiver. `SafetyFairness` assumes clocks, the watchdog thread and the steps of
the loop that do not wait for the controller; a reading may never return.
It asks nothing of the lease.
`MeshFairness` assumes that every node is ticked and a partition heals, as the
scenario's loop does, and that a link offered a frame again and again delivers
it (strong: the loss ratio is below one). It asks nothing of the other parts of
`agents`, whose mesh is empty.

## 4. Theorems

A theorem holds for every value of the constants that satisfies the named
`ASSUME`s of its component module. Each invariant below is a conjunction of
named parts; the parts beside the property are there because the property alone
is not preserved by every step. Each step of a component has a lemma, and where
many steps touch the same state a lemma says once what such a step has to keep
(`OnlyMission`, `OneCaller`, `MovedRow`).

### Core

`IntentProofs`. `IndInv` adds two parts to the type invariant: `ThreadInv` (a
busy thread serves a message, the reconciler only executes) and `StartInv` (a
row enters `running` at most once; calls never exceed starts; a future not yet
started has not been called; a row that never ran has no start).
`AtMostOneCall` is not inductive by itself: that the pool calls once follows
only from the counting of starts, and that a row starts once only from the
compare-and-set being the sole way out of `queued`. Results: `TypeCorrect`,
`AtMostOnce`, `RejectionIsFinal` and `Refinement` (every step is a step or a
stutter of `WorkItems`). Three more properties have an argument of their own:

- `OneAnswer` (`ReplyStable`): the claim of a message keeps it to one thread
  and, past `insert_if_new`, its inbox entry is still pending (`ClaimInv`), so
  `set_response` never overwrites an answer that was heard.
- `BacklogLimit` (`BacklogBounded`): each step creates one row, marks one row
  or moves rows without reviving one (`MovedRow`), and only the creation, which
  looks at the capacity in its own transaction, adds an active key. For any
  finite or infinite set of keys, since the active ones stay finite.
- `CancelServed` (`CancelPendingIsServed`): a mark is set on running work only
  (`CancelInv`), and a request thread between the mark and its outcome keeps
  its key until the mark is gone.

`FleetProofs`, lease. `LeaseInv` relates the readings to the clock
(`ClockInv`), says what an exited process carries (`OffInv`), orders all fences
in circulation below the row's (`FenceInv`), and says that a proof which has
not expired is backed by the row (`HolderInv`, `GuardInv`). Results:
`LeaseTypeCorrect`, `OneHolderPerTerm`, `LeaderIsHolder`, `GuardIsExact`,
`LeaseRefinement`.

`MissionProofs`. `MissionInv` is stated mission by mission: `RowOk` (state and
phase agree; dispatched exactly if it left the queue through
`prepare_dispatch`), `SubOk` (before `send` the row and the route are the
submitting thread's own; it gives up only what no vehicle took, or what the
vendor call was ambiguous about), `VehicleOk` (a vehicle took a dispatched row
once, and the row runs until it is done), `CancelOk`, and for each node
`ReconcileOk` (a terminal report is what the vehicle did for good, so a report
read before a cancellation is still true when it is written). None of
`DispatchedOnce`, `WorkIsTracked` and `OutcomeIsReal` is inductive: each rests
on where the other threads of the same mission stand. The steps of one mission
leave every other one alone (`OnlyMission`), so each step lemma is about one
row. Elections and exits only change what threads know. Results:
`MissionTypeCorrect`, `DispatchOnce`, `TrackedWork`, `RealOutcome`, and
`MissionRefinement`: every step is a step or a stutter of `WorkItems`.

`SafetyProofs`, supervisor. `SafetyInv` says that an uncleared halt is latched
(`HaltInv`), bounds how long ago the controller was safe by the lag of each
reading and by the age of the stored sample (`FreshInv`), and records that a
safe reading in a `clear()` was taken during it (`ConfirmInv`). Results:
`SafetyTypeCorrect`, `PermissionAge`, `GrantsRespectHalts`,
`ClearsAreConfirmed`.

`SafetyProofs`, safety case. `CaseInv` is about an evaluation that is under way.
`WalkInv` states of every frame on the stack what the recursive call has rolled
up so far: what its `under` holds is exactly what the evidence and sub-claims it
is through with gave. `DoneInv` states that each outcome is the one its own
evidence and sub-claims give, and `EndInv` ties the phases together. The property
speaks of the whole graph below a claim and not of one level, so two more
arguments are needed: `Reached` grows for as many levels as there are claims and
has stopped growing by then (the pigeonhole on `Cardinality`), and an outcome
that disagreed with the graph would have a least counterexample along the
acyclic order. Result: `ReportsAreOneAnswer`.

### The fleet

`FleetProofs`, vendors. `VendorInv`: a mission that no vehicle took is on its
way at most once, in the thread of its submission or in one place of the order
topic (`OnceInv`); it is driven exactly while a vehicle has nodes of it left
(`DriveInv`); what a state message tells of an order driven to its end stays
true however late, and after whatever else, it is read (`MessageInv`); an
adapter without a broker moves its row only after the vendor answered
(`AnswerInv`). `PhaseIsReal` is not inductive: what the adapter derives when a
message is read was settled when the message was sent. Results:
`VendorTypeCorrect`, `RowsAreReal`, and the action property `DrivenOnce`.

Reservations. `BookInv`: a segment that holds was cut from the course its robot
keeps and its guard is no smaller than the doubt of the clocks (`BookedInv`),
and no two rows that hold are in conflict (`ClearInv`). `CellsAreExclusive`
follows from `ClearInv` alone. `SpaceIsNotShared` is about the bodies and not
the rows, and needs the hypothesis `Slack >= Doubt`: the margin of the decision
covers what two stamps may be off by. `GuardPolicy` (`spatial/guard.py:181`)
asks the operator to size the margins from the p99 of the measured round trip,
half of which bounds what an exchanged stamp leaves in doubt; nothing enforces
it. Without it the property is false: with `Slack = 0`, `Doubt = 1` and one
slice, TLC finds two robots in one place after two requests. That one segment
is "still conservative" (`spatial/reservation.py:115`) holds under the same
condition only. Results: `BookTypeCorrect`, `CellsAreExclusive`,
`SpaceIsNotShared`.

Preflight. `TwinInv`: a plan that passed is the simulation of its own steps,
its low water is above the reserve and its windows are those of its first
`MaxCells` cells (`RouteInv`, over a simulation whose clock and trace only grow
and whose low water only falls); a vehicle that drives holds the windows of its
whole trip under an id of its own (`GrantInv`); rows that hold are clear
(`ClearInv`). The simulation is a recursive function: that one exists for every
list of steps is by induction over `Nat`, with the property given as a set.
`_reserve` cuts the list of windows at `MAX_RESERVED_CELLS`
(`fleet/service.py:240`), and nothing bounds a trip, so two vehicles may meet
in a cell that neither reserved. `PlanHolds` therefore speaks of a vehicle
while it is in a cell that was among the first `MaxCells` of its own trip
(`InList`), whatever the length of the trip, and `PlansAreKept` proves that
without a hypothesis. The half about the battery has no exception. Results:
`TwinTypeCorrect`, `ReserveIsKept`, `PlansAreKept`.

### Messages

`DeliveryProofs`. The argument is about two sets that only grow: `Due`, the
messages whose predecessors to the same destination are sent or dead, and
`Accepted`, those the receiver answered `ok`. `TurnInv` says that every copy
anywhere (a batch, a late HTTP copy, a mailbox, a worker) is of a due message,
from which `OrderKept` follows; `ReceiptInv` that every receipt anywhere is of
an accepted one, from which `SentAccepted` follows. `LockInv` (a process with a
batch holds the delivery lock and its rows are open) keeps settled rows out of
every batch, `RowsInOrder` keeps a new row behind the old ones, and
`DispatchInv` says that a message in dispatch has no answer yet and is in
dispatch once: the receiver's own inbox. A settled row is final (`OutStep`), so
`Due` grows. Results: `DeliveryTypeCorrect`, `SentAccepted`, and the action
property `OrderKept`.

`ExchangeProofs`, streams. `StreamInv`: what was accepted is behind the next
sequence wherever that is kept, and a handler that has read the row still holds
it (`AcceptInv`); the retained packets are the newest without a gap (`KeptInv`);
an envelope that was handled is remembered or past its expiry (`HandledInv`);
what is forwarded was accepted under the grant it is forwarded on
(`ForwardInv`). Results: `StreamTypeCorrect`, `PacketsOnce`, `PushConsent`.

Artifacts. `ArtifactInv`: the rows (`RowInv`), what the put under way has
established about the rows it unlinks and the digest it writes (`PutInv`), and
what a fetch has read of a row (`FetchInv`). The cap is a sum over a set: the
lemmas on sums are proved from the definition of the community modules' fold,
by induction on the size of a finite set with the property given as a set.
Results: `ArtifactTypeCorrect`, `RowsHaveBytes`.

Trust. `PairInv`: a live pairing is the operator's last approval word for word
and the last thing the log says of that peer (`ConsentInv`, stronger than the
property, which the log alone does not give); grants are numbered and withdrawn
as the log says (`GrantInv`); the pending rows are finite and within the limit
(`PendingInv`); the name a ping stands for has not moved (`PingInv`). Results:
`PairTypeCorrect`, `TrustNeedsConsent`.

Channels. `ChannelInv`: a push makes at most one send to a socket and those of
the push under way are new (`SendInv`); the count kept for a socket is that of
the sends out to it and within its limit, and a socket without one is not live
and has nothing out (`CountInv`); the bytes are the sum of what is out and
within the budget (`ByteInv`); a place in the pool is taken by exactly the
calls that run, those whose caller has left included (`PoolInv`). The sum
lemmas are those of the artifacts. Results: `ChannelTypeCorrect`,
`BudgetsExact`.

`AgentProofs`, log. `LogInv`: while no live writer's lock was removed, a writer in
the critical section is the one the lock file names (`Exclusive`); every line but
the `gaps` follows the one before it, and without a gap the lines are numbered
(`Chained`); and while every line parses, what a writer has measured is a prefix
of the file, between measuring and writing the whole file, and a writer that is
not `missed` remembers where its prefix ends (`InStep`). The theorem names all
three ways in which the log stops verifying: a robbed lock, a gap and half a
line.
Results: `LogTypeCorrect`, `ChainHolds`.

Card. `CardInv` is an invariant of five files that are written one after the
other, with a crash possible at each write: an identity is made once and before
anything else (`FreshInv`); the parts of the card that can be read agree
(`CardAgrees`); after a reconciliation, replaying the history agrees with the
card about every tool on which the card agrees with the toolset (`ReplayInv`);
two reconciliations after the last change of the toolset settle it
(`CardSettles`). The replay is a recursive
function of the history, used through what one more note does to it. Results:
`CardTypeCorrect`, `CardStaysSound`.

Link. `LinkInv`: what was written followed by what waits is a selection of what
`send()` took, in the order in which it took them (`QueueInv`); and of a dial, an
open socket and the retry timer at most one is under way (`WaysInv`), which keeps
a second socket from being opened beside the first. Result: `LinkStaysInOrder`.

### The machine

`PlantProofs`, executor. `ScheduleInv`: each release is a cycle or counted as
skipped, and after an overrun under SKIP the next one lies in the period after
the late end (`LoopInv`, which rests on a lemma about rounded division); the
watchdog's next check is at most an interval away and the last one found it
petted in time, expired, or back from its action (`DogInv`); expiries are calls
(`ExpiryInv`). Results: `ScheduleTypeCorrect`, `ReleasesKept`, `StallLatched`.

Field bus. `FieldbusInv`: the thread that waits is the one that holds the lock,
and the socket carries exactly its request or the reply to it (`HolderInv`); a
read has seen every value of the plant since it began and what it has of a
space is one of them (`CallersInv`); a block on the way is one the reader has
seen, and only a read is answered by one (`WireInv`). That a late answer can
reach nobody is `HolderInv` together with the socket being dropped on failure;
the transaction number is not needed, so the theorem holds for numbers that
wrap at any size. Results: `FieldbusTypeCorrect`, `SampleFresh`.

Guard band. A verdict reads two reports of different ages and clocks.
`GuardInv` says what a report is worth when it is read: since the instant its
stamp stands for, the robot moved no farther than the speed limit times the time
gone by (`HeardInv`), for one of the two errors its clock may have. The verdict's
inflation covers that travel for either error. Results: `GuardTypeCorrect`,
`VerdictsAreReal`.

Time transfer. `TransferInv`: the stamps of a probe on its way are in order once
the true offset is taken out (`ProbeInv`), and each sample held covers the offset
with its own delay (`HeldSamples`), dropped and reordered probes included. That
the filter keeps the least delay of all (`BestIsKept`) is a lemma about buckets.
Nothing is proved of the interval that `estimate()` builds from the filtered
samples, which does not cover the offset. Result: `OffsetIsCovered`.

Frames. `FramesInv`: a link that is known maps points exactly as the relative
pose of its two frames does (`LinksInv`). What a lookup composes along a chain is
a fold of the hops, and the fold is handled through a function shown to exist, hop
by hop. Result:
`LookupsAreHonest`.

### Assumptions

On constants only, and no more than the code gives: limits are naturals and
positive where a constructor checks it, the deadline does not exceed the
period, envelopes are typed, messages have destinations and the sender is none
of them, the reconciler is no request thread and the poll thread no operator, a
node is not one of its peers; frames, claims and tools are finite in number,
and a pose is a quarter turn with two coordinates. The rest (`NoStream`, `None`,
`Nothing`, `Absent`, `"nobody"`) says that a name for "nothing" differs from the
things. One theorem has a hypothesis of its own, met by the constants of `fleet`:
`Slack >= Doubt` in `SpaceIsNotShared`.

The modules state `TypeOK`, `LeaseTypeOK`, `SafetyTypeOK`, `MissionTypeOK`,
`DeliveryTypeOK`, `StreamTypeOK`, `ArtifactTypeOK`, `PairTypeOK`, `LogTypeOK`,
`ScheduleTypeOK`, `FieldbusTypeOK`, `UnstartedNeverCalled` and `GuardIsCurrent`
for these proofs, and the proof modules `VendorTypeOK`, `BookTypeOK`,
`TwinTypeOK`, `GuardTypeOK`, `ChannelTypeOK` and `CardTypeOK`; no run repeats
them.

### Only model-checked

Liveness (`AdmittedSettles`, `PendingIsAnswered`, `WedgedPollHalts`,
`QueueDrains`, `MeshDelivers`): the prover has neither ENABLED nor the rules for
fairness over a set of threads. Each of them is one run under the fairness of
section 3. Of the mesh, whose only property is of this kind, nothing is proved.

## 5. Not modelled

Cryptography, schemas and encodings (an envelope is verified or not), sockets,
HTTP and serial lines, the radio's fragments, floating-point geometry and
statistics (covariances, eigenvalues, least squares), OPC UA and ROS wire
formats, reports, metrics and the text of the safety case, configuration and
posture checks at start-up, test tooling (`hil/`), the MCP server and the other
front ends, the native C profile and the stand-alone chat bridge. Of modelled
components: `halt_all`'s best effort stop of vehicles and `Node.stop`;
`requeue_dead`, `purge_sent` and `flush` of the outbox, which nothing calls;
hops between relay hubs; pull cursors and fragment reassembly of streams
(incomplete frames are never evicted there, `streaming.py:105`); the token
bucket and the layer guard. One process uses one inbox and one identity card: a
coordinator pair sharing an inbox, two bridge processes that rewrite the chain,
and two CLI processes that rewrite a registry file each lose an update, by
reading.

Limits of the code met while modelling, kept by the models as they are: a
reservation's lease may end inside the window it protects; a trip over more
than `MAX_RESERVED_CELLS` cells reserves only the first ones and drives the
rest unreserved; over MQTT and where a vendor speaks first (`misread`,
`backed`) a mission row may say what the vehicle did not do; a rotation of the
card's key that dies once the new key is saved leaves a key that no epoch
names, for good (`harness.ts:315`; `CardAgrees` speaks of operations that ran
to their end); a mesh relay that evicts a letter keeps it in `_seen` and will
not carry it again; a websocket bound just after a revocation stays registered
until the next push; a watchdog that is reset while `on_expire` blocks leaves a
new stall unchecked until it returns; a put that finds its digest returns a
record whose retention may be about to end; a delegated or undeveloped claim
hides a failing descendant; a bootstrap of the card that dies after the
identity is saved is not taken up again.

## 6. Plan

1. An abstract at-least-once channel that `Delivery` and `Mesh` implement.
2. The composition of `SafetySupervisor` with `Missions`: what a permission
   checked at the top of `_dispatch` still means at the vendor call.
