--------------------------- MODULE SafetySupervisor ---------------------------
(***************************************************************************)
(* The supervisory halt of a coordinator (safety/interlock.py) with the    *)
(* cyclic poll that keeps it current (realtime/scheduler.py, deployment.py *)
(* start_loops), the watchdog over that poll (realtime/watchdog.py), local *)
(* operators who clear a halt, peers who demand one, and the dispatchers   *)
(* that ask permit_motion().                                               *)
(*                                                                         *)
(* One step is one critical section of the supervisor's or the watchdog's  *)
(* lock, or one reading of the safety controller.  The controller is       *)
(* external: it stops by itself, and moves again only after a manual reset *)
(* at the machine.  Time is counted in ticks; an age stops at the first    *)
(* value past every limit it is compared with.  The sequence number is     *)
(* kept as what clear() asks of it: whether it moved since it was read.    *)
(***************************************************************************)
EXTENDS Integers

CONSTANTS Poller,       \* the safety-poll loop
          Operators,    \* threads inside clear()
          Dispatchers,  \* threads inside permit_motion()
          StopInput,    \* TRUE iff the controller has a stop-request input
          Stale,        \* stale_after_s
          ReadTime,     \* longest time between sampling and storing a status
          Period,       \* of the poll loop
          Deadline,     \* deadline_s of the poll loop
          Timeout       \* timeout_s of the watchdog

ASSUME TickAssumption ==
    /\ Stale \in Nat /\ ReadTime \in Nat /\ Timeout \in Nat
    /\ Period \in Nat \ {0} /\ Deadline \in 0 .. Period
ASSUME PollerAssumption == Poller \notin Operators /\ StopInput \in BOOLEAN

VARIABLES
    ctrl,       \* environment: the controller is "safe", in "demand" or "tripped"
    sample,     \* _last_status, reduced to what its readers ask
    age,        \* ticks since _last_sample_monotonic
    latched,    \* _latched
    pc,         \* where each polling thread is
    read,       \* the status a polling thread has read
    lag,        \* ticks since it read that status
    moved,      \* _sequence is not the one this operator captured
    late,       \* ticks since the current release of the poll loop
    petAge,     \* ticks since _last_pet_ns
    expired,    \* _expired of the watchdog
    wpc,        \* "idle", or "demand" between expiry and on_expire
    permit,     \* "idle", "checked" (status seen good) or "granted"
    since,      \* history: ticks since the controller was last safe
    uncleared,  \* history: a halt that no clear() begun after it has cleared
    wasSafe     \* history: operators whose clear() saw the controller safe

safetyVars == <<ctrl, sample, age, latched, pc, read, lag, moved, late, petAge,
                expired, wpc, permit, since, uncleared, wasSafe>>
loopVars == <<late, petAge>>
watchVars == <<expired, wpc>>
latchVars == <<ctrl, latched, moved, uncleared>>

Threads == {Poller} \cup Operators
Statuses == {"safe", "demand", "unreachable"}
Clearing == {o \in Operators : pc[o] # "idle"}

\* An age that stops at the first value past its limit.
Aged(a, limit) == IF a > limit THEN a ELSE a + 1

-----------------------------------------------------------------------------
(* The controller at the machine *)

ControllerMoves == {<<"safe", "demand">>, <<"tripped", "demand">>,
                    <<"demand", "tripped">>, <<"tripped", "safe">>}

ControllerStep ==
    /\ \E c \in {"safe", "demand", "tripped"} :
          /\ <<ctrl, c>> \in ControllerMoves
          /\ ctrl' = c
          /\ since' = IF c = "safe" THEN 0 ELSE since
          /\ wasSafe' = IF c = "safe" THEN Clearing ELSE wasSafe
    /\ UNCHANGED <<sample, age, latched, pc, read, lag, moved, loopVars, watchVars,
                   permit, uncleared>>

\* read_status: a controller in demand or awaiting its reset is not safe; a
\* driver that fails, or raises, yields the unreachable status.
Observed == {"unreachable", IF ctrl = "safe" THEN "safe" ELSE "demand"}

-----------------------------------------------------------------------------
(* _latch_locked, and demand_halt() from a peer, an overrun, the watchdog *)

\* The stop request is forwarded under the lock; it may or may not arrive.
Latch ==
    /\ latched' = TRUE
    /\ moved' = [o \in Operators |-> o \in Clearing]
    /\ uncleared' = TRUE
    /\ ctrl' \in IF StopInput /\ ctrl = "safe" THEN {"safe", "tripped"} ELSE {ctrl}

DemandHalt ==
    /\ Latch
    /\ UNCHANGED <<sample, age, pc, read, lag, loopVars, watchVars, permit, since,
                   wasSafe>>

-----------------------------------------------------------------------------
(* poll(), called by the loop and by clear() *)

PollSample(t) ==
    /\ pc[t] = "calling"
    /\ \E s \in Observed : read' = [read EXCEPT ![t] = s]
    /\ lag' = [lag EXCEPT ![t] = 0]
    /\ pc' = [pc EXCEPT ![t] = "store"]
    /\ UNCHANGED <<sample, age, latchVars, loopVars, watchVars, permit, since, wasSafe>>

\* The status is stored, and latches unless the latch is set already.
PollStore(t) ==
    /\ pc[t] = "store"
    /\ sample' = read[t] /\ age' = 0
    /\ lag' = [lag EXCEPT ![t] = 0]
    /\ pc' = [pc EXCEPT ![t] = "stored"]
    /\ IF read[t] = "demand" /\ ~latched THEN Latch ELSE UNCHANGED latchVars
    /\ UNCHANGED <<read, loopVars, watchVars, permit, since, wasSafe>>

\* The loop is released at absolute times, whatever the last cycle took.
PollCall ==
    /\ pc[Poller] = "idle" /\ late >= 0
    /\ pc' = [pc EXCEPT ![Poller] = "calling"]
    /\ UNCHANGED <<sample, age, latchVars, read, lag, loopVars, watchVars, permit,
                   since, wasSafe>>

\* _safety_tick pets the watchdog; a cycle that ends late is an overrun.
PollEnd ==
    /\ pc[Poller] = "stored"
    /\ petAge' = 0
    /\ read' = [read EXCEPT ![Poller] = "unreachable"]
    /\ IF late > Deadline
       THEN pc' = [pc EXCEPT ![Poller] = "overrun"] /\ UNCHANGED late
       ELSE pc' = [pc EXCEPT ![Poller] = "idle"] /\ late' = late - Period
    /\ UNCHANGED <<sample, age, latchVars, lag, watchVars, permit, since, wasSafe>>

\* FAIL_SAFE: demand a halt and leave the loop for good.
PollOverrun ==
    /\ pc[Poller] = "overrun"
    /\ Latch
    /\ pc' = [pc EXCEPT ![Poller] = "stopped"]
    /\ UNCHANGED <<sample, age, read, lag, loopVars, watchVars, permit, since,
                   wasSafe>>

-----------------------------------------------------------------------------
(* The watchdog thread; nothing in a node resets a tripped one *)

OverdueWhenAwake == petAge > Timeout /\ pc[Poller] # "calling"   \* fault: same thread
Overdue == petAge > Timeout

WatchdogPoll ==
    /\ wpc = "idle" /\ ~expired /\ Overdue
    /\ expired' = TRUE /\ wpc' = "demand"
    /\ UNCHANGED <<sample, age, latchVars, pc, read, lag, loopVars, permit, since,
                   wasSafe>>

WatchdogExpire ==
    /\ wpc = "demand"
    /\ Latch
    /\ wpc' = "idle"
    /\ UNCHANGED <<sample, age, pc, read, lag, loopVars, expired, permit, since,
                   wasSafe>>

-----------------------------------------------------------------------------
(* clear(), by a local operator *)

ClearBegin(o) ==
    /\ pc[o] = "idle"
    /\ pc' = [pc EXCEPT ![o] = "calling"]
    /\ moved' = [moved EXCEPT ![o] = FALSE]
    /\ wasSafe' = IF ctrl = "safe" THEN wasSafe \cup {o} ELSE wasSafe \ {o}
    /\ UNCHANGED <<ctrl, sample, age, latched, read, lag, loopVars, watchVars,
                   permit, since, uncleared>>

\* The status that clear()'s own poll returned must be safe.
CachedIsSafe(o) == sample = "safe"                         \* fault: shared sample
ConfirmedSafe(o) == read[o] = "safe"

ConfirmationSuffices(o) == ConfirmedSafe(o)                \* fault: no re-check
MayClear(o) == ConfirmedSafe(o) /\ ~moved[o]

ClearEnd(o) ==
    /\ pc[o] = "stored"
    /\ IF MayClear(o)
       THEN latched' = FALSE /\ uncleared' = (uncleared /\ moved[o])
       ELSE UNCHANGED <<latched, uncleared>>
    /\ pc' = [pc EXCEPT ![o] = "idle"]
    /\ read' = [read EXCEPT ![o] = "unreachable"]
    /\ moved' = [moved EXCEPT ![o] = FALSE]
    /\ wasSafe' = wasSafe \ {o}
    /\ UNCHANGED <<ctrl, sample, age, lag, loopVars, watchVars, permit, since>>

-----------------------------------------------------------------------------
(* permit_motion(): the status first, then the latch *)

SafeAtAnyAge == sample = "safe"                            \* fault: no staleness
StatusPermits == sample = "safe" /\ age <= Stale

PermitStatus(d) ==
    /\ permit[d] = "idle" /\ StatusPermits
    /\ permit' = [permit EXCEPT ![d] = "checked"]
    /\ UNCHANGED <<sample, age, latchVars, pc, read, lag, loopVars, watchVars, since,
                   wasSafe>>

PermitLatch(d) ==
    /\ permit[d] = "checked"
    /\ permit' = [permit EXCEPT ![d] = IF latched THEN "idle" ELSE "granted"]
    /\ UNCHANGED <<sample, age, latchVars, pc, read, lag, loopVars, watchVars, since,
                   wasSafe>>

\* The dispatcher goes on with its mission and comes back with another.
PermitUsed(d) ==
    /\ permit[d] = "granted"
    /\ permit' = [permit EXCEPT ![d] = "idle"]
    /\ UNCHANGED <<sample, age, latchVars, pc, read, lag, loopVars, watchVars, since,
                   wasSafe>>

-----------------------------------------------------------------------------
\* Time passes, but a status that was read is stored within ReadTime.
Tick ==
    /\ \A t \in Threads : pc[t] = "store" => lag[t] < ReadTime
    /\ age' = Aged(age, Stale)
    /\ lag' = [t \in Threads |-> IF pc[t] = "store" THEN lag[t] + 1 ELSE lag[t]]
    /\ late' = Aged(late, Deadline)
    /\ petAge' = Aged(petAge, Timeout)
    /\ since' = IF ctrl = "safe" THEN 0 ELSE Aged(since, Stale + ReadTime)
    /\ UNCHANGED <<sample, latchVars, pc, read, watchVars, permit, wasSafe>>

\* build_node polls once before the loops start.
SafetyInit ==
    /\ ctrl \in {"safe", "tripped"}
    /\ sample \in Observed
    /\ latched = (sample = "demand") /\ uncleared = latched
    /\ age = 0 /\ since = 0 /\ late = 0 /\ petAge = 0
    /\ pc = [t \in Threads |-> "idle"]
    /\ read = [t \in Threads |-> "unreachable"]
    /\ lag = [t \in Threads |-> 0]
    /\ moved = [o \in Operators |-> FALSE]
    /\ expired = FALSE /\ wpc = "idle"
    /\ permit = [d \in Dispatchers |-> "idle"]
    /\ wasSafe = {}

LoopStep == PollCall \/ PollEnd \/ PollOverrun
WatchdogStep == WatchdogPoll \/ WatchdogExpire
ClearStep(o) == ClearBegin(o) \/ ClearEnd(o)
PermitStep(d) == PermitStatus(d) \/ PermitLatch(d) \/ PermitUsed(d)

SafetyNext ==
    \/ ControllerStep \/ DemandHalt \/ Tick
    \/ LoopStep \/ WatchdogStep
    \/ \E t \in Threads : PollSample(t) \/ PollStore(t)
    \/ \E o \in Operators : ClearStep(o)
    \/ \E d \in Dispatchers : PermitStep(d)

\* Clocks advance; threads that do not wait for the controller run.  Nothing
\* is assumed of the controller: a reading may never return.
SafetyFairness ==
    /\ WF_safetyVars(Tick)
    /\ WF_safetyVars(PollEnd \/ PollOverrun)
    /\ WF_safetyVars(WatchdogStep)
    /\ \A t \in Threads : WF_safetyVars(PollStore(t))

SafetySpec == SafetyInit /\ [][SafetyNext]_safetyVars
FairSafetySpec == SafetySpec /\ SafetyFairness

-----------------------------------------------------------------------------
(* Properties *)

\* One type invariant for the supervisor, the loop, the watchdog and the
\* threads; statuses are the three that SafetyStatus can amount to.
SafetyTypeOK ==
    /\ ctrl \in {"safe", "demand", "tripped"}
    /\ sample \in Statuses
    /\ age \in 0 .. Stale + 1
    /\ latched \in BOOLEAN
    /\ pc \in [Threads -> {"idle", "calling", "store", "stored", "overrun", "stopped"}]
    /\ read \in [Threads -> Statuses]
    /\ lag \in [Threads -> 0 .. ReadTime]
    /\ moved \in [Operators -> BOOLEAN]
    /\ late \in -Period .. Deadline + 1
    /\ petAge \in 0 .. Timeout + 1
    /\ expired \in BOOLEAN /\ wpc \in {"idle", "demand"}
    /\ permit \in [Dispatchers -> {"idle", "checked", "granted"}]
    /\ since \in 0 .. Stale + ReadTime + 1
    /\ uncleared \in BOOLEAN
    /\ wasSafe \subseteq Operators

\* permit_motion() never grants motion under a halt that was latched before
\* it decided and that no clear() begun after the halt has cleared, although
\* status and latch are read in two steps and clears race with demands.
NoGrantUnderHalt ==
    [][\A d \in Dispatchers : permit'[d] = "granted" /\ permit[d] # "granted"
          => ~uncleared]_safetyVars

\* A status that permits motion is not older than it says: the controller
\* was safe within the staleness budget plus the time a reading takes, even
\* when a slow reading overwrites a newer one.
PermissionIsFresh == StatusPermits => since <= Stale + ReadTime

\* The latch falls only in a clear() during which the controller was safe:
\* an old safe sample never confirms a clear (condition 2 of clear()).
ClearIsConfirmed ==
    [][latched /\ ~latched' =>
          \E o \in Operators : pc[o] = "stored" /\ pc'[o] = "idle" /\ o \in wasSafe
      ]_safetyVars

\* The poll loop waits for the controller past its deadline.
Wedged == pc[Poller] = "calling" /\ late > Deadline /\ ~expired

\* A poll that waits past its deadline, or never returns, latches a halt:
\* its own overrun or the watchdog on its own thread demands one.
WedgedPollHalts == Wedged ~> latched
=============================================================================
