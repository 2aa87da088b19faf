--------------------------------- MODULE Schedule ---------------------------------
(***************************************************************************)
(* Periodic work and the deadline watchdog (realtime/scheduler.py,         *)
(* realtime/watchdog.py, wired as deployment.py does): one CyclicExecutor  *)
(* whose work pets a watchdog that checks on a thread of its own.          *)
(*                                                                         *)
(* Time is a counter.  Sleeping, working and on_overrun take any time; the *)
(* watchdog's own thread is punctual, as a thread with nothing else to do. *)
(***************************************************************************)
EXTENDS Integers

CONSTANTS Period, Deadline,         \* of the executor
          Timeout, CheckInterval,   \* of the watchdog
          LastBeat                  \* bound on the clock

ASSUME ScheduleAssumption ==
    /\ {Period, Deadline, Timeout, CheckInterval} \subseteq Nat \ {0} /\ Deadline <= Period
    /\ LastBeat \in Nat

VARIABLES
    clock,
    mode,       \* [policy, autoReset], given to the constructors
    loop,       \* [at, index, finished, late]: late, whether the last cycle overran
    tally,      \* [cycles, overruns, skipped]
    halting,    \* _stop of the executor
    pet,        \* _last_pet_ns
    expired,    \* _expired
    dog,        \* the check loop: [at, due, back], back: when on_expire last returned
    acted       \* [expiries, calls]: _expiry_count, and calls of on_expire

scheduleVars == <<clock, mode, loop, tally, halting, pet, expired, dog, acted>>
watchdog == <<pet, expired, dog, acted>>
Policies == {"skip", "catch_up", "fail_safe"}
Releases(n) == n * Period       \* the origin is the start of the clock

-----------------------------------------------------------------------------
(* CyclicExecutor.run *)

LoopTest ==
    /\ loop.at = "test"
    /\ loop' = [loop EXCEPT !.at = IF halting THEN "ended" ELSE "sleep"]
    /\ UNCHANGED <<clock, mode, tally, halting, watchdog>>
\* sleep_until_ns never returns early.
Wake ==
    /\ loop.at = "sleep" /\ clock >= Releases(loop.index)
    /\ loop' = [loop EXCEPT !.at = "work"]
    /\ UNCHANGED <<clock, mode, tally, halting, watchdog>>

\* DeadlineWatchdog.pet, the last thing a tick does.
Pet ==
    /\ pet' = clock
    /\ expired' = (expired /\ ~mode.autoReset)
    /\ UNCHANGED <<dog, acted>>

\* A cycle that raises is counted, and ends the run.
WorkRaises ==
    /\ loop.at = "work"
    /\ tally' = [tally EXCEPT !.cycles = @ + 1]
    /\ loop' = [loop EXCEPT !.at = "ended", !.finished = clock, !.late = FALSE]
    /\ UNCHANGED <<clock, mode, halting, watchdog>>
WorkEnds ==
    LET late == clock - Releases(loop.index) > Deadline
    IN /\ loop.at = "work"
       /\ tally' = [tally EXCEPT !.cycles = @ + 1, !.overruns = @ + (IF late THEN 1 ELSE 0)]
       /\ loop' = [at |-> IF late THEN "overrun" ELSE "test", index |-> loop.index + 1,
                   finished |-> clock, late |-> late]
       /\ Pet
       /\ UNCHANGED <<clock, mode, halting>>

\* on_overrun has returned, after any time: the policy takes its turn.
MissedByOne == loop.finished \div Period - loop.index              \* fault: not past the present
Missed == loop.finished \div Period + 1 - loop.index
Resync ==
    /\ loop.at = "overrun"
    /\ LET n == IF mode.policy = "skip" /\ Missed > 0 THEN Missed ELSE 0
       IN /\ tally' = [tally EXCEPT !.skipped = @ + n]
          /\ loop' = [loop EXCEPT !.at = "test", !.index = @ + n]
    /\ halting' = (halting \/ mode.policy = "fail_safe")
    /\ UNCHANGED <<clock, mode, watchdog>>
StopLoop ==
    /\ ~halting /\ halting' = TRUE
    /\ UNCHANGED <<clock, mode, loop, tally, watchdog>>

-----------------------------------------------------------------------------
(* DeadlineWatchdog *)

\* The wait before the next check: a fraction of the timeout.
WaitForTimeout == Timeout           \* fault: "checked once per timeout"
Wait == CheckInterval

\* poll(), under the lock.
DogPolls ==
    /\ dog.at = "waiting" /\ clock >= dog.due
    /\ IF ~expired /\ clock - pet > Timeout
       THEN /\ expired' = TRUE /\ acted' = [acted EXCEPT !.expiries = @ + 1]
            /\ dog' = [dog EXCEPT !.at = "expiring"]
       ELSE dog' = [dog EXCEPT !.due = clock + Wait] /\ UNCHANGED <<expired, acted>>
    /\ UNCHANGED <<clock, mode, loop, tally, halting, pet>>
\* on_expire runs outside the lock; what it raises is swallowed.
DogActs ==
    /\ dog.at = "expiring"
    /\ acted' = [acted EXCEPT !.calls = @ + 1]
    /\ dog' = [at |-> "waiting", due |-> clock + Wait, back |-> clock]
    /\ UNCHANGED <<clock, mode, loop, tally, halting, pet, expired>>
StopDog ==
    /\ dog.at = "waiting"
    /\ dog' = [dog EXCEPT !.at = "stopped"]
    /\ UNCHANGED <<clock, mode, loop, tally, halting, pet, expired, acted>>
\* reset(): a local operator, at any time, also while on_expire is about to run.
ResetDog ==
    /\ expired /\ expired' = FALSE /\ pet' = clock
    /\ UNCHANGED <<clock, mode, loop, tally, halting, dog, acted>>

Tick ==
    /\ clock < LastBeat /\ ~(dog.at = "waiting" /\ clock >= dog.due)
    /\ clock' = clock + 1
    /\ UNCHANGED <<mode, loop, tally, halting, watchdog>>

ScheduleInit ==
    /\ clock = 0 /\ mode \in [policy : Policies, autoReset : BOOLEAN]
    /\ loop = [at |-> "test", index |-> 0, finished |-> 0, late |-> FALSE]
    /\ tally = [cycles |-> 0, overruns |-> 0, skipped |-> 0] /\ halting = FALSE
    /\ pet = 0 /\ expired = FALSE /\ dog = [at |-> "waiting", due |-> Wait, back |-> 0]
    /\ acted = [expiries |-> 0, calls |-> 0]
ScheduleNext ==
    \/ LoopTest \/ Wake \/ WorkRaises \/ WorkEnds \/ Resync \/ StopLoop
    \/ DogPolls \/ DogActs \/ StopDog \/ ResetDog \/ Tick
ScheduleSpec == ScheduleInit /\ [][ScheduleNext]_scheduleVars

-----------------------------------------------------------------------------
(* Properties *)

\* Types of the state (run(), pet(), poll()).
ScheduleTypeOK ==
    /\ clock \in Nat /\ pet \in Nat /\ halting \in BOOLEAN /\ expired \in BOOLEAN
    /\ mode \in [policy : Policies, autoReset : BOOLEAN]
    /\ loop \in [at : {"test", "sleep", "work", "overrun", "ended"}, index : Nat,
                 finished : Nat, late : BOOLEAN]
    /\ tally \in [cycles : Nat, overruns : Nat, skipped : Nat]
    /\ dog \in [at : {"waiting", "expiring", "stopped"}, due : Nat, back : Nat]
    /\ acted \in [expiries : Nat, calls : Nat]

\* "Lateness is absorbed once instead of inherited by every subsequent
\* cycle" (scheduler.py): whatever the cycles took, under SKIP the release
\* that follows an overrun is the first one after the late cycle's end, so
\* every release up to it was run or counted as skipped; under CATCH_UP no
\* release is dropped; under FAIL_SAFE none follows an overrun.
ScheduleIsKept ==
    LET next == Releases(loop.index)
    IN loop.at \in {"test", "sleep"} =>
       /\ tally.cycles + tally.skipped = loop.index
       /\ mode.policy = "skip" /\ loop.late => loop.finished < next /\ next <= loop.finished + Period
       /\ mode.policy = "catch_up" => tally.skipped = 0
       /\ mode.policy = "fail_safe" => ~(loop.at = "sleep" /\ tally.overruns > 0)

\* While the watchdog waits for its next check, a stall is latched no later
\* than the timeout and one check interval after the last sign of life, or
\* one interval after an on_expire that held the thread up returned; and
\* every latch calls on_expire once, whatever pets, resets or wedges the
\* loop meanwhile.
StallIsCaught ==
    /\ dog.at = "waiting" /\ clock - pet > Timeout + CheckInterval
           => expired \/ clock - dog.back <= CheckInterval
    /\ acted.expiries = acted.calls + (IF dog.at = "expiring" THEN 1 ELSE 0)
=============================================================================
