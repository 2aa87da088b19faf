------------------------------ MODULE PlantProofs ------------------------------
(***************************************************************************)
(* Machine-checked facts about the parts of a node that face the machine:  *)
(* the cyclic executor with its watchdog, for every period, deadline and   *)
(* timeout; the field bus, for any number of threads and signals; verdicts *)
(* on where robots are, for every error of their clocks; time transfer, for *)
(* every delay; and frame links, for every finite set of frames.           *)
(***************************************************************************)
EXTENDS Schedule, Fieldbus, GuardBand, TimeTransfer, Frames, SequenceTheorems, WellFoundedInduction, TLAPS

-----------------------------------------------------------------------------
(* Schedule: the inductive invariant *)

\* The run of releases: what is accounted for, and what an overrun is owed.
LoopInv ==
    /\ loop.at \in {"test", "sleep", "work"} =>
          /\ tally.cycles + tally.skipped = loop.index
          /\ mode.policy = "skip" /\ loop.late =>
                loop.finished < Releases(loop.index) /\ Releases(loop.index) <= loop.finished + Period
          /\ mode.policy = "fail_safe" /\ tally.overruns > 0 => loop.at = "test" /\ halting
    /\ loop.at = "overrun" =>
          /\ tally.cycles + tally.skipped = loop.index
          /\ Releases(loop.index) < loop.finished + Period
    /\ loop.at = "work" => Releases(loop.index) <= clock
    /\ mode.policy # "skip" => tally.skipped = 0

\* A check is due an interval after the last one, and that one found the
\* watchdog petted in time, expired, or just back from its action.
DogInv ==
    dog.at = "waiting" =>
       /\ clock <= dog.due /\ dog.due <= clock + CheckInterval
       /\ \/ dog.due - pet <= Timeout + CheckInterval
          \/ expired
          \/ dog.due = dog.back + CheckInterval
ExpiryInv ==
    /\ pet <= clock
    /\ acted.expiries = acted.calls + (IF dog.at = "expiring" THEN 1 ELSE 0)

ScheduleInv == ScheduleTypeOK /\ LoopInv /\ DogInv /\ ExpiryInv

\* A moment lies in one period: after its last release, before the next.
LEMMA LastRelease ==
    ASSUME NEW n \in Nat
    PROVE  /\ n \div Period \in Nat
           /\ Releases(n \div Period) <= n
           /\ n < Releases(n \div Period + 1)
           /\ Releases(n \div Period + 1) <= n + Period
<1>1. PICK q : q = n \div Period
  OBVIOUS
<1>2. q \in Nat /\ q * Period <= n /\ n < q * Period + Period
  BY <1>1, ScheduleAssumption
<1>3. (q + 1) * Period = q * Period + Period /\ q * Period \in Nat
  BY <1>2, ScheduleAssumption
<1>4. QED
  BY <1>1, <1>2, <1>3, ScheduleAssumption DEF Releases

LEMMA NextRelease ==
    ASSUME NEW n \in Nat
    PROVE  /\ Releases(n) \in Nat /\ Releases(n + 1) = Releases(n) + Period
           /\ \A m \in Nat : m <= n => Releases(m) <= Releases(n)
BY ScheduleAssumption DEF Releases

LEMMA ScheduleInitially == ASSUME ScheduleInit PROVE ScheduleInv
<1>1. ScheduleTypeOK
  BY ScheduleAssumption DEF ScheduleInit, ScheduleTypeOK, Wait
<1>2. LoopInv /\ DogInv /\ ExpiryInv
  BY ScheduleAssumption DEF ScheduleInit, LoopInv, DogInv, ExpiryInv, Wait
<1>3. QED
  BY <1>1, <1>2 DEF ScheduleInv

-----------------------------------------------------------------------------
(* Schedule: every step keeps the invariant *)

LEMMA ScheduleTypeStep ==
    ASSUME ScheduleTypeOK, [ScheduleNext]_scheduleVars
    PROVE  ScheduleTypeOK'
<1>1. loop' \in [at : {"test", "sleep", "work", "overrun", "ended"}, index : Nat,
                 finished : Nat, late : BOOLEAN]
  <2>1. CASE LoopTest \/ Wake \/ WorkRaises
    BY <2>1 DEF LoopTest, Wake, WorkRaises, ScheduleTypeOK
  <2>2. CASE WorkEnds
    BY <2>2 DEF WorkEnds, ScheduleTypeOK
  <2>3. CASE Resync
    <3>1. loop.finished \div Period \in Nat /\ loop.index \in Nat
      BY LastRelease DEF ScheduleTypeOK
    <3>2. PICK n : /\ n = IF mode.policy = "skip" /\ Missed > 0 THEN Missed ELSE 0
                   /\ loop' = [loop EXCEPT !.at = "test", !.index = @ + n]
      BY <2>3 DEF Resync
    <3>3. n \in Nat BY <3>1, <3>2 DEF Missed
    <3>4. loop.index + n \in Nat BY <3>1, <3>3
    <3>5. loop' = [loop EXCEPT !.at = "test", !.index = loop.index + n] BY <3>2
    <3> QED BY <3>4, <3>5 DEF ScheduleTypeOK
  <2>4. CASE UNCHANGED loop
    BY <2>4 DEF ScheduleTypeOK
  <2> QED
    BY <2>1, <2>2, <2>3, <2>4 DEF ScheduleNext, StopLoop, DogPolls, DogActs, StopDog, ResetDog, Tick,
       watchdog, scheduleVars
<1>2. tally' \in [cycles : Nat, overruns : Nat, skipped : Nat]
  <2>1. CASE WorkRaises
    BY <2>1 DEF WorkRaises, ScheduleTypeOK
  <2>2. CASE WorkEnds
    <3>1. PICK k \in Nat : tally' = [tally EXCEPT !.cycles = @ + 1, !.overruns = @ + k]
      BY <2>2 DEF WorkEnds
    <3>2. tally.cycles + 1 \in Nat /\ tally.overruns + k \in Nat BY <3>1 DEF ScheduleTypeOK
    <3>3. tally' = [tally EXCEPT !.cycles = tally.cycles + 1, !.overruns = tally.overruns + k]
      BY <3>1
    <3> QED BY <3>2, <3>3 DEF ScheduleTypeOK
  <2>3. CASE Resync
    <3>1. loop.finished \div Period \in Nat /\ loop.index \in Nat
      BY LastRelease DEF ScheduleTypeOK
    <3>2. PICK n : /\ n = IF mode.policy = "skip" /\ Missed > 0 THEN Missed ELSE 0
                   /\ tally' = [tally EXCEPT !.skipped = @ + n]
      BY <2>3 DEF Resync
    <3>3. n \in Nat BY <3>1, <3>2 DEF Missed
    <3> QED BY <3>2, <3>3 DEF ScheduleTypeOK
  <2>4. CASE UNCHANGED tally
    BY <2>4 DEF ScheduleTypeOK
  <2> QED
    BY <2>1, <2>2, <2>3, <2>4 DEF ScheduleNext, LoopTest, Wake, StopLoop, DogPolls, DogActs, StopDog,
       ResetDog, Tick, scheduleVars
<1>3. dog' \in [at : {"waiting", "expiring", "stopped"}, due : Nat, back : Nat]
  BY ScheduleAssumption DEF ScheduleTypeOK, ScheduleNext, scheduleVars, LoopTest, Wake, WorkRaises, WorkEnds,
     Pet, Resync, StopLoop, DogPolls, DogActs, StopDog, ResetDog, Tick, watchdog, Wait
<1>4. acted' \in [expiries : Nat, calls : Nat]
  BY DEF ScheduleTypeOK, ScheduleNext, scheduleVars, LoopTest, Wake, WorkRaises, WorkEnds,
     Pet, Resync, StopLoop, DogPolls, DogActs, StopDog, ResetDog, Tick, watchdog
<1>5. clock' \in Nat /\ pet' \in Nat /\ mode' = mode
  BY DEF ScheduleTypeOK, ScheduleNext, scheduleVars, LoopTest, Wake, WorkRaises, WorkEnds,
     Pet, Resync, StopLoop, DogPolls, DogActs, StopDog, ResetDog, Tick, watchdog
<1>6. halting' \in BOOLEAN
  BY DEF ScheduleTypeOK, ScheduleNext, scheduleVars, LoopTest, Wake, WorkRaises, WorkEnds,
     Pet, Resync, StopLoop, DogPolls, DogActs, StopDog, ResetDog, Tick, watchdog
<1>7. expired' \in BOOLEAN
  BY DEF ScheduleTypeOK, ScheduleNext, scheduleVars, LoopTest, Wake, WorkRaises, WorkEnds,
     Pet, Resync, StopLoop, DogPolls, DogActs, StopDog, ResetDog, Tick, watchdog
<1>8. QED
  BY <1>1, <1>2, <1>3, <1>4, <1>5, <1>6, <1>7 DEF ScheduleTypeOK

LEMMA LoopStep ==
    ASSUME ScheduleInv, [ScheduleNext]_scheduleVars
    PROVE  LoopInv'
<1>0. /\ ScheduleTypeOK /\ LoopInv /\ loop.index \in Nat /\ loop.finished \in Nat /\ clock \in Nat
      /\ loop.index + 1 \in Nat /\ Period \in Nat \ {0} /\ Deadline \in Nat
      /\ tally.cycles \in Nat /\ tally.skipped \in Nat /\ tally.overruns \in Nat
  BY ScheduleAssumption DEF ScheduleInv, ScheduleTypeOK
<1>1. CASE LoopTest \/ Wake \/ WorkRaises
  <2>1. CASE LoopTest
    <3>1. /\ loop'.at = (IF halting THEN "ended" ELSE "sleep") /\ loop.at = "test"
          /\ loop'.index = loop.index /\ loop'.finished = loop.finished /\ loop'.late = loop.late
          /\ UNCHANGED <<tally, mode>>
      BY <2>1 DEF LoopTest, ScheduleTypeOK, ScheduleInv
    <3> QED BY <1>0, <3>1 DEF LoopInv
  <2>2. CASE Wake
    <3>1. /\ loop'.at = "work" /\ loop.at = "sleep" /\ clock' = clock
          /\ loop'.index = loop.index /\ loop'.finished = loop.finished /\ loop'.late = loop.late
          /\ Releases(loop.index) <= clock /\ UNCHANGED <<tally, mode>>
      BY <1>0, <2>2, NextRelease DEF Wake, ScheduleTypeOK
    <3> QED BY <1>0, <3>1 DEF LoopInv
  <2>3. CASE WorkRaises
    <3>1. /\ loop'.at = "ended" /\ mode' = mode /\ tally'.skipped = tally.skipped
      BY <1>0, <2>3 DEF WorkRaises, ScheduleTypeOK
    <3> QED BY <1>0, <3>1 DEF LoopInv
  <2> QED BY <1>1, <2>1, <2>2, <2>3
<1>2. CASE WorkEnds
  <2>1. /\ loop'.index = loop.index + 1 /\ loop'.finished = clock
        /\ loop'.late \in BOOLEAN /\ loop'.late <=> clock - Releases(loop.index) > Deadline
        /\ loop'.at = (IF loop'.late THEN "overrun" ELSE "test")
    BY <1>2 DEF WorkEnds
  <2>2. /\ tally'.cycles = tally.cycles + 1 /\ tally'.skipped = tally.skipped
        /\ tally'.overruns = tally.overruns + (IF loop'.late THEN 1 ELSE 0)
    BY <1>0, <1>2, <2>1 DEF WorkEnds, ScheduleTypeOK
  <2>3. Releases(loop.index) \in Nat /\ Releases(loop.index + 1) = Releases(loop.index) + Period
    BY <1>0, NextRelease
  <2>4. loop.at = "work" /\ mode' = mode
    BY <1>2 DEF WorkEnds
  <2>5. CASE loop'.late
    BY <1>0, <2>1, <2>2, <2>3, <2>4, <2>5 DEF LoopInv
  <2>6. CASE ~loop'.late
    BY <1>0, <2>1, <2>2, <2>3, <2>4, <2>6 DEF LoopInv
  <2> QED
    BY <2>5, <2>6
<1>3. CASE Resync
  <2> DEFINE last == loop.finished \div Period
  <2>1. /\ last \in Nat /\ loop.finished < Releases(last + 1)
        /\ Releases(last + 1) <= loop.finished + Period
    BY <1>0, LastRelease
  <2>2. Releases(loop.index) \in Nat /\ Releases(last + 1) \in Nat /\ (last + 1 <= loop.index => Releases(last + 1) <= Releases(loop.index))
    <3>1. last + 1 \in Nat BY <2>1
    <3> HIDE DEF last
    <3> QED BY <1>0, <3>1, NextRelease
  <2>3. PICK n \in Nat :
          /\ n = IF mode.policy = "skip" /\ Missed > 0 THEN Missed ELSE 0
          /\ tally' = [tally EXCEPT !.skipped = @ + n]
          /\ loop' = [loop EXCEPT !.at = "test", !.index = @ + n]
    <3>1. PICK n : /\ n = IF mode.policy = "skip" /\ Missed > 0 THEN Missed ELSE 0
                   /\ tally' = [tally EXCEPT !.skipped = @ + n]
                   /\ loop' = [loop EXCEPT !.at = "test", !.index = @ + n]
      BY <1>3 DEF Resync
    <3>2. n \in Nat BY <1>0, <2>1, <3>1 DEF Missed
    <3> QED BY <3>1, <3>2
  <2>4. /\ tally'.cycles = tally.cycles /\ tally'.skipped = tally.skipped + n
        /\ tally'.overruns = tally.overruns
        /\ loop'.at = "test" /\ loop'.index = loop.index + n /\ loop'.finished = loop.finished
        /\ loop'.late = loop.late /\ mode' = mode /\ loop.at = "overrun"
        /\ (mode.policy = "fail_safe" => halting')
    BY <1>0, <1>3, <2>3 DEF Resync, ScheduleTypeOK
  <2>5. mode.policy = "skip" =>
          /\ loop.finished < Releases(loop.index + n)
          /\ Releases(loop.index + n) <= loop.finished + Period
    <3>1. CASE last + 1 <= loop.index
      <4>1. n = 0 BY <1>0, <2>1, <2>3, <3>1 DEF Missed
      <4>2. Releases(loop.index) < loop.finished + Period BY <1>0, <2>4 DEF LoopInv
      <4>3. loop.index + n = loop.index BY <1>0, <4>1
      <4> HIDE DEF last
      <4> QED BY <1>0, <2>1, <2>2, <3>1, <4>2, <4>3
    <3>2. CASE last + 1 > loop.index
      BY <1>0, <2>1, <2>3, <3>2 DEF Missed
    <3> QED BY <1>0, <2>1, <3>1, <3>2
  <2>6. mode.policy # "skip" => n = 0
    BY <2>3
  <2> QED
    BY <1>0, <2>3, <2>4, <2>5, <2>6 DEF LoopInv
<1>4. CASE UNCHANGED <<loop, tally, mode>>
  <2>1. clock' \in Nat /\ clock <= clock'
    BY <1>0 DEF ScheduleNext, scheduleVars, LoopTest, Wake, WorkRaises, WorkEnds, Pet,
       Resync, StopLoop, DogPolls, DogActs, StopDog, ResetDog, Tick, watchdog
  <2>2. halting => halting'
    BY DEF ScheduleNext, scheduleVars, LoopTest, Wake, WorkRaises, WorkEnds, Pet,
       Resync, StopLoop, DogPolls, DogActs, StopDog, ResetDog, Tick, watchdog
  <2>3. Releases(loop.index) \in Nat
    BY <1>0, NextRelease
  <2> QED BY <1>0, <1>4, <2>1, <2>2, <2>3 DEF LoopInv
<1>5. QED
  BY <1>1, <1>2, <1>3, <1>4 DEF ScheduleNext, StopLoop, DogPolls, DogActs, StopDog, ResetDog, Tick,
     scheduleVars

LEMMA DogStep ==
    ASSUME ScheduleInv, [ScheduleNext]_scheduleVars
    PROVE  DogInv' /\ ExpiryInv'
<1>0. /\ clock \in Nat /\ pet \in Nat /\ dog.due \in Nat /\ dog.back \in Nat
      /\ acted.expiries \in Nat /\ acted.calls \in Nat
      /\ dog.at \in {"waiting", "expiring", "stopped"}
      /\ Timeout \in Nat /\ CheckInterval \in Nat /\ Wait = CheckInterval
      /\ ScheduleTypeOK /\ DogInv /\ ExpiryInv
  BY ScheduleAssumption DEF ScheduleInv, ScheduleTypeOK, Wait
<1>1. CASE DogPolls
  <2>1. CASE ~expired /\ clock - pet > Timeout
    BY <1>0, <1>1, <2>1 DEF DogPolls, DogInv, ExpiryInv, ScheduleTypeOK
  <2>2. CASE expired \/ clock - pet <= Timeout
    BY <1>0, <1>1, <2>2 DEF DogPolls, DogInv, ExpiryInv, ScheduleTypeOK
  <2> QED BY <1>0, <2>1, <2>2
<1>2. CASE DogActs
  BY <1>0, <1>2 DEF DogActs, DogInv, ExpiryInv, ScheduleTypeOK
<1>3. CASE StopDog
  BY <1>0, <1>3 DEF StopDog, DogInv, ExpiryInv, ScheduleTypeOK
<1>4. CASE ResetDog
  BY <1>0, <1>4 DEF ResetDog, DogInv, ExpiryInv
<1>5. CASE Tick
  BY <1>0, <1>5 DEF Tick, DogInv, ExpiryInv, watchdog
<1>6. CASE WorkEnds
  BY <1>0, <1>6 DEF WorkEnds, Pet, DogInv, ExpiryInv
<1>7. CASE UNCHANGED <<clock, pet, expired, dog, acted>>
  BY <1>0, <1>7 DEF DogInv, ExpiryInv
<1>8. QED
  BY <1>1, <1>2, <1>3, <1>4, <1>5, <1>6, <1>7 DEF ScheduleNext, LoopTest, Wake, WorkRaises, Resync, StopLoop,
     watchdog, scheduleVars

LEMMA ScheduleInvariant == ScheduleSpec => []ScheduleInv
<1>1. ScheduleInv /\ [ScheduleNext]_scheduleVars => ScheduleInv'
  BY ScheduleTypeStep, LoopStep, DogStep DEF ScheduleInv
<1>2. QED
  BY ScheduleInitially, <1>1, PTL DEF ScheduleSpec

\* The executor and the watchdog keep the types of their state (scheduler.py,
\* watchdog.py).
THEOREM ScheduleTypeCorrect == ScheduleSpec => []ScheduleTypeOK
<1>1. ScheduleInv => ScheduleTypeOK
  BY DEF ScheduleInv
<1>2. QED
  BY <1>1, ScheduleInvariant, PTL

\* For every period, deadline and duration of a cycle the releases are run or
\* counted as each overrun policy of run() promises (scheduler.py).
THEOREM ReleasesKept == ScheduleSpec => []ScheduleIsKept
<1>1. ScheduleInv => ScheduleIsKept
  BY DEF ScheduleInv, LoopInv, ScheduleIsKept, ScheduleTypeOK, Policies
<1>2. QED
  BY <1>1, ScheduleInvariant, PTL

\* For every timeout and check interval a stall is latched in time and every
\* latch calls on_expire once (poll() and start() of watchdog.py).
THEOREM StallLatched == ScheduleSpec => []StallIsCaught
<1>1. ScheduleInv => StallIsCaught
  BY ScheduleAssumption DEF ScheduleInv, ScheduleTypeOK, DogInv, ExpiryInv, StallIsCaught
<1>2. QED
  BY <1>1, ScheduleInvariant, PTL

-----------------------------------------------------------------------------
(* Fieldbus: the inductive invariant *)

\* One thread at a time waits, and it holds the lock; what is on the wire is
\* its request or the reply to it, and nothing else.
HolderInv ==
    /\ holder # {} => \E t \in Threads : holder = {t}
    /\ \A t \in Threads : caller[t].at = "waiting" <=> holder = {t}
    /\ holder = {} => wire.requests = <<>> /\ wire.replies = <<>>
    /\ holder # {} => Len(wire.requests) + Len(wire.replies) = 1

\* A read has seen every value of the plant since it began, the present one
\* included.
SeenOk(c, bits) ==
    /\ c.seen # {} => bits \in c.seen
    /\ c.at \in {"ready", "waiting"} /\ c.asks.op # "write" => c.seen # {}

\* What it has of a space is one of those values.
FreshOk(c) ==
    \A p \in Spaces : InSpace(p) \subseteq DOMAIN c.got =>
        \E bits \in c.seen : \A s \in InSpace(p) : c.got[s] = (bits[s] # ActiveLow(s))

\* Only a read is answered by a block, and by one that it has seen.
WireOk(c) ==
    /\ wire.requests # <<>> /\ Head(wire.requests).op = "read" => c.asks.op # "write"
    /\ wire.replies # <<>> /\ Head(wire.replies).op = "read" =>
          \E bits \in c.seen :
             Head(wire.replies).block = [s \in InSpace(Head(wire.replies).space) |-> bits[s]]

CallersInv == \A t \in Threads : SeenOk(caller[t], plant) /\ FreshOk(caller[t])
WireInv == \A t \in Threads : holder = {t} => WireOk(caller[t])

FieldbusInv == FieldbusTypeOK /\ HolderInv /\ CallersInv /\ WireInv

-----------------------------------------------------------------------------
(* Fieldbus: operators *)

LEMMA IdleFacts ==
    /\ IdleCaller \in Callers /\ IdleCaller.at = "idle" /\ IdleCaller.seen = {}
    /\ DOMAIN IdleCaller.got = {} /\ IdleCaller.asks = NoAsk
<1>1. [s \in {} |-> FALSE] \in Readings
  <2>1. [s \in {} |-> FALSE] \in [{} -> BOOLEAN]
    OBVIOUS
  <2>2. {} \in SUBSET Signals
    OBVIOUS
  <2> QED
    BY <2>1, <2>2 DEF Readings
<1>2. NoAsk \in [op : {"none", "write"}, signal : Signals \cup {"none"}, value : BOOLEAN]
  BY DEF NoAsk
<1>3. QED
  BY <1>1, <1>2 DEF IdleCaller, Callers

\* A reading of no signal is one of no space.
LEMMA NothingRead ==
    ASSUME NEW c, DOMAIN c.got = {}
    PROVE  FreshOk(c)
BY DEF FreshOk, Spaces, InSpace

LEMMA Polarity ==
    ASSUME NEW s \in Signals, NEW raw \in BOOLEAN
    PROVE  Evaluate(s, raw) \in BOOLEAN /\ Evaluate(s, raw) = (raw # ActiveLow(s))
<1>1. ActiveLow(s) \in BOOLEAN
  BY FieldbusAssumption
<1>2. QED
  BY <1>1 DEF Evaluate

\* One caller changes, and has what the invariant asks of it.
LEMMA OneCaller ==
    ASSUME FieldbusInv, NEW t \in Threads, NEW c \in Callers, SeenOk(c, plant), FreshOk(c),
           caller' = [caller EXCEPT ![t] = c], plant' = plant
    PROVE  /\ caller' \in [Threads -> Callers] /\ CallersInv'
           /\ caller'[t] = c /\ \A u \in Threads : u # t => caller'[u] = caller[u]
<1>1. caller \in [Threads -> Callers] /\ CallersInv
  BY DEF FieldbusInv, FieldbusTypeOK
<1>2. /\ caller' \in [Threads -> Callers]
      /\ caller'[t] = c /\ \A u \in Threads : u # t => caller'[u] = caller[u]
  BY <1>1
<1>3. \A u \in Threads : SeenOk(caller'[u], plant') /\ FreshOk(caller'[u])
  BY <1>1, <1>2 DEF CallersInv
<1>4. QED
  BY <1>2, <1>3 DEF CallersInv, FreshOk

\* The plant changes, and every read that is under way sees it.
LEMMA AllSee ==
    ASSUME FieldbusInv, NEW new \in Bits, caller' = Sees(new), plant' = new
    PROVE  /\ caller' \in [Threads -> Callers] /\ CallersInv'
           /\ \A u \in Threads : /\ caller'[u].at = caller[u].at /\ caller'[u].asks = caller[u].asks
                                 /\ caller[u].seen \subseteq caller'[u].seen
<1>1. caller \in [Threads -> Callers] /\ CallersInv
  BY DEF FieldbusInv, FieldbusTypeOK
<1>2. ASSUME NEW u \in Threads
      PROVE  /\ caller'[u] \in Callers /\ caller'[u].at = caller[u].at /\ caller'[u].got = caller[u].got
             /\ caller'[u].asks = caller[u].asks
             /\ caller'[u].seen = IF caller[u].seen = {} THEN {} ELSE caller[u].seen \cup {new}
  <2>1. caller[u] \in Callers
    BY <1>1
  <2>2. CASE caller[u].seen = {}
    BY <2>1, <2>2 DEF Sees
  <2>3. CASE caller[u].seen # {}
    <3>1. caller'[u] = [caller[u] EXCEPT !.seen = caller[u].seen \cup {new}]
      BY <2>3 DEF Sees
    <3> QED
      BY <2>1, <2>3, <3>1 DEF Callers
  <2> QED
    BY <2>2, <2>3
<1>3. caller' \in [Threads -> Callers]
  BY <1>2 DEF Sees
<1>4. \A u \in Threads : caller[u].seen \subseteq caller'[u].seen
  BY <1>2
<1>5. ASSUME NEW u \in Threads PROVE SeenOk(caller'[u], plant') /\ FreshOk(caller'[u])
  <2>1. SeenOk(caller[u], plant) /\ FreshOk(caller[u])
    BY <1>1 DEF CallersInv
  <2>2. SeenOk(caller'[u], plant')
    BY <1>2, <2>1 DEF SeenOk
  <2>3. FreshOk(caller'[u])
    <3> SUFFICES ASSUME NEW p \in Spaces, InSpace(p) \subseteq DOMAIN caller[u].got
                 PROVE  \E bits \in caller'[u].seen :
                           \A s \in InSpace(p) : caller[u].got[s] = (bits[s] # ActiveLow(s))
      <4>1. caller'[u].got = caller[u].got
        BY <1>2
      <4> QED BY <4>1 DEF FreshOk
    <3>1. PICK bits \in caller[u].seen :
             \A s \in InSpace(p) : caller[u].got[s] = (bits[s] # ActiveLow(s))
      BY <2>1 DEF FreshOk
    <3> QED
      BY <1>4, <3>1
  <2> QED BY <2>2, <2>3
<1>6. QED
  BY <1>2, <1>3, <1>4, <1>5 DEF CallersInv, FreshOk

-----------------------------------------------------------------------------
(* Fieldbus: every step keeps the invariant *)

LEMMA FieldbusInitially == ASSUME FieldbusInit PROVE FieldbusInv
<1>1. /\ plant \in Bits /\ wire = NoWire /\ holder = {} /\ orphans = {}
      /\ \A t \in Threads : caller[t] = IdleCaller
      /\ caller \in [Threads -> Callers]
      /\ transaction = 0 /\ requests = 0 /\ changes = 0
  BY IdleFacts DEF FieldbusInit, Bits
<1>2. FieldbusTypeOK
  BY <1>1 DEF FieldbusTypeOK, NoWire
<1>3. HolderInv /\ WireInv
  BY <1>1, IdleFacts DEF HolderInv, WireInv, NoWire
<1>4. CallersInv
  BY <1>1, IdleFacts, NothingRead DEF CallersInv, SeenOk
<1>5. QED
  BY <1>2, <1>3, <1>4 DEF FieldbusInv

\* A caller begins, or is told; the wire and the plant are as they were.
LEMMA BeginStep ==
    ASSUME FieldbusInv, NEW t \in Threads,
           \/ ReadSignals(t) \/ Return(t) \/ Unreachable(t)
           \/ \E s \in Signals, v \in BOOLEAN : WriteSignal(t, s, v)
    PROVE  FieldbusInv'
<1>0. /\ FieldbusTypeOK /\ HolderInv /\ WireInv /\ plant \in Bits
      /\ caller[t].at \in {"idle", "ready", "done", "failed"}
      /\ UNCHANGED <<plant, wire, orphans, transaction, requests, changes, holder>>
  BY DEF FieldbusInv, FieldbusTypeOK, ReadSignals, Return, Unreachable, WriteSignal
<1>1. \E c \in Callers : /\ SeenOk(c, plant) /\ FreshOk(c) /\ c.at # "waiting"
                         /\ caller' = [caller EXCEPT ![t] = c]
  <2>1. CASE ReadSignals(t)
    <3>1. PICK c : c = [IdleCaller EXCEPT !.at = "ready", !.todo = Spaces, !.seen = {plant}]
      OBVIOUS
    <3>2. c \in Callers /\ c.at = "ready" /\ c.seen = {plant} /\ DOMAIN c.got = {}
      BY <1>0, <3>1, IdleFacts DEF Callers
    <3> QED BY <2>1, <3>1, <3>2, NothingRead DEF ReadSignals, SeenOk
  <2>2. CASE Return(t)
    BY <2>2, IdleFacts, NothingRead DEF Return, SeenOk
  <2>3. CASE Unreachable(t)
    <3>1. PICK c : c = [IdleCaller EXCEPT !.at = "failed"]
      OBVIOUS
    <3>2. c \in Callers /\ c.at = "failed" /\ c.seen = {} /\ DOMAIN c.got = {}
      BY <3>1, IdleFacts DEF Callers
    <3> QED BY <2>3, <3>1, <3>2, NothingRead DEF Unreachable, Raise, SeenOk
  <2>4. ASSUME NEW s \in Signals, NEW v \in BOOLEAN, WriteSignal(t, s, v)
        PROVE  \E c \in Callers : /\ SeenOk(c, plant) /\ FreshOk(c) /\ c.at # "waiting"
                                  /\ caller' = [caller EXCEPT ![t] = c]
    <3>1. PICK a : a = [op |-> "write", signal |-> s, value |-> v]
      OBVIOUS
    <3>2. a \in [op : {"none", "write"}, signal : Signals \cup {"none"}, value : BOOLEAN] /\ a.op = "write"
      BY <3>1
    <3>3. PICK c : c = [IdleCaller EXCEPT !.at = "ready", !.asks = a]
      OBVIOUS
    <3>4. c \in Callers /\ c.at = "ready" /\ c.seen = {} /\ DOMAIN c.got = {} /\ c.asks = a
      BY <3>2, <3>3, IdleFacts DEF Callers
    <3> QED BY <2>4, <3>1, <3>2, <3>3, <3>4, NothingRead DEF WriteSignal, SeenOk
  <2> QED BY <2>1, <2>2, <2>3, <2>4
<1>2. PICK c \in Callers : /\ SeenOk(c, plant) /\ FreshOk(c) /\ c.at # "waiting"
                           /\ caller' = [caller EXCEPT ![t] = c]
  BY <1>1
<1>3. /\ caller' \in [Threads -> Callers] /\ CallersInv'
      /\ caller'[t] = c /\ \A u \in Threads : u # t => caller'[u] = caller[u]
  BY <1>0, <1>2, OneCaller
<1>4. holder # {t}
  BY <1>0 DEF HolderInv
<1>5. HolderInv'
  BY <1>0, <1>2, <1>3, <1>4 DEF HolderInv
<1>6. WireInv'
  <2> SUFFICES ASSUME NEW u \in Threads, holder' = {u}
               PROVE  WireOk(caller[u])'
    BY DEF WireInv
  <2>1. caller'[u] = caller[u] /\ wire' = wire /\ WireOk(caller[u])
    BY <1>0, <1>3, <1>4 DEF WireInv
  <2> QED BY <2>1 DEF WireOk
<1>7. FieldbusTypeOK'
  BY <1>0, <1>3 DEF FieldbusTypeOK
<1>8. QED
  BY <1>3, <1>5, <1>6, <1>7 DEF FieldbusInv

LEMMA TransactStep ==
    ASSUME FieldbusInv, NEW t \in Threads, Transact(t)
    PROVE  FieldbusInv'
<1>0. /\ FieldbusTypeOK /\ HolderInv /\ plant \in Bits /\ holder = {} /\ caller[t].at = "ready"
      /\ caller[t] \in Callers /\ holder' = {t} /\ UNCHANGED <<plant, orphans, changes>>
      /\ SeenOk(caller[t], plant) /\ FreshOk(caller[t])
      /\ transaction \in Nat /\ requests \in Nat
  BY DEF FieldbusInv, FieldbusTypeOK, Transact, CallersInv
<1>1. PICK ask : ask = IF caller[t].asks.op = "write" THEN caller[t].asks
                                                      ELSE [NoAsk EXCEPT !.op = "read"]
  OBVIOUS
<1>2. PICK n \in Nat, p \in Spaces \cup {"coil"} :
        /\ wire' = [wire EXCEPT !.open = TRUE, !.requests = Append(@, Frame(n, ask, p))]
        /\ transaction' = n /\ requests' = requests + 1
  <2>1. (transaction + 1) % TransactionIds \in Nat
    BY <1>0, FieldbusAssumption
  <2>2. caller[t].todo \subseteq Spaces
    BY <1>0 DEF Callers
  <2>3. PICK p \in IF caller[t].asks.op = "write" THEN {"coil"} ELSE caller[t].todo :
           /\ wire' = [wire EXCEPT !.open = TRUE, !.requests = Append(@,
                          Frame((transaction + 1) % TransactionIds, ask, p))]
           /\ transaction' = (transaction + 1) % TransactionIds /\ requests' = requests + 1
    BY <1>1 DEF Transact
  <2>4. p \in Spaces \cup {"coil"}
    BY <2>2
  <2> QED BY <2>1, <2>3, <2>4
<1>3. /\ ask.op \in {"read", "write"} /\ ask.signal \in Signals \cup {"none"} /\ ask.value \in BOOLEAN
      /\ ask.op = "read" => caller[t].asks.op # "write"
  BY <1>0, <1>1 DEF Callers, NoAsk
<1>4. PICK f : f = Frame(n, ask, p)
  OBVIOUS
<1>5. f \in RequestFrames /\ f.op = ask.op
  BY <1>2, <1>3, <1>4 DEF Frame, RequestFrames
<1>6. /\ wire'.requests = <<f>> /\ wire'.replies = <<>> /\ wire'.open = TRUE
      /\ wire' \in [open : BOOLEAN, requests : Seq(RequestFrames), replies : Seq(ReplyFrames)]
  <2>1. wire.requests = <<>> /\ wire.replies = <<>>
    BY <1>0 DEF HolderInv
  <2>2. Append(wire.requests, f) = <<f>> /\ <<f>> \in Seq(RequestFrames)
    BY <1>5, <2>1
  <2> HIDE DEF RequestFrames
  <2>3. wire' = [wire EXCEPT !.open = TRUE, !.requests = <<f>>]
    BY <1>2, <1>4, <2>2
  <2> QED BY <1>0, <2>1, <2>2, <2>3 DEF FieldbusTypeOK
<1>7. PICK c : c = [caller[t] EXCEPT !.at = "waiting"]
  OBVIOUS
<1>8. /\ c \in Callers /\ c.at = "waiting" /\ c.seen = caller[t].seen /\ c.got = caller[t].got
      /\ c.asks = caller[t].asks
  BY <1>0, <1>7 DEF Callers
<1>9. SeenOk(c, plant) /\ FreshOk(c)
  BY <1>0, <1>8 DEF SeenOk, FreshOk
<1>10. caller' = [caller EXCEPT ![t] = c]
  BY <1>7 DEF Transact
<1>11. /\ caller' \in [Threads -> Callers] /\ CallersInv'
       /\ caller'[t] = c /\ \A u \in Threads : u # t => caller'[u] = caller[u]
  BY <1>0, <1>8, <1>9, <1>10, OneCaller
<1>12. HolderInv'
  <2>1. Len(wire'.requests) + Len(wire'.replies) = 1
    BY <1>6
  <2>2. \A u \in Threads : u # t => caller[u].at # "waiting"
    BY <1>0 DEF HolderInv
  <2> QED BY <1>0, <1>8, <1>11, <2>1, <2>2 DEF HolderInv
<1>13. WireInv'
  <2>1. Head(wire'.requests) = f
    BY <1>6
  <2> SUFFICES ASSUME NEW u \in Threads, holder' = {u}
               PROVE  WireOk(caller[u])'
    BY DEF WireInv
  <2>2. u = t /\ caller'[u].asks = caller[t].asks
    BY <1>0, <1>8, <1>11
  <2> QED BY <1>3, <1>5, <1>6, <2>1, <2>2 DEF WireOk
<1>14. FieldbusTypeOK'
  BY <1>0, <1>2, <1>6, <1>11 DEF FieldbusTypeOK
<1>15. QED
  BY <1>11, <1>12, <1>13, <1>14 DEF FieldbusInv

\* What the holder's wire carries: its request, or the reply.
LEMMA Carried ==
    ASSUME FieldbusInv, NEW t \in Threads, caller[t].at = "waiting"
    PROVE  /\ holder = {t} /\ WireOk(caller[t])
           /\ wire.requests = <<>> \/ wire.replies = <<>>
           /\ wire.requests # <<>> => Tail(wire.requests) = <<>> /\ Head(wire.requests) \in RequestFrames
           /\ wire.replies # <<>> => Tail(wire.replies) = <<>> /\ Head(wire.replies) \in ReplyFrames
<1>1. holder = {t} /\ WireOk(caller[t]) /\ Len(wire.requests) + Len(wire.replies) = 1
  BY DEF FieldbusInv, HolderInv, WireInv
<1>2. wire.requests \in Seq(RequestFrames) /\ wire.replies \in Seq(ReplyFrames)
  BY DEF FieldbusInv, FieldbusTypeOK
<1>3. PICK Q, R, q, r : Q = RequestFrames /\ R = ReplyFrames /\ q = wire.requests /\ r = wire.replies
  OBVIOUS
<1>4. q \in Seq(Q) /\ r \in Seq(R) /\ Len(q) + Len(r) = 1
  BY <1>1, <1>2, <1>3
<1>5. q = <<>> \/ r = <<>>
  BY <1>4
<1>6. q # <<>> => Tail(q) = <<>> /\ Head(q) \in Q
  <2> SUFFICES ASSUME q # <<>> PROVE Tail(q) = <<>> /\ Head(q) \in Q
    OBVIOUS
  <2>1. Head(q) \in Q /\ Tail(q) \in Seq(Q) /\ Len(Tail(q)) = Len(q) - 1
    BY <1>4, HeadTailProperties
  <2>2. Len(q) \in Nat \ {0} /\ Len(r) \in Nat
    BY <1>4, EmptySeq, LenProperties
  <2>3. Tail(q) # <<>> => Len(Tail(q)) \in Nat \ {0}
    BY <2>1, EmptySeq
  <2> QED BY <1>4, <2>1, <2>2, <2>3
<1>7. r # <<>> => Tail(r) = <<>> /\ Head(r) \in R
  <2> SUFFICES ASSUME r # <<>> PROVE Tail(r) = <<>> /\ Head(r) \in R
    OBVIOUS
  <2>1. Head(r) \in R /\ Tail(r) \in Seq(R) /\ Len(Tail(r)) = Len(r) - 1
    BY <1>4, HeadTailProperties
  <2>2. Len(r) \in Nat \ {0} /\ Len(q) \in Nat
    BY <1>4, EmptySeq, LenProperties
  <2>3. Tail(r) # <<>> => Len(Tail(r)) \in Nat \ {0}
    BY <2>1, EmptySeq
  <2> QED BY <1>4, <2>1, <2>2, <2>3
<1>8. QED
  BY <1>1, <1>3, <1>5, <1>6, <1>7

\* The lock is released with nothing on the wire.
LEMMA ReleaseStep ==
    ASSUME FieldbusInv, NEW t \in Threads, caller[t].at = "waiting", holder' = {},
           NEW c \in Callers, c.at # "waiting", SeenOk(c, plant), FreshOk(c),
           caller' = [caller EXCEPT ![t] = c], plant' = plant,
           wire'.requests = <<>>, wire'.replies = <<>>
    PROVE  /\ caller' \in [Threads -> Callers] /\ CallersInv' /\ HolderInv' /\ WireInv'
<1>1. /\ caller' \in [Threads -> Callers] /\ CallersInv'
      /\ caller'[t] = c /\ \A u \in Threads : u # t => caller'[u] = caller[u]
  BY OneCaller
<1>2. \A u \in Threads : u # t => caller[u].at # "waiting"
  BY DEF FieldbusInv, HolderInv
<1>3. HolderInv'
  BY <1>1, <1>2 DEF HolderInv
<1>4. WireInv'
  BY DEF WireInv
<1>5. QED
  BY <1>1, <1>3, <1>4

LEMMA FailedCaller ==
    \E c \in Callers : /\ c = [IdleCaller EXCEPT !.at = "failed"] /\ c.at = "failed"
                       /\ SeenOk(c, plant) /\ FreshOk(c)
<1>1. PICK c : c = [IdleCaller EXCEPT !.at = "failed"]
  OBVIOUS
<1>2. c \in Callers /\ c.at = "failed" /\ c.seen = {} /\ DOMAIN c.got = {}
  BY <1>1, IdleFacts DEF Callers
<1>3. QED
  BY <1>1, <1>2, NothingRead DEF SeenOk

LEMMA FailStep ==
    ASSUME FieldbusInv, NEW t \in Threads, RequestFails(t)
    PROVE  FieldbusInv'
<1>1. PICK c \in Callers : /\ c = [IdleCaller EXCEPT !.at = "failed"] /\ c.at = "failed"
                           /\ SeenOk(c, plant) /\ FreshOk(c)
  BY FailedCaller
<1>2. /\ caller[t].at = "waiting" /\ holder' = {} /\ wire' = NoWire
      /\ caller' = [caller EXCEPT ![t] = c] /\ UNCHANGED <<plant, transaction, requests, changes>>
  BY <1>1 DEF RequestFails, DropLocked, Raise
<1>3. caller' \in [Threads -> Callers] /\ CallersInv' /\ HolderInv' /\ WireInv'
  BY <1>1, <1>2, ReleaseStep DEF NoWire
<1>4. orphans' \subseteq RequestFrames
  <2>1. wire.requests \in Seq(RequestFrames) /\ orphans \subseteq RequestFrames
    BY DEF FieldbusInv, FieldbusTypeOK
  <2>2. orphans' = orphans \cup {wire.requests[i] : i \in DOMAIN wire.requests}
    BY DEF RequestFails, DropLocked
  <2> HIDE DEF RequestFrames
  <2> QED BY <2>1, <2>2
<1>5. FieldbusTypeOK'
  BY <1>2, <1>3, <1>4 DEF FieldbusInv, FieldbusTypeOK, NoWire
<1>6. QED
  BY <1>3, <1>5 DEF FieldbusInv

\* The reply of a read adds one space to what the caller has.
LEMMA GotSpace ==
    ASSUME NEW c \in Callers, FreshOk(c), NEW q \in Spaces \cup {"coil"}, NEW bits \in c.seen,
           NEW got, got = [s \in DOMAIN c.got \cup InSpace(q) |->
                              IF s \in InSpace(q) THEN Evaluate(s, bits[s]) ELSE c.got[s]]
    PROVE  /\ got \in Readings
           /\ \A p \in Spaces : InSpace(p) \subseteq DOMAIN got =>
                 \E b \in c.seen : \A s \in InSpace(p) : got[s] = (b[s] # ActiveLow(s))
<1>1. bits \in Bits /\ c.got \in Readings
  BY DEF Callers
<1>2. PICK D \in SUBSET Signals : c.got \in [D -> BOOLEAN]
  BY <1>1 DEF Readings
<1>3. InSpace(q) \subseteq Signals /\ \A s \in InSpace(q) : bits[s] \in BOOLEAN
  BY <1>1 DEF InSpace, Bits
<1>4. got \in [D \cup InSpace(q) -> BOOLEAN]
  BY <1>2, <1>3, Polarity
<1>5. got \in Readings
  <2>1. D \cup InSpace(q) \in SUBSET Signals
    BY <1>3
  <2> QED BY <1>4, <2>1 DEF Readings
<1>6. ASSUME NEW p \in Spaces, InSpace(p) \subseteq DOMAIN got
      PROVE  \E b \in c.seen : \A s \in InSpace(p) : got[s] = (b[s] # ActiveLow(s))
  <2>1. CASE p = q
    <3>1. ASSUME NEW s \in InSpace(p) PROVE got[s] = (bits[s] # ActiveLow(s))
      <4>1. got[s] = Evaluate(s, bits[s])
        BY <2>1
      <4>2. s \in Signals /\ bits[s] \in BOOLEAN
        BY <1>3, <2>1
      <4> QED BY <4>1, <4>2, Polarity
    <3> QED BY <3>1
  <2>2. CASE p # q
    <3>1. \A s \in InSpace(p) : s \notin InSpace(q) /\ s \in DOMAIN c.got /\ got[s] = c.got[s]
      BY <1>2, <2>2, <1>6 DEF InSpace
    <3>2. PICK b \in c.seen : \A s \in InSpace(p) : c.got[s] = (b[s] # ActiveLow(s))
      BY <3>1 DEF FreshOk
    <3> QED BY <3>1, <3>2
  <2> QED BY <2>1, <2>2
<1>7. QED
  BY <1>5, <1>6

LEMMA ReceiveStep ==
    ASSUME FieldbusInv, NEW t \in Threads, Received(t)
    PROVE  FieldbusInv'
<1>0. /\ FieldbusTypeOK /\ HolderInv /\ plant \in Bits /\ caller[t].at = "waiting"
      /\ caller[t] \in Callers /\ holder' = {} /\ wire.replies # <<>>
      /\ SeenOk(caller[t], plant) /\ FreshOk(caller[t])
      /\ UNCHANGED <<plant, orphans, transaction, requests, changes>>
  BY DEF FieldbusInv, FieldbusTypeOK, Received, CallersInv
<1>1. PICK r : r = Head(wire.replies)
  OBVIOUS
<1>2. /\ holder = {t} /\ WireOk(caller[t]) /\ wire.requests = <<>> /\ Tail(wire.replies) = <<>>
      /\ r \in ReplyFrames
  BY <1>0, <1>1, Carried
<1>3. wire' = [wire EXCEPT !.replies = <<>>]
  BY <1>2 DEF Received
<1>4. \E c \in Callers : /\ c.at # "waiting" /\ SeenOk(c, plant) /\ FreshOk(c)
                         /\ caller' = [caller EXCEPT ![t] = c]
  <2>1. CASE Raise(t)
    BY <2>1, FailedCaller DEF Raise
  <2>2. CASE r.op = "write" /\ caller' = [caller EXCEPT ![t].at = "done"]
    <3>1. PICK c : c = [caller[t] EXCEPT !.at = "done"]
      OBVIOUS
    <3>2. c \in Callers /\ c.at = "done" /\ c.seen = caller[t].seen /\ c.got = caller[t].got
      BY <1>0, <3>1 DEF Callers
    <3>3. SeenOk(c, plant) /\ FreshOk(c)
      BY <1>0, <3>2 DEF SeenOk, FreshOk
    <3> QED BY <2>2, <3>1, <3>2, <3>3
  <2>3. ASSUME r.op = "read",
               NEW got, got = [s \in DOMAIN caller[t].got \cup InSpace(r.space) |->
                                 IF s \in InSpace(r.space) THEN Evaluate(s, r.block[s])
                                 ELSE caller[t].got[s]],
               NEW left, left = caller[t].todo \ {r.space},
               caller' = [caller EXCEPT ![t].got = got, ![t].todo = left,
                                        ![t].at = IF left = {} THEN "done" ELSE "ready"]
        PROVE  \E c \in Callers : /\ c.at # "waiting" /\ SeenOk(c, plant) /\ FreshOk(c)
                                  /\ caller' = [caller EXCEPT ![t] = c]
    <3>1. PICK bits \in caller[t].seen : r.block = [s \in InSpace(r.space) |-> bits[s]]
      BY <1>0, <1>1, <1>2, <2>3 DEF WireOk
    <3>2. r.space \in Spaces \cup {"coil"}
      BY <1>2 DEF ReplyFrames
    <3>3. got = [s \in DOMAIN caller[t].got \cup InSpace(r.space) |->
                   IF s \in InSpace(r.space) THEN Evaluate(s, bits[s]) ELSE caller[t].got[s]]
      BY <2>3, <3>1
    <3>4. /\ got \in Readings
          /\ \A p \in Spaces : InSpace(p) \subseteq DOMAIN got =>
                \E b \in caller[t].seen : \A s \in InSpace(p) : got[s] = (b[s] # ActiveLow(s))
      BY <1>0, <3>2, <3>3, GotSpace
    <3>5. PICK next : next = IF left = {} THEN "done" ELSE "ready"
      OBVIOUS
    <3>6. PICK c : c = [caller[t] EXCEPT !.got = got, !.todo = left, !.at = next]
      OBVIOUS
    <3>7. left \subseteq Spaces
      BY <1>0, <2>3 DEF Callers
    <3>8. next \in {"done", "ready"}
      BY <3>5
    <3>9. /\ c \in Callers /\ c.at = next /\ c.got = got /\ c.seen = caller[t].seen
      BY <1>0, <3>4, <3>6, <3>7, <3>8 DEF Callers
    <3>10. caller' = [caller EXCEPT ![t] = c]
      BY <2>3, <3>5, <3>6
    <3>11. SeenOk(c, plant)
      BY <1>0, <3>1, <3>9 DEF SeenOk
    <3>12. FreshOk(c)
      BY <3>4, <3>9 DEF FreshOk
    <3> QED BY <3>8, <3>9, <3>10, <3>11, <3>12
  <2>4. r.op \in {"read", "write", "exception"}
    BY <1>2 DEF ReplyFrames
  <2>5. PICK got : got = [s \in DOMAIN caller[t].got \cup InSpace(r.space) |->
                           IF s \in InSpace(r.space) THEN Evaluate(s, r.block[s])
                           ELSE caller[t].got[s]]
    OBVIOUS
  <2>6. PICK left : left = caller[t].todo \ {r.space}
    OBVIOUS
  <2>7. PICK next : next = [caller EXCEPT ![t].got = got, ![t].todo = left,
                                          ![t].at = IF left = {} THEN "done" ELSE "ready"]
    OBVIOUS
  <2>8. IF r.id # transaction \/ r.op \in {"exception"} THEN Raise(t)
        ELSE IF r.op = "write" THEN caller' = [caller EXCEPT ![t].at = "done"]
        ELSE caller' = next
    BY <1>1, <2>5, <2>6, <2>7 DEF Received
  <2>9. \/ r.op = "read" /\ caller' = next
        \/ r.op = "write" /\ caller' = [caller EXCEPT ![t].at = "done"]
        \/ Raise(t)
    <3>1. CASE r.id # transaction \/ r.op = "exception"
      BY <2>8, <3>1
    <3>2. CASE r.id = transaction /\ r.op = "write"
      BY <2>8, <3>2
    <3>3. CASE r.id = transaction /\ r.op = "read"
      BY <2>8, <3>3
    <3> QED BY <2>4, <3>1, <3>2, <3>3
  <2>10. CASE r.op = "read" /\ caller' = next
    BY <2>3, <2>5, <2>6, <2>7, <2>10
  <2> QED BY <2>1, <2>2, <2>9, <2>10
<1>5. wire'.requests = <<>> /\ wire'.replies = <<>>
      /\ wire' \in [open : BOOLEAN, requests : Seq(RequestFrames), replies : Seq(ReplyFrames)]
  <2>1. wire \in [open : BOOLEAN, requests : Seq(RequestFrames), replies : Seq(ReplyFrames)]
    BY <1>0 DEF FieldbusTypeOK
  <2> HIDE DEF RequestFrames, ReplyFrames
  <2> QED BY <1>2, <1>3, <2>1
<1>6. caller' \in [Threads -> Callers] /\ CallersInv' /\ HolderInv' /\ WireInv'
  BY <1>0, <1>4, <1>5, ReleaseStep
<1>7. FieldbusTypeOK'
  BY <1>0, <1>5, <1>6 DEF FieldbusTypeOK
<1>8. QED
  BY <1>6, <1>7 DEF FieldbusInv

LEMMA CloseStep ==
    ASSUME FieldbusInv, CloseClient
    PROVE  FieldbusInv'
<1>1. /\ holder = {} /\ wire' = NoWire /\ wire.requests = <<>> /\ orphans' = orphans
      /\ UNCHANGED <<plant, transaction, requests, changes, holder, caller>>
  <2>1. holder = {} /\ wire.requests = <<>>
    BY DEF CloseClient, FieldbusInv, HolderInv
  <2>2. {wire.requests[i] : i \in DOMAIN wire.requests} = {}
    BY <2>1
  <2> QED BY <2>1, <2>2 DEF CloseClient
<1>2. HolderInv' /\ WireInv'
  BY <1>1 DEF FieldbusInv, HolderInv, WireInv, NoWire
<1>3. FieldbusTypeOK' /\ CallersInv'
  BY <1>1 DEF FieldbusInv, FieldbusTypeOK, CallersInv, SeenOk, FreshOk, NoWire
<1>4. QED
  BY <1>2, <1>3 DEF FieldbusInv

\* What a frame does to the plant.
LEMMA StoredBits ==
    ASSUME plant \in Bits, NEW f \in RequestFrames
    PROVE  Stored(f) \in Bits /\ (f.op = "read" => Stored(f) = plant)
BY DEF Bits, Stored, RequestFrames

\* The plant changes by itself or by a frame of a closed connection.
LEMMA OtherStep ==
    ASSUME FieldbusInv, ServeOrphan \/ \E s \in Signals : PlantChanges(s)
    PROVE  FieldbusInv'
<1>0. FieldbusTypeOK /\ HolderInv /\ WireInv /\ plant \in Bits
  BY DEF FieldbusInv, FieldbusTypeOK
<1>1. \E new \in Bits : plant' = new /\ caller' = Sees(new)
  <2>1. CASE ServeOrphan
    <3>1. PICK f \in orphans : plant' = Stored(f) /\ caller' = Sees(Stored(f))
      BY <2>1 DEF ServeOrphan
    <3>2. f \in RequestFrames
      BY <1>0 DEF FieldbusTypeOK
    <3> QED BY <1>0, <3>1, <3>2, StoredBits
  <2>2. ASSUME NEW s \in Signals, PlantChanges(s)
        PROVE  \E new \in Bits : plant' = new /\ caller' = Sees(new)
    <3>1. plant' = [plant EXCEPT ![s] = ~plant[s]] /\ caller' = Sees(plant')
      BY <2>2 DEF PlantChanges
    <3>2. plant' \in Bits
      BY <1>0, <3>1 DEF Bits
    <3> QED BY <3>1, <3>2
  <2> QED BY <2>1, <2>2
<1>2. /\ caller' \in [Threads -> Callers] /\ CallersInv'
      /\ \A u \in Threads : /\ caller'[u].at = caller[u].at /\ caller'[u].asks = caller[u].asks
                            /\ caller[u].seen \subseteq caller'[u].seen
  BY <1>1, AllSee
<1>3. /\ UNCHANGED <<wire, transaction, requests, holder>> /\ changes' \in Nat
      /\ orphans' \subseteq orphans
  BY <1>0 DEF FieldbusTypeOK, ServeOrphan, PlantChanges
<1>4. HolderInv'
  BY <1>0, <1>2, <1>3 DEF HolderInv
<1>5. WireInv'
  <2> SUFFICES ASSUME NEW u \in Threads, holder' = {u}
               PROVE  WireOk(caller[u])'
    BY DEF WireInv
  <2>1. WireOk(caller[u])
    BY <1>0, <1>3 DEF WireInv
  <2> QED BY <1>2, <1>3, <2>1 DEF WireOk
<1>6. FieldbusTypeOK'
  BY <1>0, <1>1, <1>2, <1>3 DEF FieldbusTypeOK
<1>7. QED
  BY <1>2, <1>4, <1>5, <1>6 DEF FieldbusInv

\* What the request in flight asked is what the server answers.
LEMMA Answered ==
    ASSUME FieldbusInv, NEW t \in Threads, caller[t].at = "waiting",
           NEW f \in RequestFrames, wire.requests # <<>>, f = Head(wire.requests)
    PROVE  /\ ReplyTo(f) \in ReplyFrames
           /\ ReplyTo(f).op = "read" => /\ plant \in caller[t].seen
                                        /\ ReplyTo(f).block = [s \in InSpace(ReplyTo(f).space) |-> plant[s]]
<1>0. plant \in Bits /\ WireOk(caller[t]) /\ SeenOk(caller[t], plant)
  BY Carried DEF FieldbusInv, FieldbusTypeOK, CallersInv
<1>1. PICK op : op = IF f.op = "write" /\ f.signal \in ReadOnlyCoils THEN "exception" ELSE f.op
  OBVIOUS
<1>2. op \in {"read", "write", "exception"} /\ (op = "read" => f.op = "read")
  BY <1>1 DEF RequestFrames
<1>3. PICK block : block = [s \in IF op = "read" THEN InSpace(f.space) ELSE {} |-> plant[s]]
  OBVIOUS
<1>4. block \in Readings
  <2>1. PICK D : D = IF op = "read" THEN InSpace(f.space) ELSE {}
    OBVIOUS
  <2>2. D \in SUBSET Signals
    BY <2>1 DEF InSpace
  <2>3. block \in [D -> BOOLEAN]
    BY <1>0, <1>3, <2>1, <2>2 DEF Bits
  <2> QED BY <2>2, <2>3 DEF Readings
<1>5. ReplyTo(f) = [id |-> f.id, op |-> op, space |-> f.space, block |-> block]
  BY <1>1, <1>3 DEF ReplyTo
<1>6. f.id \in Nat /\ f.space \in Spaces \cup {"coil"}
  BY DEF RequestFrames
<1>7. ReplyTo(f) \in ReplyFrames
  BY <1>2, <1>4, <1>5, <1>6 DEF ReplyFrames
<1>8. op = "read" => plant \in caller[t].seen
  BY <1>0, <1>2 DEF WireOk, SeenOk
<1>9. QED
  BY <1>3, <1>5, <1>7, <1>8

LEMMA ServeStep ==
    ASSUME FieldbusInv, Serve
    PROVE  FieldbusInv'
<1>0. /\ FieldbusTypeOK /\ HolderInv /\ CallersInv /\ plant \in Bits /\ wire.requests # <<>>
      /\ wire \in [open : BOOLEAN, requests : Seq(RequestFrames), replies : Seq(ReplyFrames)]
      /\ UNCHANGED <<orphans, transaction, requests, changes, holder>>
  BY DEF FieldbusInv, FieldbusTypeOK, Serve
<1>1. PICK t \in Threads : holder = {t} /\ caller[t].at = "waiting"
  BY <1>0 DEF HolderInv
<1>2. PICK f : f = Head(wire.requests)
  OBVIOUS
<1>3. /\ f \in RequestFrames /\ Tail(wire.requests) = <<>> /\ wire.replies = <<>> /\ WireOk(caller[t])
  BY <1>0, <1>1, <1>2, Carried
<1>4. PICK r : r = ReplyTo(f)
  OBVIOUS
<1>5. PICK new : new = Stored(f)
  OBVIOUS
<1>6. /\ r \in ReplyFrames
      /\ r.op = "read" => plant \in caller[t].seen /\ r.block = [s \in InSpace(r.space) |-> plant[s]]
  BY <1>0, <1>1, <1>2, <1>3, <1>4, Answered
<1>7. new \in Bits /\ plant' = new /\ caller' = Sees(new)
  BY <1>0, <1>2, <1>3, <1>5, StoredBits DEF Serve
<1>8. /\ caller' \in [Threads -> Callers] /\ CallersInv'
      /\ \A u \in Threads : /\ caller'[u].at = caller[u].at /\ caller'[u].asks = caller[u].asks
                            /\ caller[u].seen \subseteq caller'[u].seen
  BY <1>7, AllSee
<1>9. /\ wire'.requests = <<>> /\ wire'.replies = <<r>>
      /\ wire' \in [open : BOOLEAN, requests : Seq(RequestFrames), replies : Seq(ReplyFrames)]
  <2>1. wire' = [wire EXCEPT !.requests = <<>>, !.replies = Append(wire.replies, r)]
    BY <1>2, <1>3, <1>4 DEF Serve
  <2>2. Append(wire.replies, r) = <<r>> /\ <<r>> \in Seq(ReplyFrames)
    BY <1>3, <1>6
  <2> HIDE DEF RequestFrames, ReplyFrames
  <2>3. wire' = [wire EXCEPT !.requests = <<>>, !.replies = <<r>>]
    BY <2>1, <2>2
  <2>4. <<>> \in Seq(RequestFrames)
    OBVIOUS
  <2> QED BY <1>0, <2>2, <2>3, <2>4
<1>10. HolderInv'
  <2>1. Len(wire'.requests) + Len(wire'.replies) = 1
    BY <1>9
  <2> QED BY <1>0, <1>1, <1>8, <2>1 DEF HolderInv
<1>11. WireInv'
  <2> SUFFICES ASSUME NEW u \in Threads, holder' = {u}
               PROVE  WireOk(caller[u])'
    BY DEF WireInv
  <2>1. u = t
    BY <1>0, <1>1
  <2>2. r = Head(wire'.replies)
    BY <1>9
  <2>3. r.op = "read" => \E bits \in caller'[t].seen : r.block = [s \in InSpace(r.space) |-> bits[s]]
    BY <1>6, <1>8
  <2> QED BY <1>9, <2>1, <2>2, <2>3 DEF WireOk
<1>12. FieldbusTypeOK'
  BY <1>0, <1>7, <1>8, <1>9 DEF FieldbusTypeOK
<1>13. QED
  BY <1>8, <1>10, <1>11, <1>12 DEF FieldbusInv

LEMMA FieldbusStep ==
    ASSUME FieldbusInv, [FieldbusNext]_fieldVars
    PROVE  FieldbusInv'
<1>1. ASSUME NEW t \in Threads,
             \/ ReadSignals(t) \/ Transact(t) \/ Unreachable(t)
             \/ Received(t) \/ RequestFails(t) \/ Return(t)
      PROVE  FieldbusInv'
  BY <1>1, BeginStep, TransactStep, ReceiveStep, FailStep
<1>2. ASSUME NEW t \in Threads, NEW s \in Signals, NEW v \in BOOLEAN, WriteSignal(t, s, v)
      PROVE  FieldbusInv'
  BY <1>2, BeginStep
<1>3. CASE CloseClient \/ Serve \/ ServeOrphan \/ \E s \in Signals : PlantChanges(s)
  BY <1>3, CloseStep, ServeStep, OtherStep
<1>4. CASE UNCHANGED fieldVars
  <2>1. UNCHANGED <<plant, wire, orphans, transaction, requests, changes, holder, caller>>
    BY <1>4 DEF fieldVars
  <2>2. FieldbusTypeOK' /\ HolderInv'
    BY <2>1 DEF FieldbusInv, FieldbusTypeOK, HolderInv
  <2>3. CallersInv'
    BY <2>1 DEF FieldbusInv, CallersInv, SeenOk, FreshOk
  <2>4. WireInv'
    BY <2>1 DEF FieldbusInv, WireInv, WireOk
  <2> QED BY <2>2, <2>3, <2>4 DEF FieldbusInv
<1>5. QED
  BY <1>1, <1>2, <1>3, <1>4 DEF FieldbusNext

LEMMA FieldbusInvariant == FieldbusSpec => []FieldbusInv
BY FieldbusInitially, FieldbusStep, PTL DEF FieldbusSpec

\* _transact() of industrial/modbus.py keeps its types: the client's socket,
\* what is on the way and the threads that call it, whatever they do.
THEOREM FieldbusTypeCorrect == FieldbusSpec => []FieldbusTypeOK
<1>1. FieldbusInv => FieldbusTypeOK
  BY DEF FieldbusInv
<1>2. QED
  BY <1>1, FieldbusInvariant, PTL

\* What read() returns of one address space is what the controller showed at
\* one instant of the call, with each signal's polarity applied, and the
\* socket a caller leaves open carries nothing of its request or its reply:
\* for any number of threads, signals and transaction ids, whatever timed out
\* or was closed under a request that is served later.
THEOREM SampleFresh == FieldbusSpec => []SampleIsFresh
<1>1. FieldbusInv => SampleIsFresh
  BY DEF FieldbusInv, FieldbusTypeOK, HolderInv, CallersInv, FreshOk, SampleIsFresh
<1>2. QED
  BY <1>1, FieldbusInvariant, PTL

-----------------------------------------------------------------------------
(* GuardBand: the inductive invariant *)

Reports == [position : Int, velocity : {-Limit, Limit}, stamp : Int]
Grants == [low : Int, high : Int, from : Int, until : Int, speed : Int]

GuardTypeOK ==
    /\ time \in Nat
    /\ at \in [Platforms -> Int]
    /\ report \in [Platforms -> Reports \cup {NoReport}]
    /\ medium \in [Platforms -> {"ground", "air", "subsurface"}]
    /\ grant \in Grants \cup {NoReport}

\* How far a robot was heard from where it is, by the instant its stamp stands
\* for: the stamp less the error of its clock.
Travelled(r, e) ==
    LET since == time - report[r].stamp + e
    IN since \in Nat /\ Abs(at[r] - report[r].position) <= Limit * since
HeardInv == \A r \in Platforms : Heard(r) => \E e \in {-HalfWidth, HalfWidth} : Travelled(r, e)

GuardInv == GuardTypeOK /\ HeardInv

\* More time at the limit reaches no less far.
LEMMA FartherInTime ==
    ASSUME NEW c \in Nat, NEW a \in Int, NEW b \in Int, a <= b
    PROVE  c * a \in Int /\ c * b \in Int /\ c * a <= c * b
<1>1. PICK d \in Nat : b = a + d
  <2>1. b - a \in Nat
    OBVIOUS
  <2>2. QED BY <2>1
<1>2. c * d \in Nat /\ c * b = c * a + c * d /\ c * a \in Int /\ c * b \in Int
  BY <1>1
<1>3. QED BY <1>2

LEMMA GuardStep ==
    ASSUME GuardInv, [GuardNext]_guardVars
    PROVE  GuardInv'
<1> USE GuardAssumption
<1>0. /\ time \in Nat /\ at \in [Platforms -> Int] /\ report \in [Platforms -> Reports \cup {NoReport}]
      /\ Limit \in Nat /\ HalfWidth \in Nat
  BY DEF GuardInv, GuardTypeOK
<1>1. ASSUME NEW r \in Platforms, Hear(r) PROVE GuardInv'
  <2>1. PICK v \in {-Limit, Limit}, e \in {-HalfWidth, HalfWidth} :
           report' = [report EXCEPT ![r] = [position |-> at[r], velocity |-> v, stamp |-> time + e]]
    BY <1>1 DEF Hear
  <2>2. UNCHANGED <<time, at, medium, grant>>
    BY <1>1 DEF Hear
  <2>3. e \in Int /\ at[r] \in Int
    BY <1>0
  <2>4. [position |-> at[r], velocity |-> v, stamp |-> time + e] \in Reports
    BY <1>0, <2>3 DEF Reports
  <2>5. GuardTypeOK'
    BY <1>0, <2>1, <2>2, <2>4 DEF GuardInv, GuardTypeOK
  <2>6. /\ report'[r].position = at[r] /\ report'[r].stamp = time + e
        /\ \A q \in Platforms : q # r => report'[q] = report[q]
    BY <1>0, <2>1
  <2>7. Travelled(r, e)'
    <3>1. time' - report'[r].stamp + e = 0 /\ at'[r] - report'[r].position = 0
      BY <1>0, <2>2, <2>3, <2>6
    <3>2. QED BY <1>0, <3>1 DEF Travelled, Abs
  <2>8. \A q \in Platforms : q # r => (Heard(q)' => \E f \in {-HalfWidth, HalfWidth} : Travelled(q, f)')
    BY <2>2, <2>6 DEF GuardInv, HeardInv, Heard, Travelled
  <2>9. QED BY <2>5, <2>7, <2>8 DEF GuardInv, HeardInv
<1>2. CASE Delegate
  <2>1. PICK v \in Volumes, until \in (time + 1)..EndTime :
           grant' = [low |-> v.low, high |-> v.high, from |-> time, until |-> until, speed |-> Limit]
    BY <1>2 DEF Delegate
  <2>2. grant' \in Grants
    BY <1>0, <2>1 DEF Grants
  <2>3. UNCHANGED <<time, at, report, medium>>
    BY <1>2 DEF Delegate
  <2>4. QED
    BY <2>2, <2>3 DEF GuardInv, GuardTypeOK, HeardInv, Heard, Travelled
<1>3. CASE Pass
  <2>1. PICK move \in [Platforms -> -Limit..Limit] : at' = [r \in Platforms |-> at[r] + move[r]]
    BY <1>3 DEF Pass
  <2>2. time' = time + 1 /\ UNCHANGED <<report, medium, grant>>
    BY <1>3 DEF Pass
  <2>3. GuardTypeOK'
    BY <1>0, <2>1, <2>2 DEF GuardInv, GuardTypeOK
  <2>4. ASSUME NEW r \in Platforms, Heard(r)' PROVE \E e \in {-HalfWidth, HalfWidth} : Travelled(r, e)'
    <3>1. PICK e \in {-HalfWidth, HalfWidth} : Travelled(r, e)
      BY <2>2, <2>4 DEF GuardInv, HeardInv, Heard
    <3>2. report[r] \in Reports
      BY <1>0, <2>2, <2>4 DEF Heard
    <3>3. report[r].stamp \in Int /\ report[r].position \in Int /\ e \in Int
      BY <1>0, <3>2 DEF Reports
    <3>4. PICK since \in Nat : since = time - report[r].stamp + e
      BY <3>1 DEF Travelled
    <3>5. Abs(at[r] - report[r].position) <= Limit * since
      BY <3>1, <3>4 DEF Travelled
    <3>6. time' - report'[r].stamp + e = since + 1
      BY <1>0, <2>2, <3>3, <3>4
    <3>7. Limit * (since + 1) = Limit * since + Limit /\ Limit * since \in Nat
      BY <1>0
    <3>8. at'[r] = at[r] + move[r] /\ at[r] \in Int /\ move[r] \in -Limit..Limit
      BY <1>0, <2>1
    <3>9. Abs(at'[r] - report'[r].position) <= Limit * (since + 1)
      BY <1>0, <2>2, <3>3, <3>5, <3>7, <3>8 DEF Abs
    <3>10. QED BY <3>6, <3>9 DEF Travelled
  <2>5. QED BY <2>3, <2>4 DEF GuardInv, HeardInv
<1>4. CASE UNCHANGED guardVars
  BY <1>4 DEF guardVars, GuardInv, GuardTypeOK, HeardInv, Heard, Travelled
<1>5. QED BY <1>1, <1>2, <1>3, <1>4 DEF GuardNext

LEMMA GuardInduction == GuardSpec => []GuardInv
<1>1. GuardInit => GuardInv
  <2> SUFFICES ASSUME GuardInit PROVE GuardInv
    OBVIOUS
  <2>1. at \in [Platforms -> Int]
    BY GuardAssumption DEF GuardInit, Platforms
  <2>2. medium \in [Platforms -> {"ground", "air", "subsurface"}]
    BY DEF GuardInit, Platforms
  <2>3. GuardTypeOK
    BY <2>1, <2>2 DEF GuardInit, GuardTypeOK
  <2>4. HeardInv
    BY DEF GuardInit, HeardInv, Heard
  <2>5. QED BY <2>3, <2>4 DEF GuardInv
<1>2. QED
  BY <1>1, GuardStep, PTL DEF GuardSpec

\* As long as a report is within the margin, the robot it is about is no
\* farther from the centre of its box than the limit reaches in the horizon.
LEMMA InsideReach ==
    ASSUME GuardInv, NEW r \in Platforms, InMargin(r)
    PROVE  /\ at[r] \in Int /\ Centre(r) \in Int /\ Reach(r) \in Int
           /\ at[r] - Centre(r) <= Reach(r) /\ Centre(r) - at[r] <= Reach(r)
<1> USE GuardAssumption
<1>0. Limit \in Nat /\ Margin \in Nat /\ HalfWidth \in Nat /\ Body \in Nat
  OBVIOUS
<1>1. report[r] \in Reports /\ time \in Nat /\ at[r] \in Int
  BY DEF InMargin, Heard, GuardInv, GuardTypeOK
<1>2. /\ report[r].stamp \in Int /\ report[r].position \in Int
      /\ report[r].velocity \in {-Limit, Limit}
  BY <1>1 DEF Reports
<1>3. PICK e \in {-HalfWidth, HalfWidth} : Travelled(r, e)
  BY DEF InMargin, GuardInv, HeardInv
<1>4. PICK d \in Int : d = time - report[r].stamp
  BY <1>1, <1>2
<1>5. PICK since \in Nat : since = d + e
  BY <1>3, <1>4 DEF Travelled
<1>6. Abs(at[r] - report[r].position) <= Limit * since
  BY <1>3, <1>4, <1>5 DEF Travelled
<1>7. PICK fwd \in Nat : fwd = Larger(0, d)
  <2>1. Larger(0, d) \in Nat
    BY DEF Larger
  <2>2. QED BY <2>1
<1>8. PICK age \in Nat : age = Larger(0, d - HalfWidth)
  <2>1. Larger(0, d - HalfWidth) \in Nat
    BY <1>0 DEF Larger
  <2>2. QED BY <2>1
<1>9. Age(r) = age /\ Centre(r) = report[r].position + report[r].velocity * fwd
  <2>1. time - (report[r].stamp + HalfWidth) = d - HalfWidth
    BY <1>0, <1>1, <1>2, <1>4
  <2>2. QED BY <1>4, <1>7, <1>8, <2>1 DEF Age, Centre
<1>10. since + fwd <= age + Margin
  <2>1. d + 2 * HalfWidth <= Margin
    BY <1>4 DEF InMargin
  <2>2. QED BY <1>0, <1>5, <1>7, <1>8, <2>1 DEF Larger
<1>11. /\ Limit * since \in Int /\ Limit * fwd \in Nat /\ Limit * (age + Margin) \in Int
       /\ Limit * since + Limit * fwd <= Limit * (age + Margin)
  <2>1. Limit * (since + fwd) <= Limit * (age + Margin)
    BY <1>0, <1>10, FartherInTime
  <2>2. Limit * (since + fwd) = Limit * since + Limit * fwd
    BY <1>0
  <2>3. Limit * since \in Int /\ Limit * fwd \in Nat /\ Limit * (age + Margin) \in Int
    BY <1>0
  <2>4. QED BY <2>1, <2>2, <2>3
<1>12. report[r].velocity * fwd \in {Limit * fwd, -(Limit * fwd)}
  <2>1. (-Limit) * fwd = -(Limit * fwd)
    BY <1>0
  <2>2. QED BY <1>2, <2>1
<1>13. Reach(r) = Limit * (age + Margin)
  BY <1>9 DEF Reach, Horizon
<1>14. QED
  BY <1>1, <1>2, <1>6, <1>9, <1>11, <1>12, <1>13 DEF Abs

\* A pair called clear does not touch, and an authorised robot is in its
\* volume, for any speeds, margins, clock errors and bodies (check_separation,
\* authorise).
THEOREM VerdictsAreReal == GuardSpec => []VerdictIsReal
<1>1. GuardInv => VerdictIsReal
  <2> SUFFICES ASSUME GuardInv PROVE VerdictIsReal
    OBVIOUS
  <2> USE GuardAssumption
  <2>0. Body \in Nat /\ "a" \in Platforms /\ "b" \in Platforms
    BY DEF Platforms
  <2>1. ASSUME InMargin("a"), InMargin("b"), Separated, Interacts
        PROVE  Abs(at["a"] - at["b"]) > 2 * Body
    <3>1. AxisMargin > 0
      BY <2>1 DEF Separated
    <3>2. /\ at["a"] \in Int /\ Centre("a") \in Int /\ Reach("a") \in Int
          /\ at["a"] - Centre("a") <= Reach("a") /\ Centre("a") - at["a"] <= Reach("a")
          /\ at["b"] \in Int /\ Centre("b") \in Int /\ Reach("b") \in Int
          /\ at["b"] - Centre("b") <= Reach("b") /\ Centre("b") - at["b"] <= Reach("b")
      BY <2>0, <2>1, InsideReach
    <3>3. QED BY <2>0, <3>1, <3>2 DEF AxisMargin, HalfExtent, Abs
  <2>2. ASSUME InMargin("a"), Authorised
        PROVE  grant.low <= at["a"] - Body /\ at["a"] + Body <= grant.high
    <3>1. grant \in Grants /\ Clearance(grant) >= 0
      BY <2>2 DEF Authorised, GuardInv, GuardTypeOK
    <3>2. grant.low \in Int /\ grant.high \in Int
      BY <3>1 DEF Grants
    <3>3. /\ at["a"] \in Int /\ Centre("a") \in Int /\ Reach("a") \in Int
          /\ at["a"] - Centre("a") <= Reach("a") /\ Centre("a") - at["a"] <= Reach("a")
      BY <2>0, <2>2, InsideReach
    <3>4. QED BY <2>0, <3>1, <3>2, <3>3 DEF Clearance, Box, HalfExtent
  <2>3. QED BY <2>1, <2>2 DEF VerdictIsReal
<1>2. QED
  BY <1>1, GuardInduction, PTL

\* The reports, the robots and the delegation keep their types.
THEOREM GuardTypeCorrect == GuardSpec => []GuardTypeOK
<1>1. GuardInv => GuardTypeOK
  BY DEF GuardInv
<1>2. QED
  BY <1>1, GuardInduction, PTL

-----------------------------------------------------------------------------
(* Time transfer: the stamps of the exchange under way keep their order on  *)
(* either clock, so that what the sample says of the offset is off by the   *)
(* difference of the two legs, and the round trip is their sum.             *)

Samples == [t4 : Int, theta : Int, delta : Int]
Covered(s) == Distance(s.theta, 2 * offset) <= s.delta

ProbeInv ==
    /\ local \in Int /\ offset \in Int
    /\ probe.leg \in {"none", "out", "dwell", "back"}
    /\ probe.t1 \in Int /\ probe.t2 \in Int /\ probe.t3 \in Int
    /\ probe = [leg |-> probe.leg, t1 |-> probe.t1, t2 |-> probe.t2, t3 |-> probe.t3]
    /\ probe.leg # "none" => probe.t1 <= local
    /\ probe.leg \in {"dwell", "back"} =>
          probe.t1 + offset <= probe.t2 /\ probe.t2 <= local + offset
    /\ probe.leg = "back" => probe.t2 <= probe.t3 /\ probe.t3 <= local + offset
HeldSamples == held \in Seq(Samples) /\ \A i \in 1..Len(held) : Covered(held[i])
TransferInv == ProbeInv /\ HeldSamples

\* A set of integers with a lower bound has a smallest element.
LEMMA LeastExists ==
    ASSUME NEW S \in SUBSET Nat, S # {}
    PROVE  \E x \in S : \A y \in S : x <= y
<1> DEFINE Less == {p \in Nat \X Nat : p[1] < p[2]}
<1>1. IsWellFoundedOn(Less, Nat)
  BY NatLessThanWellFounded DEF OpToRel
<1>2. PICK x \in S : \A y \in S : <<y, x>> \notin Less
  <2> HIDE DEF Less
  <2> QED BY <1>1, WFMin
<1>3. \A y \in S : x <= y
  <2> TAKE y \in S
  <2>1. <<y, x>> \in Nat \X Nat
    OBVIOUS
  <2>2. ~(<<y, x>>[1] < <<y, x>>[2])
    BY <1>2, <2>1
  <2> QED BY <2>2
<1> QED BY <1>3, Zenon

\* What the window keeps of samples the newest of which is recent is a suffix
\* of them (ClockTracker.observe).
LEMMA WindowKeeps ==
    ASSUME NEW samples \in Seq(Samples), samples # <<>>, local \in Int, TransferAssumption,
           samples[Len(samples)].t4 >= local - Window
    PROVE  /\ InWindow(samples) \in Seq(Samples)
           /\ \A i \in 1..Len(InWindow(samples)) : \E j \in 1..Len(samples) :
                  InWindow(samples)[i] = samples[j]
<1> DEFINE recent(k) == samples[k].t4 >= local - Window
           R == {k \in 1..Len(samples) : recent(k)}
<1>1. Len(samples) \in R /\ R \in SUBSET Nat
  OBVIOUS
<1>2. PICK k \in R : \A j \in R : k <= j
  <2> HIDE DEF R
  <2> QED
    BY <1>1, LeastExists
<1>3. k \in DOMAIN samples /\ recent(k) /\ \A j \in 1..(k - 1) : ~recent(j)
  <2>1. k \in 1..Len(samples) /\ recent(k)
    OBVIOUS
  <2>2. ASSUME NEW j \in 1..(k - 1), recent(j) PROVE FALSE
    <3>1. j \in 1..Len(samples)
      BY <2>1
    <3>2. k <= j
      BY <1>2, <2>2, <3>1
    <3>3. QED
      BY <2>1, <3>2
  <2>3. QED
    BY <2>1, <2>2
<1>4. DEFINE first == CHOOSE m \in DOMAIN samples : recent(m) /\ \A j \in 1..(m - 1) : ~recent(j)
<1>5. first \in DOMAIN samples
  <2> HIDE DEF recent
  <2> QED
    BY <1>3
<1>6. InWindow(samples) = SubSeq(samples, first, Len(samples))
  BY DEF InWindow
<1> HIDE DEF first, R
<1>7. first \in 1..Len(samples) /\ Len(samples) \in Nat
  BY <1>5
<1>8. \A m \in first..Len(samples) : samples[m] \in Samples
  BY <1>7
<1>9. /\ SubSeq(samples, first, Len(samples)) \in Seq(Samples)
      /\ Len(SubSeq(samples, first, Len(samples))) = Len(samples) - first + 1
      /\ \A i \in 1..(Len(samples) - first + 1) :
             SubSeq(samples, first, Len(samples))[i] = samples[first + i - 1]
  <2>1. first \in Int /\ Len(samples) \in Int /\ first <= Len(samples)
    BY <1>7
  <2>2. /\ SubSeq(samples, first, Len(samples)) \in Seq(Samples)
        /\ Len(SubSeq(samples, first, Len(samples)))
              = IF first <= Len(samples) THEN Len(samples) - first + 1 ELSE 0
        /\ \A i \in 1..(Len(samples) - first + 1) :
               SubSeq(samples, first, Len(samples))[i] = samples[first + i - 1]
    <3>1. ASSUME NEW m \in Int, NEW n \in Int, \A i \in m..n : samples[i] \in Samples
          PROVE  /\ SubSeq(samples, m, n) \in Seq(Samples)
                 /\ Len(SubSeq(samples, m, n)) = IF m <= n THEN n - m + 1 ELSE 0
                 /\ \A i \in 1..(n - m + 1) : SubSeq(samples, m, n)[i] = samples[m + i - 1]
      BY <3>1, SubSeqProperties
    <3>2. QED
      BY <1>8, <2>1, <3>1, Zenon
  <2>3. QED
    BY <2>1, <2>2
<1>10. ASSUME NEW i \in 1..(Len(samples) - first + 1)
       PROVE  first + i - 1 \in 1..Len(samples)
  BY <1>7
<1>11. QED
  BY <1>6, <1>9, <1>10

LEMMA TransferInitially == ASSUME TransferAssumption, TransferInit PROVE TransferInv
<1>1. offset \in Int /\ local = 0 /\ probe = NoProbe /\ held = <<>>
  BY DEF TransferAssumption, TransferInit
<1>2. ProbeInv
  BY <1>1 DEF ProbeInv, NoProbe
<1>3. HeldSamples
  BY <1>1 DEF HeldSamples
<1>4. QED
  BY <1>2, <1>3 DEF TransferInv

\* What the exchange says covers the true offset, whatever either leg took.
LEMMA StampsCover ==
    ASSUME ProbeInv, probe.leg = "back"
    PROVE  /\ Theta(probe, local) \in Int /\ Delta(probe, local) \in Int
           /\ Distance(Theta(probe, local), 2 * offset) <= Delta(probe, local)
<1>1. PICK a \in Int, b \in Int, c \in Int, d \in Int, o \in Int :
          /\ a = probe.t1 /\ b = probe.t2 /\ c = probe.t3 /\ d = local /\ o = offset
          /\ a + o <= b /\ b <= c /\ c <= d + o
  BY DEF ProbeInv
<1>2. Theta(probe, local) = (b - a) + (c - d) /\ Delta(probe, local) = (d - a) - (c - b)
  BY <1>1 DEF Theta, Delta
<1>3. Distance((b - a) + (c - d), 2 * o) <= (d - a) - (c - b)
  BY <1>1 DEF Distance
<1>4. QED
  BY <1>1, <1>2, <1>3

\* A sample is added with its cover, and those the window keeps had theirs.
LEMMA ObserveStep ==
    ASSUME TransferAssumption, TransferInv, ObserveExchange
    PROVE  TransferInv'
<1>1. local \in Int /\ offset \in Int /\ local' = local /\ offset' = offset
      /\ probe' = NoProbe /\ probe.leg = "back"
  BY DEF TransferInv, ProbeInv, ObserveExchange
<1>2. ProbeInv'
  BY <1>1 DEF ProbeInv, NoProbe
<1>3. CASE ~Plausible(probe, local)
  <2>1. held' = held
    BY <1>3 DEF ObserveExchange
  <2>2. HeldSamples'
    BY <1>1, <2>1 DEF TransferInv, HeldSamples, Covered
  <2>3. QED
    BY <1>2, <2>2 DEF TransferInv
<1>4. CASE Plausible(probe, local)
  <2>1. PICK s \in Samples :
            /\ s = [t4 |-> local, theta |-> Theta(probe, local), delta |-> Delta(probe, local)]
            /\ s.t4 = local /\ Covered(s)
    <3>1. PICK x \in Int, y \in Int :
              x = Theta(probe, local) /\ y = Delta(probe, local) /\ Distance(x, 2 * offset) <= y
      BY <1>1, StampsCover DEF TransferInv
    <3>2. [t4 |-> local, theta |-> x, delta |-> y] \in Samples
      BY <1>1 DEF Samples
    <3>3. Covered([t4 |-> local, theta |-> x, delta |-> y])
      BY <3>1 DEF Covered
    <3>4. QED
      BY <3>1, <3>2, <3>3
  <2>2. held \in Seq(Samples) /\ \A i \in 1..Len(held) : Covered(held[i])
    BY DEF TransferInv, HeldSamples
  <2>3. PICK all \in Seq(Samples) :
            all = Append(held, s)
    <3>1. Append(held, s) \in Seq(Samples)
      BY <2>1, <2>2
    <3>2. QED
      BY <3>1
  <2>4. all # <<>> /\ all[Len(all)] = s /\ \A i \in 1..Len(all) : Covered(all[i])
    <3>1. Len(all) = Len(held) + 1 /\ Len(held) \in Nat
      BY <2>2, <2>3
    <3>2. all[Len(all)] = s /\ \A i \in 1..Len(held) : all[i] = held[i]
      BY <2>2, <2>3
    <3>3. \A i \in 1..Len(all) : i \in 1..Len(held) \/ i = Len(all)
      BY <3>1
    <3>4. QED
      BY <2>1, <2>2, <3>1, <3>2, <3>3
  <2>5. all[Len(all)].t4 >= local - Window
    <3>1. Window \in Nat
      BY DEF TransferAssumption
    <3>2. QED
      BY <1>1, <2>1, <2>4, <3>1
  <2>6. PICK kept \in Seq(Samples) :
            /\ kept = InWindow(all)
            /\ \A i \in 1..Len(kept) : \E j \in 1..Len(all) : kept[i] = all[j]
    BY <1>1, <2>4, <2>5, WindowKeeps
  <2>7. held' = kept
    BY <1>4, <2>1, <2>3, <2>6 DEF ObserveExchange
  <2>8. \A i \in 1..Len(kept) : Covered(kept[i])
    BY <2>4, <2>6
  <2>9. HeldSamples'
    BY <1>1, <2>7, <2>8 DEF HeldSamples, Covered
  <2>10. QED
    BY <1>2, <2>9 DEF TransferInv
<1>5. QED
  BY <1>3, <1>4

LEMMA ProbeStep ==
    ASSUME TransferAssumption, TransferInv, [TransferNext]_transferVars, ~ObserveExchange
    PROVE  TransferInv'
<1>1. local \in Int /\ offset \in Int /\ ProbeInv
  BY DEF TransferInv, ProbeInv
<1>2. offset' = offset /\ held' = held
  BY DEF TransferNext, Elapse, SendProbe, RemoteReceives, RemoteAnswers, ProbeLost, transferVars
<1>3. HeldSamples'
  BY <1>2 DEF TransferInv, HeldSamples, Covered
<1>4. ProbeInv'
  <2>1. CASE Elapse
    BY <1>1, <2>1 DEF Elapse, ProbeInv
  <2>2. CASE SendProbe
    <3>1. probe' = [leg |-> "out", t1 |-> local, t2 |-> 0, t3 |-> 0]
      BY <1>1, <2>2 DEF SendProbe, NoProbe, ProbeInv
    <3>2. PICK p : p = probe' /\ p.leg = "out" /\ p.t1 = local /\ p.t2 = 0 /\ p.t3 = 0
                  /\ p = [leg |-> p.leg, t1 |-> p.t1, t2 |-> p.t2, t3 |-> p.t3]
      BY <3>1
    <3>3. local' = local
      BY <2>2 DEF SendProbe
    <3>4. QED
      BY <1>1, <1>2, <2>2, <3>2, <3>3 DEF SendProbe, ProbeInv
  <2>3. CASE RemoteReceives
    <3>1. probe' = [leg |-> "dwell", t1 |-> probe.t1, t2 |-> local + offset, t3 |-> probe.t3]
      BY <1>1, <2>3 DEF RemoteReceives, ProbeInv
    <3>2. PICK p : p = probe' /\ p.leg = "dwell" /\ p.t1 = probe.t1 /\ p.t2 = local + offset /\ p.t3 = probe.t3
                  /\ p = [leg |-> p.leg, t1 |-> p.t1, t2 |-> p.t2, t3 |-> p.t3]
      BY <3>1
    <3>3. local' = local
      BY <2>3 DEF RemoteReceives
    <3>4. QED
      BY <1>1, <1>2, <2>3, <3>2, <3>3 DEF RemoteReceives, ProbeInv
  <2>4. CASE RemoteAnswers
    <3>1. probe' = [leg |-> "back", t1 |-> probe.t1, t2 |-> probe.t2, t3 |-> local + offset]
      BY <1>1, <2>4 DEF RemoteAnswers, ProbeInv
    <3>2. PICK p : p = probe' /\ p.leg = "back" /\ p.t1 = probe.t1 /\ p.t2 = probe.t2 /\ p.t3 = local + offset
                  /\ p = [leg |-> p.leg, t1 |-> p.t1, t2 |-> p.t2, t3 |-> p.t3]
      BY <3>1
    <3>3. local' = local
      BY <2>4 DEF RemoteAnswers
    <3>4. QED
      BY <1>1, <1>2, <2>4, <3>2, <3>3 DEF RemoteAnswers, ProbeInv
  <2>5. CASE ProbeLost
    BY <1>1, <2>5 DEF ProbeLost, NoProbe, ProbeInv
  <2>6. CASE UNCHANGED transferVars
    BY <1>1, <2>6 DEF transferVars, ProbeInv
  <2>7. QED
    BY <2>1, <2>2, <2>3, <2>4, <2>5, <2>6 DEF TransferNext
<1>5. QED
  BY <1>3, <1>4 DEF TransferInv

LEMMA TransferInvariant == TransferSpec => []TransferInv
<1>1. TransferAssumption
  BY TransferAssumption
<1>2. TransferInit => TransferInv
  BY <1>1, TransferInitially
<1>3. TransferInv /\ [TransferNext]_transferVars => TransferInv'
  BY <1>1, ObserveStep, ProbeStep
<1>4. QED
  BY <1>2, <1>3, PTL DEF TransferSpec

\* The least queued sample that came first is its bucket's, so the best filtered
\* round trip is the best of all (ClockTracker.filtered_samples).
LEMMA BestIsKept ==
    ASSUME NEW SS, held \in Seq(SS), held # <<>>, \A i \in 1..Len(held) : held[i].delta \in Nat
    PROVE  \A i \in 1..Len(held) : BestTrip <= held[i].delta
<1> DEFINE n == Len(held)
           N == 1..n
<1>1. n \in Nat /\ n # 0 /\ DOMAIN held = N
  BY DEF N
<1>2. PICK d \in {held[i].delta : i \in N} : \A e \in {held[i].delta : i \in N} : d <= e
  <2>1. {held[i].delta : i \in N} \in SUBSET Nat /\ {held[i].delta : i \in N} # {}
    BY <1>1
  <2>2. QED
    BY <2>1, LeastExists
<1>3. PICK i \in N : held[i].delta = d /\ \A j \in N : held[j].delta = d => i <= j
  <2>1. {j \in N : held[j].delta = d} \in SUBSET Nat /\ {j \in N : held[j].delta = d} # {}
    BY <1>2
  <2>2. QED
    BY <2>1, LeastExists
<1>4. i \in Filtered
  <2>1. ASSUME NEW j \in N
        PROVE  held[j].delta > held[i].delta \/ (held[j].delta = held[i].delta /\ j >= i)
    <3>1. held[j].delta \in Nat /\ d <= held[j].delta /\ d \in Nat
      BY <1>2
    <3>2. QED
      BY <1>1, <1>3, <3>1
  <2>2. QED
    BY <1>1, <2>1 DEF Filtered
<1>5. Filtered \subseteq N
  BY <1>1 DEF Filtered
<1>6. d \in {held[j].delta : j \in Filtered} /\ \A j \in Filtered : d <= held[j].delta
  BY <1>2, <1>3, <1>4, <1>5
<1>7. BestTrip \in {held[j].delta : j \in Filtered} /\ \A j \in Filtered : BestTrip <= held[j].delta
  BY <1>6 DEF BestTrip
<1>8. BestTrip <= d /\ BestTrip \in Nat /\ d \in Nat
  BY <1>3, <1>4, <1>5, <1>7
<1>9. ASSUME NEW k \in 1..Len(held) PROVE BestTrip <= held[k].delta
  <2>1. held[k].delta \in Nat /\ d <= held[k].delta
    BY <1>2
  <2>2. QED
    BY <1>8, <2>1
<1>10. QED
  BY <1>9

\* The true offset is within half a round trip of what every sample held says
\* of it, for any delays of either leg, any dwell and any window, and the
\* narrowest of these bounds is one the buckets keep (Exchange.uncertainty_ms,
\* ClockTracker.filtered_samples).
THEOREM OffsetIsCovered == TransferSpec => []SamplesCoverOffset
<1>1. ASSUME TransferInv PROVE SamplesCoverOffset
  <2>1. held \in Seq(Samples) /\ DOMAIN held = 1..Len(held) /\ offset \in Int
        /\ \A i \in 1..Len(held) : Covered(held[i])
    BY <1>1 DEF TransferInv, HeldSamples, ProbeInv
  <2>2. ASSUME NEW i \in 1..Len(held)
        PROVE  Distance(held[i].theta, 2 * offset) <= held[i].delta /\ held[i].delta \in Nat
    <3>1. held[i].theta \in Int /\ held[i].delta \in Int
      <4>1. PICK s \in Samples : s = held[i]
        BY <2>1
      <4>2. QED
        BY <4>1 DEF Samples
    <3>2. QED
      BY <2>1, <3>1 DEF Covered, Distance
  <2>3. ASSUME NEW i \in 1..Len(held) PROVE BestTrip <= held[i].delta
    <3>1. held # <<>>
      BY <2>1
    <3>2. QED
      BY <2>1, <2>2, <3>1, BestIsKept
  <2>4. QED
    BY <2>1, <2>2, <2>3 DEF SamplesCoverOffset
<1>2. QED
  BY <1>1, TransferInvariant, PTL

-----------------------------------------------------------------------------
(* Frames: what a link maps, and what a chain of them makes of it *)

Points == [x : Int, y : Int]
Places == [turn : 0..3, x : Int, y : Int]
LinkRecords == [known : BOOLEAN, map : Places, sigma : Nat, rate : Nat, seen : Nat]

PoseInv == pose \in [FrameNames -> Places] /\ tick \in Nat
LinkFact(l, a, b) ==
    /\ l \in LinkRecords /\ l.seen <= tick
    /\ l.known => l.map = Relative(a, b)
LinksInv ==
    /\ links \in [FrameNames \X FrameNames -> LinkRecords]
    /\ \A a, b \in FrameNames : LinkFact(links[<<a, b>>], a, b)
FramesInv == PoseInv /\ LinksInv

LEMMA TurnedIs ==
    ASSUME NEW p \in Points
    PROVE  /\ Turned(0, p) = p /\ Turned(1, p) = [x |-> -p.y, y |-> p.x]
           /\ Turned(2, p) = [x |-> -p.x, y |-> -p.y] /\ Turned(3, p) = [x |-> p.y, y |-> -p.x]
BY DEF Turned

LEMMA TurnsOf ==
    /\ (4 - 0) % 4 = 0 /\ (4 - 1) % 4 = 3 /\ (4 - 2) % 4 = 2 /\ (4 - 3) % 4 = 1
    /\ \A m \in 0..3 : m % 4 = m /\ (m + 4) % 4 = m
OBVIOUS

\* A quarter turn more, four cases each: the coordinates of p seen from q.
SeenFrom(p, q) ==
    [turn |-> IF p.turn >= q.turn THEN p.turn - q.turn ELSE p.turn - q.turn + 4,
     x |-> IF q.turn = 0 THEN p.x - q.x ELSE IF q.turn = 1 THEN p.y - q.y
           ELSE IF q.turn = 2 THEN q.x - p.x ELSE q.y - p.y,
     y |-> IF q.turn = 0 THEN p.y - q.y ELSE IF q.turn = 1 THEN q.x - p.x
           ELSE IF q.turn = 2 THEN q.y - p.y ELSE p.x - q.x]

LEMMA InverseIs ==
    ASSUME NEW t \in Places
    PROVE  /\ InverseOf(t) \in Places
           /\ InverseOf(t) =
                [turn |-> IF t.turn = 0 THEN 0 ELSE 4 - t.turn,
                 x |-> IF t.turn = 0 THEN -t.x ELSE IF t.turn = 1 THEN -t.y
                       ELSE IF t.turn = 2 THEN t.x ELSE t.y,
                 y |-> IF t.turn = 0 THEN -t.y ELSE IF t.turn = 1 THEN t.x
                       ELSE IF t.turn = 2 THEN t.y ELSE -t.x]
<1>1. PICK m \in 0..3 : m = t.turn
  BY DEF Places
<1>2. PICK u \in Int : u = t.x
  BY DEF Places
<1>3. PICK v \in Int : v = t.y
  BY DEF Places
<1>4. PICK p \in Points : p = [x |-> -u, y |-> -v]
  <2>1. [x |-> -u, y |-> -v] \in Points
    BY DEF Points
  <2>2. QED
    BY <2>1
<1>5. PICK o : o = Turned((4 - m) % 4, p)
  OBVIOUS
<1>6. InverseOf(t) = [turn |-> (4 - m) % 4, x |-> o.x, y |-> o.y]
  BY <1>1, <1>2, <1>3, <1>4, <1>5 DEF InverseOf
<1>7. CASE m = 0
  <2>1. o = p /\ (4 - m) % 4 = 0
    BY <1>5, <1>7, TurnedIs, TurnsOf
  <2>2. InverseOf(t) = [turn |-> 0, x |-> -u, y |-> -v]
    BY <1>4, <1>6, <2>1
  <2>3. QED
    BY <1>1, <1>2, <1>3, <1>7, <2>2 DEF Places
<1>8. CASE m = 1
  <2>1. o = [x |-> p.y, y |-> -p.x] /\ (4 - m) % 4 = 3
    BY <1>5, <1>8, TurnedIs, TurnsOf
  <2>2. InverseOf(t) = [turn |-> 3, x |-> -v, y |-> u]
    BY <1>4, <1>6, <2>1
  <2>3. QED
    BY <1>1, <1>2, <1>3, <1>8, <2>2 DEF Places
<1>9. CASE m = 2
  <2>1. o = [x |-> -p.x, y |-> -p.y] /\ (4 - m) % 4 = 2
    BY <1>5, <1>9, TurnedIs, TurnsOf
  <2>2. InverseOf(t) = [turn |-> 2, x |-> u, y |-> v]
    BY <1>4, <1>6, <2>1
  <2>3. QED
    BY <1>1, <1>2, <1>3, <1>9, <2>2 DEF Places
<1>10. CASE m = 3
  <2>1. o = [x |-> -p.y, y |-> p.x] /\ (4 - m) % 4 = 1
    BY <1>5, <1>10, TurnedIs, TurnsOf
  <2>2. InverseOf(t) = [turn |-> 1, x |-> v, y |-> -u]
    BY <1>4, <1>6, <2>1
  <2>3. QED
    BY <1>1, <1>2, <1>3, <1>10, <2>2 DEF Places
<1>11. QED
  BY <1>7, <1>8, <1>9, <1>10

LEMMA ComposeIs ==
    ASSUME NEW t \in Places, NEW w \in Places
    PROVE  Compose(t, w) =
             [turn |-> IF t.turn + w.turn >= 4 THEN t.turn + w.turn - 4 ELSE t.turn + w.turn,
              x |-> t.x + (IF t.turn = 0 THEN w.x ELSE IF t.turn = 1 THEN -w.y
                           ELSE IF t.turn = 2 THEN -w.x ELSE w.y),
              y |-> t.y + (IF t.turn = 0 THEN w.y ELSE IF t.turn = 1 THEN w.x
                           ELSE IF t.turn = 2 THEN -w.y ELSE -w.x)]
<1>1. PICK m \in 0..3 : m = t.turn
  BY DEF Places
<1>2. w.turn \in 0..3 /\ w.x \in Int /\ w.y \in Int /\ t.x \in Int /\ t.y \in Int
  BY DEF Places
<1>3. PICK p \in Points : p = [x |-> w.x, y |-> w.y]
  <2>1. [x |-> w.x, y |-> w.y] \in Points
    BY <1>2 DEF Points
  <2>2. QED
    BY <2>1
<1>4. PICK r : r = Turned(m, p)
  OBVIOUS
<1>5. Compose(t, w) = [turn |-> (m + w.turn) % 4, x |-> r.x + t.x, y |-> r.y + t.y]
  <2>1. Apply(t, p) = [x |-> r.x + t.x, y |-> r.y + t.y]
    BY <1>1, <1>4 DEF Apply
  <2>2. Compose(t, w) = [turn |-> (m + w.turn) % 4, x |-> Apply(t, p).x, y |-> Apply(t, p).y]
    BY <1>1, <1>3 DEF Compose
  <2>3. QED
    BY <2>1, <2>2
<1>6. (m + w.turn) % 4 = IF m + w.turn >= 4 THEN m + w.turn - 4 ELSE m + w.turn
  <2>1. CASE m + w.turn >= 4
    <3>1. m + w.turn - 4 \in 0..3 /\ (m + w.turn - 4) + 4 = m + w.turn
      BY <1>2, <2>1
    <3>2. (m + w.turn) % 4 = m + w.turn - 4
      BY <3>1, TurnsOf
    <3>3. QED
      BY <2>1, <3>2
  <2>2. CASE ~(m + w.turn >= 4)
    <3>1. m + w.turn \in 0..3
      BY <1>2, <2>2
    <3>2. QED
      BY <2>2, <3>1, TurnsOf
  <2>3. QED
    BY <2>1, <2>2
<1>7. /\ r.x = IF m = 0 THEN w.x ELSE IF m = 1 THEN -w.y ELSE IF m = 2 THEN -w.x ELSE w.y
      /\ r.y = IF m = 0 THEN w.y ELSE IF m = 1 THEN w.x ELSE IF m = 2 THEN -w.y ELSE -w.x
  <2>1. p.x = w.x /\ p.y = w.y
    BY <1>3
  <2>2. m = 0 \/ m = 1 \/ m = 2 \/ m = 3
    OBVIOUS
  <2>3. CASE m = 0
    BY <1>4, <2>1, <2>3, TurnedIs
  <2>4. CASE m = 1
    BY <1>4, <2>1, <2>4, TurnedIs
  <2>5. CASE m = 2
    BY <1>4, <2>1, <2>5, TurnedIs
  <2>6. CASE m = 3
    BY <1>4, <2>1, <2>6, TurnedIs
  <2>7. QED
    BY <2>2, <2>3, <2>4, <2>5, <2>6
<1>8. r.x + t.x = t.x + r.x /\ r.y + t.y = t.y + r.y
  <2>1. r.x \in Int /\ r.y \in Int
    BY <1>2, <1>7
  <2>2. QED
    BY <1>2, <2>1
<1>9. QED
  BY <1>1, <1>5, <1>6, <1>7, <1>8

LEMMA RelativeIs ==
    ASSUME PoseInv, NEW a \in FrameNames, NEW b \in FrameNames
    PROVE  Relative(a, b) = SeenFrom(pose[a], pose[b]) /\ Relative(a, b) \in Places
<1>1. PICK p \in Places : p = pose[a]
  BY DEF PoseInv
<1>2. PICK q \in Places : q = pose[b]
  BY DEF PoseInv
<1>3. PICK t \in Places : t = InverseOf(q)
  BY InverseIs
<1>4. t = [turn |-> IF q.turn = 0 THEN 0 ELSE 4 - q.turn,
           x |-> IF q.turn = 0 THEN -q.x ELSE IF q.turn = 1 THEN -q.y
                 ELSE IF q.turn = 2 THEN q.x ELSE q.y,
           y |-> IF q.turn = 0 THEN -q.y ELSE IF q.turn = 1 THEN q.x
                 ELSE IF q.turn = 2 THEN q.y ELSE -q.x]
  BY <1>3, InverseIs
<1>5. /\ p.turn \in 0..3 /\ p.x \in Int /\ p.y \in Int
      /\ q.turn \in 0..3 /\ q.x \in Int /\ q.y \in Int
  BY DEF Places
<1>6. PICK c : c = Compose(t, p)
  OBVIOUS
<1>7. c = [turn |-> IF t.turn + p.turn >= 4 THEN t.turn + p.turn - 4 ELSE t.turn + p.turn,
           x |-> t.x + (IF t.turn = 0 THEN p.x ELSE IF t.turn = 1 THEN -p.y
                        ELSE IF t.turn = 2 THEN -p.x ELSE p.y),
           y |-> t.y + (IF t.turn = 0 THEN p.y ELSE IF t.turn = 1 THEN p.x
                        ELSE IF t.turn = 2 THEN -p.y ELSE -p.x)]
  BY <1>6, ComposeIs
<1>8. /\ c.turn = IF p.turn >= q.turn THEN p.turn - q.turn ELSE p.turn - q.turn + 4
      /\ c.x = IF q.turn = 0 THEN p.x - q.x ELSE IF q.turn = 1 THEN p.y - q.y
               ELSE IF q.turn = 2 THEN q.x - p.x ELSE q.y - p.y
      /\ c.y = IF q.turn = 0 THEN p.y - q.y ELSE IF q.turn = 1 THEN q.x - p.x
               ELSE IF q.turn = 2 THEN q.y - p.y ELSE p.x - q.x
  <2>1. q.turn = 0 \/ q.turn = 1 \/ q.turn = 2 \/ q.turn = 3
    BY <1>5
  <2>2. CASE q.turn = 0
    BY <1>4, <1>5, <1>7, <2>2
  <2>3. CASE q.turn = 1
    BY <1>4, <1>5, <1>7, <2>3
  <2>4. CASE q.turn = 2
    BY <1>4, <1>5, <1>7, <2>4
  <2>5. CASE q.turn = 3
    BY <1>4, <1>5, <1>7, <2>5
  <2>6. QED
    BY <2>1, <2>2, <2>3, <2>4, <2>5
<1>9. c = [turn |-> c.turn, x |-> c.x, y |-> c.y]
  BY <1>7
<1>10. c = SeenFrom(p, q)
  BY <1>8, <1>9 DEF SeenFrom
<1>11. c.turn \in 0..3 /\ c.x \in Int /\ c.y \in Int
  BY <1>5, <1>8
<1>12. c \in Places
  BY <1>9, <1>11 DEF Places
<1>13. c = Relative(a, b)
  BY <1>1, <1>2, <1>3, <1>6 DEF Relative
<1>14. QED
  BY <1>1, <1>2, <1>10, <1>12, <1>13

\* A link read the other way maps the other way.
LEMMA OtherWay ==
    ASSUME PoseInv, NEW a \in FrameNames, NEW b \in FrameNames
    PROVE  InverseOf(Relative(a, b)) = Relative(b, a)
<1>1. PICK p \in Places : p = pose[a]
  BY DEF PoseInv
<1>2. PICK q \in Places : q = pose[b]
  BY DEF PoseInv
<1>3. PICK t \in Places : t = Relative(a, b)
  BY RelativeIs
<1>4. t = SeenFrom(p, q) /\ Relative(b, a) = SeenFrom(q, p)
  BY <1>1, <1>2, <1>3, RelativeIs
<1>5. PICK i \in Places : i = InverseOf(t)
  BY InverseIs
<1>6. i = [turn |-> IF t.turn = 0 THEN 0 ELSE 4 - t.turn,
           x |-> IF t.turn = 0 THEN -t.x ELSE IF t.turn = 1 THEN -t.y
                 ELSE IF t.turn = 2 THEN t.x ELSE t.y,
           y |-> IF t.turn = 0 THEN -t.y ELSE IF t.turn = 1 THEN t.x
                 ELSE IF t.turn = 2 THEN t.y ELSE -t.x]
  BY <1>5, InverseIs
<1>7. /\ p.turn \in 0..3 /\ p.x \in Int /\ p.y \in Int
      /\ q.turn \in 0..3 /\ q.x \in Int /\ q.y \in Int
  BY DEF Places
<1>8. /\ t.turn = IF p.turn >= q.turn THEN p.turn - q.turn ELSE p.turn - q.turn + 4
      /\ t.x = IF q.turn = 0 THEN p.x - q.x ELSE IF q.turn = 1 THEN p.y - q.y
               ELSE IF q.turn = 2 THEN q.x - p.x ELSE q.y - p.y
      /\ t.y = IF q.turn = 0 THEN p.y - q.y ELSE IF q.turn = 1 THEN q.x - p.x
               ELSE IF q.turn = 2 THEN q.y - p.y ELSE p.x - q.x
  BY <1>4 DEF SeenFrom
<1>9. /\ i.turn = IF q.turn >= p.turn THEN q.turn - p.turn ELSE q.turn - p.turn + 4
      /\ i.x = IF p.turn = 0 THEN q.x - p.x ELSE IF p.turn = 1 THEN q.y - p.y
               ELSE IF p.turn = 2 THEN p.x - q.x ELSE p.y - q.y
      /\ i.y = IF p.turn = 0 THEN q.y - p.y ELSE IF p.turn = 1 THEN p.x - q.x
               ELSE IF p.turn = 2 THEN p.y - q.y ELSE q.x - p.x
  <2>1. q.turn = 0 \/ q.turn = 1 \/ q.turn = 2 \/ q.turn = 3
    BY <1>7
  <2>2. CASE q.turn = 0
    BY <1>6, <1>7, <1>8, <2>2
  <2>3. CASE q.turn = 1
    BY <1>6, <1>7, <1>8, <2>3
  <2>4. CASE q.turn = 2
    BY <1>6, <1>7, <1>8, <2>4
  <2>5. CASE q.turn = 3
    BY <1>6, <1>7, <1>8, <2>5
  <2>6. QED
    BY <2>1, <2>2, <2>3, <2>4, <2>5
<1>10. i = [turn |-> i.turn, x |-> i.x, y |-> i.y]
  BY <1>6
<1>11. i = SeenFrom(q, p)
  BY <1>9, <1>10 DEF SeenFrom
<1>12. QED
  BY <1>3, <1>4, <1>5, <1>11

\* Two hops between frames that face the same way map as one.
LEMMA TwoLevelHops ==
    ASSUME PoseInv, NEW a \in FrameNames, NEW b \in FrameNames, NEW c \in FrameNames,
           pose[a].turn = pose[b].turn, pose[b].turn = pose[c].turn
    PROVE  Compose(Relative(a, b), Relative(b, c)) = Relative(a, c)
<1>1. PICK p \in Places : p = pose[a]
  BY DEF PoseInv
<1>2. PICK q \in Places : q = pose[b]
  BY DEF PoseInv
<1>3. PICK r \in Places : r = pose[c]
  BY DEF PoseInv
<1>4. PICK t \in Places : t = Relative(a, b)
  BY RelativeIs
<1>5. PICK w \in Places : w = Relative(b, c)
  BY RelativeIs
<1>6. t = SeenFrom(p, q) /\ w = SeenFrom(q, r) /\ Relative(a, c) = SeenFrom(p, r)
  BY <1>1, <1>2, <1>3, <1>4, <1>5, RelativeIs
<1>7. /\ p.turn \in 0..3 /\ p.x \in Int /\ p.y \in Int /\ q.turn = p.turn /\ r.turn = p.turn
      /\ q.x \in Int /\ q.y \in Int /\ r.x \in Int /\ r.y \in Int
  BY <1>1, <1>2, <1>3 DEF Places
<1>8. PICK k : k = Compose(t, w)
  OBVIOUS
<1>9. t.turn = 0 /\ w.turn = 0
  BY <1>6, <1>7 DEF SeenFrom
<1>10. k = [turn |-> IF t.turn + w.turn >= 4 THEN t.turn + w.turn - 4 ELSE t.turn + w.turn,
            x |-> t.x + (IF t.turn = 0 THEN w.x ELSE IF t.turn = 1 THEN -w.y
                         ELSE IF t.turn = 2 THEN -w.x ELSE w.y),
            y |-> t.y + (IF t.turn = 0 THEN w.y ELSE IF t.turn = 1 THEN w.x
                         ELSE IF t.turn = 2 THEN -w.y ELSE -w.x)]
  BY <1>8, ComposeIs
<1>11. k.turn = 0 /\ k.x = t.x + w.x /\ k.y = t.y + w.y
  BY <1>9, <1>10
<1>12. /\ t.x = IF q.turn = 0 THEN p.x - q.x ELSE IF q.turn = 1 THEN p.y - q.y
                ELSE IF q.turn = 2 THEN q.x - p.x ELSE q.y - p.y
       /\ t.y = IF q.turn = 0 THEN p.y - q.y ELSE IF q.turn = 1 THEN q.x - p.x
                ELSE IF q.turn = 2 THEN q.y - p.y ELSE p.x - q.x
       /\ w.x = IF r.turn = 0 THEN q.x - r.x ELSE IF r.turn = 1 THEN q.y - r.y
                ELSE IF r.turn = 2 THEN r.x - q.x ELSE r.y - q.y
       /\ w.y = IF r.turn = 0 THEN q.y - r.y ELSE IF r.turn = 1 THEN r.x - q.x
                ELSE IF r.turn = 2 THEN r.y - q.y ELSE q.x - r.x
  BY <1>6 DEF SeenFrom
<1>13. /\ k.x = IF r.turn = 0 THEN p.x - r.x ELSE IF r.turn = 1 THEN p.y - r.y
                ELSE IF r.turn = 2 THEN r.x - p.x ELSE r.y - p.y
       /\ k.y = IF r.turn = 0 THEN p.y - r.y ELSE IF r.turn = 1 THEN r.x - p.x
                ELSE IF r.turn = 2 THEN r.y - p.y ELSE p.x - r.x
  BY <1>7, <1>11, <1>12
<1>14. k = [turn |-> k.turn, x |-> k.x, y |-> k.y]
  BY <1>10
<1>15. k = SeenFrom(p, r)
  BY <1>7, <1>11, <1>13, <1>14 DEF SeenFrom
<1>16. QED
  BY <1>4, <1>5, <1>6, <1>8, <1>15

-----------------------------------------------------------------------------
(* Frames: every link is what it was measured to be *)

LEMMA FramesInitially == ASSUME FrameAssumption, FrameInit PROVE FramesInv
<1>1. pose \in [FrameNames -> Places] /\ tick = 0
  BY DEF FrameInit, FrameAssumption, Places
<1>2. NoLink \in LinkRecords /\ ~NoLink.known /\ NoLink.seen = 0
  <2>1. [turn |-> 0, x |-> 0, y |-> 0] \in Places
    BY DEF Places
  <2>2. QED
    BY <2>1 DEF NoLink, LinkRecords
<1>3. links = [p \in FrameNames \X FrameNames |-> NoLink]
  BY DEF FrameInit
<1>4. \A a, b \in FrameNames : links[<<a, b>>] = NoLink
  BY <1>3
<1>5. links \in [FrameNames \X FrameNames -> LinkRecords]
  BY <1>2, <1>3
<1>6. ASSUME NEW a \in FrameNames, NEW b \in FrameNames PROVE LinkFact(links[<<a, b>>], a, b)
  <2>1. PICK l : l = NoLink
    OBVIOUS
  <2>2. l \in LinkRecords /\ ~l.known /\ l.seen <= tick
    BY <1>1, <1>2, <2>1
  <2>3. LinkFact(l, a, b)
    BY <2>2 DEF LinkFact
  <2>4. QED
    BY <1>4, <2>1, <2>3
<1>7. QED
  BY <1>1, <1>5, <1>6 DEF FramesInv, PoseInv, LinksInv

\* add() writes both directions of a link.
LEMMA AddStep ==
    ASSUME FrameAssumption, FramesInv, NEW a \in FrameNames, NEW b \in FrameNames, NEW rate \in Rates,
           a # b, AddLink(a, b, rate)
    PROVE  FramesInv'
<1>1. pose' = pose /\ tick' = tick /\ tick \in Nat /\ rate \in Nat
  BY DEF AddLink, FramesInv, PoseInv, FrameAssumption
<1>2. PICK m \in Places : m = Relative(a, b)
  BY RelativeIs DEF FramesInv
<1>3. PICK i \in Places : i = InverseOf(m)
  BY InverseIs
<1>4. PICK l : l = [known |-> TRUE, map |-> m, sigma |-> 1, rate |-> rate, seen |-> tick]
  OBVIOUS
<1>5. PICK k : k = [l EXCEPT !.map = i]
  OBVIOUS
<1>6. k = [known |-> TRUE, map |-> i, sigma |-> 1, rate |-> rate, seen |-> tick]
  BY <1>4, <1>5
<1>7. l \in LinkRecords /\ k \in LinkRecords
  BY <1>1, <1>4, <1>6 DEF LinkRecords
<1>8. k = Inverted(l)
  BY <1>3, <1>4, <1>5 DEF Inverted
<1>9. links' = [links EXCEPT ![<<a, b>>] = l, ![<<b, a>>] = k]
  BY <1>2, <1>4, <1>8 DEF AddLink
<1>10. i = Relative(b, a)
  BY <1>2, <1>3, OtherWay DEF FramesInv
<1>11. <<a, b>> # <<b, a>> /\ <<a, b>> \in FrameNames \X FrameNames /\ <<b, a>> \in FrameNames \X FrameNames
  OBVIOUS
<1>12. links \in [FrameNames \X FrameNames -> LinkRecords]
  BY DEF FramesInv, LinksInv
<1>13. links' \in [FrameNames \X FrameNames -> LinkRecords]
  BY <1>7, <1>9, <1>12
<1>14. \A c, d \in FrameNames : Relative(c, d)' = Relative(c, d)
  BY <1>1 DEF Relative
<1>15. ASSUME NEW c \in FrameNames, NEW d \in FrameNames
       PROVE  LinkFact(links[<<c, d>>], c, d)'
  <2>1. CASE c = a /\ d = b
    <3>1. links'[<<c, d>>] = l
      BY <1>9, <1>11, <1>12, <2>1
    <3>2. QED
      BY <1>1, <1>2, <1>4, <1>7, <1>14, <2>1, <3>1 DEF LinkFact
  <2>2. CASE c = b /\ d = a
    <3>1. links'[<<c, d>>] = k
      BY <1>9, <1>11, <1>12, <2>2
    <3>2. QED
      BY <1>1, <1>6, <1>7, <1>10, <1>14, <2>2, <3>1 DEF LinkFact
  <2>3. CASE ~(c = a /\ d = b) /\ ~(c = b /\ d = a)
    <3>1. <<c, d>> \in FrameNames \X FrameNames /\ <<c, d>> # <<a, b>> /\ <<c, d>> # <<b, a>>
      BY <2>3
    <3>2. links'[<<c, d>>] = links[<<c, d>>]
      BY <1>9, <1>12, <3>1
    <3>3. LinkFact(links[<<c, d>>], c, d)
      BY DEF FramesInv, LinksInv
    <3>4. QED
      BY <1>1, <1>14, <3>2, <3>3 DEF LinkFact
  <2>4. QED
    BY <2>1, <2>2, <2>3
<1>16. PoseInv'
  BY <1>1 DEF FramesInv, PoseInv
<1>17. QED
  BY <1>13, <1>15, <1>16 DEF FramesInv, LinksInv

\* Time only makes links older.
LEMMA OlderStep ==
    ASSUME FramesInv, pose' = pose, links' = links, tick' \in Nat, tick' >= tick
    PROVE  FramesInv'
<1>1. PoseInv'
  BY DEF FramesInv, PoseInv
<1>2. ASSUME NEW c \in FrameNames, NEW d \in FrameNames
      PROVE  LinkFact(links[<<c, d>>], c, d)'
  <2>1. Relative(c, d)' = Relative(c, d)
    BY DEF Relative
  <2>2. PICK l : l = links[<<c, d>>]
    OBVIOUS
  <2>3. LinkFact(l, c, d) /\ tick \in Nat
    BY <2>2 DEF FramesInv, LinksInv, PoseInv
  <2>4. l \in LinkRecords /\ l.seen \in Nat /\ l.seen <= tick /\ (l.known => l.map = Relative(c, d))
    BY <2>3 DEF LinkFact, LinkRecords
  <2>5. l.seen <= tick'
    BY <2>3, <2>4
  <2>6. QED
    BY <2>1, <2>2, <2>4, <2>5 DEF LinkFact
<1>3. (links \in [FrameNames \X FrameNames -> LinkRecords])'
  BY DEF FramesInv, LinksInv
<1>4. QED
  BY <1>1, <1>2, <1>3 DEF FramesInv, LinksInv

LEMMA FramesStep ==
    ASSUME FrameAssumption, FramesInv, [FrameNext]_frameVars
    PROVE  FramesInv'
<1>1. tick \in Nat
  BY DEF FramesInv, PoseInv
<1>2. CASE \E a, b \in FrameNames, rate \in Rates : a # b /\ AddLink(a, b, rate)
  BY <1>2, AddStep
<1>3. CASE Grow
  BY <1>1, <1>3, OlderStep DEF Grow
<1>4. CASE UNCHANGED frameVars
  BY <1>1, <1>4, OlderStep DEF frameVars
<1>5. QED
  BY <1>2, <1>3, <1>4 DEF FrameNext

LEMMA FramesInvariant == FrameSpec => []FramesInv
BY FrameAssumption, FramesInitially, FramesStep, PTL DEF FrameSpec

-----------------------------------------------------------------------------
(* Frames: what lookup() composes *)

LEMMA NaturalsBySteps ==
    ASSUME NEW G \in SUBSET Nat, 0 \in G, \A n \in G : n + 1 \in G
    PROVE  G = Nat
<1>1. SUFFICES ASSUME Nat \ G # {} PROVE FALSE
  OBVIOUS
<1>2. PICK n \in Nat \ G : \A m \in Nat \ G : n <= m
  BY <1>1, LeastExists
<1>3. n - 1 \in Nat /\ n - 1 \notin Nat \ G
  BY <1>2
<1>4. (n - 1) + 1 \in G
  BY <1>3
<1>5. QED
  BY <1>2, <1>4

\* The function by which lookup() folds a chain of hops.
Hop(c, i) == Aged(links[<<c[i], c[i + 1]>>])
IsFold(g, c) ==
    g = [i \in 1..(Len(c) - 1) |-> IF i = 1 THEN Hop(c, 1) ELSE Chained(g[i - 1], Hop(c, i))]

LEMMA FoldExists ==
    ASSUME NEW c, Len(c) \in Nat
    PROVE  \E g : IsFold(g, c)
<1> DEFINE Upto(g, n) == \A k \in 1..n : g[k] = IF k = 1 THEN Hop(c, 1) ELSE Chained(g[k - 1], Hop(c, k))
           G == {n \in Nat : \E g : Upto(g, n)}
<1>1. 0 \in G
  <2>1. Upto(<< >>, 0)
    OBVIOUS
  <2>2. QED
    BY <2>1
<1>2. ASSUME NEW n \in G PROVE n + 1 \in G
  <2>1. PICK g : Upto(g, n)
    OBVIOUS
  <2>2. n \in Nat
    OBVIOUS
  <2> DEFINE last == IF n = 0 THEN Hop(c, 1) ELSE Chained(g[n], Hop(c, n + 1))
             h == [k \in 1..(n + 1) |-> IF k <= n THEN g[k] ELSE last]
  <2>3. \A k \in 1..n : h[k] = g[k]
    BY <2>2
  <2>4. h[n + 1] = last
    BY <2>2
  <2>5. Upto(h, n + 1)
    <3>1. ASSUME NEW k \in 1..(n + 1)
          PROVE  h[k] = IF k = 1 THEN Hop(c, 1) ELSE Chained(h[k - 1], Hop(c, k))
      <4> HIDE DEF h
      <4>1. CASE k <= n /\ k = 1
        BY <2>1, <2>2, <2>3, <4>1
      <4>2. CASE k <= n /\ k # 1
        <5>1. k \in 1..n /\ k - 1 \in 1..n
          BY <2>2, <4>2
        <5>2. g[k] = Chained(g[k - 1], Hop(c, k))
          BY <2>1, <4>2, <5>1
        <5>3. h[k] = g[k] /\ h[k - 1] = g[k - 1]
          BY <2>3, <5>1
        <5>4. QED
          BY <4>2, <5>2, <5>3
      <4>3. CASE k = n + 1 /\ n = 0
        BY <2>4, <4>3
      <4>4. CASE k = n + 1 /\ n # 0
        <5>1. k # 1 /\ k - 1 = n /\ n \in 1..n
          BY <2>2, <4>4
        <5>2. h[n] = g[n]
          BY <2>3, <5>1
        <5>3. QED
          BY <2>4, <4>4, <5>1, <5>2
      <4>5. QED
        BY <2>2, <4>1, <4>2, <4>3, <4>4
    <3>2. QED
      BY <3>1
  <2> HIDE DEF Upto
  <2>6. QED
    BY <2>2, <2>5
<1>3. G = Nat
  <2>1. G \in SUBSET Nat
    OBVIOUS
  <2> HIDE DEF G
  <2>2. QED
    BY <1>1, <1>2, <2>1, NaturalsBySteps
<1>4. PICK g : Upto(g, Len(c))
  <2> HIDE DEF Upto
  <2> QED BY <1>3
<1> DEFINE f == [k \in 1..(Len(c) - 1) |-> g[k]]
<1>5. ASSUME NEW k \in 1..(Len(c) - 1)
      PROVE  f[k] = IF k = 1 THEN Hop(c, 1) ELSE Chained(f[k - 1], Hop(c, k))
  <2>1. k # 1 => k - 1 \in 1..(Len(c) - 1)
    OBVIOUS
  <2>2. f[k] = g[k] /\ (k # 1 => f[k - 1] = g[k - 1])
    BY <2>1
  <2>3. k \in 1..Len(c)
    OBVIOUS
  <2>4. g[k] = IF k = 1 THEN Hop(c, 1) ELSE Chained(g[k - 1], Hop(c, k))
    BY <1>4, <2>3
  <2> HIDE DEF f
  <2>5. QED
    BY <2>2, <2>4
<1>6. f = [k \in 1..(Len(c) - 1) |-> f[k]]
  OBVIOUS
<1>7. IsFold(f, c)
  <2> HIDE DEF f
  <2> QED BY <1>5, <1>6 DEF IsFold
<1>8. QED
  BY <1>7

LEMMA LookupFolds ==
    ASSUME NEW c, Len(c) \in Nat
    PROVE  \E g : IsFold(g, c) /\ Lookup(c) = g[Len(c) - 1]
<1>1. PICK f : f = CHOOSE g : IsFold(g, c)
  OBVIOUS
<1>2. IsFold(f, c)
  BY <1>1, FoldExists, Zenon
<1>3. Lookup(c) = f[Len(c) - 1]
  BY <1>1, Zenon DEF Lookup, IsFold, Hop
<1>4. QED
  BY <1>2, <1>3

LEMMA ProductIsNatural == ASSUME NEW m \in Nat, NEW n \in Nat PROVE m * n \in Nat
OBVIOUS

\* Age adds to the deviation of a hop, and a composition adds deviations.
LEMMA HopIs ==
    ASSUME FramesInv, NEW c \in Seq(FrameNames), Connected(c), NEW i \in 1..(Len(c) - 1)
    PROVE  /\ Hop(c, i) \in LinkRecords
           /\ Hop(c, i).map = Relative(c[i], c[i + 1])
<1>1. /\ Len(c) \in Nat /\ i \in 1..Len(c) /\ i + 1 \in 1..Len(c)
      /\ c[i] \in FrameNames /\ c[i + 1] \in FrameNames
  OBVIOUS
<1>2. PICK l : l = links[<<c[i], c[i + 1]>>]
  OBVIOUS
<1>3. l.known
  BY <1>2 DEF Connected
<1>4. LinkFact(l, c[i], c[i + 1]) /\ tick \in Nat
  BY <1>1, <1>2 DEF FramesInv, LinksInv, PoseInv
<1>5. l \in LinkRecords /\ l.map = Relative(c[i], c[i + 1]) /\ l.seen <= tick
  BY <1>3, <1>4 DEF LinkFact
<1>6. l.sigma \in Nat /\ l.rate \in Nat /\ l.seen \in Nat
  BY <1>5 DEF LinkRecords
<1>7. tick - l.seen \in Nat
  BY <1>4, <1>5, <1>6
<1>8. PICK w \in Nat : w = Inflation(l)
  BY <1>6, <1>7, ProductIsNatural DEF Inflation
<1>9. PICK s \in Nat : s = l.sigma + w
  BY <1>6
<1>10. Aged(l) = [l EXCEPT !.sigma = s]
  BY <1>8, <1>9 DEF Aged
<1>11. Aged(l) \in LinkRecords /\ Aged(l).map = l.map
  BY <1>5, <1>10 DEF LinkRecords
<1>12. QED
  BY <1>2, <1>5, <1>11 DEF Hop

LEMMA ChainedIs ==
    ASSUME NEW l \in LinkRecords, NEW k \in LinkRecords
    PROVE  /\ Chained(l, k) \in LinkRecords
           /\ Chained(l, k).sigma >= l.sigma /\ Chained(l, k).sigma >= k.sigma
           /\ Chained(l, k).map = Compose(l.map, k.map)
<1>1. /\ l.map \in Places /\ l.sigma \in Nat /\ l.rate \in Nat /\ l.seen \in Nat
      /\ k.map \in Places /\ k.sigma \in Nat /\ k.rate \in Nat /\ k.seen \in Nat
  BY DEF LinkRecords
<1>2. PICK m : m = Compose(l.map, k.map)
  OBVIOUS
<1>3. m \in Places
  <2>1. PICK t \in Places : t = l.map
    BY <1>1
  <2>2. PICK w \in Places : w = k.map
    BY <1>1
  <2>3. m = [turn |-> IF t.turn + w.turn >= 4 THEN t.turn + w.turn - 4 ELSE t.turn + w.turn,
             x |-> t.x + (IF t.turn = 0 THEN w.x ELSE IF t.turn = 1 THEN -w.y
                          ELSE IF t.turn = 2 THEN -w.x ELSE w.y),
             y |-> t.y + (IF t.turn = 0 THEN w.y ELSE IF t.turn = 1 THEN w.x
                          ELSE IF t.turn = 2 THEN -w.y ELSE -w.x)]
    BY <1>2, <2>1, <2>2, ComposeIs
  <2>4. /\ t.turn \in 0..3 /\ t.x \in Int /\ t.y \in Int
        /\ w.turn \in 0..3 /\ w.x \in Int /\ w.y \in Int
    BY DEF Places
  <2>5. QED
    BY <2>3, <2>4 DEF Places
<1>4. PICK s \in Nat : s = l.sigma + k.sigma
  BY <1>1
<1>5. PICK r \in Nat : r = WorseOf(l.rate, k.rate)
  BY <1>1 DEF WorseOf
<1>6. PICK n \in Nat : n = IF l.seen <= k.seen THEN l.seen ELSE k.seen
  BY <1>1
<1>7. PICK z : z = Chained(l, k)
  OBVIOUS
<1>8. z = [known |-> TRUE, map |-> m, sigma |-> s, rate |-> r, seen |-> n]
  BY <1>2, <1>4, <1>5, <1>6, <1>7 DEF Chained
<1>9. z \in LinkRecords
  BY <1>3, <1>8 DEF LinkRecords
<1>10. z.sigma = s /\ z.map = m /\ s >= l.sigma /\ s >= k.sigma
  BY <1>1, <1>4, <1>8
<1>11. QED
  BY <1>2, <1>7, <1>9, <1>10

\* What the first hops of a chain compose to.
Honest(s, c, i) ==
    /\ s \in LinkRecords
    /\ \A j \in 1..i : s.sigma >= Hop(c, j).sigma
    /\ i = 1 \/ ~Turns(c) => s.map = Relative(c[1], c[i + 1])

LEMMA HopsAddUp ==
    ASSUME FramesInv, NEW c \in Seq(FrameNames), Connected(c), NEW i \in Nat, i >= 1, i + 1 <= Len(c) - 1,
           NEW s, Honest(s, c, i)
    PROVE  Honest(Chained(s, Hop(c, i + 1)), c, i + 1)
<1>1. /\ Len(c) \in Nat /\ i + 1 \in 1..(Len(c) - 1) /\ i + 2 \in DOMAIN c /\ i + 1 \in DOMAIN c
      /\ 1 \in DOMAIN c /\ c[1] \in FrameNames /\ c[i + 1] \in FrameNames /\ c[i + 2] \in FrameNames
  OBVIOUS
<1>2. PICK k : k = Hop(c, i + 1)
  OBVIOUS
<1>3. k \in LinkRecords /\ k.map = Relative(c[i + 1], c[i + 2])
  <2>1. (i + 1) + 1 = i + 2
    OBVIOUS
  <2>2. QED
    BY <1>1, <1>2, <2>1, HopIs
<1>4. s \in LinkRecords
  BY DEF Honest
<1>5. PICK z : z = Chained(s, k)
  OBVIOUS
<1>6. z \in LinkRecords /\ z.sigma >= s.sigma /\ z.sigma >= k.sigma /\ z.map = Compose(s.map, k.map)
  BY <1>3, <1>4, <1>5, ChainedIs
<1>7. ASSUME NEW j \in 1..(i + 1) PROVE z.sigma >= Hop(c, j).sigma
  <2>1. CASE j = i + 1
    BY <1>2, <1>6, <2>1
  <2>2. CASE j # i + 1
    <3>1. j \in 1..i
      BY <2>2
    <3>2. s.sigma >= Hop(c, j).sigma
      BY <3>1 DEF Honest
    <3>3. s.sigma \in Nat /\ z.sigma \in Nat
      BY <1>4, <1>6 DEF LinkRecords
    <3>4. Hop(c, j).sigma \in Nat
      <4>1. j \in 1..(Len(c) - 1)
        BY <1>1
      <4>2. Hop(c, j) \in LinkRecords
        BY <4>1, HopIs
      <4>3. QED
        BY <4>2 DEF LinkRecords
    <3>5. QED
      BY <1>6, <3>2, <3>3, <3>4
  <2>3. QED
    BY <2>1, <2>2
<1>8. ASSUME ~Turns(c) PROVE z.map = Relative(c[1], c[i + 2])
  <2>1. s.map = Relative(c[1], c[i + 1])
    BY <1>8 DEF Honest
  <2>2. pose[c[i + 1]].turn = pose[c[1]].turn /\ pose[c[i + 2]].turn = pose[c[1]].turn
    BY <1>1, <1>8 DEF Turns
  <2>3. Compose(Relative(c[1], c[i + 1]), Relative(c[i + 1], c[i + 2])) = Relative(c[1], c[i + 2])
    BY <1>1, <2>2, TwoLevelHops DEF FramesInv
  <2>4. QED
    BY <1>3, <1>6, <2>1, <2>3
<1>9. (i + 1) + 1 = i + 2 /\ i + 1 # 1
  OBVIOUS
<1>10. Honest(z, c, i + 1)
  BY <1>6, <1>7, <1>8, <1>9 DEF Honest
<1>11. QED
  BY <1>2, <1>5, <1>10

LEMMA LookupHonest ==
    ASSUME FramesInv, NEW c \in Seq(FrameNames), Connected(c), Len(c) >= 2
    PROVE  Honest(Lookup(c), c, Len(c) - 1)
<1>1. Len(c) \in Nat
  OBVIOUS
<1>2. PICK g : IsFold(g, c) /\ Lookup(c) = g[Len(c) - 1]
  BY <1>1, LookupFolds
<1>3. \A k \in 1..(Len(c) - 1) : g[k] = IF k = 1 THEN Hop(c, 1) ELSE Chained(g[k - 1], Hop(c, k))
  BY <1>2 DEF IsFold
<1> DEFINE G == {n \in Nat : n + 1 <= Len(c) - 1 => Honest(g[n + 1], c, n + 1)}
<1>4. 0 \in G
  <2>1. 1 \in 1..(Len(c) - 1) /\ 1 \in DOMAIN c
    BY <1>1
  <2>2. PICK s : s = Hop(c, 1)
    OBVIOUS
  <2>3. s \in LinkRecords /\ s.map = Relative(c[1], c[1 + 1])
    BY <2>1, <2>2, HopIs
  <2>4. s.sigma \in Nat
    BY <2>3 DEF LinkRecords
  <2>5. \A j \in 1..1 : s.sigma >= Hop(c, j).sigma
    <3>1. \A j \in 1..1 : j = 1
      OBVIOUS
    <3>2. s.sigma >= s.sigma
      BY <2>4
    <3>3. QED
      BY <2>2, <3>1, <3>2
  <2>6. Honest(s, c, 1)
    BY <2>3, <2>5 DEF Honest
  <2>7. g[1] = s
    BY <1>3, <2>1, <2>2
  <2>8. 0 + 1 = 1
    OBVIOUS
  <2>9. QED
    BY <2>6, <2>7, <2>8
<1>5. ASSUME NEW n \in G PROVE n + 1 \in G
  <2>1. n \in Nat
    OBVIOUS
  <2>2. SUFFICES ASSUME (n + 1) + 1 <= Len(c) - 1 PROVE Honest(g[(n + 1) + 1], c, (n + 1) + 1)
    BY <2>1
  <2>3. n + 1 <= Len(c) - 1 /\ (n + 1) + 1 \in 1..(Len(c) - 1) /\ n + 1 \in Nat /\ n + 1 >= 1
    BY <1>1, <2>1, <2>2
  <2>4. Honest(g[n + 1], c, n + 1)
    BY <2>3
  <2>5. Honest(Chained(g[n + 1], Hop(c, (n + 1) + 1)), c, (n + 1) + 1)
    BY <2>2, <2>3, <2>4, HopsAddUp
  <2>6. g[(n + 1) + 1] = Chained(g[n + 1], Hop(c, (n + 1) + 1))
    <3>1. (n + 1) + 1 # 1 /\ ((n + 1) + 1) - 1 = n + 1
      BY <2>1
    <3>2. QED
      BY <1>3, <2>3, <3>1
  <2>7. QED
    BY <2>5, <2>6
<1>6. G = Nat
  <2>1. G \in SUBSET Nat
    OBVIOUS
  <2> HIDE DEF G
  <2>2. QED
    BY <1>4, <1>5, <2>1, NaturalsBySteps
<1>7. PICK n \in Nat : n + 1 = Len(c) - 1
  <2>1. Len(c) - 2 \in Nat /\ (Len(c) - 2) + 1 = Len(c) - 1
    BY <1>1
  <2>2. QED
    BY <2>1
<1>8. n \in G /\ n + 1 <= Len(c) - 1
  <2> HIDE DEF G
  <2>1. n \in G
    BY <1>6
  <2>2. QED
    BY <1>1, <1>7, <2>1
<1>9. Honest(g[n + 1], c, n + 1)
  BY <1>8
<1>10. QED
  BY <1>2, <1>7, <1>9

\* lookup() never claims to know a pose better than the most neglected hop of
\* its chain, whatever the frames, their drift and the order in which links
\* were measured, and it maps points where they are unless several hops turn.
THEOREM LookupsAreHonest == FrameSpec => []LookupIsHonest
<1>1. FramesInv => LookupIsHonest
  <2> SUFFICES ASSUME FramesInv PROVE LookupIsHonest
    OBVIOUS
  <2>1. ASSUME NEW c \in LinkedChains
        PROVE  /\ \A i \in 1..(Len(c) - 1) :
                     Lookup(c).sigma >= Aged(links[<<c[i], c[i + 1]>>]).sigma
               /\ Len(c) = 2 \/ ~Turns(c) => MapsProbe(c)
    <3>1. Connected(c) /\ c \in Chains
      BY DEF LinkedChains
    <3>2. PICK n \in 2..Cardinality(FrameNames) : c \in [1..n -> FrameNames]
      BY <3>1 DEF Chains
    <3>3. n \in Nat /\ n >= 2
      OBVIOUS
    <3>4. c \in Seq(FrameNames) /\ Len(c) = n
      BY <3>2, <3>3
    <3>5. Honest(Lookup(c), c, Len(c) - 1)
      BY <3>1, <3>3, <3>4, LookupHonest
    <3>6. \A i \in 1..(Len(c) - 1) : Lookup(c).sigma >= Aged(links[<<c[i], c[i + 1]>>]).sigma
      BY <3>5 DEF Honest, Hop
    <3>7. ASSUME Len(c) = 2 \/ ~Turns(c) PROVE MapsProbe(c)
      <4>1. (Len(c) - 1) + 1 = Len(c) /\ (Len(c) = 2 => Len(c) - 1 = 1)
        BY <3>3, <3>4
      <4>2. Lookup(c).map = Relative(c[1], c[Len(c)])
        BY <3>5, <3>7, <4>1 DEF Honest
      <4>3. QED
        BY <4>2 DEF MapsProbe
    <3>8. QED
      BY <3>6, <3>7
  <2>2. QED
    BY <2>1 DEF LookupIsHonest
<1>2. QED
  BY <1>1, FramesInvariant, PTL
=============================================================================
