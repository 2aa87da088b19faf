----------------------------- MODULE SafetyProofs -----------------------------
(***************************************************************************)
(* Proofs about SafetySupervisor.  Three facts are carried along: a halt   *)
(* that no later clear() answered keeps the latch set; a safe status, in   *)
(* the hands of a thread or stored, is not older than its age and lag say; *)
(* and a thread that has read "safe" in a clear() has read it from a       *)
(* controller that was safe since that clear() began.                      *)
(*                                                                         *)
(* And about SafetyCase: a verdict rolled up over a graph whose claims are *)
(* met again along other paths is the one its recorded evidence gives.     *)
(***************************************************************************)
EXTENDS SafetySupervisor, SafetyCase, FiniteSetTheorems, WellFoundedInduction, TLAPS

HaltInv == uncleared => latched

\* A cycle of the poll loop begins no earlier than its release.
LoopInv == pc[Poller] \in {"calling", "store", "stored"} => late >= 0

FreshInv ==
    /\ ctrl = "safe" => since = 0
    /\ \A t \in Threads : pc[t] = "store" /\ read[t] = "safe" => since <= lag[t]
    /\ sample = "safe" /\ age <= Stale => since <= age + ReadTime

ConfirmInv ==
    /\ ctrl = "safe" => Clearing \subseteq wasSafe
    /\ \A o \in Operators :
          pc[o] \in {"store", "stored"} /\ read[o] = "safe" => o \in wasSafe

SafetyInv == SafetyTypeOK /\ LoopInv /\ HaltInv /\ FreshInv /\ ConfirmInv

-----------------------------------------------------------------------------
\* An age grows by at most one and never passes its limit by more than one.
LEMMA AgedRange ==
    ASSUME NEW lo \in Int, NEW limit \in Int, NEW a \in lo .. limit + 1
    PROVE  /\ Aged(a, limit) \in lo .. limit + 1
           /\ Aged(a, limit) <= a + 1
           /\ a <= Aged(a, limit)
           /\ a <= limit => Aged(a, limit) = a + 1
BY DEF Aged

\* What _latch_locked leaves behind.
LEMMA LatchEffect ==
    ASSUME SafetyTypeOK, Latch
    PROVE  /\ latched' = TRUE /\ uncleared' = TRUE
           /\ moved' \in [Operators -> BOOLEAN]
           /\ ctrl' \in {"safe", "demand", "tripped"}
           /\ ctrl' = "safe" => ctrl = "safe"
BY DEF Latch, SafetyTypeOK

\* Every step keeps every variable of the supervisor in its type.
LEMMA SafetyTypeStep ==
    ASSUME SafetyTypeOK, LoopInv, [SafetyNext]_safetyVars
    PROVE  SafetyTypeOK'
<1> USE TickAssumption, PollerAssumption DEF loopVars, watchVars, latchVars
<1>1. CASE ControllerStep
  BY <1>1 DEF ControllerStep, SafetyTypeOK, Clearing
<1>2. CASE DemandHalt
  BY <1>2, LatchEffect DEF DemandHalt, SafetyTypeOK
<1>3. CASE Tick
  <2>1. age' \in 0 .. Stale + 1
    BY <1>3, AgedRange DEF Tick, SafetyTypeOK
  <2>2. late' \in -Period .. Deadline + 1
    BY <1>3, AgedRange DEF Tick, SafetyTypeOK
  <2>3. petAge' \in 0 .. Timeout + 1
    BY <1>3, AgedRange DEF Tick, SafetyTypeOK
  <2>4. since' \in 0 .. Stale + ReadTime + 1
    <3>1. Stale + ReadTime \in Int /\ since \in 0 .. (Stale + ReadTime) + 1
      BY DEF SafetyTypeOK
    <3>2. Aged(since, Stale + ReadTime) \in 0 .. (Stale + ReadTime) + 1
      BY <3>1, AgedRange
    <3> QED
      BY <1>3, <3>2 DEF Tick
  <2>5. lag' \in [Threads -> 0 .. ReadTime]
    BY <1>3 DEF Tick, SafetyTypeOK
  <2> QED
    BY <1>3, <2>1, <2>2, <2>3, <2>4, <2>5 DEF Tick, SafetyTypeOK
<1>4. CASE PollCall
  BY <1>4 DEF PollCall, SafetyTypeOK
<1>5. CASE PollEnd
  <2>1. late' \in -Period .. Deadline + 1
    BY <1>5 DEF PollEnd, LoopInv, SafetyTypeOK
  <2> QED
    BY <1>5, <2>1 DEF PollEnd, SafetyTypeOK, Statuses, Threads
<1>6. CASE PollOverrun
  BY <1>6, LatchEffect DEF PollOverrun, SafetyTypeOK
<1>7. CASE WatchdogPoll
  BY <1>7 DEF WatchdogPoll, SafetyTypeOK
<1>8. CASE WatchdogExpire
  BY <1>8, LatchEffect DEF WatchdogExpire, SafetyTypeOK
<1>9. ASSUME NEW t \in Threads, PollSample(t) PROVE SafetyTypeOK'
  BY <1>9 DEF PollSample, SafetyTypeOK, Observed, Statuses
<1>10. ASSUME NEW t \in Threads, PollStore(t) PROVE SafetyTypeOK'
  <2>1. /\ latched' \in BOOLEAN /\ uncleared' \in BOOLEAN
        /\ moved' \in [Operators -> BOOLEAN] /\ ctrl' \in {"safe", "demand", "tripped"}
    BY <1>10, LatchEffect DEF PollStore, SafetyTypeOK
  <2> QED
    BY <1>10, <2>1 DEF PollStore, SafetyTypeOK
<1>11. ASSUME NEW o \in Operators, ClearBegin(o) PROVE SafetyTypeOK'
  BY <1>11 DEF ClearBegin, SafetyTypeOK
<1>12. ASSUME NEW o \in Operators, ClearEnd(o) PROVE SafetyTypeOK'
  <2>1. latched' \in BOOLEAN /\ uncleared' \in BOOLEAN
    BY <1>12 DEF ClearEnd, SafetyTypeOK
  <2> QED
    BY <1>12, <2>1 DEF ClearEnd, SafetyTypeOK, Statuses
<1>13. ASSUME NEW d \in Dispatchers, PermitStep(d) PROVE SafetyTypeOK'
  BY <1>13 DEF PermitStep, PermitStatus, PermitLatch, PermitUsed, SafetyTypeOK
<1>14. CASE UNCHANGED safetyVars
  BY <1>14 DEF safetyVars, SafetyTypeOK
<1> QED
  BY <1>1, <1>2, <1>3, <1>4, <1>5, <1>6, <1>7, <1>8, <1>9, <1>10, <1>11, <1>12,
     <1>13, <1>14 DEF SafetyNext, LoopStep, WatchdogStep, ClearStep

-----------------------------------------------------------------------------
\* Only a release lets the loop leave its idle state, and time only grows.
LEMMA LoopInvStep ==
    ASSUME SafetyTypeOK, LoopInv, [SafetyNext]_safetyVars
    PROVE  LoopInv'
<1> USE TickAssumption, PollerAssumption DEF loopVars, watchVars, latchVars, Threads
<1>1. CASE pc' = pc /\ late' = late
  BY <1>1 DEF LoopInv
<1>2. CASE Tick
  BY <1>2, AgedRange DEF Tick, LoopInv, SafetyTypeOK
<1>3. CASE PollCall \/ PollEnd \/ PollOverrun
  BY <1>3 DEF PollCall, PollEnd, PollOverrun, LoopInv, SafetyTypeOK
<1>4. ASSUME NEW t \in Threads, PollSample(t) \/ PollStore(t) PROVE LoopInv'
  BY <1>4 DEF PollSample, PollStore, LoopInv, SafetyTypeOK
<1>5. ASSUME NEW o \in Operators, ClearBegin(o) \/ ClearEnd(o) PROVE LoopInv'
  BY <1>5 DEF ClearBegin, ClearEnd, LoopInv, SafetyTypeOK
<1> QED
  BY <1>1, <1>2, <1>3, <1>4, <1>5
     DEF SafetyNext, ControllerStep, DemandHalt, LoopStep, WatchdogStep, WatchdogPoll,
         WatchdogExpire, ClearStep, PermitStep, PermitStatus, PermitLatch, PermitUsed,
         safetyVars

\* The latch is set by every halt and falls only in a clear() that no halt
\* has overtaken.
LEMMA HaltStep ==
    ASSUME SafetyTypeOK, HaltInv, [SafetyNext]_safetyVars
    PROVE  HaltInv'
<1> USE DEF HaltInv, latchVars
<1>1. CASE latched' = latched /\ uncleared' = uncleared
  BY <1>1
<1>2. CASE latched' = TRUE
  BY <1>2
<1>3. ASSUME NEW o \in Operators, ClearEnd(o) PROVE HaltInv'
  BY <1>3 DEF ClearEnd, MayClear
<1>4. ASSUME NEW t \in Threads, PollStore(t) PROVE HaltInv'
  BY <1>4 DEF PollStore, Latch
<1> QED
  BY <1>1, <1>2, <1>3, <1>4
     DEF SafetyNext, ControllerStep, DemandHalt, Tick, LoopStep, PollCall, PollEnd,
         PollOverrun, WatchdogStep, WatchdogPoll, WatchdogExpire, PollSample, ClearStep,
         ClearBegin, PermitStep, PermitStatus, PermitLatch, PermitUsed, Latch, safetyVars

\* The stop request may trip a safe controller, never make one safe; only a
\* tick makes `since' grow.
LEMMA FreshStep ==
    ASSUME SafetyTypeOK, FreshInv, [SafetyNext]_safetyVars
    PROVE  FreshInv'
<1> USE TickAssumption, PollerAssumption DEF loopVars, watchVars, latchVars
<1> DEFINE Same == /\ sample' = sample /\ age' = age /\ pc' = pc /\ read' = read
                   /\ lag' = lag /\ since' = since /\ (ctrl' = "safe" => ctrl = "safe")
<1>1. CASE Same
  BY <1>1 DEF FreshInv
<1>2. CASE ControllerStep
  BY <1>2 DEF ControllerStep, FreshInv, SafetyTypeOK
<1>3. CASE Tick
  <2>1. /\ age' \in Int /\ (age <= Stale => age' = age + 1) /\ (age > Stale => age' = age)
    BY <1>3 DEF Tick, Aged, SafetyTypeOK
  <2>2. since' \in Int /\ since' <= since + 1 /\ (ctrl' = "safe" => since' = 0)
    BY <1>3 DEF Tick, Aged, SafetyTypeOK
  <2>3. sample' = sample /\ pc' = pc /\ read' = read
    BY <1>3 DEF Tick
  <2>4. \A t \in Threads : pc[t] = "store" => lag'[t] = lag[t] + 1
    BY <1>3 DEF Tick
  <2>5. /\ age \in Int /\ since \in Int /\ lag \in [Threads -> Int] /\ ReadTime \in Int
        /\ Stale \in Int
    BY DEF SafetyTypeOK
  <2>6. \A t \in Threads : pc'[t] = "store" /\ read'[t] = "safe" => since' <= lag'[t]
    BY <2>2, <2>3, <2>4, <2>5 DEF FreshInv
  <2>7. sample' = "safe" /\ age' <= Stale => since' <= age' + ReadTime
    <3> SUFFICES ASSUME sample = "safe", age' <= Stale PROVE since' <= age' + ReadTime
      BY <2>3
    <3>1. age <= Stale /\ age' = age + 1
      BY <2>1, <2>5
    <3>2. since <= age + ReadTime
      BY <3>1 DEF FreshInv
    <3> QED
      BY <2>2, <2>5, <3>1, <3>2
  <2> QED
    BY <2>2, <2>6, <2>7 DEF FreshInv
<1>4. ASSUME NEW t \in Threads, PollSample(t) PROVE FreshInv'
  <2>1. read'[t] = "safe" => since = 0
    BY <1>4 DEF PollSample, Observed, FreshInv, SafetyTypeOK
  <2>2. lag'[t] = 0 /\ \A u \in Threads \ {t} :
            lag'[u] = lag[u] /\ pc'[u] = pc[u] /\ read'[u] = read[u]
    BY <1>4 DEF PollSample, SafetyTypeOK
  <2>3. UNCHANGED <<ctrl, since, sample, age>>
    BY <1>4 DEF PollSample
  <2>4. \A u \in Threads : pc'[u] = "store" /\ read'[u] = "safe" => since' <= lag'[u]
    BY <2>1, <2>2, <2>3 DEF FreshInv
  <2> QED
    BY <2>3, <2>4 DEF FreshInv
<1>5. ASSUME NEW t \in Threads, PollStore(t) PROVE FreshInv'
  <2>1. ctrl' = "safe" => ctrl = "safe"
    BY <1>5, LatchEffect DEF PollStore
  <2>2. sample' = read[t] /\ age' = 0 /\ since' = since /\ read' = read
    BY <1>5 DEF PollStore
  <2>3. pc[t] = "store" /\ pc'[t] # "store" /\ \A u \in Threads \ {t} :
            lag'[u] = lag[u] /\ pc'[u] = pc[u]
    BY <1>5 DEF PollStore, SafetyTypeOK
  <2>4. lag[t] \in 0 .. ReadTime /\ since \in Int
    BY DEF SafetyTypeOK
  <2>5. sample' = "safe" => since' <= age' + ReadTime
    <3>1. read[t] = "safe" => since <= lag[t]
      BY <2>3 DEF FreshInv
    <3> QED
      BY <2>2, <2>4, <3>1
  <2>6. ASSUME NEW u \in Threads, pc'[u] = "store", read'[u] = "safe"
        PROVE  since' <= lag'[u]
    <3>1. u # t
      BY <2>3, <2>6
    <3>2. pc[u] = "store" /\ read[u] = "safe" /\ lag'[u] = lag[u]
      BY <2>2, <2>3, <2>6, <3>1
    <3> QED
      BY <2>2, <3>2 DEF FreshInv
  <2>7. ctrl' = "safe" => since' = 0
    BY <2>1, <2>2 DEF FreshInv
  <2> QED
    BY <2>5, <2>6, <2>7 DEF FreshInv
<1>6. ASSUME NEW t \in Threads, pc'[t] # "store", UNCHANGED <<ctrl, since, sample, age, lag>>,
             \A u \in Threads \ {t} : pc'[u] = pc[u] /\ read'[u] = read[u]
      PROVE  FreshInv'
  BY <1>6 DEF FreshInv
<1>7. CASE PollCall \/ PollEnd
  <2>1. Poller \in Threads
    BY DEF Threads
  <2> QED
    BY <1>6, <1>7, <2>1 DEF PollCall, PollEnd, SafetyTypeOK
<1>8. ASSUME NEW o \in Operators, ClearBegin(o) \/ ClearEnd(o) PROVE FreshInv'
  <2>1. o \in Threads
    BY DEF Threads
  <2> QED
    BY <1>6, <1>8, <2>1 DEF ClearBegin, ClearEnd, SafetyTypeOK
<1>9. CASE PollOverrun
  <2>1. Poller \in Threads
    BY DEF Threads
  <2>2. ctrl' = "safe" => ctrl = "safe"
    BY <1>9, LatchEffect DEF PollOverrun
  <2> QED
    BY <1>9, <2>1, <2>2 DEF PollOverrun, SafetyTypeOK, FreshInv
<1>10. CASE DemandHalt \/ WatchdogExpire
  BY <1>1, <1>10, LatchEffect DEF DemandHalt, WatchdogExpire
<1> QED
  BY <1>1, <1>2, <1>3, <1>4, <1>5, <1>7, <1>8, <1>9, <1>10
     DEF SafetyNext, LoopStep, WatchdogStep, WatchdogPoll, ClearStep, PermitStep,
         PermitStatus, PermitLatch, PermitUsed, safetyVars

\* A reading inside clear() is taken after clear() began.
LEMMA ConfirmStep ==
    ASSUME SafetyTypeOK, ConfirmInv, [SafetyNext]_safetyVars
    PROVE  ConfirmInv'
<1> USE TickAssumption, PollerAssumption
    DEF loopVars, watchVars, latchVars, Clearing
<1>1. ASSUME pc' = pc, read' = read, wasSafe' = wasSafe, ctrl' = "safe" => ctrl = "safe"
      PROVE  ConfirmInv'
  BY <1>1 DEF ConfirmInv
<1>2. CASE ControllerStep
  BY <1>2 DEF ControllerStep, ConfirmInv, SafetyTypeOK
<1>3. ASSUME NEW t \in Threads, PollSample(t) PROVE ConfirmInv'
  <2>1. read'[t] = "safe" => ctrl = "safe"
    BY <1>3 DEF PollSample, Observed, SafetyTypeOK
  <2>2. pc[t] = "calling" /\ UNCHANGED <<ctrl, wasSafe>> /\ \A u \in Threads \ {t} :
            pc'[u] = pc[u] /\ read'[u] = read[u]
    BY <1>3 DEF PollSample, SafetyTypeOK
  <2> QED
    BY <2>1, <2>2 DEF ConfirmInv, Threads
<1>4. ASSUME NEW t \in Threads, PollStore(t) PROVE ConfirmInv'
  <2>1. ctrl' = "safe" => ctrl = "safe"
    BY <1>4, LatchEffect DEF PollStore
  <2>2. /\ pc[t] = "store" /\ pc'[t] = "stored" /\ UNCHANGED <<read, wasSafe>>
        /\ \A u \in Threads \ {t} : pc'[u] = pc[u]
    BY <1>4 DEF PollStore, SafetyTypeOK
  <2> QED
    BY <2>1, <2>2 DEF ConfirmInv, Threads
<1>5. ASSUME wasSafe' = wasSafe, ctrl' = "safe" => ctrl = "safe",
             \A o \in Operators : pc'[o] = pc[o] /\ read'[o] = read[o]
      PROVE  ConfirmInv'
  BY <1>5 DEF ConfirmInv
<1>6. CASE PollCall \/ PollEnd
  BY <1>5, <1>6 DEF PollCall, PollEnd, SafetyTypeOK, Threads
<1>7. CASE PollOverrun
  BY <1>5, <1>7, LatchEffect DEF PollOverrun, SafetyTypeOK, Threads
<1>8. ASSUME NEW o \in Operators, ClearBegin(o) \/ ClearEnd(o) PROVE ConfirmInv'
  BY <1>8 DEF ClearBegin, ClearEnd, ConfirmInv, SafetyTypeOK, Threads
<1>9. CASE DemandHalt \/ WatchdogExpire
  BY <1>1, <1>9, LatchEffect DEF DemandHalt, WatchdogExpire
<1> QED
  BY <1>1, <1>2, <1>3, <1>4, <1>6, <1>7, <1>8, <1>9
     DEF SafetyNext, Tick, LoopStep, WatchdogStep, WatchdogPoll, ClearStep, PermitStep,
         PermitStatus, PermitLatch, PermitUsed, safetyVars

-----------------------------------------------------------------------------
LEMMA SafetyInvInit == SafetyInit => SafetyInv
<1> SUFFICES ASSUME SafetyInit PROVE SafetyInv
  OBVIOUS
<1> USE TickAssumption, PollerAssumption DEF SafetyInit
<1>1. SafetyTypeOK
  <2>1. latched \in BOOLEAN /\ uncleared \in BOOLEAN
    BY Zenon
  <2>2. ctrl \in {"safe", "demand", "tripped"} /\ sample \in Statuses
    BY Zenon DEF Observed, Statuses
  <2>3. /\ age = 0 /\ since = 0 /\ late = 0 /\ petAge = 0
        /\ pc = [t \in Threads |-> "idle"] /\ read = [t \in Threads |-> "unreachable"]
        /\ lag = [t \in Threads |-> 0] /\ moved = [o \in Operators |-> FALSE]
        /\ expired = FALSE /\ wpc = "idle" /\ permit = [d \in Dispatchers |-> "idle"]
        /\ wasSafe = {}
    BY Zenon
  <2> HIDE DEF SafetyInit
  <2>4. moved \in [Operators -> BOOLEAN] /\ expired \in BOOLEAN
    BY <2>3, Zenon
  <2>5. /\ age \in 0 .. Stale + 1 /\ petAge \in 0 .. Timeout + 1
        /\ late \in -Period .. Deadline + 1 /\ since \in 0 .. Stale + ReadTime + 1
        /\ lag \in [Threads -> 0 .. ReadTime]
    BY <2>3
  <2>6. /\ pc \in [Threads -> {"idle", "calling", "store", "stored", "overrun", "stopped"}]
        /\ read \in [Threads -> Statuses]
        /\ permit \in [Dispatchers -> {"idle", "checked", "granted"}]
    BY <2>3 DEF Statuses
  <2> QED
    BY <2>1, <2>2, <2>3, <2>4, <2>5, <2>6 DEF SafetyTypeOK
<1>2. HaltInv
  BY DEF HaltInv
<1>5. LoopInv
  BY DEF LoopInv, Threads
<1>3. FreshInv
  BY DEF FreshInv
<1>4. ConfirmInv
  BY DEF ConfirmInv, Clearing, Threads
<1> QED
  BY <1>1, <1>2, <1>3, <1>4, <1>5 DEF SafetyInv

\* SafetyInv is inductive.
THEOREM SafetyInvariant == SafetySpec => []SafetyInv
<1>1. SafetyInv /\ [SafetyNext]_safetyVars => SafetyInv'
  BY SafetyTypeStep, LoopInvStep, HaltStep, FreshStep, ConfirmStep DEF SafetyInv
<1> QED
  BY <1>1, SafetyInvInit, PTL DEF SafetySpec

\* Every variable of the supervisor keeps its type.
THEOREM SafetyTypeCorrect == SafetySpec => []SafetyTypeOK
BY SafetyInvariant, PTL DEF SafetyInv

\* permit_motion() works on a status no older than the staleness budget plus
\* the time of a reading, for any number of polling threads.
THEOREM PermissionAge == SafetySpec => []PermissionIsFresh
<1>1. SafetyInv => PermissionIsFresh
  BY TickAssumption DEF SafetyInv, FreshInv, PermissionIsFresh, StatusPermits, SafetyTypeOK
<1> QED
  BY <1>1, SafetyInvariant, PTL

\* permit_motion() never grants motion while a halt is uncleared.
THEOREM GrantsRespectHalts == SafetySpec => NoGrantUnderHalt
<1> DEFINE Grant == \A d \in Dispatchers :
        permit'[d] = "granted" /\ permit[d] # "granted" => ~uncleared
<1>1. SafetyInv /\ [SafetyNext]_safetyVars => [Grant]_safetyVars
  <2> SUFFICES ASSUME SafetyInv, SafetyNext, NEW d \in Dispatchers,
                      permit'[d] = "granted", permit[d] # "granted"
               PROVE  ~uncleared
    OBVIOUS
  <2>1. permit' # permit
    OBVIOUS
  <2>2. PICK e \in Dispatchers : PermitStep(e)
    BY <2>1 DEF SafetyNext, ControllerStep, DemandHalt, Tick, LoopStep, PollCall, PollEnd,
                PollOverrun, WatchdogStep, WatchdogPoll, WatchdogExpire, PollSample,
                PollStore, ClearStep, ClearBegin, ClearEnd
  <2>3. ~latched
    BY <2>2 DEF PermitStep, PermitStatus, PermitLatch, PermitUsed, SafetyInv, SafetyTypeOK
  <2> QED
    BY <2>3 DEF SafetyInv, HaltInv
<1> QED
  BY <1>1, SafetyInvariant, PTL DEF SafetySpec, NoGrantUnderHalt

\* clear() takes the latch away only when the controller was safe meanwhile.
THEOREM ClearsAreConfirmed == SafetySpec => ClearIsConfirmed
<1> DEFINE Confirmed == latched /\ ~latched' =>
        \E o \in Operators : pc[o] = "stored" /\ pc'[o] = "idle" /\ o \in wasSafe
<1>1. SafetyInv /\ [SafetyNext]_safetyVars => [Confirmed]_safetyVars
  <2> SUFFICES ASSUME SafetyInv, SafetyNext, latched, ~latched'
               PROVE  \E o \in Operators : pc[o] = "stored" /\ pc'[o] = "idle" /\ o \in wasSafe
    OBVIOUS
  <2>1. PICK o \in Operators : ClearEnd(o)
    BY DEF SafetyNext, ControllerStep, DemandHalt, Tick, LoopStep, PollCall, PollEnd,
           PollOverrun, WatchdogStep, WatchdogPoll, WatchdogExpire, PollSample, PollStore,
           ClearStep, ClearBegin, PermitStep, PermitStatus, PermitLatch, PermitUsed,
           Latch, latchVars
  <2>2. read[o] = "safe"
    BY <2>1 DEF ClearEnd, MayClear, ConfirmedSafe
  <2>3. pc[o] = "stored" /\ pc'[o] = "idle"
    BY <2>1 DEF ClearEnd, SafetyInv, SafetyTypeOK, Threads
  <2> QED
    BY <2>2, <2>3 DEF SafetyInv, ConfirmInv
<1> QED
  BY <1>1, SafetyInvariant, PTL DEF SafetySpec, ClearIsConfirmed

-----------------------------------------------------------------------------
(* SafetyCase: what is met on paths of sub-claims *)

LEMMA LeastExists ==
    ASSUME NEW S \in SUBSET Nat, S # {}
    PROVE  \E x \in S : \A y \in S : x <= y
<1> DEFINE Less == {p \in Nat \X Nat : p[1] < p[2]}
<1>1. IsWellFoundedOn(Less, Nat)
  BY NatLessThanWellFounded DEF OpToRel
<1>2. PICK x \in S : \A y \in S : <<y, x>> \notin Less
  <2> HIDE DEF Less
  <2> QED BY <1>1, WFMin
<1>3. \A y \in S : x <= y
  <2> TAKE y \in S
  <2>1. <<y, x>> \in Nat \X Nat
    OBVIOUS
  <2>2. ~(<<y, x>>[1] < <<y, x>>[2])
    BY <1>2, <2>1
  <2> QED BY <2>2
<1> QED BY <1>3, Zenon

LEMMA NaturalsBySteps ==
    ASSUME NEW G \in SUBSET Nat, 0 \in G, \A n \in G : n + 1 \in G
    PROVE  G = Nat
<1>1. SUFFICES ASSUME Nat \ G # {} PROVE FALSE
  OBVIOUS
<1>2. PICK n \in Nat \ G : \A m \in Nat \ G : n <= m
  BY <1>1, LeastExists
<1>3. n - 1 \in Nat /\ n - 1 \notin Nat \ G
  BY <1>2
<1>4. (n - 1) + 1 \in G
  BY <1>3
<1>5. QED
  BY <1>2, <1>4

\* One step along sub-claims, and the function that repeats it.
Onward(sub, K, S) == S \cup {d \in K : \E p \in S : d \in sub[p]}
IsGrowth(g, sub, K, A, N) ==
    g = [n \in 0..N |-> IF n = 0 THEN A ELSE Onward(sub, K, g[n - 1])]

LEMMA GrowthExists ==
    ASSUME NEW sub, NEW K, NEW A, NEW N \in Nat
    PROVE  \E g : IsGrowth(g, sub, K, A, N)
<1> DEFINE Upto(g, n) == \A k \in 0..n : g[k] = IF k = 0 THEN A ELSE Onward(sub, K, g[k - 1])
           G == {n \in Nat : \E g : Upto(g, n)}
<1>1. 0 \in G
  <2>1. Upto([k \in 0..0 |-> A], 0)
    OBVIOUS
  <2>2. QED
    BY <2>1
<1>2. ASSUME NEW n \in G PROVE n + 1 \in G
  <2>1. PICK g : Upto(g, n)
    OBVIOUS
  <2>2. n \in Nat
    OBVIOUS
  <2> DEFINE h == [k \in 0..(n + 1) |-> IF k <= n THEN g[k] ELSE Onward(sub, K, g[n])]
  <2>3. \A k \in 0..n : k \in 0..(n + 1) /\ h[k] = g[k]
    BY <2>2
  <2>4. n + 1 \in 0..(n + 1) /\ h[n + 1] = Onward(sub, K, g[n])
    BY <2>2
  <2>5. Upto(h, n + 1)
    <3>1. ASSUME NEW k \in 0..(n + 1)
          PROVE  h[k] = IF k = 0 THEN A ELSE Onward(sub, K, h[k - 1])
      <4> HIDE DEF h
      <4>1. CASE k = 0
        BY <2>1, <2>2, <2>3, <4>1
      <4>2. CASE k # 0 /\ k <= n
        <5>1. k \in 0..n /\ k - 1 \in 0..n
          BY <2>2, <4>2
        <5>2. g[k] = Onward(sub, K, g[k - 1])
          BY <2>1, <4>2, <5>1
        <5>3. QED
          BY <2>3, <4>2, <5>1, <5>2
      <4>3. CASE k = n + 1
        <5>1. k # 0 /\ k - 1 = n /\ n \in 0..n
          BY <2>2, <4>3
        <5>2. QED
          BY <2>3, <2>4, <4>3, <5>1
      <4>4. QED
        BY <2>2, <4>1, <4>2, <4>3
    <3>2. QED
      BY <3>1
  <2> HIDE DEF Upto
  <2>6. QED
    BY <2>2, <2>5
<1>3. G = Nat
  <2>1. G \in SUBSET Nat
    OBVIOUS
  <2> HIDE DEF G
  <2>2. QED
    BY <1>1, <1>2, <2>1, NaturalsBySteps
<1>4. PICK g : Upto(g, N)
  <2> HIDE DEF Upto
  <2> QED BY <1>3
<1> DEFINE f == [k \in 0..N |-> g[k]]
<1>5. ASSUME NEW k \in 0..N
      PROVE  f[k] = IF k = 0 THEN A ELSE Onward(sub, K, f[k - 1])
  <2>1. k # 0 => k - 1 \in 0..N
    OBVIOUS
  <2>2. f[k] = g[k] /\ (k # 0 => f[k - 1] = g[k - 1])
    BY <2>1
  <2>3. g[k] = IF k = 0 THEN A ELSE Onward(sub, K, g[k - 1])
    BY <1>4
  <2> HIDE DEF f
  <2>4. QED
    BY <2>2, <2>3
<1>6. f = [k \in 0..N |-> f[k]]
  OBVIOUS
<1>7. IsGrowth(f, sub, K, A, N)
  <2> HIDE DEF f
  <2> QED BY <1>5, <1>6 DEF IsGrowth
<1>8. QED
  BY <1>7

LEMMA ReachedGrows ==
    ASSUME NEW sub, NEW K, NEW A, Cardinality(Claims) \in Nat
    PROVE  \E g : /\ IsGrowth(g, sub, K, A, Cardinality(Claims))
                  /\ Reached(sub, K, A) = g[Cardinality(Claims)]
<1>1. PICK N \in Nat : N = Cardinality(Claims)
  OBVIOUS
<1>2. PICK f : f = CHOOSE g : IsGrowth(g, sub, K, A, N)
  OBVIOUS
<1>3. IsGrowth(f, sub, K, A, N)
  BY <1>2, GrowthExists, Zenon
<1>4. Reached(sub, K, A) = f[N]
  BY <1>1, <1>2, Zenon DEF Reached, IsGrowth, Onward
<1>5. QED
  BY <1>1, <1>3, <1>4

\* After as many steps as there are claims nothing new is met: all that is
\* met, and nothing beyond what any closed set around A holds.
LEMMA ReachedIs ==
    ASSUME IsFiniteSet(Claims), NEW sub, NEW K \in SUBSET Claims, NEW A \in SUBSET Claims
    PROVE  /\ A \subseteq Reached(sub, K, A) /\ Reached(sub, K, A) \subseteq A \cup K
           /\ \A p \in Reached(sub, K, A) : \A d \in sub[p] \cap K : d \in Reached(sub, K, A)
           /\ \A B : /\ A \subseteq B
                     /\ \A p \in B : \A d \in sub[p] \cap K : d \in B
                     => Reached(sub, K, A) \subseteq B
<1>1. PICK N \in Nat : N = Cardinality(Claims)
  BY FS_CardinalityType
<1>2. PICK g : IsGrowth(g, sub, K, A, N) /\ Reached(sub, K, A) = g[N]
  BY <1>1, ReachedGrows
<1>3. \A k \in 0..N : g[k] = IF k = 0 THEN A ELSE Onward(sub, K, g[k - 1])
  BY <1>2 DEF IsGrowth
<1>4. g[0] = A /\ \A k \in 0..(N - 1) : g[k + 1] = Onward(sub, K, g[k])
  <2>1. g[0] = A
    BY <1>3
  <2>2. ASSUME NEW k \in 0..(N - 1) PROVE g[k + 1] = Onward(sub, K, g[k])
    <3>1. k + 1 \in 0..N /\ k + 1 # 0 /\ (k + 1) - 1 = k
      OBVIOUS
    <3>2. QED
      BY <1>3, <3>1
  <2>3. QED
    BY <2>1, <2>2
<1>5. \A k \in 0..N : A \subseteq g[k] /\ g[k] \subseteq A \cup K
  <2> DEFINE G == {n \in Nat : n <= N => A \subseteq g[n] /\ g[n] \subseteq A \cup K}
  <2>1. 0 \in G
    BY <1>4
  <2>2. ASSUME NEW n \in G PROVE n + 1 \in G
    <3>1. SUFFICES ASSUME n + 1 <= N PROVE A \subseteq g[n + 1] /\ g[n + 1] \subseteq A \cup K
      OBVIOUS
    <3>2. n \in 0..(N - 1) /\ n <= N
      BY <3>1
    <3>3. A \subseteq g[n] /\ g[n] \subseteq A \cup K
      BY <3>2
    <3>4. QED
      BY <1>4, <3>2, <3>3 DEF Onward
  <2>3. G \in SUBSET Nat
    OBVIOUS
  <2>4. G = Nat
    <3> HIDE DEF G
    <3> QED BY <2>1, <2>2, <2>3, NaturalsBySteps
  <2>5. ASSUME NEW k \in 0..N PROVE A \subseteq g[k] /\ g[k] \subseteq A \cup K
    <3>1. k \in G
      <4> HIDE DEF G
      <4> QED BY <2>4
    <3>2. QED
      BY <3>1
  <2>6. QED
    BY <2>5
<1>6. ASSUME NEW B, A \subseteq B, \A p \in B : \A d \in sub[p] \cap K : d \in B
      PROVE  g[N] \subseteq B
  <2> DEFINE G == {n \in Nat : n <= N => g[n] \subseteq B}
  <2>1. 0 \in G
    BY <1>4, <1>6
  <2>2. ASSUME NEW n \in G PROVE n + 1 \in G
    <3>1. SUFFICES ASSUME n + 1 <= N PROVE g[n + 1] \subseteq B
      OBVIOUS
    <3>2. n \in 0..(N - 1) /\ n <= N
      BY <3>1
    <3>3. g[n] \subseteq B
      BY <3>2
    <3>4. QED
      BY <1>4, <1>6, <3>2, <3>3 DEF Onward
  <2>3. G \in SUBSET Nat
    OBVIOUS
  <2>4. G = Nat
    <3> HIDE DEF G
    <3> QED BY <2>1, <2>2, <2>3, NaturalsBySteps
  <2>5. N \in G
    <3> HIDE DEF G
    <3> QED BY <2>4
  <2>6. QED
    BY <2>5
<1>7. \A k \in 0..N : g[k] \in SUBSET Claims
  BY <1>5
<1>8. Onward(sub, K, g[N]) = g[N]
  <2> DEFINE G == {n \in Nat : n <= N => Onward(sub, K, g[n]) = g[n] \/ Cardinality(g[n]) >= n}
  <2>1. 0 \in G
    <3>1. IsFiniteSet(g[0])
      BY <1>4, FS_Subset
    <3>2. Cardinality(g[0]) \in Nat
      BY <3>1, FS_CardinalityType
    <3>3. QED
      BY <3>2
  <2>2. ASSUME NEW n \in G PROVE n + 1 \in G
    <3>1. SUFFICES ASSUME n + 1 <= N
                   PROVE  Onward(sub, K, g[n + 1]) = g[n + 1] \/ Cardinality(g[n + 1]) >= n + 1
      OBVIOUS
    <3>2. n \in 0..(N - 1) /\ n <= N /\ n \in 0..N /\ n + 1 \in 0..N
      BY <3>1
    <3>3. g[n + 1] = Onward(sub, K, g[n])
      BY <1>4, <3>2
    <3>4. CASE Onward(sub, K, g[n]) = g[n]
      BY <3>3, <3>4
    <3>5. CASE Onward(sub, K, g[n]) # g[n]
      <4>1. Cardinality(g[n]) >= n
        BY <3>2, <3>5
      <4>2. g[n] \subseteq g[n + 1] /\ g[n] # g[n + 1]
        BY <3>3, <3>5 DEF Onward
      <4>3. g[n] \in SUBSET Claims /\ g[n + 1] \in SUBSET Claims
        BY <1>7, <3>2
      <4>4. IsFiniteSet(g[n + 1]) /\ IsFiniteSet(g[n])
        BY <4>3, FS_Subset
      <4>5. Cardinality(g[n]) \in Nat /\ Cardinality(g[n + 1]) \in Nat
        BY <4>4, FS_CardinalityType
      <4>6. Cardinality(g[n]) < Cardinality(g[n + 1])
        <5>1. Cardinality(g[n]) <= Cardinality(g[n + 1]) /\ Cardinality(g[n]) # Cardinality(g[n + 1])
          BY <4>2, <4>4, FS_Subset
        <5>2. QED
          BY <4>5, <5>1
      <4>7. QED
        BY <4>1, <4>5, <4>6
    <3>6. QED
      BY <3>4, <3>5
  <2>3. G \in SUBSET Nat
    OBVIOUS
  <2>4. G = Nat
    <3> HIDE DEF G
    <3> QED BY <2>1, <2>2, <2>3, NaturalsBySteps
  <2>5. N \in G
    <3> HIDE DEF G
    <3> QED BY <2>4
  <2>6. CASE Cardinality(g[N]) >= N
    <3>1. g[N] \in SUBSET Claims
      BY <1>7
    <3>2. IsFiniteSet(g[N]) /\ Cardinality(g[N]) <= N
      BY <1>1, <3>1, FS_Subset
    <3>3. Cardinality(g[N]) \in Nat
      BY <3>2, FS_CardinalityType
    <3>4. Cardinality(g[N]) = Cardinality(Claims)
      BY <1>1, <2>6, <3>2, <3>3
    <3>5. g[N] = Claims
      BY <3>1, <3>4, FS_Subset
    <3>6. QED
      BY <3>5 DEF Onward
  <2>7. QED
    BY <2>5, <2>6
<1>9. \A p \in g[N] : \A d \in sub[p] \cap K : d \in g[N]
  BY <1>8 DEF Onward
<1>10. A \subseteq g[N] /\ g[N] \subseteq A \cup K
  BY <1>5
<1>11. QED
  BY <1>2, <1>6, <1>9, <1>10

-----------------------------------------------------------------------------
(* SafetyCase: the inductive invariant *)

Verdicts == Answers \cup Kinds
Frame == [claim : Claims, checks : SUBSET Evidence, kids : SUBSET Claims, under : SUBSET Verdicts]
Met == Below(argument.root) \cup {argument.root}

\* What a finished claim has under it, and the verdict that makes.
Gets(c, r) ==
    \/ \E e \in argument.by[c] : executed[e] = r
    \/ \E d \in argument.sub[c] : outcomes[d] = r
RollUp(c) ==
    IF argument.kind[c] # "argued" THEN argument.kind[c]
    ELSE IF argument.by[c] = {} /\ argument.sub[c] = {} THEN "undeveloped"
    ELSE IF Gets(c, "not_supported") THEN "not_supported"
    ELSE IF Gets(c, "inconclusive") THEN "inconclusive"
    ELSE "supported"
Settled(c) ==
    /\ c \in Met /\ argument.by[c] \subseteq DOMAIN executed /\ argument.sub[c] \subseteq DOMAIN outcomes
    /\ outcomes[c] = RollUp(c)

\* A frame of evaluate(): what it has run and what it has been told, with the
\* sub-claim that is being evaluated for it, if there is one.
FrameGets(f, open, r) ==
    \/ \E e \in argument.by[f.claim] \ f.checks : executed[e] = r
    \/ \E d \in (argument.sub[f.claim] \ f.kids) \ open : outcomes[d] = r
Rolled(f, open) ==
    /\ f \in Frame /\ f.claim \in Met
    /\ f.checks \subseteq argument.by[f.claim] /\ f.kids \subseteq argument.sub[f.claim]
    /\ open \subseteq argument.sub[f.claim] \ f.kids
    /\ argument.by[f.claim] \ f.checks \subseteq DOMAIN executed
    /\ (argument.sub[f.claim] \ f.kids) \ open \subseteq DOMAIN outcomes
    /\ \A r : r \in f.under <=> FrameGets(f, open, r)
Open(i) == IF i < Len(stack) THEN {stack[i + 1].claim} ELSE {}

WalkInv ==
    phase = "walking" =>
       /\ Sound /\ stack \in Seq(Frame) /\ Len(stack) >= 1 /\ stack[1].claim = argument.root
       /\ \A i \in 1..Len(stack) : Rolled(stack[i], Open(i))
DoneInv ==
    /\ \A e \in DOMAIN executed : executed[e] \in Answers
    /\ Sound => \A c \in DOMAIN outcomes : Settled(c)
EndInv ==
    /\ argument \in SomeCases /\ phase \in {"built", "walking", "reported"}
    /\ phase = "built" => outcomes = Empty
    /\ phase = "reported" =>
          IF Sound THEN argument.root \in DOMAIN outcomes ELSE outcomes = With(Empty, argument.root, "inconclusive")
CaseInv == WalkInv /\ DoneInv /\ EndInv

-----------------------------------------------------------------------------
(* SafetyCase: a settled argument is read off the graph *)

LEMMA BelowIs ==
    ASSUME CaseAssumption, Sound, NEW c \in Claims
    PROVE  /\ Below(c) \subseteq Claims /\ argument.sub[c] \subseteq Below(c)
           /\ \A p \in Below(c) : argument.sub[p] \subseteq Below(c)
           /\ \A B : /\ argument.sub[c] \subseteq B
                     /\ \A p \in B : p \in Claims => argument.sub[p] \subseteq B
                     => Below(c) \subseteq B
<1>1. PICK R : R = Below(c)
  OBVIOUS
<1>2. IsFiniteSet(Claims) /\ \A p \in Claims : argument.sub[p] \subseteq Claims
  BY DEF CaseAssumption, Sound
<1>3. PICK A \in SUBSET Claims : A = argument.sub[c] \cap Claims
  OBVIOUS
<1>4. R = Reached(argument.sub, Claims, A)
  BY <1>1, <1>3 DEF Below
<1>5. /\ A \subseteq R /\ R \subseteq A \cup Claims
      /\ \A p \in R : \A d \in argument.sub[p] \cap Claims : d \in R
      /\ \A B : /\ A \subseteq B
                /\ \A p \in B : \A d \in argument.sub[p] \cap Claims : d \in B
                => R \subseteq B
  BY <1>2, <1>4, ReachedIs
<1>6. R \subseteq Claims /\ argument.sub[c] \subseteq R /\ \A p \in R : argument.sub[p] \subseteq R
  BY <1>2, <1>3, <1>5
<1>7. ASSUME NEW B, argument.sub[c] \subseteq B,
             \A p \in B : p \in Claims => argument.sub[p] \subseteq B
      PROVE  R \subseteq B
  <2>1. PICK C : C = B \cap Claims
    OBVIOUS
  <2>2. A \subseteq C /\ \A p \in C : \A d \in argument.sub[p] \cap Claims : d \in C
    BY <1>3, <1>7, <2>1
  <2>3. R \subseteq C
    BY <1>5, <2>2
  <2>4. QED
    BY <2>1, <2>3
<1>8. QED
  BY <1>1, <1>6, <1>7

LEMMA RestsOnIs ==
    ASSUME CaseAssumption, NEW c \in Claims
    PROVE  /\ RestsOn(c) \subseteq Argued /\ (c \in Argued => c \in RestsOn(c))
           /\ \A p \in RestsOn(c) : \A d \in argument.sub[p] \cap Argued : d \in RestsOn(c)
           /\ \A B : /\ {c} \cap Argued \subseteq B
                     /\ \A p \in B : \A d \in argument.sub[p] \cap Argued : d \in B
                     => RestsOn(c) \subseteq B
<1>1. PICK R : R = RestsOn(c)
  OBVIOUS
<1>2. PICK K \in SUBSET Claims : K = Argued
  BY DEF Argued
<1>3. PICK A \in SUBSET Claims : A = {c} \cap K
  OBVIOUS
<1>4. IsFiniteSet(Claims)
  BY DEF CaseAssumption
<1>5. R = Reached(argument.sub, K, A)
  BY <1>1, <1>2, <1>3 DEF RestsOn
<1>6. /\ A \subseteq R /\ R \subseteq A \cup K
      /\ \A p \in R : \A d \in argument.sub[p] \cap K : d \in R
      /\ \A B : /\ A \subseteq B
                /\ \A p \in B : \A d \in argument.sub[p] \cap K : d \in B
                => R \subseteq B
  BY <1>4, <1>5, ReachedIs
<1>7. QED
  BY <1>1, <1>2, <1>3, <1>6

\* What a claim rests on, those it rests on rest on too.
LEMMA RestsFurther ==
    ASSUME CaseAssumption, NEW c \in Claims, NEW p \in Claims, p \in RestsOn(c) \/ p \notin Argued,
           NEW r, Finds(p, r)
    PROVE  Finds(c, r)
<1>1. PICK R : R = RestsOn(c)
  OBVIOUS
<1>2. \A q \in R : \A d \in argument.sub[q] \cap Argued : d \in R
  BY <1>1, RestsOnIs
<1>3. {p} \cap Argued \subseteq R
  BY <1>1
<1>4. RestsOn(p) \subseteq R
  BY <1>2, <1>3, RestsOnIs
<1>5. QED
  BY <1>1, <1>4 DEF Finds

\* A claim that is settled with a finding has it from a check of an argued
\* claim below: were it not so, one such claim would be the lowest.
LEMMA FindingIsFound ==
    ASSUME CaseAssumption, CaseInv, Sound, NEW r \in {"not_supported", "inconclusive"},
           NEW c \in DOMAIN outcomes, outcomes[c] = r
    PROVE  Finds(c, r)
<1> DEFINE Bad == {x \in DOMAIN outcomes : outcomes[x] = r /\ ~Finds(x, r)}
           Depth(x) == Cardinality(Below(x))
           Depths == {Depth(x) : x \in Bad}
<1>1. SUFFICES ASSUME Bad # {} PROVE FALSE
  OBVIOUS
<1>2. \A x \in DOMAIN outcomes : Settled(x)
  BY DEF CaseInv, DoneInv
<1>3. \A x \in DOMAIN outcomes : x \in Claims
  <2>1. argument.root \in Claims /\ Below(argument.root) \subseteq Claims
    BY BelowIs DEF Sound
  <2>2. QED
    BY <1>2, <2>1 DEF Settled, Met
<1>4. \A x \in Claims : IsFiniteSet(Below(x)) /\ Depth(x) \in Nat
  <2>1. ASSUME NEW x \in Claims PROVE IsFiniteSet(Below(x)) /\ Cardinality(Below(x)) \in Nat
    <3>1. Below(x) \in SUBSET Claims
      BY BelowIs
    <3>2. IsFiniteSet(Claims)
      BY DEF CaseAssumption
    <3>3. IsFiniteSet(Below(x))
      BY <3>1, <3>2, FS_Subset
    <3>4. QED
      BY <3>3, FS_CardinalityType
  <2>2. QED
    BY <2>1
<1>5. PICK x \in Bad : \A y \in Bad : Depth(x) <= Depth(y)
  <2>1. Depths \in SUBSET Nat /\ Depths # {}
    BY <1>1, <1>3, <1>4
  <2>2. PICK n \in Depths : \A m \in Depths : n <= m
    <3> HIDE DEF Depths
    <3> QED BY <2>1, LeastExists
  <2>3. PICK x \in Bad : n = Depth(x)
    OBVIOUS
  <2>4. \A y \in Bad : Depth(y) \in Depths
    OBVIOUS
  <2> HIDE DEF Bad, Depth, Depths
  <2>5. QED
    BY <2>2, <2>3, <2>4
<1>6. x \in DOMAIN outcomes /\ x \in Claims /\ outcomes[x] = r /\ ~Finds(x, r) /\ Settled(x)
  BY <1>2, <1>3
<1>7. argument.kind[x] \in Kinds
  BY <1>6 DEF CaseAssumption, CaseInv, EndInv
<1>8. argument.kind[x] = "argued" /\ Gets(x, r)
  BY <1>6, <1>7 DEF Settled, RollUp, Kinds
<1>9. x \in Argued /\ x \in RestsOn(x)
  BY <1>6, <1>8, RestsOnIs DEF Argued
<1>10. ~(\E e \in argument.by[x] : executed[e] = r)
  BY <1>6, <1>9 DEF Finds
<1>11. PICK d \in argument.sub[x] : outcomes[d] = r
  BY <1>8, <1>10 DEF Gets
<1>12. d \in DOMAIN outcomes /\ d \in Claims
  BY <1>3, <1>6 DEF Settled
<1>13. d \in RestsOn(x) \/ d \notin Argued
  BY <1>6, <1>9, RestsOnIs
<1>14. ~Finds(d, r)
  BY <1>6, <1>12, <1>13, RestsFurther
<1>15. d \in Bad
  BY <1>11, <1>12, <1>14
<1>16. Depth(x) <= Depth(d)
  <2> HIDE DEF Bad, Depth
  <2> QED BY <1>5, <1>15
<1>17. PICK X : X = Below(x)
  OBVIOUS
<1>18. PICK D : D = Below(d)
  OBVIOUS
<1>19. d \in X /\ argument.sub[d] \subseteq X /\ \A p \in X : argument.sub[p] \subseteq X
  BY <1>6, <1>17, BelowIs
<1>20. D \subseteq X
  BY <1>12, <1>18, <1>19, BelowIs
<1>21. d \notin D
  BY <1>12, <1>18 DEF Sound
<1>22. IsFiniteSet(X) /\ Cardinality(X) \in Nat /\ Cardinality(D) \in Nat
  BY <1>4, <1>6, <1>12, <1>17, <1>18
<1>23. Cardinality(D) <= Cardinality(X) /\ Cardinality(D) # Cardinality(X)
  BY <1>19, <1>20, <1>21, <1>22, FS_Subset
<1>24. Cardinality(X) <= Cardinality(D)
  BY <1>16, <1>17, <1>18
<1>25. QED
  BY <1>22, <1>23, <1>24

\* A refuting check below, on an argued path, refutes every claim above ...
LEMMA RefutationRises ==
    ASSUME CaseAssumption, CaseInv, Sound, NEW c \in DOMAIN outcomes, Finds(c, "not_supported")
    PROVE  outcomes[c] = "not_supported"
<1>1. \A x \in DOMAIN outcomes : Settled(x)
  BY DEF CaseInv, DoneInv
<1>2. c \in Claims
  <2>1. argument.root \in Claims /\ Below(argument.root) \subseteq Claims
    BY BelowIs DEF Sound
  <2>2. QED
    BY <1>1, <2>1 DEF Settled, Met
<1>3. PICK B : B = {p \in Argued : p \in DOMAIN outcomes
                                    /\ (outcomes[p] = "not_supported" => outcomes[c] = "not_supported")}
  OBVIOUS
<1>4. {c} \cap Argued \subseteq B
  BY <1>3
<1>5. ASSUME NEW p \in B, NEW d \in argument.sub[p] \cap Argued PROVE d \in B
  <2>1. p \in Argued /\ p \in DOMAIN outcomes /\ Settled(p)
    BY <1>1, <1>3
  <2>2. d \in DOMAIN outcomes /\ argument.kind[p] = "argued" /\ argument.sub[p] # {}
    BY <2>1 DEF Settled, Argued
  <2>3. ASSUME outcomes[d] = "not_supported" PROVE outcomes[c] = "not_supported"
    <3>1. Gets(p, "not_supported")
      BY <2>3 DEF Gets
    <3>2. outcomes[p] = "not_supported"
      BY <2>1, <2>2, <3>1 DEF Settled, RollUp
    <3>3. QED
      BY <1>3, <3>2
  <2>4. QED
    BY <1>3, <2>2, <2>3
<1>6. RestsOn(c) \subseteq B
  BY <1>2, <1>4, <1>5, RestsOnIs
<1>7. PICK d \in RestsOn(c) : \E e \in argument.by[d] : executed[e] = "not_supported"
  BY DEF Finds
<1>8. d \in Argued /\ d \in DOMAIN outcomes /\ Settled(d)
      /\ (outcomes[d] = "not_supported" => outcomes[c] = "not_supported")
  BY <1>1, <1>3, <1>6
<1>9. Gets(d, "not_supported") /\ argument.by[d] # {} /\ argument.kind[d] = "argued"
  BY <1>7, <1>8 DEF Gets, Argued
<1>10. outcomes[d] = "not_supported"
  BY <1>8, <1>9 DEF Settled, RollUp
<1>11. QED
  BY <1>8, <1>10

\* ... and one that could not be run leaves open every claim that is not refuted.
LEMMA DoubtRises ==
    ASSUME CaseAssumption, CaseInv, Sound, NEW c \in DOMAIN outcomes, Finds(c, "inconclusive"),
           ~Finds(c, "not_supported")
    PROVE  outcomes[c] = "inconclusive"
<1>1. \A x \in DOMAIN outcomes : Settled(x)
  BY DEF CaseInv, DoneInv
<1>2. c \in Claims
  <2>1. argument.root \in Claims /\ Below(argument.root) \subseteq Claims
    BY BelowIs DEF Sound
  <2>2. QED
    BY <1>1, <2>1 DEF Settled, Met
<1>3. PICK B : B = {p \in Argued : p \in DOMAIN outcomes /\ p \in RestsOn(c)
                                    /\ (outcomes[p] = "inconclusive" => outcomes[c] = "inconclusive")}
  OBVIOUS
<1>4. \A p \in B : ~Gets(p, "not_supported")
  <2>1. ASSUME NEW p \in B, Gets(p, "not_supported") PROVE FALSE
    <3>1. p \in Argued /\ p \in Claims /\ p \in DOMAIN outcomes /\ p \in RestsOn(c) /\ Settled(p)
      BY <1>1, <1>3 DEF Argued
    <3>2. outcomes[p] = "not_supported"
      BY <2>1, <3>1 DEF Settled, RollUp, Argued, Gets
    <3>3. Finds(p, "not_supported")
      BY <3>1, <3>2, FindingIsFound
    <3>4. QED
      BY <1>2, <3>1, <3>3, RestsFurther
  <2>2. QED
    BY <2>1
<1>5. {c} \cap Argued \subseteq B
  BY <1>2, <1>3, RestsOnIs
<1>6. ASSUME NEW p \in B, NEW d \in argument.sub[p] \cap Argued PROVE d \in B
  <2>1. p \in Argued /\ p \in DOMAIN outcomes /\ p \in RestsOn(c) /\ Settled(p)
    BY <1>1, <1>3
  <2>2. d \in DOMAIN outcomes /\ argument.kind[p] = "argued" /\ argument.sub[p] # {}
    BY <2>1 DEF Settled, Argued
  <2>3. d \in RestsOn(c)
    BY <1>2, <2>1, RestsOnIs
  <2>4. ASSUME outcomes[d] = "inconclusive" PROVE outcomes[c] = "inconclusive"
    <3>1. Gets(p, "inconclusive") /\ ~Gets(p, "not_supported")
      BY <1>4, <2>4 DEF Gets
    <3>2. outcomes[p] = "inconclusive"
      BY <2>1, <2>2, <3>1 DEF Settled, RollUp
    <3>3. QED
      BY <1>3, <3>2
  <2>5. QED
    BY <1>3, <2>2, <2>3, <2>4
<1>7. RestsOn(c) \subseteq B
  BY <1>2, <1>5, <1>6, RestsOnIs
<1>8. PICK d \in RestsOn(c) : \E e \in argument.by[d] : executed[e] = "inconclusive"
  BY DEF Finds
<1>9. /\ d \in B /\ d \in Argued /\ d \in DOMAIN outcomes /\ Settled(d)
      /\ outcomes[d] = "inconclusive" => outcomes[c] = "inconclusive"
  BY <1>1, <1>3, <1>7
<1>10. /\ Gets(d, "inconclusive") /\ ~Gets(d, "not_supported")
       /\ argument.by[d] # {} /\ argument.kind[d] = "argued"
  BY <1>4, <1>8, <1>9 DEF Gets, Argued
<1>11. outcomes[d] = "inconclusive"
  BY <1>9, <1>10 DEF Settled, RollUp
<1>12. QED
  BY <1>9, <1>11

LEMMA ReportReadsOff ==
    ASSUME CaseAssumption, CaseInv
    PROVE  ReportIsOneAnswer
<1>1. SUFFICES ASSUME phase = "reported" PROVE IF ~Sound THEN outcomes = With(Empty, argument.root, "inconclusive")
        ELSE /\ DOMAIN outcomes = Below(argument.root) \cup {argument.root}
             /\ \A c \in DOMAIN outcomes :
                  /\ outcomes[c] = "not_supported" <=> Finds(c, "not_supported")
                  /\ outcomes[c] = "inconclusive" <=> Finds(c, "inconclusive") /\ ~Finds(c, "not_supported")
  BY DEF ReportIsOneAnswer
<1>2. CASE ~Sound
  BY <1>1, <1>2 DEF CaseInv, EndInv
<1>3. CASE Sound
  <2>1. argument.root \in DOMAIN outcomes /\ \A c \in DOMAIN outcomes : Settled(c)
    BY <1>1, <1>3 DEF CaseInv, EndInv, DoneInv
  <2>2. DOMAIN outcomes \subseteq Below(argument.root) \cup {argument.root}
    BY <2>1 DEF Settled, Met
  <2>3. Below(argument.root) \subseteq DOMAIN outcomes
    <3>1. argument.sub[argument.root] \subseteq DOMAIN outcomes /\ \A p \in DOMAIN outcomes : argument.sub[p] \subseteq DOMAIN outcomes
      BY <2>1 DEF Settled
    <3>2. argument.root \in Claims
      BY <1>3 DEF Sound
    <3>3. QED
      BY <1>3, <3>1, <3>2, BelowIs
  <2>4. ASSUME NEW c \in DOMAIN outcomes
        PROVE  /\ outcomes[c] = "not_supported" <=> Finds(c, "not_supported")
               /\ outcomes[c] = "inconclusive" <=> Finds(c, "inconclusive") /\ ~Finds(c, "not_supported")
    <3>1. outcomes[c] = "not_supported" => Finds(c, "not_supported")
      BY <1>3, FindingIsFound
    <3>2. Finds(c, "not_supported") => outcomes[c] = "not_supported"
      BY <1>3, RefutationRises
    <3>3. outcomes[c] = "inconclusive" => Finds(c, "inconclusive")
      BY <1>3, FindingIsFound
    <3>4. Finds(c, "inconclusive") /\ ~Finds(c, "not_supported") => outcomes[c] = "inconclusive"
      BY <1>3, DoubtRises
    <3>5. QED
      BY <3>1, <3>2, <3>3, <3>4
  <2>5. QED
    BY <1>3, <2>1, <2>2, <2>3, <2>4
<1>4. QED
  BY <1>2, <1>3

-----------------------------------------------------------------------------
(* SafetyCase: the walk *)

Extends(g, f) == DOMAIN f \subseteq DOMAIN g /\ \A x \in DOMAIN f : g[x] = f[x]

\* What was settled, or rolled up into a frame, stays when more is recorded.
LEMMA StaysRolled ==
    ASSUME argument' = argument, Extends(executed', executed), Extends(outcomes', outcomes),
           NEW f, NEW open, Rolled(f, open)
    PROVE  Rolled(f, open)'
<1>1. Met' = Met
  BY DEF Met, Below
<1>2. PICK b : b = argument.by[f.claim] \ f.checks
  OBVIOUS
<1>3. PICK s : s = (argument.sub[f.claim] \ f.kids) \ open
  OBVIOUS
<1>4. b \subseteq DOMAIN executed /\ s \subseteq DOMAIN outcomes
  BY <1>2, <1>3 DEF Rolled
<1>5. /\ \A e \in b : e \in DOMAIN executed' /\ executed'[e] = executed[e]
      /\ \A d \in s : d \in DOMAIN outcomes' /\ outcomes'[d] = outcomes[d]
  BY <1>4 DEF Extends
<1>6. ASSUME NEW r PROVE FrameGets(f, open, r)' <=> FrameGets(f, open, r)
  BY <1>2, <1>3, <1>5 DEF FrameGets
<1>7. \A r : r \in f.under <=> FrameGets(f, open, r)'
  BY <1>6 DEF Rolled
<1>8. b \subseteq DOMAIN executed' /\ s \subseteq DOMAIN outcomes'
  BY <1>5
<1>9. QED
  BY <1>1, <1>2, <1>3, <1>7, <1>8 DEF Rolled

LEMMA StaysSettled ==
    ASSUME argument' = argument, Extends(executed', executed), Extends(outcomes', outcomes),
           NEW c \in DOMAIN outcomes, Settled(c)
    PROVE  Settled(c)'
<1>1. Met' = Met
  BY DEF Met, Below
<1>2. argument.by[c] \subseteq DOMAIN executed /\ argument.sub[c] \subseteq DOMAIN outcomes
  BY DEF Settled
<1>3. /\ \A e \in argument.by[c] : e \in DOMAIN executed' /\ executed'[e] = executed[e]
      /\ \A d \in argument.sub[c] : d \in DOMAIN outcomes' /\ outcomes'[d] = outcomes[d]
  BY <1>2 DEF Extends
<1>4. ASSUME NEW r PROVE Gets(c, r)' <=> Gets(c, r)
  BY <1>3 DEF Gets
<1>5. RollUp(c)' = RollUp(c)
  BY <1>4 DEF RollUp
<1>6. outcomes'[c] = outcomes[c]
  BY DEF Extends
<1>7. QED
  BY <1>1, <1>3, <1>5, <1>6 DEF Settled

LEMMA SameIsExtended == \A f : Extends(f, f)
BY DEF Extends

\* A frame that evaluate() has just entered, on a claim that was met.
LEMMA PushIsRolled ==
    ASSUME CaseAssumption, Sound, argument \in SomeCases, NEW c \in Claims, c \in Met
    PROVE  Rolled(Push(c), {})
<1>1. PICK f : f = Push(c)
  OBVIOUS
<1>2. f = [claim |-> c, checks |-> argument.by[c], kids |-> argument.sub[c], under |-> {}]
  BY <1>1 DEF Push
<1>3. argument.by[c] \subseteq Evidence /\ argument.sub[c] \subseteq Claims
  BY DEF CaseAssumption, Sound
<1>4. f \in Frame
  BY <1>2, <1>3 DEF Frame
<1>5. ASSUME NEW r PROVE ~FrameGets(f, {}, r)
  BY <1>2 DEF FrameGets
<1>6. \A r : r \in f.under <=> FrameGets(f, {}, r)
  BY <1>2, <1>5
<1>7. f.claim = c /\ f.checks = argument.by[c] /\ f.kids = argument.sub[c]
  BY <1>2
<1>8. Rolled(f, {})
  BY <1>4, <1>6, <1>7 DEF Rolled
<1>9. QED
  BY <1>1, <1>8

LEMMA CaseInitially == ASSUME CaseInit PROVE CaseInv
<1>1. DOMAIN Empty = {}
  BY DEF Empty
<1>2. QED
  BY <1>1 DEF CaseInit, CaseInv, WalkInv, DoneInv, EndInv

LEMMA BeginCase ==
    ASSUME CaseAssumption, CaseInv, BeginVerify
    PROVE  CaseInv'
<1>1. phase = "built" /\ argument' = argument /\ executed' = executed /\ argument \in SomeCases
      /\ outcomes = Empty
  BY DEF BeginVerify, CaseInv, EndInv
<1>2. Sound' = Sound
  BY <1>1 DEF Sound, Below
<1>3. DOMAIN Empty = {}
  BY DEF Empty
<1>4. CASE ~Sound
  <2>1. phase' = "reported" /\ outcomes' = With(Empty, argument.root, "inconclusive")
    BY <1>4 DEF BeginVerify
  <2>2. QED
    BY <1>1, <1>2, <1>4, <2>1 DEF CaseInv, WalkInv, DoneInv, EndInv
<1>5. CASE Sound
  <2>1. phase' = "walking" /\ stack' = <<Push(argument.root)>> /\ outcomes' = outcomes
    BY <1>5 DEF BeginVerify
  <2>2. argument.root \in Claims /\ argument.root \in Met
    BY <1>5 DEF Sound, Met
  <2>3. PICK f : f = Push(argument.root)
    OBVIOUS
  <2>4. Rolled(f, {})
    BY <1>1, <1>5, <2>2, <2>3, PushIsRolled
  <2>5. f \in Frame /\ f.claim = argument.root
    BY <2>3, <2>4 DEF Rolled, Push
  <2>6. stack' = <<f>> /\ stack' \in Seq(Frame) /\ Len(stack') = 1 /\ stack'[1] = f
    BY <2>1, <2>3, <2>5
  <2>7. Rolled(f, {})'
    BY <1>1, <2>1, <2>4, StaysRolled, SameIsExtended
  <2>8. \A i \in 1..Len(stack') : stack'[i] = f /\ Open(i)' = {}
    BY <2>6 DEF Open
  <2>9. \A i \in 1..Len(stack') : Rolled(stack[i], Open(i))'
    BY <2>7, <2>8
  <2>10. WalkInv'
    BY <1>1, <1>2, <1>5, <2>5, <2>6, <2>9 DEF WalkInv
  <2>11. DoneInv'
    BY <1>1, <1>3, <2>1 DEF CaseInv, DoneInv
  <2>12. EndInv'
    BY <1>1, <2>1 DEF EndInv
  <2>13. QED
    BY <2>10, <2>11, <2>12 DEF CaseInv
<1>6. QED
  BY <1>4, <1>5

\* What every step of the walk does: the frames below the top keep what they
\* have, apart from the one the top answers to.
LEMMA TopIs ==
    ASSUME CaseInv, phase = "walking"
    PROVE  /\ Sound /\ stack \in Seq(Frame) /\ Len(stack) \in Nat \ {0} /\ stack[1].claim = argument.root
           /\ Top = stack[Len(stack)] /\ Rolled(Top, {}) /\ argument \in SomeCases
           /\ \A i \in 1..Len(stack) : Rolled(stack[i], Open(i))
           /\ \A c \in DOMAIN outcomes : Settled(c)
           /\ \A e \in DOMAIN executed : executed[e] \in Answers
<1>1. Sound /\ stack \in Seq(Frame) /\ Len(stack) >= 1 /\ stack[1].claim = argument.root
  BY DEF CaseInv, WalkInv
<1>2. Len(stack) \in Nat \ {0} /\ Len(stack) \in 1..Len(stack) /\ ~(Len(stack) < Len(stack))
  BY <1>1
<1>3. \A i \in 1..Len(stack) : Rolled(stack[i], Open(i))
  BY DEF CaseInv, WalkInv
<1>4. Open(Len(stack)) = {}
  BY <1>2 DEF Open
<1>5. Rolled(stack[Len(stack)], {})
  BY <1>2, <1>3, <1>4
<1>6. QED
  BY <1>1, <1>2, <1>3, <1>5 DEF Top, CaseInv, DoneInv, EndInv

LEMMA CheckCase ==
    ASSUME CaseAssumption, CaseInv, RunCheck
    PROVE  CaseInv'
<1>1. phase = "walking" /\ argument' = argument /\ phase' = phase /\ outcomes' = outcomes
  BY DEF RunCheck
<1>2. PICK t \in Frame : t = Top
  BY <1>1, TopIs DEF Rolled
<1>3. /\ Sound /\ stack \in Seq(Frame) /\ Len(stack) \in Nat \ {0} /\ stack[1].claim = argument.root
      /\ t = stack[Len(stack)] /\ Rolled(t, {}) /\ argument \in SomeCases
      /\ \A i \in 1..Len(stack) : Rolled(stack[i], Open(i))
      /\ \A c \in DOMAIN outcomes : Settled(c)
      /\ \A e \in DOMAIN executed : executed[e] \in Answers
  BY <1>1, <1>2, TopIs
<1>4. PICK e \in t.checks, r \in Answers :
        /\ executed' = Record(e, r)
        /\ stack' = WithTop([t EXCEPT !.checks = @ \ {e}, !.under = @ \cup {executed'[e]}])
  BY <1>2 DEF RunCheck
<1>5. /\ Extends(executed', executed) /\ e \in DOMAIN executed'
      /\ \A x \in DOMAIN executed' : executed'[x] \in Answers
  <2>1. CASE e \in DOMAIN executed
    BY <1>3, <1>4, <2>1, SameIsExtended DEF Record
  <2>2. CASE e \notin DOMAIN executed
    <3>1. executed' = With(executed, e, r)
      BY <1>4, <2>2 DEF Record
    <3>2. /\ DOMAIN executed' = DOMAIN executed \cup {e} /\ Extends(executed', executed)
          /\ \A y \in DOMAIN executed \cup {e} : executed'[y] = IF y = e THEN r ELSE executed[y]
      BY <2>2, <3>1 DEF With, Extends
    <3>3. QED
      BY <1>3, <3>2
  <2>3. QED
    BY <2>1, <2>2
<1>6. PICK v \in Answers : v = executed'[e]
  BY <1>5
<1>7. Extends(outcomes', outcomes)
  BY <1>1, SameIsExtended
<1>8. PICK n \in Nat \ {0} : n = Len(stack)
  BY <1>3
<1>9. PICK u : u = [claim |-> t.claim, checks |-> t.checks \ {e}, kids |-> t.kids, under |-> t.under \cup {v}]
  OBVIOUS
<1>10. t = [claim |-> t.claim, checks |-> t.checks, kids |-> t.kids, under |-> t.under]
  BY DEF Frame
<1>11. u \in Frame /\ u.claim = t.claim /\ u.checks = t.checks \ {e} /\ u.kids = t.kids /\ u.under = t.under \cup {v}
  <2>1. t.claim \in Claims /\ t.checks \subseteq Evidence /\ t.kids \subseteq Claims /\ t.under \subseteq Verdicts
    BY DEF Frame
  <2>2. v \in Verdicts
    BY DEF Verdicts
  <2>3. QED
    BY <1>9, <2>1, <2>2 DEF Frame
<1>12. stack' = [stack EXCEPT ![n] = u]
  <2>1. stack' = WithTop([t EXCEPT !.checks = @ \ {e}, !.under = @ \cup {v}])
    BY <1>4, <1>6
  <2>2. [t EXCEPT !.checks = @ \ {e}, !.under = @ \cup {v}] = u
    <3>1. PICK c : c = t.checks \ {e}
      OBVIOUS
    <3>2. PICK w : w = t.under \cup {v}
      OBVIOUS
    <3>3. [t EXCEPT !.checks = @ \ {e}, !.under = @ \cup {v}] = [t EXCEPT !.checks = c, !.under = w]
      BY <3>1, <3>2
    <3>4. u = [claim |-> t.claim, checks |-> c, kids |-> t.kids, under |-> w]
      BY <1>9, <3>1, <3>2
    <3>5. PICK cl, ch, ki, un : cl = t.claim /\ ch = t.checks /\ ki = t.kids /\ un = t.under
      OBVIOUS
    <3>6. t = [claim |-> cl, checks |-> ch, kids |-> ki, under |-> un]
      BY <1>10, <3>5
    <3>7. [t EXCEPT !.checks = c, !.under = w] = [claim |-> cl, checks |-> c, kids |-> ki, under |-> w]
      <4>1. PICK y : y = [t EXCEPT !.checks = c]
        OBVIOUS
      <4>2. y = [claim |-> cl, checks |-> c, kids |-> ki, under |-> un]
        BY <3>6, <4>1
      <4>3. PICK z : z = [y EXCEPT !.under = w]
        OBVIOUS
      <4>4. z = [claim |-> cl, checks |-> c, kids |-> ki, under |-> w]
        BY <4>2, <4>3
      <4>5. [t EXCEPT !.checks = c, !.under = w] = z
        BY <4>1, <4>3
      <4>6. QED
        BY <4>4, <4>5
    <3>8. QED
      BY <3>3, <3>4, <3>5, <3>7
  <2>3. QED
    BY <1>8, <2>1, <2>2 DEF WithTop
<1>13. /\ stack' \in Seq(Frame) /\ Len(stack') = n /\ stack'[n] = u
       /\ \A i \in 1..n : i # n => stack'[i] = stack[i]
  BY <1>3, <1>8, <1>11, <1>12
<1>14. \A i \in 1..n : stack'[i].claim = stack[i].claim
  BY <1>3, <1>8, <1>11, <1>13
<1>15. Rolled(t, {})'
  BY <1>1, <1>3, <1>5, <1>7, StaysRolled
<1>16. Rolled(u, {})'
  <2>1. e \in argument.by[t.claim] /\ t.checks \subseteq argument.by[t.claim]
    BY <1>3, <1>4 DEF Rolled
  <2>2. argument'.by[u.claim] \ u.checks = (argument'.by[t.claim] \ t.checks) \cup {e}
    BY <1>1, <1>11, <2>1
  <2>3. ASSUME NEW x PROVE FrameGets(u, {}, x)' <=> FrameGets(t, {}, x)' \/ x = v
    BY <1>6, <1>11, <2>2 DEF FrameGets
  <2>4. \A x : x \in t.under <=> FrameGets(t, {}, x)'
    BY <1>15 DEF Rolled
  <2>5. \A x : x \in u.under <=> FrameGets(u, {}, x)'
    BY <1>11, <2>3, <2>4
  <2>6. argument'.by[u.claim] \ u.checks \subseteq DOMAIN executed'
    BY <1>5, <1>15, <2>2 DEF Rolled
  <2>7. QED
    BY <1>11, <1>15, <2>5, <2>6 DEF Rolled
<1>17. ASSUME NEW i \in 1..n PROVE Rolled(stack[i], Open(i))'
  <2>1. CASE i = n
    <3>1. Open(i)' = {}
      BY <1>13, <2>1 DEF Open
    <3>2. QED
      BY <1>13, <1>16, <2>1, <3>1
  <2>2. CASE i # n
    <3>1. i + 1 \in 1..n /\ i < n
      BY <2>2
    <3>2. Open(i)' = Open(i)
      BY <1>8, <1>13, <1>14, <3>1 DEF Open
    <3>3. Rolled(stack[i], Open(i))
      BY <1>3, <1>8
    <3>4. PICK f : f = stack[i]
      OBVIOUS
    <3>5. PICK o : o = Open(i)
      OBVIOUS
    <3>6. Rolled(f, o)'
      BY <1>1, <1>5, <1>7, <3>3, <3>4, <3>5, StaysRolled
    <3>7. stack'[i] = f /\ Open(i)' = o
      BY <1>13, <2>2, <3>2, <3>4, <3>5
    <3>8. QED
      BY <3>6, <3>7
  <2>3. QED
    BY <2>1, <2>2
<1>18. stack'[1].claim = argument.root
  BY <1>3, <1>14
<1>19. Sound' = Sound
  BY <1>1 DEF Sound, Below
<1>20. WalkInv'
  BY <1>1, <1>3, <1>13, <1>17, <1>18, <1>19 DEF WalkInv
<1>21. \A c \in DOMAIN outcomes : Settled(c)'
  BY <1>1, <1>3, <1>5, <1>7, StaysSettled
<1>22. DoneInv'
  BY <1>1, <1>5, <1>21 DEF DoneInv
<1>23. EndInv'
  BY <1>1, <1>3 DEF EndInv
<1>24. QED
  BY <1>20, <1>22, <1>23 DEF CaseInv

LEMMA DescendCase ==
    ASSUME CaseAssumption, CaseInv, Descend
    PROVE  CaseInv'
<1>1. /\ phase = "walking" /\ argument' = argument /\ phase' = phase /\ outcomes' = outcomes
      /\ executed' = executed
  BY DEF Descend
<1>2. PICK t \in Frame : t = Top
  BY <1>1, TopIs DEF Rolled
<1>3. /\ Sound /\ stack \in Seq(Frame) /\ Len(stack) \in Nat \ {0} /\ stack[1].claim = argument.root
      /\ t = stack[Len(stack)] /\ Rolled(t, {}) /\ argument \in SomeCases
      /\ \A i \in 1..Len(stack) : Rolled(stack[i], Open(i))
      /\ \A c \in DOMAIN outcomes : Settled(c)
      /\ \A e \in DOMAIN executed : executed[e] \in Answers
  BY <1>1, <1>2, TopIs
<1>4. PICK d \in t.kids : stack' = Append(WithTop([t EXCEPT !.kids = @ \ {d}]), Push(d))
  BY <1>2 DEF Descend
<1>5. Extends(executed', executed) /\ Extends(outcomes', outcomes)
  BY <1>1, SameIsExtended
<1>6. PICK n \in Nat \ {0} : n = Len(stack)
  BY <1>3
<1>7. PICK k : k = t.kids \ {d}
  OBVIOUS
<1>8. PICK u : u = [claim |-> t.claim, checks |-> t.checks, kids |-> k, under |-> t.under]
  OBVIOUS
<1>9. u = [t EXCEPT !.kids = @ \ {d}]
  <2>1. PICK cl, ch, ki, un : cl = t.claim /\ ch = t.checks /\ ki = t.kids /\ un = t.under
    OBVIOUS
  <2>2. t = [claim |-> cl, checks |-> ch, kids |-> ki, under |-> un]
    BY <2>1 DEF Frame
  <2>3. [t EXCEPT !.kids = k] = [claim |-> cl, checks |-> ch, kids |-> k, under |-> un]
    BY <2>2
  <2>4. [t EXCEPT !.kids = @ \ {d}] = [t EXCEPT !.kids = k]
    BY <1>7
  <2>5. QED
    BY <1>8, <2>1, <2>3, <2>4
<1>10. u \in Frame /\ u.claim = t.claim /\ u.checks = t.checks /\ u.kids = k /\ u.under = t.under
  <2>1. t.claim \in Claims /\ t.checks \subseteq Evidence /\ t.kids \subseteq Claims /\ t.under \subseteq Verdicts
    BY DEF Frame
  <2>2. QED
    BY <1>7, <1>8, <2>1 DEF Frame
<1>11. d \in Claims /\ d \in Met /\ d \in argument.sub[t.claim]
  <2>1. t.claim \in Met /\ t.kids \subseteq argument.sub[t.claim] /\ t.claim \in Claims
    BY <1>3 DEF Rolled, Frame
  <2>2. d \in argument.sub[t.claim] /\ d \in Claims
    BY <2>1 DEF Frame
  <2>3. argument.root \in Claims
    BY <1>3 DEF Sound
  <2>4. /\ argument.sub[argument.root] \subseteq Below(argument.root)
        /\ \A p \in Below(argument.root) : argument.sub[p] \subseteq Below(argument.root)
    BY <1>3, <2>3, BelowIs
  <2>5. d \in Met
    BY <2>1, <2>2, <2>4 DEF Met
  <2>6. QED
    BY <2>2, <2>5
<1>12. PICK f : f = Push(d)
  OBVIOUS
<1>13. Rolled(f, {}) /\ f \in Frame /\ f.claim = d
  <2>1. Rolled(f, {})
    BY <1>3, <1>11, <1>12, PushIsRolled
  <2>2. QED
    BY <1>12, <2>1 DEF Rolled, Push
<1>14. PICK s : s = [stack EXCEPT ![n] = u]
  OBVIOUS
<1>15. s \in Seq(Frame) /\ Len(s) = n /\ s[n] = u /\ \A i \in 1..n : i # n => s[i] = stack[i]
  BY <1>3, <1>6, <1>10, <1>14
<1>16. stack' = Append(s, f)
  BY <1>4, <1>6, <1>9, <1>12, <1>14 DEF WithTop
<1>17. /\ stack' \in Seq(Frame) /\ Len(stack') = n + 1 /\ stack'[n + 1] = f /\ stack'[n] = u
       /\ \A i \in 1..n : i # n => stack'[i] = stack[i]
  BY <1>13, <1>15, <1>16
<1>18. \A i \in 1..n : stack'[i].claim = stack[i].claim
  BY <1>3, <1>6, <1>10, <1>17
<1>19. Rolled(f, {})'
  BY <1>1, <1>5, <1>13, StaysRolled
<1>20. Rolled(t, {})'
  BY <1>1, <1>3, <1>5, StaysRolled
<1>21. Rolled(u, {d})'
  <2>1. (argument'.sub[u.claim] \ u.kids) \ {d} = (argument'.sub[t.claim] \ t.kids) \ {}
    BY <1>4, <1>7, <1>10
  <2>2. ASSUME NEW x PROVE FrameGets(u, {d}, x)' <=> FrameGets(t, {}, x)'
    BY <1>10, <2>1 DEF FrameGets
  <2>3. \A x : x \in u.under <=> FrameGets(u, {d}, x)'
    BY <1>10, <1>20, <2>2 DEF Rolled
  <2>4. (argument'.sub[u.claim] \ u.kids) \ {d} \subseteq DOMAIN outcomes'
    BY <1>20, <2>1 DEF Rolled
  <2>5. u.kids \subseteq argument'.sub[u.claim] /\ {d} \subseteq argument'.sub[u.claim] \ u.kids
    BY <1>1, <1>7, <1>10, <1>11, <1>20 DEF Rolled
  <2>6. QED
    BY <1>10, <1>20, <2>3, <2>4, <2>5 DEF Rolled
<1>22. ASSUME NEW i \in 1..(n + 1) PROVE Rolled(stack[i], Open(i))'
  <2>1. CASE i = n + 1
    <3>1. Open(i)' = {}
      BY <1>17, <2>1 DEF Open
    <3>2. QED
      BY <1>17, <1>19, <2>1, <3>1
  <2>2. CASE i = n
    <3>1. Open(i)' = {d}
      BY <1>13, <1>17, <2>2 DEF Open
    <3>2. QED
      BY <1>17, <1>21, <2>2, <3>1
  <2>3. CASE i # n /\ i # n + 1
    <3>1. i \in 1..n /\ i + 1 \in 1..n /\ i < n /\ i < n + 1
      BY <2>3
    <3>2. Open(i)' = Open(i)
      BY <1>6, <1>17, <1>18, <3>1 DEF Open
    <3>3. Rolled(stack[i], Open(i))
      BY <1>3, <1>6, <3>1
    <3>4. PICK g : g = stack[i]
      OBVIOUS
    <3>5. PICK o : o = Open(i)
      OBVIOUS
    <3>6. Rolled(g, o)'
      BY <1>1, <1>5, <3>3, <3>4, <3>5, StaysRolled
    <3>7. stack'[i] = g /\ Open(i)' = o
      BY <1>17, <2>3, <3>1, <3>2, <3>4, <3>5
    <3>8. QED
      BY <3>6, <3>7
  <2>4. QED
    BY <2>1, <2>2, <2>3
<1>23. stack'[1].claim = argument.root
  BY <1>3, <1>18
<1>24. Sound' = Sound
  BY <1>1 DEF Sound, Below
<1>25. WalkInv'
  BY <1>1, <1>3, <1>17, <1>22, <1>23, <1>24 DEF WalkInv
<1>26. \A c \in DOMAIN outcomes : Settled(c)'
  BY <1>1, <1>3, <1>5, StaysSettled
<1>27. DoneInv'
  BY <1>1, <1>3, <1>26 DEF DoneInv
<1>28. EndInv'
  BY <1>1, <1>3 DEF EndInv
<1>29. QED
  BY <1>25, <1>27, <1>28 DEF CaseInv

\* The verdict of a claim whose frame is done: the one recorded, if it was
\* met before, and else the one that is recorded now.
LEMMA VerdictSettles ==
    ASSUME CaseAssumption, CaseInv, phase = "walking", argument' = argument, executed' = executed,
           NEW t, Rolled(t, {}), t.checks = {}, t.kids = {},
           NEW v, v = VerdictOf(t.claim, t.under),
           outcomes' = IF t.claim \in DOMAIN outcomes THEN outcomes ELSE With(outcomes, t.claim, v)
    PROVE  /\ Extends(outcomes', outcomes) /\ outcomes'[t.claim] = v
           /\ DOMAIN outcomes' = DOMAIN outcomes \cup {t.claim} /\ v \in Verdicts
           /\ \A c \in DOMAIN outcomes' : Settled(c)'
<1>1. PICK c : c = t.claim
  OBVIOUS
<1>2. c \in Claims /\ c \in Met /\ argument.by[c] \subseteq DOMAIN executed /\ argument.sub[c] \subseteq DOMAIN outcomes
  BY <1>1 DEF Rolled, Frame
<1>3. ASSUME NEW r PROVE r \in t.under <=> Gets(c, r)
  <2>1. r \in t.under <=> FrameGets(t, {}, r)
    BY DEF Rolled
  <2>2. FrameGets(t, {}, r) <=> Gets(c, r)
    BY <1>1 DEF FrameGets, Gets
  <2>3. QED
    BY <2>1, <2>2
<1>4. v = RollUp(c)
  <2>1. /\ "not_supported" \in t.under <=> Gets(c, "not_supported")
        /\ "inconclusive" \in t.under <=> Gets(c, "inconclusive")
    BY <1>3
  <2>2. QED
    BY <1>1, <2>1 DEF VerdictOf, RollUp
<1>5. argument.kind[c] \in Kinds
  BY <1>2 DEF CaseAssumption, CaseInv, EndInv
<1>6. v \in Verdicts
  BY <1>4, <1>5 DEF RollUp, Verdicts, Answers, Kinds
<1>7. \A x \in DOMAIN outcomes : Settled(x)
  BY TopIs
<1>8. Extends(executed', executed)
  BY SameIsExtended
<1>9. CASE c \in DOMAIN outcomes
  <2>1. outcomes' = outcomes /\ outcomes[c] = v
    BY <1>1, <1>4, <1>7, <1>9 DEF Settled
  <2>2. Extends(outcomes', outcomes)
    BY <2>1, SameIsExtended
  <2>3. \A x \in DOMAIN outcomes : Settled(x)'
    BY <1>7, <1>8, <2>2, StaysSettled
  <2>4. QED
    BY <1>1, <1>6, <1>9, <2>1, <2>2, <2>3
<1>10. CASE c \notin DOMAIN outcomes
  <2>1. outcomes' = With(outcomes, c, v)
    BY <1>1, <1>10
  <2>2. DOMAIN outcomes' = DOMAIN outcomes \cup {c} /\ outcomes'[c] = v /\ Extends(outcomes', outcomes)
    BY <1>10, <2>1 DEF With, Extends
  <2>3. \A x \in DOMAIN outcomes : Settled(x)'
    BY <1>7, <1>8, <2>2, StaysSettled
  <2>4. Met' = Met
    BY DEF Met, Below
  <2>5. ASSUME NEW r PROVE Gets(c, r)' <=> Gets(c, r)
    <3>1. \A d \in argument.sub[c] : outcomes'[d] = outcomes[d]
      BY <1>2, <2>2 DEF Extends
    <3>2. QED
      BY <3>1 DEF Gets
  <2>6. RollUp(c)' = RollUp(c)
    BY <2>5 DEF RollUp
  <2>7. Settled(c)'
    BY <1>2, <1>4, <2>2, <2>4, <2>6 DEF Settled
  <2>8. QED
    BY <1>1, <1>6, <2>2, <2>3, <2>7
<1>11. QED
  BY <1>9, <1>10

\* The frame that waited for a verdict takes it in.
LEMMA TakesIn ==
    ASSUME NEW f, NEW c, NEW v \in Verdicts, Rolled(f, {c})', c \in DOMAIN outcomes', outcomes'[c] = v,
           NEW g, g = [f EXCEPT !.under = @ \cup {v}]
    PROVE  Rolled(g, {})' /\ g \in Frame /\ g.claim = f.claim
<1>1. f \in Frame /\ c \in argument'.sub[f.claim] \ f.kids
  BY DEF Rolled
<1>2. PICK cl, ch, ki, un : cl = f.claim /\ ch = f.checks /\ ki = f.kids /\ un = f.under
  OBVIOUS
<1>3. f = [claim |-> cl, checks |-> ch, kids |-> ki, under |-> un]
  BY <1>1, <1>2 DEF Frame
<1>4. PICK w : w = un \cup {v}
  OBVIOUS
<1>5. g = [f EXCEPT !.under = w]
  BY <1>2, <1>4
<1>6. g = [claim |-> cl, checks |-> ch, kids |-> ki, under |-> w]
  BY <1>3, <1>5
<1>7. g.claim = cl /\ g.checks = ch /\ g.kids = ki /\ g.under = w
  BY <1>6
<1>8. g \in Frame
  <2>1. cl \in Claims /\ ch \in SUBSET Evidence /\ ki \in SUBSET Claims /\ un \in SUBSET Verdicts
    BY <1>1, <1>2 DEF Frame
  <2>2. w \in SUBSET Verdicts
    BY <1>4, <2>1
  <2>3. [claim |-> cl, checks |-> ch, kids |-> ki, under |-> w] \in Frame
    BY <2>1, <2>2 DEF Frame
  <2>4. QED
    BY <1>6, <2>3, Zenon
<1>9. (argument'.sub[g.claim] \ g.kids) \ {} = ((argument'.sub[f.claim] \ f.kids) \ {c}) \cup {c}
  BY <1>1, <1>2, <1>7
<1>10. ASSUME NEW r PROVE FrameGets(g, {}, r)' <=> FrameGets(f, {c}, r)' \/ r = v
  BY <1>2, <1>7, <1>9 DEF FrameGets
<1>11. \A r : r \in g.under <=> FrameGets(g, {}, r)'
  BY <1>2, <1>4, <1>7, <1>10 DEF Rolled
<1>12. (argument'.sub[g.claim] \ g.kids) \ {} \subseteq DOMAIN outcomes'
  BY <1>9 DEF Rolled
<1>13. QED
  BY <1>2, <1>7, <1>8, <1>11, <1>12 DEF Rolled

LEMMA ConcludeCase ==
    ASSUME CaseAssumption, CaseInv, Conclude
    PROVE  CaseInv'
<1>1. phase = "walking" /\ argument' = argument /\ executed' = executed
  BY DEF Conclude
<1>2. PICK t \in Frame : t = Top
  BY <1>1, TopIs DEF Rolled
<1>3. /\ Sound /\ stack \in Seq(Frame) /\ Len(stack) \in Nat \ {0} /\ stack[1].claim = argument.root
      /\ t = stack[Len(stack)] /\ Rolled(t, {}) /\ argument \in SomeCases
      /\ \A i \in 1..Len(stack) : Rolled(stack[i], Open(i))
      /\ \A e \in DOMAIN executed : executed[e] \in Answers
  BY <1>1, <1>2, TopIs
<1>4. PICK n \in Nat \ {0} : n = Len(stack)
  BY <1>3
<1>5. PICK v : v = VerdictOf(t.claim, t.under)
  OBVIOUS
<1>6. PICK rest : rest = SubSeq(stack, 1, n - 1)
  OBVIOUS
<1>7. /\ t.checks = {} /\ t.kids = {}
      /\ outcomes' = IF t.claim \in DOMAIN outcomes THEN outcomes ELSE With(outcomes, t.claim, v)
      /\ stack' = IF rest = << >> THEN << >> ELSE [rest EXCEPT ![Len(rest)].under = @ \cup {v}]
      /\ phase' = IF rest = << >> THEN "reported" ELSE "walking"
  BY <1>2, <1>4, <1>5, <1>6 DEF Conclude
<1>8. /\ Extends(outcomes', outcomes) /\ outcomes'[t.claim] = v
      /\ DOMAIN outcomes' = DOMAIN outcomes \cup {t.claim} /\ v \in Verdicts
      /\ \A c \in DOMAIN outcomes' : Settled(c)'
  BY <1>1, <1>3, <1>5, <1>7, VerdictSettles
<1>9. DoneInv'
  BY <1>1, <1>3, <1>8 DEF DoneInv
<1>10. Sound' = Sound
  BY <1>1 DEF Sound, Below
<1>11. rest \in Seq(Frame) /\ Len(rest) = n - 1 /\ \A i \in 1..(n - 1) : rest[i] = stack[i]
  BY <1>3, <1>4, <1>6
<1>12. CASE n = 1
  <2>1. rest = << >>
    BY <1>11, <1>12
  <2>2. phase' = "reported" /\ argument.root \in DOMAIN outcomes'
    BY <1>3, <1>4, <1>7, <1>8, <1>12, <2>1
  <2>3. EndInv'
    BY <1>1, <1>3, <1>10, <2>2 DEF EndInv
  <2>4. WalkInv'
    BY <2>2 DEF WalkInv
  <2>5. QED
    BY <1>9, <2>3, <2>4 DEF CaseInv
<1>13. CASE n # 1
  <2>1. rest # << >> /\ n - 1 \in Nat \ {0} /\ n - 1 \in 1..n /\ n - 1 < n
    BY <1>11, <1>13
  <2>2. PICK m \in Nat \ {0} : m = n - 1
    BY <2>1
  <2>3. phase' = "walking" /\ stack' = [rest EXCEPT ![m].under = @ \cup {v}]
    BY <1>7, <1>11, <2>1, <2>2
  <2>4. PICK f \in Frame : f = rest[m]
    BY <1>11, <2>2
  <2>5. PICK g : g = [f EXCEPT !.under = @ \cup {v}]
    OBVIOUS
  <2>6. stack' = [rest EXCEPT ![m] = g]
    BY <1>11, <2>2, <2>3, <2>4, <2>5
  <2>7. Rolled(f, {t.claim})
    <3>1. f = stack[m] /\ m \in 1..Len(stack) /\ m < Len(stack) /\ m + 1 = Len(stack)
      BY <1>4, <1>11, <2>1, <2>2, <2>4
    <3>2. Open(m) = {t.claim}
      BY <1>3, <3>1 DEF Open
    <3>3. QED
      BY <1>3, <3>1, <3>2
  <2>8. Extends(executed', executed)
    BY <1>1, SameIsExtended
  <2>9. Rolled(f, {t.claim})'
    BY <1>1, <1>8, <2>7, <2>8, StaysRolled
  <2>10. Rolled(g, {})' /\ g \in Frame /\ g.claim = f.claim
    <3>1. t.claim \in DOMAIN outcomes'
      BY <1>8
    <3>2. QED
      BY <1>8, <2>5, <2>9, <3>1, TakesIn
  <2>11. /\ stack' \in Seq(Frame) /\ Len(stack') = m /\ stack'[m] = g
         /\ \A i \in 1..m : i # m => stack'[i] = stack[i]
    BY <1>11, <2>2, <2>6, <2>10
  <2>12. \A i \in 1..m : stack'[i].claim = stack[i].claim
    BY <1>11, <2>2, <2>4, <2>10, <2>11
  <2>13. ASSUME NEW i \in 1..m PROVE Rolled(stack[i], Open(i))'
    <3>1. CASE i = m
      <4>1. Open(i)' = {}
        BY <2>11, <3>1 DEF Open
      <4>2. QED
        BY <2>10, <2>11, <3>1, <4>1
    <3>2. CASE i # m
      <4>1. i + 1 \in 1..m /\ i < m /\ i < Len(stack) /\ i \in 1..Len(stack)
        BY <1>4, <2>2, <3>2
      <4>2. Open(i)' = Open(i)
        BY <2>11, <2>12, <4>1 DEF Open
      <4>3. Rolled(stack[i], Open(i))
        BY <1>3, <4>1
      <4>4. PICK x : x = stack[i]
        OBVIOUS
      <4>5. PICK o : o = Open(i)
        OBVIOUS
      <4>6. Rolled(x, o)'
        BY <1>1, <1>8, <2>8, <4>3, <4>4, <4>5, StaysRolled
      <4>7. stack'[i] = x /\ Open(i)' = o
        BY <2>11, <3>2, <4>2, <4>4, <4>5
      <4>8. QED
        BY <4>6, <4>7
    <3>3. QED
      BY <3>1, <3>2
  <2>14. stack'[1].claim = argument.root
    BY <1>3, <2>2, <2>12
  <2>15. WalkInv'
    BY <1>1, <1>3, <1>10, <2>11, <2>13, <2>14 DEF WalkInv
  <2>16. EndInv'
    BY <1>1, <1>3, <2>3 DEF EndInv
  <2>17. QED
    BY <1>9, <2>15, <2>16 DEF CaseInv
<1>14. QED
  BY <1>12, <1>13

LEMMA CaseStep ==
    ASSUME CaseAssumption, CaseInv, [CaseNext]_caseVars
    PROVE  CaseInv'
<1>1. CASE UNCHANGED caseVars
  <2>1. UNCHANGED <<argument, phase, stack, executed, outcomes>>
    BY <1>1 DEF caseVars
  <2>2. Sound' = Sound /\ Met' = Met
    BY <2>1 DEF Sound, Below, Met
  <2>3. Extends(executed', executed) /\ Extends(outcomes', outcomes)
    BY <2>1, SameIsExtended
  <2>4. WalkInv'
    <3>1. ASSUME phase = "walking", NEW i \in 1..Len(stack) PROVE Rolled(stack[i], Open(i))'
      <4>1. PICK f : f = stack[i]
        OBVIOUS
      <4>2. PICK o : o = Open(i)
        OBVIOUS
      <4>3. Rolled(f, o)
        BY <3>1, <4>1, <4>2 DEF CaseInv, WalkInv
      <4>4. Rolled(f, o)'
        BY <2>1, <2>3, <4>3, StaysRolled
      <4>5. Open(i)' = o
        BY <2>1, <4>2 DEF Open
      <4>6. QED
        BY <2>1, <4>1, <4>4, <4>5
    <3>2. QED
      BY <2>1, <2>2, <3>1 DEF CaseInv, WalkInv
  <2>5. DoneInv'
    <3>1. ASSUME Sound, NEW c \in DOMAIN outcomes PROVE Settled(c)'
      BY <2>1, <2>3, <3>1, StaysSettled DEF CaseInv, DoneInv
    <3>2. QED
      BY <2>1, <2>2, <3>1 DEF CaseInv, DoneInv
  <2>6. EndInv'
    BY <2>1, <2>2 DEF CaseInv, EndInv
  <2>7. QED
    BY <2>4, <2>5, <2>6 DEF CaseInv
<1>2. CASE CaseNext
  BY <1>2, BeginCase, CheckCase, DescendCase, ConcludeCase DEF CaseNext
<1>3. QED
  BY <1>1, <1>2

\* verify() reports one verdict for each claim the root reaches, the one that
\* can be read off the graph from the recorded evidence, for every case, every
\* sharing of claims and checks in it and every answer the checks give.
THEOREM ReportsAreOneAnswer == CaseSpec => []ReportIsOneAnswer
<1>1. CaseAssumption /\ CaseInv => ReportIsOneAnswer
  BY ReportReadsOff
<1>2. QED
  BY <1>1, CaseAssumption, CaseInitially, CaseStep, PTL DEF CaseSpec
=============================================================================
