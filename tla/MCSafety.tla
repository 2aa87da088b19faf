------------------------------- MODULE MCSafety -------------------------------
(***************************************************************************)
(* What must hold before a vehicle may move, on small instances: the       *)
(* safety supervisor with its loop, watchdog, one operator and one         *)
(* dispatcher; and the lease of an active/standby pair, one of which does  *)
(* guarded work while the other may take over.  `part` is the component a  *)
(* behaviour exercises; the other one stays in an initial state.           *)
(***************************************************************************)
EXTENDS SafetySupervisor, LeaderLease, TLC

CONSTANTS poller, o1, d1, n1, n2, t1

VARIABLE part
motionVars == <<part, safetyVars, leaseVars>>

PairHome == t1 :> n1

MotionInit ==
    /\ SafetyInit /\ LeaseInit
    /\ part = "safety" \/ (part = "lease" /\ ctrl = "safe" /\ sample = "safe")
MotionNext ==
    /\ UNCHANGED part
    /\ \/ part = "safety" /\ SafetyNext /\ UNCHANGED leaseVars
       \/ part = "lease" /\ LeaseNext /\ UNCHANGED safetyVars
\* The fairness is that of the supervisor: nothing is asked of the lease.
MotionSpec == MotionInit /\ [][MotionNext]_motionVars /\ SafetyFairness
=============================================================================
