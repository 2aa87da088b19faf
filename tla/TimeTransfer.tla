------------------------------ MODULE TimeTransfer ------------------------------
(***************************************************************************)
(* Two-way time transfer (spatial/clock.py): exchanges of four timestamps  *)
(* over a link with arbitrary delays, and the ClockTracker that keeps the  *)
(* least-queued sample of each bucket of its window.                       *)
(*                                                                         *)
(* Offsets are kept doubled, so that theta and delta / 2 stay integers.    *)
(* Both clocks run at one rate, and the tracker is below                   *)
(* min_samples_for_skew: the fallback branch of estimate().  The least     *)
(* squares branch is arithmetic over reals and is not modelled.            *)
(***************************************************************************)
EXTENDS Integers, Sequences

CONSTANTS Offsets,     \* true offsets of the remote clock explored
          MaxTrip,     \* MAX_PLAUSIBLE_ROUND_TRIP_MS
          Window,      \* window_ms
          Buckets,     \* buckets
          LastInstant, \* bound: local time
          MaxHeld      \* bound: samples held

ASSUME TransferAssumption ==
    /\ Offsets \subseteq Int
    /\ {MaxTrip, Window, LastInstant, MaxHeld} \subseteq Nat
    /\ Buckets \in Nat /\ Buckets >= 2

VARIABLES
    local,     \* the local monotonic clock
    offset,    \* by how much the remote clock leads
    probe,     \* the exchange under way: where it is, and its stamps so far
    held       \* _samples, ordered by t4

transferVars == <<local, offset, probe, held>>
NoProbe == [leg |-> "none", t1 |-> 0, t2 |-> 0, t3 |-> 0]

-----------------------------------------------------------------------------
(* Exchange *)

OneWay(p, t4) == 2 * (p.t2 - p.t1)                            \* fault: return leg ignored
Theta(p, t4) == (p.t2 - p.t1) + (p.t3 - t4)
Delta(p, t4) == (t4 - p.t1) - (p.t3 - p.t2)
Plausible(p, t4) ==
    t4 >= p.t1 /\ p.t3 >= p.t2 /\ Delta(p, t4) \in 0..MaxTrip

Elapse ==
    /\ local < LastInstant /\ local' = local + 1
    /\ UNCHANGED <<offset, probe, held>>

SendProbe ==
    /\ probe.leg = "none" /\ Len(held) < MaxHeld
    /\ probe' = [NoProbe EXCEPT !.leg = "out", !.t1 = local]
    /\ UNCHANGED <<local, offset, held>>

RemoteReceives ==
    /\ probe.leg = "out"
    /\ probe' = [probe EXCEPT !.leg = "dwell", !.t2 = local + offset]
    /\ UNCHANGED <<local, offset, held>>

RemoteAnswers ==
    /\ probe.leg = "dwell"
    /\ probe' = [probe EXCEPT !.leg = "back", !.t3 = local + offset]
    /\ UNCHANGED <<local, offset, held>>

ProbeLost ==
    /\ probe.leg # "none" /\ probe' = NoProbe
    /\ UNCHANGED <<local, offset, held>>

-----------------------------------------------------------------------------
(* ClockTracker.observe, filtered_samples, estimate *)

\* The window is counted from the last sample.  Samples arrive in the order of
\* t4, so those within it are the last ones.
InWindow(samples) ==
    LET recent(k) == samples[k].t4 >= local - Window
        first == CHOOSE k \in DOMAIN samples : recent(k) /\ \A j \in 1..(k - 1) : ~recent(j)
    IN SubSeq(samples, first, Len(samples))

ObserveExchange ==
    /\ probe.leg = "back"
    /\ probe' = NoProbe
    /\ held' = IF Plausible(probe, local)
               THEN InWindow(Append(held, [t4 |-> local, theta |-> Theta(probe, local),
                                           delta |-> Delta(probe, local)]))
               ELSE held
    /\ UNCHANGED <<local, offset>>

BucketOf(s) ==
    LET span == held[Len(held)].t4 - held[1].t4
        index == IF span = 0 THEN 0 ELSE ((s.t4 - held[1].t4) * Buckets) \div span
    IN IF index < Buckets - 1 THEN index ELSE Buckets - 1

\* Where the first sample with the least round trip of every bucket is: later
\* buckets hold later samples.
Filtered ==
    {i \in DOMAIN held :
        \A j \in DOMAIN held : BucketOf(held[j]) = BucketOf(held[i]) =>
            held[j].delta > held[i].delta \/ (held[j].delta = held[i].delta /\ j >= i)}

\* The offset of the last filtered sample, with the best round trip of all.
LastFiltered == held[CHOOSE i \in Filtered : \A j \in Filtered : j <= i]
BestTrip == CHOOSE d \in {held[i].delta : i \in Filtered} : \A i \in Filtered : d <= held[i].delta

TransferInit ==
    /\ local = 0 /\ offset \in Offsets
    /\ probe = NoProbe /\ held = <<>>

TransferNext == Elapse \/ SendProbe \/ RemoteReceives \/ RemoteAnswers \/ ProbeLost \/ ObserveExchange
TransferSpec == TransferInit /\ [][TransferNext]_transferVars

-----------------------------------------------------------------------------
(* Properties *)

Distance(x, y) == IF x < y THEN y - x ELSE x - y

\* "The true offset lies within delta/2 of theta" (clock.py) for every delay
\* of both legs and any dwell, of every sample held; and filtering by buckets
\* does not lose the tightest of these bounds.
SamplesCoverOffset ==
    \A i \in DOMAIN held : /\ Distance(held[i].theta, 2 * offset) <= held[i].delta
                           /\ BestTrip <= held[i].delta

\* What estimate() makes of that bound: "this module never returns an offset --
\* it returns a TimeInterval" whose half width is half the best round trip.
\* The offset it is put around is the newest filtered sample's, which another
\* sample's round trip does not bound: this does not hold of the fallback.
EstimateCoversOffset == held # <<>> => Distance(LastFiltered.theta, 2 * offset) <= BestTrip
=============================================================================
