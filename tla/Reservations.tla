------------------------------ MODULE Reservations ------------------------------
(***************************************************************************)
(* Space-time reservations (robotics.py, storage/reservations_repo.py,     *)
(* spatial/reservation.py): the arbiter's book, and robots whose clocks    *)
(* are off by up to the doubt they declare, asking for the corridor they   *)
(* will sweep.                                                             *)
(*                                                                         *)
(* One axis stands for three.  A robot asks by its own clock, keeps the    *)
(* course it reported and is in a segment while its clock says so; the     *)
(* arbiter only knows its own clock.                                       *)
(***************************************************************************)
EXTENDS Integers, FiniteSets

CONSTANTS Owners, Ids, Cells,
          Doubt,      \* half_width_ms of a robot's stamps
          Slack,      \* decision_margin_s
          SpeedCap,   \* speed_limit_mps
          Girth,      \* body_radius_m
          Slices,     \* steps of segments_for_occupancy
          Places,     \* where a robot may be when it asks
          Waits,      \* bound: from now to the start of the window
          Windows,    \* bound: lengths of the window asked for
          Leases,     \* bound: lease_ms asked for
          MaxLease,   \* MAX_LEASE_MS
          MaxGuard,   \* MAX_GUARD_MS
          MaxExtent,  \* MAX_VOLUME_EXTENT_M
          Grace,      \* the 2_000 ms of request and _validate_segments
          LastMoment, \* bound: the arbiter's clock
          NoRow

ASSUME BookAssumption ==
    /\ {Doubt, Slack, SpeedCap, Girth, Slices, MaxLease, MaxGuard, MaxExtent, Grace,
        LastMoment} \subseteq Nat
    /\ Waits \subseteq Nat /\ Windows \subseteq Nat /\ Leases \subseteq Nat /\ Places \subseteq Int
    /\ Slices >= 1

VARIABLES
    moment,   \* the arbiter's clock
    rows,     \* the reservations table with its segments
    skew      \* by how much each owner's clock leads the arbiter's

bookVars == <<moment, rows, skew>>
NoBox == [frame |-> "none", low |-> 0, high |-> 0]
Least(S) == CHOOSE x \in S : \A y \in S : x <= y
Most(S) == CHOOSE x \in S : \A y \in S : x >= y

-----------------------------------------------------------------------------
(* ReservationsRepo *)

Active(i) == rows[i] # NoRow /\ rows[i].state = "granted" /\ rows[i].lease > moment

Swept == [i \in Ids |-> IF Active(i) THEN rows[i] ELSE NoRow]

\* Guard to guard in time.
Together(s, t) == s.start - s.guard < t.end + t.guard /\ t.start - t.guard < s.end + s.guard
TogetherBare(s, t) == s.start < t.end /\ t.start < s.end
\* The same cell, or an overlapping box in the same frame.
SameSpace(s, t) ==
    \/ s.cell = t.cell
    \/ /\ s.box.frame # "none" /\ s.box.frame = t.box.frame
       /\ s.box.low < t.box.high /\ t.box.low < s.box.high

InConflictBare(s, t) == TogetherBare(s, t) /\ SameSpace(s, t)   \* fault: no guards
InConflict(s, t) == Together(s, t) /\ SameSpace(s, t)
FindConflict(segs) ==
    \E i \in Ids : Active(i) /\ \E s \in segs, t \in rows[i].segs : InConflict(s, t)

-----------------------------------------------------------------------------
(* ReservationBook *)

ValidSegments(segs) ==
    /\ segs # {}
    /\ \A s \in segs :
          /\ s.start >= moment - Grace /\ s.end > s.start /\ s.end - s.start <= MaxLease
          /\ s.guard \in 0..MaxGuard
          /\ s.box.frame = "none" \/ s.box.high - s.box.low \in 1..MaxExtent

LeaseUntil(segs, lease) ==
    Least({moment + lease, Most({s.end + s.guard : s \in segs}) + Grace})

Granted(i, owner, segs) ==
    /\ ValidSegments(segs)
    /\ ~Active(i)             \* an active id: its owner is answered, others are refused
    /\ ~FindConflict(segs)

\* The sweep commits whatever the answer is.
Request(i, owner, segs, lease, course) ==
    rows' = IF Granted(i, owner, segs)
            THEN [Swept EXCEPT ![i] = [owner |-> owner, state |-> "granted", segs |-> segs,
                                       lease |-> LeaseUntil(segs, lease), course |-> course]]
            ELSE Swept

Release(i, owner) ==
    /\ Active(i) /\ rows[i].owner = owner
    /\ rows' = [rows EXCEPT ![i].state = "released"]

-----------------------------------------------------------------------------
(* The corridor a robot sweeps: segments_for_occupancy *)

ClockOf(o) == moment + skew[o]
Position(course, t) == course.from + course.speed * (t - course.stamp)

\* envelope_for: the box at the end of a slice, by a report stamped then.
BoxAt(course, t) ==
    LET age == IF t - course.stamp > Doubt THEN t - course.stamp - Doubt ELSE 0
        half == SpeedCap * (age + Slack) + Girth
    IN [frame |-> course.frame, low |-> Position(course, t) - half,
        high |-> Position(course, t) + half]

SegmentsForOccupancy(course, cell, start, end) ==
    LET cut(k) == start + (k * (end - start)) \div Slices
    IN {[cell |-> cell, start |-> cut(k - 1), end |-> cut(k), guard |-> Doubt + Slack,
         box |-> BoxAt(course, cut(k))] : k \in {k \in 1..Slices : cut(k) > cut(k - 1)}}

\* A robot that shares no frame names a cell, with its doubt for a guard.
SegmentByCell(cell, start, end) ==
    {[cell |-> cell, start |-> start, end |-> end, guard |-> Doubt, box |-> NoBox]}

-----------------------------------------------------------------------------
\* _handle_reservation_request, by a robot for a window that starts soon.  A
\* robot is in one place: it asks while it holds nothing else.
Asking(o, i) == \A j \in Ids \ {i} : ~(Active(j) /\ rows[j].owner = o)
Course(o, from, speed, frame) ==
    [from |-> from, speed |-> speed, stamp |-> ClockOf(o), frame |-> frame]

ReserveOccupancy(o, i) ==
    /\ Asking(o, i)
    /\ \E cell \in Cells, from \in Places, speed \in {-SpeedCap, SpeedCap},
         wait \in Waits, length \in Windows, lease \in Leases :
          LET course == Course(o, from, speed, "map")
              start == ClockOf(o) + wait
          IN Request(i, o, SegmentsForOccupancy(course, cell, start, start + length),
                     lease, course)
    /\ UNCHANGED <<moment, skew>>

ReserveCell(o, i) ==
    /\ Asking(o, i)
    /\ \E cell \in Cells, wait \in Waits, length \in Windows, lease \in Leases :
          Request(i, o, SegmentByCell(cell, ClockOf(o) + wait, ClockOf(o) + wait + length),
                  lease, Course(o, 0, 0, "none"))
    /\ UNCHANGED <<moment, skew>>

ReleaseReservation(o, i) == Release(i, o) /\ UNCHANGED <<moment, skew>>

TimePasses ==
    /\ moment < LastMoment /\ moment' = moment + 1
    /\ UNCHANGED <<rows, skew>>

BookInit ==
    /\ moment = 0
    /\ rows = [i \in Ids |-> NoRow]
    /\ skew \in [Owners -> {-Doubt, Doubt}]   \* the extremes of the declared doubt
BookNext ==
    \/ \E o \in Owners, i \in Ids :
          ReserveOccupancy(o, i) \/ ReserveCell(o, i) \/ ReleaseReservation(o, i)
    \/ TimePasses
BookSpec == BookInit /\ [][BookNext]_bookVars

-----------------------------------------------------------------------------
(* Properties *)

\* The segment a robot is in, by its own clock, while its lease lasts.
Inside(i, s) ==
    /\ Active(i) /\ s \in rows[i].segs
    /\ s.start <= ClockOf(rows[i].owner) /\ ClockOf(rows[i].owner) < s.end
Whereabouts(i) == Position(rows[i].course, ClockOf(rows[i].owner))
Apart(i, j) == Whereabouts(i) - Whereabouts(j) >= 2 * Girth
                  \/ Whereabouts(j) - Whereabouts(i) >= 2 * Girth

\* "These two reservations do not overlap" is a statement about the world
\* (spatial/reservation.py): two robots inside windows they hold are never in
\* one cell, nor do the bodies of two robots that know their place touch,
\* however their clocks are off and whatever was released, expired or asked
\* again under an old id in between.
NoSharedSpace ==
    \A i, j \in Ids : i # j =>
        \A s \in IF Active(i) THEN rows[i].segs ELSE {},
           t \in IF Active(j) THEN rows[j].segs ELSE {} :
            Inside(i, s) /\ Inside(j, t) =>
                /\ s.cell # t.cell
                /\ s.box.frame = "map" /\ t.box.frame = "map" => Apart(i, j)
=============================================================================
