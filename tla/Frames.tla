--------------------------------- MODULE Frames ---------------------------------
(***************************************************************************)
(* Coordinate frames (spatial/frames.py): links between named frames, how  *)
(* they age, and the chain that FrameGraph.lookup composes.                *)
(*                                                                         *)
(* The plane stands for space, quarter turns for rotations, and one number *)
(* (the standard deviation of the position) for a link's covariance: two   *)
(* hops that may be correlated add up to the sum of their deviations       *)
(* (linalg.conservative_sum).  Every frame has a true pose, and a link is  *)
(* measured exactly; only its age makes it uncertain.                      *)
(***************************************************************************)
EXTENDS Integers, Sequences, FiniteSets

CONSTANTS FrameNames,
          Poses,      \* the true poses explored: records [turn, x, y]
          Rates,      \* drift per tick of the alignment methods
          LastTick    \* bound: age of a link

ASSUME FrameAssumption ==
    /\ IsFiniteSet(FrameNames) /\ Poses \subseteq [turn : 0..3, x : Int, y : Int]
    /\ Rates \subseteq Nat /\ LastTick \in Nat

VARIABLES
    pose,    \* the true pose of each frame in the world
    links,   \* _links: for a pair of frames, nothing or a FrameLink
    tick     \* the time of the lookups

frameVars == <<pose, links, tick>>

-----------------------------------------------------------------------------
(* Rigid3: q = R p + t *)

Turned(n, p) ==
    CASE n = 0 -> p
      [] n = 1 -> [x |-> -p.y, y |-> p.x]
      [] n = 2 -> [x |-> -p.x, y |-> -p.y]
      [] n = 3 -> [x |-> p.y, y |-> -p.x]
Apply(t, p) == LET q == Turned(t.turn, p) IN [x |-> q.x + t.x, y |-> q.y + t.y]
Compose(t, u) ==   \* apply u first, then t
    LET o == Apply(t, [x |-> u.x, y |-> u.y])
    IN [turn |-> (t.turn + u.turn) % 4, x |-> o.x, y |-> o.y]
InverseOf(t) ==
    LET o == Turned((4 - t.turn) % 4, [x |-> -t.x, y |-> -t.y])
    IN [turn |-> (4 - t.turn) % 4, x |-> o.x, y |-> o.y]

\* What align_frames recovers: the coordinates of a in those of b.
Relative(a, b) == Compose(InverseOf(pose[b]), pose[a])

-----------------------------------------------------------------------------
(* FrameLink *)

NoLink == [known |-> FALSE, map |-> [turn |-> 0, x |-> 0, y |-> 0],
           sigma |-> 0, rate |-> 0, seen |-> 0]

\* at(): inflated for its age.
Inflation(l) == l.rate * (tick - l.seen)
Aged(l) == [l EXCEPT !.sigma = @ + Inflation(l)]

\* inverse(): the error moves with the transform; the age stays.
Inverted(l) == [l EXCEPT !.map = InverseOf(@)]

WorseOf(x, y) == IF x >= y THEN x ELSE y
BetterOf(x, y) == IF x <= y THEN x ELSE y                      \* for the fault below
\* compose(): a -> b with b -> c.  The composed transform is
\* self.transform.compose(other.transform).
ChainedTight(l, k) ==                                          \* fault: best hop kept
    [known |-> TRUE, map |-> Compose(l.map, k.map), sigma |-> BetterOf(l.sigma, k.sigma),
     rate |-> BetterOf(l.rate, k.rate), seen |-> WorseOf(l.seen, k.seen)]
Chained(l, k) ==
    [known |-> TRUE, map |-> Compose(l.map, k.map), sigma |-> l.sigma + k.sigma,
     rate |-> WorseOf(l.rate, k.rate),
     seen |-> IF l.seen <= k.seen THEN l.seen ELSE k.seen]

-----------------------------------------------------------------------------
(* FrameGraph *)

\* path(): a chain with the fewest hops.
Chains == {c \in UNION {[1..n -> FrameNames] : n \in 2..Cardinality(FrameNames)} :
              \A i, j \in DOMAIN c : c[i] = c[j] => i = j}
Connected(c) == \A i \in 1..(Len(c) - 1) : links[<<c[i], c[i + 1]>>].known
LinkedChains == {c \in Chains : Connected(c)}
Routes(a, b) ==
    LET all == {c \in LinkedChains : c[1] = a /\ c[Len(c)] = b}
    IN {c \in all : \A d \in all : Len(c) <= Len(d)}

\* lookup(): every hop is aged, then composed from the left.
Lookup(c) ==
    LET hop(i) == Aged(links[<<c[i], c[i + 1]>>])
        chain[i \in 1..(Len(c) - 1)] ==
            IF i = 1 THEN hop(1) ELSE Chained(chain[i - 1], hop(i))
    IN chain[Len(c) - 1]

\* add(): the link and its inverse, over any earlier estimate.
AddLink(a, b, rate) ==
    LET l == [known |-> TRUE, map |-> Relative(a, b), sigma |-> 1, rate |-> rate, seen |-> tick]
    IN links' = [links EXCEPT ![<<a, b>>] = l, ![<<b, a>>] = Inverted(l)]
       /\ UNCHANGED <<pose, tick>>

Grow ==
    /\ tick < LastTick /\ tick' = tick + 1
    /\ UNCHANGED <<pose, links>>

FrameInit ==
    /\ pose \in [FrameNames -> Poses]
    /\ links = [p \in FrameNames \X FrameNames |-> NoLink]
    /\ tick = 0
FrameNext ==
    \/ \E a, b \in FrameNames, rate \in Rates : a # b /\ AddLink(a, b, rate)
    \/ Grow
FrameSpec == FrameInit /\ [][FrameNext]_frameVars

-----------------------------------------------------------------------------
(* Properties *)

Probe == [x |-> 1, y |-> 0]
MapsProbe(c) == Apply(Lookup(c).map, Probe) = Apply(Relative(c[1], c[Len(c)]), Probe)
Turns(c) == \E i \in DOMAIN c : pose[c[i]].turn # pose[c[1]].turn

\* A chain is only as current as its most neglected member: the looked-up
\* link is no more certain than any hop of it is now, and it maps a point
\* where it is, except over several hops that turn.
LookupIsHonest ==
    \A c \in LinkedChains : c \in Routes(c[1], c[Len(c)]) =>
        /\ \A i \in 1..(Len(c) - 1) :
              Lookup(c).sigma >= Aged(links[<<c[i], c[i + 1]>>]).sigma
        /\ Len(c) = 2 \/ ~Turns(c) => MapsProbe(c)

\* "Chain self (a->b) with other (b->c) into a->c" (FrameLink.compose): the
\* composed link maps a point of the first frame to the last frame.
ChainMapsPoints ==
    \A c \in LinkedChains : c \in Routes(c[1], c[Len(c)]) => MapsProbe(c)
=============================================================================
