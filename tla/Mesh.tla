---------------------------------- MODULE Mesh ----------------------------------
(***************************************************************************)
(* Store-carry-forward relaying (resilience/mesh.py) over the faulty       *)
(* network it is run on (resilience/faults.py): nodes carry envelopes      *)
(* toward a destination they may have no path to, and offer them again on  *)
(* every tick.                                                             *)
(*                                                                         *)
(* A frame that is lost, damaged or refused by a full queue never counts   *)
(* for the receiver, so the three are one action; reordering is the choice *)
(* of the next frame, and a copy that stays on the wire is a duplicate.    *)
(***************************************************************************)
EXTENDS Naturals, FiniteSets, Sequences, SequencesExt

CONSTANTS MeshNodes,
          Near,        \* neighbours of a node
          Letters,     \* message ids
          FromNode, ToNode,   \* origin and destination of a letter
          Ttl,         \* of a letter, in hours
          HopLimit, CarryCapacity,
          LastHour,    \* bound: virtual time
          MaxCuts      \* bound: partitions

ASSUME MeshAssumption ==
    /\ Near \in [MeshNodes -> SUBSET MeshNodes] /\ Ttl \in [Letters -> Nat]
    /\ FromNode \in [Letters -> MeshNodes] /\ ToNode \in [Letters -> MeshNodes]
    /\ HopLimit \in Nat /\ CarryCapacity \in Nat \ {0} /\ LastHour \in Nat /\ MaxCuts \in Nat

VARIABLES
    hour,       \* now_ms
    wire,       \* the frames in flight: [to, env]
    severed,    \* directed links that are partitioned
    cuts,
    carrying,   \* _carrying, in insertion order
    seen,       \* _seen
    forwarded,  \* _forwarded
    arrived,    \* received: how often a node delivered a letter to itself
    evicted     \* history: letters dropped somewhere for capacity

meshVars == <<hour, wire, severed, cuts, carrying, seen, forwarded, arrived, evicted>>

Envelope(l) == [id |-> l, hops |-> 0, expires |-> hour + Ttl[l], path |-> {FromNode[l]}]
RelayedVia(e, n) == [e EXCEPT !.hops = @ + 1, !.path = @ \cup {n}]
Forwardable(e) == e.hops < HopLimit /\ hour < e.expires

-----------------------------------------------------------------------------
(* _offer and _carry *)

\* Every neighbour that is not on the path and was not offered it already.
Offered(n, e, already) == IF Forwardable(e) THEN (Near[n] \ e.path) \ already ELSE {}
\* SimulatedNetwork.send: a severed link drops at once.
FramesTo(n, e, already) ==
    {[to |-> m, env |-> e] : m \in {m \in Offered(n, e, already) : <<n, m>> \notin severed}}

\* A full node drops what expires first, the earliest inserted of those.
Soonest(q) == CHOOSE i \in DOMAIN q :
                 \A j \in DOMAIN q : \/ q[i].expires < q[j].expires
                                     \/ q[i].expires = q[j].expires /\ i <= j
Carry(n, e) ==
    LET full == Len(carrying[n]) >= CarryCapacity
        rest == IF full THEN RemoveAt(carrying[n], Soonest(carrying[n])) ELSE carrying[n]
    IN /\ carrying' = [carrying EXCEPT ![n] = Append(rest, e)]
       /\ evicted' = IF full THEN evicted \cup {carrying[n][Soonest(carrying[n])].id} ELSE evicted
TakeCustody(n, e, left) ==
    /\ Carry(n, e)
    /\ forwarded' = [forwarded EXCEPT ![n][e.id] = @ \cup Offered(n, e, @)]
    /\ wire' = left \cup FramesTo(n, e, forwarded[n][e.id])

-----------------------------------------------------------------------------
Originate(l) ==
    /\ l \notin seen[FromNode[l]]
    /\ seen' = [seen EXCEPT ![FromNode[l]] = @ \cup {l}]
    /\ TakeCustody(FromNode[l], Envelope(l), wire)
    /\ UNCHANGED <<hour, severed, cuts, arrived>>

Held(n, l) == {carrying[n][i] : i \in {i \in DOMAIN carrying[n] : carrying[n][i].id = l}}

\* accept(): a frame arrives, and a duplicate of it may stay in flight.
Accept(f, left) ==
    LET n == f.to
        l == f.env.id
    IN IF l \in seen[n]
       THEN \* offered onward to contacts it was not offered to before
            /\ forwarded' = [forwarded EXCEPT ![n][l] =
                                @ \cup UNION {Offered(n, e, @) : e \in Held(n, l)}]
            /\ wire' = left \cup UNION {FramesTo(n, e, forwarded[n][l]) : e \in Held(n, l)}
            /\ UNCHANGED <<seen, arrived, carrying, evicted>>
       ELSE /\ seen' = [seen EXCEPT ![n] = @ \cup {l}]
            /\ IF ToNode[l] = n
               THEN /\ arrived' = [arrived EXCEPT ![n][l] = @ + 1] /\ wire' = left
                    /\ UNCHANGED <<carrying, evicted, forwarded>>
               ELSE IF Forwardable(f.env)
               THEN TakeCustody(n, RelayedVia(f.env, n), left) /\ UNCHANGED arrived
               ELSE wire' = left /\ UNCHANGED <<arrived, carrying, evicted, forwarded>>
Receive(f, left) == Accept(f, left) /\ UNCHANGED <<hour, severed, cuts>>
Arrive(m, l) == \E f \in wire : f.to = m /\ f.env.id = l
                   /\ \/ Receive(f, wire \ {f})
                      \/ Receive(f, wire)
Lose(f) == wire' = wire \ {f}
           /\ UNCHANGED <<hour, severed, cuts, carrying, seen, forwarded, arrived, evicted>>

\* tick(): what expired goes, the rest is offered to every neighbour again.
TickOnceOffered(n, kept) ==                                  \* fault: _forwarded is kept
    /\ forwarded' = [forwarded EXCEPT ![n] = [l \in Letters |->
                        @[l] \cup UNION {Offered(n, e, @[l]) : e \in {e \in ToSet(kept) : e.id = l}}]]
    /\ wire' = wire \cup UNION {FramesTo(n, e, forwarded[n][e.id]) : e \in ToSet(kept)}
OfferAgain(n, kept) ==
    /\ forwarded' = [forwarded EXCEPT ![n] = [l \in Letters |->
                        IF \E e \in ToSet(kept) : e.id = l
                        THEN UNION {Offered(n, e, {}) : e \in {e \in ToSet(kept) : e.id = l}}
                        ELSE @[l]]]
    /\ wire' = wire \cup UNION {FramesTo(n, e, {}) : e \in ToSet(kept)}
TickMesh(n) ==
    LET kept == SelectSeq(carrying[n], LAMBDA e : hour < e.expires)
    IN /\ carrying' = [carrying EXCEPT ![n] = kept]
       /\ OfferAgain(n, kept)
       /\ UNCHANGED <<hour, severed, cuts, seen, arrived, evicted>>

-----------------------------------------------------------------------------
(* SimulatedNetwork: partition, heal, time *)

Partition(group, symmetric) ==
    /\ cuts < MaxCuts /\ cuts' = cuts + 1
    /\ severed' = severed \cup (group \X (MeshNodes \ group))
                     \cup (IF symmetric THEN (MeshNodes \ group) \X group ELSE {})
    /\ UNCHANGED <<hour, wire, carrying, seen, forwarded, arrived, evicted>>
Heal ==
    /\ severed # {} /\ severed' = {}
    /\ UNCHANGED <<hour, wire, cuts, carrying, seen, forwarded, arrived, evicted>>
HourPasses ==
    /\ hour < LastHour /\ hour' = hour + 1
    /\ UNCHANGED <<wire, severed, cuts, carrying, seen, forwarded, arrived, evicted>>

MeshInit ==
    /\ hour = 0 /\ wire = {} /\ severed = {} /\ cuts = 0 /\ evicted = {}
    /\ carrying = [n \in MeshNodes |-> <<>>] /\ seen = [n \in MeshNodes |-> {}]
    /\ forwarded = [n \in MeshNodes |-> [l \in Letters |-> {}]]
    /\ arrived = [n \in MeshNodes |-> [l \in Letters |-> 0]]
MeshNext ==
    \/ \E l \in Letters : Originate(l) \/ \E m \in MeshNodes : Arrive(m, l)
    \/ \E f \in wire : Lose(f)
    \/ \E n \in MeshNodes : TickMesh(n) \/ \E both \in BOOLEAN : Partition({n}, both)
    \/ Heal \/ HourPasses
\* The scenario's loop ticks every node and heals the partition; a link whose
\* loss ratio is below 1 delivers what is offered to it again and again.
MeshFairness ==
    /\ \A n \in MeshNodes : WF_meshVars(TickMesh(n))
    /\ \A m \in MeshNodes, l \in Letters : SF_meshVars(Arrive(m, l))
    /\ WF_meshVars(Heal)
MeshSpec == MeshInit /\ [][MeshNext]_meshVars /\ MeshFairness

-----------------------------------------------------------------------------
(* Properties *)

\* "What turns a healed partition into a delivery" (tick): a letter arrives,
\* although any frame of it may be lost and any link cut for a while, unless
\* it expires first or a full node drops it.
MeshDelivers ==
    \A l \in Letters :
        l \in seen[FromNode[l]] ~>
            \/ arrived[ToNode[l]][l] > 0
            \/ l \in evicted
            \/ hour >= Ttl[l]
=============================================================================
