------------------------------- MODULE MCIntent -------------------------------
(* IntentHarness for TLC: races over one key, and admission over two. *)
EXTENDS IntentHarness, TLC

CONSTANTS k1, k2, p1, p2, a, m1, m2, m3, m4, n2, n3, n4, w1, w2

\* Races: a proposal, a second proposal of the same key, two cancellations.
Racing == {m1, m2, m3, m4}
\* Admission: two proposals compete for one slot; another peer proposes the
\* first key; the owner polls it.
Admitting == {m1, n2, n3, n4}
RaceKind == [m \in Messages |-> CASE m \in {m3, m4} -> "cancel"
                                    [] m = n4 -> "status"
                                    [] OTHER -> "propose"]
RaceKey == [m \in Messages |-> IF m = n3 THEN k2 ELSE k1]
RacePeer == [m \in Messages |-> IF m = n2 THEN p2 ELSE p1]
RacePayload == [m \in Messages |-> a]

\* The question asked: of the races on one key, or of the competition of two
\* peers and two keys for one slot.  The envelopes of the other one have
\* expired when they come.
PartInit == EmptyNode /\ expired \in {Messages \ Racing, Messages \ Admitting}
Races == expired = Messages \ Racing

\* Next; admission is asked of one request at a time, without a crash and
\* without a queued row that waits for the reconciler: none takes a slot.
PartNext ==
    \/ \E w \in Workers, m \in Messages :
          (Races \/ \A v \in Workers : pc[v] = "idle") /\ Deliver(w, m)
    \/ \E m \in Messages : DeliverBusy(m)
    \/ \E w \in Workers : RequestStep(w)
    \/ \E w \in Threads : ExecuteStep(w)
    \/ \E k \in Keys : PoolStep(k) \/ ReconcilerStep(k)
    \/ \E k \in Keys : (Races \/ task[k].state = "running") /\ Elapse(k)
    \/ Races /\ Crash
    \/ Restart \/ BootDone \/ OutsideStep
PartSpec == PartInit /\ [][PartNext]_vars

\* Request threads are interchangeable, and so are the two cancellations.
RaceSymmetry == Permutations({w1, w2}) \cup Permutations({m3, m4})
=============================================================================
