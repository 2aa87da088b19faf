----------------------------- MODULE LeaderLease -----------------------------
(***************************************************************************)
(* The fenced leader lease of an active/standby pair (edge/lease.py): one  *)
(* row of the shared database names the holder, a fence and an expiry.     *)
(* Each node campaigns in a background thread, keeps the last proof it was *)
(* given in memory (_held), hands that proof to the threads that do guarded*)
(* work, and gives the row up when it is stopped.                          *)
(*                                                                         *)
(* One step is one transaction, one clock read or one store under _lock:   *)
(* try_acquire reads the clock before its transaction and stores the proof *)
(* after it, and guard() reads the row before it reads the clock.  All     *)
(* nodes read one clock, which is the scope describe() states.             *)
(***************************************************************************)
EXTENDS Naturals

CONSTANTS Nodes,     \* processes sharing the database file
          Workers,   \* threads that do guarded work
          Home,      \* the node a worker belongs to
          TTL,       \* ttl_ms
          MaxTime,   \* bound: clock readings explored
          MaxFence,  \* bound: terms explored
          None

ASSUME HomeAssumption == Home \in [Workers -> Nodes]
ASSUME TTLAssumption == TTL \in Nat \ {0} /\ MaxTime \in Nat /\ MaxFence \in Nat
ASSUME NoneAssumption == None \notin Nodes

VARIABLES
    now,    \* the clock
    lease,  \* durable: the row; holder None when there is no row
    life,   \* "off", "on", "stopping", "released" or "stopped"
    camp,   \* where the campaign thread is: "idle", "asked" or "store"
    at,     \* the clock reading try_acquire took
    got,    \* the proof it is about to store
    held,   \* _held
    doing,  \* where a worker is: "idle", "working", "checking" or "acting"
    op,     \* the FencedOperation a worker carries
    seen    \* the row guard() read

leaseVars == <<now, lease, life, camp, at, got, held, doing, op, seen>>
campVars == <<camp, at, got>>
workVars == <<doing, op, seen>>

Proofs == [fence : Nat, expires : Nat]
LeaseRows == [holder : Nodes \cup {None}, fence : Nat, expires : Nat]
NoProof == [fence |-> 0, expires |-> 0]     \* fences start at 1
NoLease == [holder |-> None, fence |-> 0, expires |-> 0]

ValidNow(p) == p.fence > 0 /\ now < p.expires
IsLeader(n) == ValidNow(held[n])

-----------------------------------------------------------------------------
(* The campaign: start(), the renewal loop and try_acquire() *)

Start(n) ==
    /\ life[n] = "off"
    /\ life' = [life EXCEPT ![n] = "on"]
    /\ UNCHANGED <<now, lease, campVars, held, workVars>>

AskTime(n) ==
    /\ life[n] = "on" /\ camp[n] = "idle"
    /\ camp' = [camp EXCEPT ![n] = "asked"]
    /\ at' = [at EXCEPT ![n] = now]
    /\ UNCHANGED <<now, lease, life, got, held, workVars>>

\* Only the holder of a live row renews it; only a lapsed row changes hands.
Renewable(n) == lease.holder = n /\ lease.expires > at[n]
LapsedEarly(n) == lease.expires <= at[n] + 1         \* fault: off by one
Lapsed(n) == lease.expires <= at[n]

\* The fence of the term that a take-over begins.
SameFence(f) == IF f = 0 THEN 1 ELSE f               \* fault: a renewal's fence
NewFence(f) == f + 1

\* The transaction of try_acquire; without a row, fence 0 + 1 is inserted.
AcquireTxn(n) ==
    LET until == at[n] + TTL IN
    /\ camp[n] = "asked"
    /\ camp' = [camp EXCEPT ![n] = "store"]
    /\ at' = [at EXCEPT ![n] = 0]
    /\ \/ /\ Renewable(n)
          /\ lease' = [lease EXCEPT !.expires = until]
          /\ got' = [got EXCEPT ![n] = [fence |-> lease.fence, expires |-> until]]
       \/ /\ Lapsed(n) /\ ~Renewable(n) /\ lease.fence < MaxFence
          /\ lease' = [holder |-> n, fence |-> NewFence(lease.fence), expires |-> until]
          /\ got' = [got EXCEPT ![n] = [fence |-> NewFence(lease.fence),
                                        expires |-> until]]
       \/ /\ ~Renewable(n) /\ ~Lapsed(n)
          /\ got' = [got EXCEPT ![n] = NoProof]
          /\ UNCHANGED lease
    /\ UNCHANGED <<now, life, held, workVars>>

\* The database stays busy: the loop goes on, _held is left alone.
AcquireFails(n) ==
    /\ camp[n] = "asked"
    /\ camp' = [camp EXCEPT ![n] = "idle"]
    /\ at' = [at EXCEPT ![n] = 0]
    /\ UNCHANGED <<now, lease, life, got, held, workVars>>

Store(n) ==
    /\ camp[n] = "store"
    /\ held' = [held EXCEPT ![n] = got[n]]
    /\ got' = [got EXCEPT ![n] = NoProof]
    /\ camp' = [camp EXCEPT ![n] = "idle"]
    /\ UNCHANGED <<now, lease, life, at, workVars>>

-----------------------------------------------------------------------------
(* stop(): no further campaign; join() may time out, so that the release    *)
(* overtakes a campaign still inside try_acquire()                          *)

Stop(n) ==
    /\ life[n] = "on"
    /\ life' = [life EXCEPT ![n] = "stopping"]
    /\ UNCHANGED <<now, lease, campVars, held, workVars>>

\* A released row lapses at once, and its term can never be resumed.
ReleasedRow(r) == [holder |-> r.holder, fence |-> r.fence + 1, expires |-> 0]

ReleaseTxn(n) ==
    /\ life[n] = "stopping" /\ lease.fence < MaxFence
    /\ life' = [life EXCEPT ![n] = "released"]
    /\ lease' = IF lease.holder = n THEN ReleasedRow(lease) ELSE lease
    /\ UNCHANGED <<now, campVars, held, workVars>>

ReleaseStore(n) ==
    /\ life[n] = "released"
    /\ life' = [life EXCEPT ![n] = "stopped"]
    /\ held' = [held EXCEPT ![n] = NoProof]
    /\ UNCHANGED <<now, lease, campVars, workVars>>

\* The process ends, in whatever state; it may be started again.
Exit(n) ==
    /\ life[n] # "off"
    /\ life' = [life EXCEPT ![n] = "off"]
    /\ camp' = [camp EXCEPT ![n] = "idle"]
    /\ at' = [at EXCEPT ![n] = 0]
    /\ got' = [got EXCEPT ![n] = NoProof]
    /\ held' = [held EXCEPT ![n] = NoProof]
    /\ doing' = [w \in Workers |-> IF Home[w] = n THEN "idle" ELSE doing[w]]
    /\ op' = [w \in Workers |-> IF Home[w] = n THEN NoProof ELSE op[w]]
    /\ seen' = [w \in Workers |-> IF Home[w] = n THEN NoLease ELSE seen[w]]
    /\ UNCHANGED <<now, lease>>

-----------------------------------------------------------------------------
(* Guarded work: held(), guard(), then the effect *)

Held(w) ==
    /\ doing[w] = "idle" /\ life[Home[w]] # "off"
    /\ IsLeader(Home[w])
    /\ op' = [op EXCEPT ![w] = held[Home[w]]]
    /\ doing' = [doing EXCEPT ![w] = "working"]
    /\ UNCHANGED <<now, lease, life, campVars, held, seen>>

GuardRead(w) ==
    /\ doing[w] = "working"
    /\ seen' = [seen EXCEPT ![w] = lease]
    /\ doing' = [doing EXCEPT ![w] = "checking"]
    /\ UNCHANGED <<now, lease, life, campVars, held, op>>

GuardPasses(w) ==
    /\ seen[w].fence <= op[w].fence
    /\ seen[w].holder = Home[w]
    /\ seen[w].expires > now

\* A worker that is refused raises LeaseLost and drops its proof.
GuardCheck(w) ==
    /\ doing[w] = "checking"
    /\ doing' = [doing EXCEPT ![w] = IF GuardPasses(w) THEN "acting" ELSE "idle"]
    /\ op' = [op EXCEPT ![w] = IF GuardPasses(w) THEN @ ELSE NoProof]
    /\ seen' = [seen EXCEPT ![w] = NoLease]
    /\ UNCHANGED <<now, lease, life, campVars, held>>

\* The guarded operation ends: with its effect, or with an error on the way.
EndWork(w) ==
    /\ doing[w] # "idle"
    /\ doing' = [doing EXCEPT ![w] = "idle"]
    /\ op' = [op EXCEPT ![w] = NoProof]
    /\ seen' = [seen EXCEPT ![w] = NoLease]
    /\ UNCHANGED <<now, lease, life, campVars, held>>

ClockMoves ==
    /\ now < MaxTime
    /\ now' = now + 1
    /\ UNCHANGED <<lease, life, campVars, held, workVars>>

-----------------------------------------------------------------------------
LeaseInit ==
    /\ now = 0 /\ lease = NoLease
    /\ life = [n \in Nodes |-> "off"]
    /\ camp = [n \in Nodes |-> "idle"]
    /\ at = [n \in Nodes |-> 0]
    /\ got = [n \in Nodes |-> NoProof]
    /\ held = [n \in Nodes |-> NoProof]
    /\ doing = [w \in Workers |-> "idle"]
    /\ op = [w \in Workers |-> NoProof]
    /\ seen = [w \in Workers |-> NoLease]

NodeStep(n) ==
    \/ Start(n) \/ AskTime(n) \/ AcquireTxn(n) \/ AcquireFails(n) \/ Store(n)
    \/ Stop(n) \/ ReleaseTxn(n) \/ ReleaseStore(n) \/ Exit(n)

WorkStep(w) == Held(w) \/ GuardRead(w) \/ GuardCheck(w) \/ EndWork(w)

LeaseNext ==
    \/ \E n \in Nodes : NodeStep(n)
    \/ \E w \in Workers : WorkStep(w)
    \/ ClockMoves

LeaseSpec == LeaseInit /\ [][LeaseNext]_leaseVars

-----------------------------------------------------------------------------
(* Properties *)

\* One type invariant for the row, the campaigns and the workers.
LeaseTypeOK ==
    /\ now \in Nat
    /\ lease \in LeaseRows
    /\ life \in [Nodes -> {"off", "on", "stopping", "released", "stopped"}]
    /\ camp \in [Nodes -> {"idle", "asked", "store"}]
    /\ at \in [Nodes -> Nat]
    /\ got \in [Nodes -> Proofs]
    /\ held \in [Nodes -> Proofs]
    /\ doing \in [Workers -> {"idle", "working", "checking", "acting"}]
    /\ op \in [Workers -> Proofs]
    /\ seen \in [Workers -> LeaseRows]

\* The fences of every proof that node n's threads still carry.
Carried(n) ==
    {got[n].fence, held[n].fence} \cup {op[w].fence : w \in {v \in Workers : Home[v] = n}}

\* A fence identifies one leadership term: no two nodes ever carry proofs
\* with the same fence, stale ones included (try_acquire's comment on fences).
TermHasOneHolder ==
    \A m, n \in Nodes : m # n => Carried(m) \cap Carried(n) \subseteq {0}

\* A node that believes it leads (is_leader) is the holder of the row, at the
\* row's fence, unless it is being stopped: there is no second believer.
LeaderHoldsLease ==
    \A n \in Nodes : life[n] = "on" /\ IsLeader(n) =>
        /\ lease.holder = n
        /\ lease.fence = held[n].fence
        /\ lease.expires > now

\* guard() passes only a proof of the current term, although the row and the
\* clock are read in two steps, unless the node is itself giving up the lease.
GuardIsCurrent ==
    [][\A w \in Workers :
          doing[w] = "checking" /\ doing'[w] = "acting" /\ life[Home[w]] = "on"
             => lease.holder = Home[w] /\ lease.fence = op[w].fence]_leaseVars

\* The abstract terms, read off the row.
Abs == INSTANCE Leadership WITH
          leader <- lease.holder, term <- lease.fence, live <- lease.expires > now

\* The row implements the abstract terms: leadership changes hands only after
\* a lapse or a release, although every clock reading behind it is old.
ImplementsLeadership == Abs!LeadershipSpec
=============================================================================
