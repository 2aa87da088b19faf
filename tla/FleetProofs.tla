------------------------------ MODULE FleetProofs ------------------------------
(***************************************************************************)
(* Proofs about what coordinates a fleet: the leader lease, the vendors'   *)
(* adapters, the reservations of space and the plans made before them.     *)
(*                                                                         *)
(* LeaderLease.  A proof that is valid by the clock is backed by the row:  *)
(* its holder and fence are the row's and the row lapses no earlier.  A    *)
(* take-over needs a row that has lapsed at a clock reading taken in the   *)
(* past, so it can never pull the row from under such a proof.             *)
(*                                                                         *)
(* Vendors.  A mission is handed over once, its vehicle drives it exactly  *)
(* while nodes of it are left, and what a message tells of an order driven *)
(* to its end stays true however late the message is read.                 *)
(*                                                                         *)
(* Reservations.  Rows that hold are clear of one another, guard to guard, *)
(* and each segment was cut from the course its robot keeps.               *)
(*                                                                         *)
(* Preflight.  A plan is a simulation whose clock and trace only grow and  *)
(* whose low water only falls, and a vehicle that drives holds the windows *)
(* of all of it.                                                           *)
(***************************************************************************)
EXTENDS LeaderLease, Vendors, Preflight, WellFoundedInduction, TLAPS

Backed(n, p) ==
    /\ lease.holder = n
    /\ lease.fence = p.fence
    /\ lease.expires >= p.expires

\* Clock readings are in the past, and a renewal never shortens the row.
ClockInv ==
    /\ lease.expires <= now + TTL
    /\ \A n \in Nodes :
          /\ at[n] <= now
          /\ camp[n] = "asked" /\ lease.holder = n => lease.expires <= at[n] + TTL

\* A process that is not running carries nothing.
OffInv ==
    /\ \A n \in Nodes : life[n] = "off" =>
          held[n] = NoProof /\ got[n] = NoProof /\ camp[n] = "idle"
    /\ \A w \in Workers : life[Home[w]] = "off" => doing[w] = "idle"

\* Fences in circulation are the row's or older, and the row's belong to its
\* holder.
FenceInv ==
    \A n \in Nodes : \A f \in Carried(n) :
        /\ f \in Nat /\ f <= lease.fence
        /\ f = lease.fence /\ f # 0 => lease.holder = n

HolderInv ==
    \A n \in Nodes : life[n] = "on" =>
        /\ ValidNow(held[n]) => Backed(n, held[n])
        /\ ValidNow(got[n]) => Backed(n, got[n])

\* The row guard() read is still the row, as long as it has not lapsed.
GuardInv ==
    \A w \in Workers : doing[w] = "checking" =>
        /\ op[w].fence <= seen[w].fence
        /\ life[Home[w]] = "on" /\ seen[w].holder = Home[w] /\ seen[w].expires > now
             => Backed(Home[w], [fence |-> seen[w].fence, expires |-> seen[w].expires])

LeaseInv == /\ LeaseTypeOK /\ ClockInv /\ OffInv /\ FenceInv
            /\ TermHasOneHolder /\ HolderInv /\ GuardInv

-----------------------------------------------------------------------------
\* Every step keeps every variable of the lease in its type.
LEMMA LeaseTypeStep ==
    ASSUME LeaseTypeOK, [LeaseNext]_leaseVars
    PROVE  LeaseTypeOK'
<1> USE HomeAssumption, TTLAssumption, NoneAssumption
<1> USE DEF LeaseTypeOK, Proofs, LeaseRows, NoProof, NoLease
<1>1. ASSUME NEW n \in Nodes, Start(n) PROVE LeaseTypeOK'
  BY <1>1 DEF Start, campVars, workVars
<1>2. ASSUME NEW n \in Nodes, AskTime(n) PROVE LeaseTypeOK'
  BY <1>2 DEF AskTime, campVars, workVars
<1>3. ASSUME NEW n \in Nodes, AcquireTxn(n) PROVE LeaseTypeOK'
  <2>1. lease' \in LeaseRows /\ got' \in [Nodes -> Proofs]
    <3> at[n] + TTL \in Nat /\ lease.fence \in Nat /\ lease.fence + 1 \in Nat
      OBVIOUS
    <3>1. CASE lease' = [lease EXCEPT !.expires = at[n] + TTL]
                 /\ got' = [got EXCEPT ![n] = [fence |-> lease.fence, expires |-> at[n] + TTL]]
      BY <3>1
    <3>2. CASE /\ lease' = [holder |-> n, fence |-> lease.fence + 1, expires |-> at[n] + TTL]
               /\ got' = [got EXCEPT ![n] = [fence |-> lease.fence + 1, expires |-> at[n] + TTL]]
      BY <3>2
    <3>3. CASE lease' = lease /\ got' = [got EXCEPT ![n] = NoProof]
      BY <3>3
    <3> QED
      BY <1>3, <3>1, <3>2, <3>3 DEF AcquireTxn, NewFence
  <2> QED
    BY <1>3, <2>1 DEF AcquireTxn, workVars
<1>4. ASSUME NEW n \in Nodes, AcquireFails(n) PROVE LeaseTypeOK'
  BY <1>4 DEF AcquireFails, campVars, workVars
<1>5. ASSUME NEW n \in Nodes, Store(n) PROVE LeaseTypeOK'
  BY <1>5 DEF Store, campVars, workVars
<1>6. ASSUME NEW n \in Nodes, Stop(n) PROVE LeaseTypeOK'
  BY <1>6 DEF Stop, campVars, workVars
<1>7. ASSUME NEW n \in Nodes, ReleaseTxn(n) PROVE LeaseTypeOK'
  <2>1. ReleasedRow(lease) \in LeaseRows
    BY DEF ReleasedRow
  <2> QED
    BY <1>7, <2>1 DEF ReleaseTxn, campVars, workVars
<1>8. ASSUME NEW n \in Nodes, ReleaseStore(n) PROVE LeaseTypeOK'
  BY <1>8 DEF ReleaseStore, campVars, workVars
<1>9. ASSUME NEW n \in Nodes, Exit(n) PROVE LeaseTypeOK'
  BY <1>9 DEF Exit, campVars, workVars
<1>10. ASSUME NEW w \in Workers, Held(w) PROVE LeaseTypeOK'
  BY <1>10 DEF Held, campVars, workVars
<1>11. ASSUME NEW w \in Workers, GuardRead(w) PROVE LeaseTypeOK'
  BY <1>11 DEF GuardRead, campVars, workVars
<1>12. ASSUME NEW w \in Workers, GuardCheck(w) PROVE LeaseTypeOK'
  BY <1>12 DEF GuardCheck, campVars, workVars
<1>13. ASSUME NEW w \in Workers, EndWork(w) PROVE LeaseTypeOK'
  BY <1>13 DEF EndWork, campVars, workVars
<1>14. CASE ClockMoves
  BY <1>14 DEF ClockMoves, campVars, workVars
<1>15. CASE UNCHANGED leaseVars
  BY <1>15 DEF leaseVars
<1> QED
  BY <1>1, <1>2, <1>3, <1>4, <1>5, <1>6, <1>7, <1>8, <1>9, <1>10, <1>11, <1>12,
     <1>13, <1>14, <1>15 DEF LeaseNext, NodeStep, WorkStep

-----------------------------------------------------------------------------
\* Every step except the take-over transaction leaves the row alone, renews it
\* or releases it, and lets no node carry a fence it did not carry before.
LEMMA CarriedStep ==
    ASSUME LeaseTypeOK, FenceInv, NEW m \in Nodes, [LeaseNext]_leaseVars
    PROVE  \/ Carried(m)' \subseteq Carried(m) \cup {0}
           \/ AcquireTxn(m) /\ Carried(m)' \subseteq Carried(m) \cup {0, lease'.fence}
<1> USE HomeAssumption DEF LeaseTypeOK, Proofs, NoProof, Carried
<1>1. ASSUME NEW n \in Nodes, AcquireTxn(n) PROVE
        \/ Carried(m)' \subseteq Carried(m) \cup {0}
        \/ AcquireTxn(m) /\ Carried(m)' \subseteq Carried(m) \cup {0, lease'.fence}
  <2>1. got[m]'.fence \in {0, lease'.fence} \/ m # n
    BY <1>1, TTLAssumption DEF AcquireTxn, LeaseRows
  <2>2. m # n => got'[m] = got[m]
    BY <1>1 DEF AcquireTxn
  <2>3. held' = held /\ op' = op
    BY <1>1 DEF AcquireTxn, workVars
  <2> QED
    BY <1>1, <2>1, <2>2, <2>3
<1>2. ASSUME NEW n \in Nodes, Store(n) PROVE Carried(m)' \subseteq Carried(m) \cup {0}
  BY <1>2 DEF Store, workVars
<1>3. ASSUME NEW n \in Nodes, Exit(n) PROVE Carried(m)' \subseteq Carried(m) \cup {0}
  BY <1>3 DEF Exit
<1>4. ASSUME NEW n \in Nodes, ReleaseStore(n) PROVE Carried(m)' \subseteq Carried(m) \cup {0}
  BY <1>4 DEF ReleaseStore, campVars, workVars
<1>5. ASSUME NEW w \in Workers, Held(w) PROVE Carried(m)' \subseteq Carried(m) \cup {0}
  BY <1>5 DEF Held, campVars
<1>6. ASSUME NEW w \in Workers, GuardCheck(w) \/ EndWork(w)
      PROVE  Carried(m)' \subseteq Carried(m) \cup {0}
  BY <1>6 DEF GuardCheck, EndWork, campVars
<1>7. ASSUME got' = got, held' = held, op' = op
      PROVE  Carried(m)' \subseteq Carried(m) \cup {0}
  BY <1>7
<1> QED
  BY <1>1, <1>2, <1>3, <1>4, <1>5, <1>6, <1>7
     DEF LeaseNext, NodeStep, WorkStep, leaseVars, campVars, workVars,
         Start, AskTime, AcquireFails, Stop, ReleaseTxn, GuardRead, ClockMoves

\* What a step may do to the row.
Renewal(n) == /\ AcquireTxn(n) /\ lease.holder = n /\ lease'.holder = n
              /\ lease'.fence = lease.fence /\ lease.expires <= lease'.expires
TakeOver(n) == /\ AcquireTxn(n) /\ lease.expires <= now
               /\ lease'.holder = n /\ lease'.fence = lease.fence + 1
GiveUp(n) == /\ ReleaseTxn(n) /\ lease.holder = n /\ lease'.holder = n
                /\ lease'.fence = lease.fence + 1 /\ lease'.expires = 0

\* The row is left alone, renewed by its holder, taken over once it has
\* lapsed, or surrendered by a holder that is being stopped.
LEMMA RowStep ==
    ASSUME LeaseTypeOK, ClockInv, [LeaseNext]_leaseVars
    PROVE  \/ lease' = lease
           \/ \E n \in Nodes : Renewal(n) \/ TakeOver(n) \/ GiveUp(n)
<1> USE TTLAssumption DEF LeaseTypeOK, LeaseRows
<1>1. ASSUME NEW n \in Nodes, AcquireTxn(n)
      PROVE  lease' = lease \/ Renewal(n) \/ TakeOver(n)
  <2>1. CASE Renewable(n) /\ lease' = [lease EXCEPT !.expires = at[n] + TTL]
    BY <1>1, <2>1 DEF Renewal, Renewable, ClockInv, AcquireTxn
  <2>2. CASE Lapsed(n) /\ lease' = [holder |-> n, fence |-> NewFence(lease.fence),
                                     expires |-> at[n] + TTL]
    BY <1>1, <2>2 DEF TakeOver, Lapsed, NewFence, ClockInv
  <2> QED
    BY <1>1, <2>1, <2>2 DEF AcquireTxn
<1>2. ASSUME NEW n \in Nodes, ReleaseTxn(n)
      PROVE  lease' = lease \/ GiveUp(n)
  BY <1>2 DEF ReleaseTxn, ReleasedRow, GiveUp
<1> QED
  BY <1>1, <1>2
     DEF LeaseNext, NodeStep, WorkStep, leaseVars, Start, AskTime, AcquireFails,
         Store, Stop, ReleaseStore, Exit, Held, GuardRead, GuardCheck, EndWork, ClockMoves

\* A valid proof of a running node stays backed by the row while the node runs.
LEMMA BackedStep ==
    ASSUME LeaseTypeOK, ClockInv, [LeaseNext]_leaseVars,
           NEW n \in Nodes, NEW p \in Proofs,
           life[n] = "on", p.expires > now', Backed(n, p)
    PROVE  Backed(n, p)'
<1> now' >= now /\ now \in Nat
  BY DEF LeaseTypeOK, LeaseNext, NodeStep, WorkStep, leaseVars, Start, AskTime,
         AcquireTxn, AcquireFails, Store, Stop, ReleaseTxn, ReleaseStore, Exit,
         Held, GuardRead, GuardCheck, EndWork, ClockMoves
<1>1. lease \in LeaseRows /\ lease' \in LeaseRows
  BY LeaseTypeStep DEF LeaseTypeOK
<1>2. ASSUME NEW m \in Nodes, Renewal(m) PROVE Backed(n, p)'
  BY <1>1, <1>2 DEF Renewal, Backed, LeaseRows, Proofs
<1>3. ASSUME NEW m \in Nodes, TakeOver(m) PROVE FALSE
  <2>1. lease.expires \in Nat /\ p.expires \in Nat /\ now' \in Nat
    BY <1>1, LeaseTypeStep DEF LeaseRows, Proofs, LeaseTypeOK
  <2>2. lease.expires <= now /\ lease.expires >= p.expires
    BY <1>3 DEF TakeOver, Backed
  <2> QED
    BY <2>1, <2>2
<1>4. ASSUME NEW m \in Nodes, GiveUp(m) PROVE FALSE
  BY <1>4 DEF GiveUp, ReleaseTxn, Backed
<1> QED
  BY <1>2, <1>3, <1>4, RowStep DEF Backed

\* Fences in circulation keep identifying their term.
LEMMA FenceStep ==
    ASSUME LeaseTypeOK, ClockInv, FenceInv, TermHasOneHolder, [LeaseNext]_leaseVars
    PROVE  FenceInv' /\ TermHasOneHolder'
<1>1. lease \in LeaseRows /\ lease' \in LeaseRows
  BY LeaseTypeStep DEF LeaseTypeOK
<1>3. CASE \A m \in Nodes : Carried(m)' \subseteq Carried(m) \cup {0}
  <2>1. TermHasOneHolder'
    BY <1>3 DEF TermHasOneHolder
  <2>2. FenceInv'
    BY <1>1, <1>3, RowStep DEF FenceInv, Renewal, TakeOver, GiveUp, LeaseRows
  <2> QED
    BY <2>1, <2>2
<1>4. ASSUME NEW n \in Nodes, AcquireTxn(n) PROVE FenceInv' /\ TermHasOneHolder'
  <2>1. \A m \in Nodes : m # n => Carried(m)' = Carried(m)
    BY <1>4 DEF AcquireTxn, workVars, Carried, LeaseTypeOK
  <2>2. Carried(n)' \subseteq Carried(n) \cup {0, lease'.fence}
    BY <1>4, CarriedStep
  <2>3. \/ Carried(n)' \subseteq Carried(n) \cup {0} /\ lease' = lease
        \/ Renewal(n) \/ TakeOver(n)
    <3>1. CASE lease' = lease /\ got' = [got EXCEPT ![n] = NoProof]
      BY <1>4, <3>1 DEF AcquireTxn, workVars, Carried, LeaseTypeOK, NoProof, Proofs
    <3> QED
      BY <1>4, <3>1, TTLAssumption
         DEF AcquireTxn, Renewal, TakeOver, Renewable, Lapsed, NewFence, ClockInv,
             LeaseTypeOK, LeaseRows
  <2>4. FenceInv'
    BY <1>1, <2>1, <2>2, <2>3 DEF FenceInv, Renewal, TakeOver, LeaseRows
  <2>5. TermHasOneHolder'
    <3> SUFFICES ASSUME NEW a \in Nodes, NEW b \in Nodes, a # b,
                        NEW f \in Carried(a)', f \in Carried(b)', f # 0
                 PROVE  FALSE
      BY DEF TermHasOneHolder
    <3>1. f \in Carried(a) /\ f \in Carried(b) => FALSE
      BY DEF TermHasOneHolder
    <3>2. \A m \in Nodes : m # n /\ f \in Carried(m) => f <= lease.fence /\ f \in Nat
              /\ (f = lease.fence => lease.holder = m)
      BY DEF FenceInv
    <3> QED
      BY <1>1, <2>1, <2>2, <2>3, <3>1, <3>2 DEF Renewal, TakeOver, LeaseRows
  <2> QED
    BY <2>4, <2>5
<1> QED
  BY <1>3, <1>4, CarriedStep

LEMMA ClockStep ==
    ASSUME LeaseTypeOK, ClockInv, [LeaseNext]_leaseVars
    PROVE  ClockInv'
<1> USE TTLAssumption DEF LeaseTypeOK, LeaseRows, ClockInv
<1>1. ASSUME NEW n \in Nodes, AcquireTxn(n) PROVE ClockInv'
  <2>1. lease'.expires <= now + TTL
    BY <1>1 DEF AcquireTxn
  <2>2. \A m \in Nodes : m # n /\ lease'.holder = m
                           => lease.holder = m /\ lease'.expires = lease.expires
    BY <1>1 DEF AcquireTxn, Renewable
  <2> QED
    BY <1>1, <2>1, <2>2 DEF AcquireTxn
<1>2. ASSUME NEW n \in Nodes, ReleaseTxn(n) PROVE ClockInv'
  BY <1>2 DEF ReleaseTxn, ReleasedRow, campVars
<1>3. ASSUME NEW n \in Nodes, AskTime(n) PROVE ClockInv'
  BY <1>3 DEF AskTime
<1>4. ASSUME NEW n \in Nodes, AcquireFails(n) \/ Store(n) \/ Exit(n) PROVE ClockInv'
  BY <1>4 DEF AcquireFails, Store, Exit
<1>5. CASE ClockMoves
  BY <1>5 DEF ClockMoves, campVars
<1>6. CASE UNCHANGED <<now, lease, camp, at>>
  BY <1>6
<1> QED
  BY <1>1, <1>2, <1>3, <1>4, <1>5, <1>6
     DEF LeaseNext, NodeStep, WorkStep, leaseVars, campVars, Start, Stop,
         ReleaseStore, Held, GuardRead, GuardCheck, EndWork

LEMMA OffStep ==
    ASSUME LeaseTypeOK, OffInv, [LeaseNext]_leaseVars
    PROVE  OffInv'
<1> USE HomeAssumption DEF LeaseTypeOK, OffInv
<1>1. ASSUME NEW n \in Nodes, NodeStep(n) PROVE OffInv'
  BY <1>1 DEF NodeStep, campVars, workVars, Start, AskTime, AcquireTxn, AcquireFails,
              Store, Stop, ReleaseTxn, ReleaseStore, Exit
<1>2. ASSUME NEW w \in Workers, WorkStep(w) PROVE OffInv'
  BY <1>2 DEF WorkStep, campVars, Held, GuardRead, GuardCheck, EndWork
<1>3. CASE ClockMoves \/ UNCHANGED leaseVars
  BY <1>3 DEF ClockMoves, leaseVars, campVars, workVars
<1> QED
  BY <1>1, <1>2, <1>3 DEF LeaseNext

\* The clock never runs backwards.
LEMMA NowStep ==
    ASSUME LeaseTypeOK, [LeaseNext]_leaseVars
    PROVE  now \in Nat /\ now' \in Nat /\ now <= now'
BY DEF LeaseTypeOK, LeaseNext, NodeStep, WorkStep, leaseVars, Start, AskTime,
       AcquireTxn, AcquireFails, Store, Stop, ReleaseTxn, ReleaseStore, Exit,
       Held, GuardRead, GuardCheck, EndWork, ClockMoves

\* Only Start turns a node on, and then it carries nothing.
LEMMA LifeStep ==
    ASSUME LeaseTypeOK, OffInv, [LeaseNext]_leaseVars, NEW n \in Nodes, life'[n] = "on"
    PROVE  \/ life[n] = "on"
           \/ Start(n) /\ held'[n] = NoProof /\ got'[n] = NoProof
BY DEF LeaseTypeOK, OffInv, LeaseNext, NodeStep, WorkStep, leaseVars, campVars,
       Start, AskTime, AcquireTxn, AcquireFails, Store, Stop, ReleaseTxn,
       ReleaseStore, Exit, Held, GuardRead, GuardCheck, EndWork, ClockMoves

\* A node's proof is the one it had, the one it was about to store, none, or
\* the one its transaction just minted together with the row.
LEMMA ProofStep ==
    ASSUME LeaseTypeOK, [LeaseNext]_leaseVars, NEW n \in Nodes
    PROVE  /\ held'[n] \in {held[n], got[n], NoProof}
           /\ \/ got'[n] \in {got[n], NoProof}
              \/ Backed(n, got[n])'
<1> USE DEF LeaseTypeOK, NoProof
<1>1. ASSUME NEW m \in Nodes, AcquireTxn(m)
      PROVE  held'[n] = held[n] /\ (got'[n] \in {got[n], NoProof} \/ Backed(n, got[n])')
  <2>1. CASE m # n
    BY <1>1, <2>1 DEF AcquireTxn
  <2>2. CASE m = n
    BY <1>1, <2>2, TTLAssumption DEF AcquireTxn, Backed, LeaseRows, Renewable, NewFence
  <2> QED
    BY <2>1, <2>2
<1> QED
  BY <1>1 DEF LeaseNext, NodeStep, WorkStep, leaseVars, campVars,
       Start, AskTime, AcquireFails, Store, Stop, ReleaseTxn,
       ReleaseStore, Exit, Held, GuardRead, GuardCheck, EndWork, ClockMoves

LEMMA HolderStep ==
    ASSUME LeaseTypeOK, ClockInv, OffInv, HolderInv, [LeaseNext]_leaseVars
    PROVE  HolderInv'
<1> SUFFICES ASSUME NEW n \in Nodes, life'[n] = "on", NEW q \in Proofs,
                    q.fence > 0, now' < q.expires,
                    q = held'[n] \/ q = got'[n]
             PROVE  Backed(n, q)'
  <2>1. LeaseTypeOK'
    BY LeaseTypeStep
  <2> QED
    BY <2>1 DEF HolderInv, ValidNow, LeaseTypeOK, Backed
<1>1. q # NoProof
  BY DEF NoProof, Proofs
<1>2. life[n] = "on"
  BY <1>1, LifeStep
<1>3. CASE q \in {held[n], got[n]}
  <2>1. ValidNow(q)
    BY NowStep DEF ValidNow, Proofs
  <2>2. Backed(n, q)
    BY <1>2, <1>3, <2>1 DEF HolderInv
  <2> QED
    BY <1>2, <2>2, BackedStep
<1>4. CASE q = got'[n] /\ Backed(n, got[n])'
  BY <1>4 DEF Backed
<1> QED
  BY <1>1, <1>3, <1>4, ProofStep

\* A worker inside guard() has just read the row, or keeps what it read.
LEMMA SeenStep ==
    ASSUME LeaseTypeOK, [LeaseNext]_leaseVars, NEW w \in Workers, doing'[w] = "checking"
    PROVE  \/ doing[w] = "checking" /\ seen'[w] = seen[w] /\ op'[w] = op[w]
           \/ /\ doing[w] = "working" /\ seen'[w] = lease /\ lease' = lease
              /\ op' = op /\ life' = life
BY HomeAssumption
   DEF LeaseTypeOK, LeaseNext, NodeStep, WorkStep, leaseVars, campVars, workVars,
       Start, AskTime, AcquireTxn, AcquireFails, Store, Stop, ReleaseTxn,
       ReleaseStore, Exit, Held, GuardRead, GuardCheck, EndWork, ClockMoves

LEMMA GuardStep ==
    ASSUME LeaseTypeOK, ClockInv, OffInv, FenceInv, GuardInv, [LeaseNext]_leaseVars
    PROVE  GuardInv'
<1> SUFFICES ASSUME NEW w \in Workers, doing'[w] = "checking"
             PROVE  /\ op'[w].fence <= seen'[w].fence
                    /\ life'[Home[w]] = "on" /\ seen'[w].holder = Home[w]
                         /\ seen'[w].expires > now'
                       => Backed(Home[w], [fence |-> seen[w].fence,
                                           expires |-> seen[w].expires])'
  BY DEF GuardInv
<1>1. Home[w] \in Nodes
  BY HomeAssumption
<1>2. CASE doing[w] = "checking" /\ seen'[w] = seen[w] /\ op'[w] = op[w]
  <2>1. op'[w].fence <= seen'[w].fence
    BY <1>2 DEF GuardInv
  <2>2. ASSUME life'[Home[w]] = "on", seen'[w].holder = Home[w], seen'[w].expires > now',
               NEW q \in Proofs, q = [fence |-> seen[w].fence, expires |-> seen[w].expires]
        PROVE  Backed(Home[w], q)'
    <3>1. life[Home[w]] = "on"
      BY <1>1, <1>2, <2>2, LifeStep DEF OffInv, Start
    <3>2. seen[w].expires > now
      <4>1. seen[w].expires \in Nat
        BY DEF LeaseTypeOK, LeaseRows
      <4> QED
        BY <1>2, <2>2, <4>1, NowStep
    <3>3. Backed(Home[w], q)
      BY <1>2, <2>2, <3>1, <3>2 DEF GuardInv
    <3> QED
      BY <1>1, <1>2, <2>2, <3>1, <3>3, BackedStep
  <2>3. [fence |-> seen[w].fence, expires |-> seen[w].expires] \in Proofs
    BY DEF LeaseTypeOK, LeaseRows, Proofs
  <2> QED
    BY <1>2, <2>1, <2>2, <2>3 DEF Backed
<1>3. CASE doing[w] = "working" /\ seen'[w] = lease /\ lease' = lease /\ op' = op
             /\ life' = life
  <2>1. op[w].fence <= lease.fence
    BY <1>1 DEF FenceInv, Carried
  <2>2. lease.expires \in Nat
    BY DEF LeaseTypeOK, LeaseRows
  <2> QED
    BY <1>3, <2>1, <2>2 DEF Backed
<1> QED
  BY <1>2, <1>3, SeenStep

-----------------------------------------------------------------------------
LEMMA LeaseInvInit == LeaseInit => LeaseInv
<1> SUFFICES ASSUME LeaseInit PROVE LeaseInv
  OBVIOUS
<1> USE HomeAssumption, TTLAssumption, NoneAssumption
<1> USE DEF LeaseInit, NoProof, NoLease
<1>1. LeaseTypeOK
  BY DEF LeaseTypeOK, Proofs, LeaseRows
<1>2. ClockInv /\ OffInv
  BY DEF ClockInv, OffInv
<1>3. \A n \in Nodes : Carried(n) \subseteq {0}
  BY DEF Carried
<1>4. FenceInv /\ TermHasOneHolder
  BY <1>3 DEF FenceInv, TermHasOneHolder
<1>5. HolderInv /\ GuardInv
  BY DEF HolderInv, GuardInv, ValidNow
<1> QED
  BY <1>1, <1>2, <1>4, <1>5 DEF LeaseInv

\* LeaseInv is inductive.
THEOREM LeaseInvariant == LeaseSpec => []LeaseInv
<1>1. LeaseInv /\ [LeaseNext]_leaseVars => LeaseInv'
  BY LeaseTypeStep, ClockStep, OffStep, FenceStep, HolderStep, GuardStep DEF LeaseInv
<1> QED
  BY <1>1, LeaseInvInit, PTL DEF LeaseSpec

\* Every variable keeps its type.
THEOREM LeaseTypeCorrect == LeaseSpec => []LeaseTypeOK
BY LeaseInvariant, PTL DEF LeaseInv

\* A fence identifies one leadership term: try_acquire and release never give
\* two nodes proofs with the same fence.
THEOREM OneHolderPerTerm == LeaseSpec => []TermHasOneHolder
BY LeaseInvariant, PTL DEF LeaseInv

\* is_leader of a node that is not being stopped agrees with the row, so at
\* most one such node believes it leads.
THEOREM LeaderIsHolder == LeaseSpec => []LeaderHoldsLease
<1>1. LeaseInv => LeaderHoldsLease
  BY DEF LeaseInv, LeaderHoldsLease, IsLeader, HolderInv, Backed, ValidNow,
         LeaseTypeOK, LeaseRows, Proofs
<1> QED
  BY <1>1, LeaseInvariant, PTL

\* guard() never passes a proof of a superseded term.
THEOREM GuardIsExact == LeaseSpec => GuardIsCurrent
<1> DEFINE Pass == \A w \in Workers :
          doing[w] = "checking" /\ doing'[w] = "acting" /\ life[Home[w]] = "on"
             => lease.holder = Home[w] /\ lease.fence = op[w].fence
<1>1. LeaseInv /\ [LeaseNext]_leaseVars => [Pass]_leaseVars
  <2> SUFFICES ASSUME LeaseInv, LeaseNext, NEW w \in Workers,
                      doing[w] = "checking", doing'[w] = "acting", life[Home[w]] = "on"
               PROVE  lease.holder = Home[w] /\ lease.fence = op[w].fence
    OBVIOUS
  <2>1. GuardPasses(w)
    BY HomeAssumption
       DEF LeaseInv, LeaseTypeOK, LeaseNext, NodeStep, WorkStep, campVars, workVars,
           Start, AskTime, AcquireTxn, AcquireFails, Store, Stop, ReleaseTxn,
           ReleaseStore, Exit, Held, GuardRead, GuardCheck, EndWork, ClockMoves
  <2> QED
    <3>1. seen[w].fence \in Nat /\ op[w].fence \in Nat
      BY DEF LeaseInv, LeaseTypeOK, LeaseRows, Proofs
    <3>2. seen[w].fence <= op[w].fence /\ op[w].fence <= seen[w].fence
      BY <2>1 DEF GuardPasses, LeaseInv, GuardInv
    <3>3. lease.holder = Home[w] /\ lease.fence = seen[w].fence
      BY <2>1 DEF GuardPasses, LeaseInv, GuardInv, Backed
    <3> QED
      BY <3>1, <3>2, <3>3
<1> QED
  BY <1>1, LeaseInvariant, PTL DEF LeaseSpec, GuardIsCurrent

\* The lease implements the abstract terms that guarded work relies on.
THEOREM LeaseRefinement == LeaseSpec => ImplementsLeadership
<1> USE TTLAssumption DEF Abs!leadershipVars
<1>1. LeaseInit => Abs!LeadershipInit
  BY DEF LeaseInit, NoLease, Abs!LeadershipInit
<1>2. LeaseInv /\ [LeaseNext]_leaseVars => [Abs!LeadershipNext]_(Abs!leadershipVars)
  <2> SUFFICES ASSUME LeaseInv, [LeaseNext]_leaseVars
               PROVE  [Abs!LeadershipNext]_(Abs!leadershipVars)
    OBVIOUS
  <2>1. LeaseTypeOK /\ ClockInv /\ LeaseTypeOK'
    BY LeaseTypeStep DEF LeaseInv
  <2>2. /\ lease.fence \in Nat /\ lease.expires \in Nat
        /\ lease'.fence \in Nat /\ lease'.expires \in Nat
    BY <2>1 DEF LeaseTypeOK, LeaseRows
  <2>3. CASE lease' = lease
    BY <2>2, <2>3, NowStep, <2>1 DEF Abs!LeadershipNext, Abs!Lapse
  <2>4. ASSUME NEW n \in Nodes, Renewal(n) \/ TakeOver(n) PROVE now' = now
    BY <2>4 DEF Renewal, TakeOver, AcquireTxn
  <2>5. ASSUME NEW n \in Nodes, Renewal(n) PROVE [Abs!LeadershipNext]_(Abs!leadershipVars)
    BY <2>1, <2>2, <2>4, <2>5 DEF Renewal, Abs!LeadershipNext, Abs!Revive, LeaseTypeOK
  <2>6. ASSUME NEW n \in Nodes, TakeOver(n) PROVE Abs!Elect(n)
    BY <2>1, <2>2, <2>4, <2>6 DEF TakeOver, Abs!Elect, LeaseTypeOK
  <2>7. ASSUME NEW n \in Nodes, GiveUp(n) PROVE Abs!Surrender(n)
    BY <2>1, <2>2, <2>7, NowStep DEF GiveUp, Abs!Surrender
  <2> QED
    BY <2>1, <2>3, <2>5, <2>6, <2>7, RowStep DEF Abs!LeadershipNext
<1> QED
  BY <1>1, <1>2, LeaseInvariant, PTL DEF LeaseSpec, ImplementsLeadership, Abs!LeadershipSpec
-----------------------------------------------------------------------------
(* Vendors: the inductive invariant *)

RowStates == {"none", "dispatching", "accepted", "preflight", "assigned", "running", "paused",
              "completed", "failed", "cancelled", "rejected"}
Vehicles == [order : Jobs \cup {Nothing}, left : Nat, paused : BOOLEAN, failed : BOOLEAN]

VendorTypeOK ==
    /\ kind \in {"vda", "rest", "sim"}
    /\ phase \in [Jobs -> RowStates]
    /\ route \in [Jobs -> {"none", "held", "released"}]
    /\ thread \in [Jobs -> {"idle", "send"}]
    /\ known \in [Jobs -> {"none", "assigned", "completed", "cancelled"}]
    /\ raw \in Vehicles \cup {Nothing}
    /\ orders \in Seq(Jobs) /\ news \in Seq(Vehicles)
    /\ veh \in Vehicles
    /\ ended \in [Jobs -> {"none", "took", "done", "failed", "dropped"}]

\* A mission that has yet to reach a vehicle is on its way once: in the thread
\* of its submission, or in one place of the order topic.
Waiting(m) == {i \in DOMAIN orders : orders[i] = m}
OnceInv ==
    /\ \A m \in Jobs : phase[m] = "none" => thread[m] = "idle" /\ ended[m] = "none"
                                            /\ Waiting(m) = {}
    /\ \A m \in Jobs : thread[m] = "send" => ended[m] = "none" /\ Waiting(m) = {}
    /\ \A i \in DOMAIN orders : ended[orders[i]] = "none"
    /\ \A i, j \in DOMAIN orders : orders[i] = orders[j] => i = j

\* A mission is driven exactly while a vehicle has nodes of it left.
DriveInv ==
    /\ \A m \in Jobs : ended[m] = "took" <=> veh.order = m /\ veh.left > 0
    /\ veh.left > 0 => veh.order # Nothing

\* A state message that shows an order through and no failure is about an
\* order that was driven to its end.
ToldTrue(s) == s.order # Nothing /\ s.left = 0 /\ ~s.failed => ended[s.order] = "done"
MessageInv ==
    /\ ToldTrue(veh)
    /\ raw # Nothing => ToldTrue(raw)
    /\ \A i \in DOMAIN news : ToldTrue(news[i])

\* Without MQTT a row is moved only after the vendor answered, and back to
\* accepted or preflight only by a vendor's word.
AnswerInv ==
    /\ kind # "vda" => orders = <<>>
    /\ kind # "vda" => \A m \in Jobs :
          /\ thread[m] = "send" => phase[m] = "dispatching" /\ (kind = "sim" => known[m] = "none")
          /\ phase[m] \in Undispatched => m \in backed
    /\ kind = "sim" =>
          /\ veh.order # Nothing => veh.left > 0
          /\ \A m \in Jobs : /\ phase[m] = "none" => known[m] = "none"
                             /\ known[m] = "completed" => ended[m] = "done"

VendorInv == VendorTypeOK /\ OnceInv /\ DriveInv /\ MessageInv /\ AnswerInv /\ PhaseIsReal

\* Every step keeps the variables of the fleet in their types.
LEMMA VendorTypeStep ==
    ASSUME VendorTypeOK, VendorNext
    PROVE  VendorTypeOK'
<1> USE VendorAssumption
<1> USE DEF VendorTypeOK, RowStates
<1>0. IdleVehicle \in Vehicles
  BY DEF IdleVehicle, Vehicles
<1>00. /\ veh.order \in Jobs \cup {Nothing} /\ veh.left \in Nat
       /\ veh.paused \in BOOLEAN /\ veh.failed \in BOOLEAN
  BY DEF Vehicles
<1>01. \A m \in Jobs : ReleaseRoute(m) \in [Jobs -> {"none", "held", "released"}]
  BY DEF ReleaseRoute
<1>02. ASSUME NEW m \in Jobs, Took(m)
       PROVE  veh' \in Vehicles /\ ended' \in [Jobs -> {"none", "took", "done", "failed", "dropped"}]
  BY <1>00, <1>02 DEF Took, IdleVehicle, Vehicles
<1>03. ASSUME NEW m \in Jobs, DropOrder(m)
       PROVE  veh' \in Vehicles /\ ended' \in [Jobs -> {"none", "took", "done", "failed", "dropped"}]
  BY <1>00, <1>03 DEF DropOrder, IdleVehicle, Vehicles
<1>04. ASSUME NEW m \in Jobs, CancelRow(m)
       PROVE  phase' \in [Jobs -> RowStates] /\ route' \in [Jobs -> {"none", "held", "released"}]
  BY <1>01, <1>04 DEF CancelRow
<1>05. ASSUME NEW m \in Jobs, Assigned(m) \/ Refuse(m)
       PROVE  phase' \in [Jobs -> RowStates] /\ route' \in [Jobs -> {"none", "held", "released"}]
  <2>1. CASE Assigned(m)
    BY <1>01, <2>1 DEF Assigned
  <2>2. CASE Refuse(m)
    BY <1>01, <2>2 DEF Refuse
  <2>3. QED BY <1>05, <2>1, <2>2
<1> HIDE DEF RowStates
<1>1. ASSUME NEW m \in Jobs, NEW a \in BOOLEAN, Select(m, a) PROVE VendorTypeOK'
  <2>1. \/ phase' = [phase EXCEPT ![m] = "dispatching"]
        \/ phase' = [phase EXCEPT ![m] = "failed"]
    BY <1>1 DEF Select
  <2>2. route' = route \/ route' = [route EXCEPT ![m] = "held"]
    BY <1>1 DEF Select
  <2>3. thread' = thread \/ thread' = [thread EXCEPT ![m] = "send"]
    BY <1>1 DEF Select
  <2>4. UNCHANGED <<kind, known, raw, orders, news, veh, ended>>
    BY <1>1 DEF Select, cacheVars
  <2>5. phase' \in [Jobs -> RowStates]
    BY <2>1 DEF RowStates
  <2>6. QED BY <2>2, <2>3, <2>4, <2>5
<1>2. ASSUME NEW m \in Jobs, Dispatch(m) PROVE VendorTypeOK'
  <2>1. CASE DispatchVda(m)
    <3>1. orders' \in Seq(Jobs)
      <4>1. orders' = Append(orders, m)
        BY <2>1 DEF DispatchVda, Publish
      <4>2. orders \in Seq(Jobs)
        OBVIOUS
      <4> HIDE DEF VendorTypeOK
      <4>3. QED BY <4>1, <4>2
    <3>2. known' \in [Jobs -> {"none", "assigned", "completed", "cancelled"}]
      BY <2>1 DEF DispatchVda
    <3>3. phase' \in [Jobs -> RowStates] /\ route' \in [Jobs -> {"none", "held", "released"}]
      BY <1>05, <2>1 DEF DispatchVda
    <3>4. QED BY <1>2, <2>1, <3>1, <3>2, <3>3 DEF Dispatch, DispatchVda
  <2>2. CASE DispatchSim(m)
    <3>1. known' \in [Jobs -> {"none", "assigned", "completed", "cancelled"}]
      BY <2>2 DEF DispatchSim
    <3>2. phase' \in [Jobs -> RowStates] /\ route' \in [Jobs -> {"none", "held", "released"}]
      BY <1>05, <2>2 DEF DispatchSim
    <3>3. veh' \in Vehicles /\ ended' \in [Jobs -> {"none", "took", "done", "failed", "dropped"}]
      BY <1>02, <2>2 DEF DispatchSim
    <3>4. QED BY <1>2, <2>2, <3>1, <3>2, <3>3 DEF Dispatch, DispatchSim
  <2>3. CASE DispatchRest(m)
    <3>2. phase' \in [Jobs -> RowStates] /\ route' \in [Jobs -> {"none", "held", "released"}]
      BY <1>05, <2>3 DEF DispatchRest
    <3>3. veh' \in Vehicles /\ ended' \in [Jobs -> {"none", "took", "done", "failed", "dropped"}]
      BY <1>02, <2>3 DEF DispatchRest
    <3>4. QED BY <1>2, <2>3, <3>2, <3>3 DEF Dispatch, DispatchRest
  <2>4. QED BY <1>2, <2>1, <2>2, <2>3 DEF Dispatch
<1>3. ASSUME NEW m \in Jobs, Reconcile(m) PROVE VendorTypeOK'
  <2>1. PICK r \in Reports(m) :
           /\ phase' = [phase EXCEPT ![m] = r]
           /\ route' = IF r \in Terminal THEN ReleaseRoute(m) ELSE route
    BY <1>3 DEF Reconcile
  <2>2. r \in RowStates
    <3>1. CASE kind = "vda"
      BY <2>1, <3>1 DEF Reports, VdaReports, MissionStateFrom, RowStates
    <3>2. CASE kind = "rest"
      BY <2>1, <3>2 DEF Reports, RestReports, RowStates
    <3>3. CASE kind = "sim"
      BY <2>1, <3>3 DEF Reports, SimReports, RowStates
    <3>4. QED BY <3>1, <3>2, <3>3
  <2>3. QED BY <1>01, <1>3, <2>1, <2>2 DEF Reconcile, cacheVars, mqttVars
<1>4. ASSUME NEW m \in Jobs, CancelEarly(m) PROVE VendorTypeOK'
  BY <1>04, <1>4 DEF CancelEarly, cacheVars, mqttVars
<1>5. ASSUME NEW m \in Jobs, Cancel(m) PROVE VendorTypeOK'
  <2>1. CASE CancelVda(m)
    BY <1>04, <1>5, <2>1 DEF Cancel, CancelVda
  <2>2. CASE CancelSim(m)
    BY <1>03, <1>04, <1>5, <2>2 DEF Cancel, CancelSim
  <2>3. CASE CancelRest(m)
    BY <1>03, <1>04, <1>5, <2>3 DEF Cancel, CancelRest
  <2>4. QED BY <1>5, <2>1, <2>2, <2>3 DEF Cancel
<1>6. CASE RequestStop
  <2>1. [veh EXCEPT !.paused = TRUE] \in Vehicles
    BY <1>00 DEF Vehicles
  <2>2. QED BY <1>6, <2>1 DEF RequestStop, rowVars, cacheVars
<1>7. CASE IngestState
  BY <1>7 DEF IngestState, rowVars
<1>8. CASE IngestFactsheet
  BY <1>8 DEF IngestFactsheet, rowVars, mqttVars
<1>9. CASE Restart
  BY <1>9 DEF Restart, mqttVars
<1>10. CASE VehicleTakesOrder
  <2>1. Head(orders) \in Jobs /\ orders' \in Seq(Jobs)
    BY <1>10 DEF VehicleTakesOrder
  <2>2. QED BY <1>02, <1>10, <2>1 DEF VehicleTakesOrder, rowVars, cacheVars
<1>11. CASE VehicleObeys
  <2>1. [veh EXCEPT !.paused = TRUE] \in Vehicles
    BY <1>00 DEF Vehicles
  <2>2. ended' \in [Jobs -> {"none", "took", "done", "failed", "dropped"}] /\ veh' \in Vehicles
    <3>1. CASE DropOrder(veh.order)
      BY <1>00, <3>1 DEF DropOrder, IdleVehicle, Vehicles
    <3>2. CASE ~DropOrder(veh.order)
      BY <1>11, <2>1, <3>2 DEF VehicleObeys
    <3>3. QED BY <3>1, <3>2
  <2>3. QED BY <1>11, <2>2 DEF VehicleObeys, rowVars, cacheVars
<1>12. CASE VehicleReports
  <2>1. news' \in Seq(Vehicles)
    <3>1. news' = Append(news, veh)
      BY <1>12 DEF VehicleReports, Publish, StateMessage
    <3>2. news \in Seq(Vehicles) /\ veh \in Vehicles
      OBVIOUS
    <3> HIDE DEF VendorTypeOK
    <3>3. QED BY <3>1, <3>2
  <2>2. QED BY <1>12, <2>1 DEF VehicleReports, rowVars, cacheVars
<1>13. CASE Lost
  <2>1. orders \in Seq(Jobs) /\ news \in Seq(Vehicles)
    OBVIOUS
  <2> HIDE DEF VendorTypeOK
  <2>2. UNCHANGED <<kind, phase, route, thread, known, raw, veh, ended>>
    BY <1>13 DEF Lost, rowVars, cacheVars
  <2>3. orders' \in Seq(Jobs)
    <3>1. orders' = orders \/ (orders # <<>> /\ orders' = Tail(orders))
      BY <1>13 DEF Lost
    <3>2. QED BY <2>1, <3>1
  <2>4. news' \in Seq(Vehicles)
    <3>1. news' = news \/ (news # <<>> /\ news' = Tail(news))
      BY <1>13 DEF Lost
    <3>2. QED BY <2>1, <3>1
  <2>5. QED BY <2>2, <2>3, <2>4 DEF VendorTypeOK
<1>14. CASE Advance
  <2>1. veh' \in Vehicles
    <3>1. veh.left - 1 \in Nat
      BY <1>00, <1>14 DEF Advance, Moving
    <3>2. [veh EXCEPT !.left = @ - 1] \in Vehicles
      BY <1>00, <3>1 DEF Vehicles
    <3>3. QED BY <1>0, <1>14, <3>2 DEF Advance
  <2>2. QED BY <1>14, <2>1 DEF Advance, rowVars, mqttVars
<1>15. CASE VehicleChanges
  <2>1. /\ [veh EXCEPT !.failed = TRUE, !.left = 0] \in Vehicles
        /\ [veh EXCEPT !.order = Nothing, !.failed = FALSE] \in Vehicles
        /\ [veh EXCEPT !.paused = FALSE] \in Vehicles
    BY <1>00 DEF Vehicles
  <2>2. QED BY <1>15, <2>1 DEF VehicleChanges, rowVars, cacheVars, mqttVars
<1>16. QED
  BY <1>1, <1>2, <1>3, <1>4, <1>5, <1>6, <1>7, <1>8, <1>9, <1>10, <1>11, <1>12, <1>13, <1>14,
     <1>15 DEF VendorNext

-----------------------------------------------------------------------------
(* Vendors: what a step does to the vehicle and to the missions it drives *)

Unmoved == /\ ended' = ended /\ veh'.order = veh.order /\ veh'.left = veh.left
           /\ veh'.failed = veh.failed
Taken(m) == /\ ended[m] = "none" /\ (thread[m] = "send" \/ Waiting(m) # {}) /\ veh.left = 0
            /\ ended' = [ended EXCEPT ![m] = "took"]
            /\ veh'.order = m /\ veh'.left = Steps /\ veh'.failed = FALSE
Left(m, how) == /\ ended[m] = "took" /\ ended' = [ended EXCEPT ![m] = how] /\ veh'.left = 0
                /\ \/ veh'.order = Nothing
                   \/ veh'.order = m /\ (how = "done" \/ veh'.failed)
                /\ kind = "sim" => veh'.order = Nothing
Moved == /\ ended' = ended /\ veh.left > 1 /\ veh'.left = veh.left - 1
         /\ veh'.order = veh.order /\ veh'.failed = veh.failed
Cleared == /\ ended' = ended /\ veh.left = 0 /\ veh'.left = 0 /\ veh'.order = Nothing
VehicleStep ==
    \/ Unmoved \/ Moved \/ Cleared
    \/ \E m \in Jobs : Taken(m) \/ \E how \in {"done", "failed", "dropped"} : Left(m, how)

\* A vehicle takes a mission that waits for it, drives it, ends it or forgets
\* one it has ended.
LEMMA VehicleSteps ==
    ASSUME VendorInv, VendorNext
    PROVE  VehicleStep
<1> USE VendorAssumption
<1>0. /\ veh.order \in Jobs \cup {Nothing} /\ veh.left \in Nat
      /\ veh.paused \in BOOLEAN /\ veh.failed \in BOOLEAN
  BY DEF VendorInv, VendorTypeOK, Vehicles
<1>1. /\ ended \in [Jobs -> {"none", "took", "done", "failed", "dropped"}]
      /\ veh = [order |-> veh.order, left |-> veh.left, paused |-> veh.paused, failed |-> veh.failed]
      /\ kind \in {"vda", "rest", "sim"}
  BY DEF VendorInv, VendorTypeOK, Vehicles
<1>2. \A m \in Jobs : ended[m] = "took" <=> veh.order = m /\ veh.left > 0
  BY DEF VendorInv, DriveInv
<1>3. veh.left > 0 => veh.order \in Jobs
  BY <1>0 DEF VendorInv, DriveInv
<1>4. ASSUME UNCHANGED <<veh, ended>> PROVE VehicleStep
  BY <1>4 DEF VehicleStep, Unmoved
<1>5. ASSUME NEW m \in Jobs, Took(m), veh.left = 0, ended[m] = "none",
             thread[m] = "send" \/ Waiting(m) # {}
      PROVE  VehicleStep
  <2>1. Taken(m)
    BY <1>5 DEF Taken, Took, IdleVehicle
  <2>2. QED BY <2>1 DEF VehicleStep
<1>6. ASSUME NEW m \in Jobs, DropOrder(m), ended[m] = "took" PROVE VehicleStep
  <2>1. veh'.left = 0 /\ veh'.order = Nothing
    BY <1>6 DEF DropOrder, IdleVehicle
  <2>2. Left(m, "dropped")
    <3>1. ended' = [ended EXCEPT ![m] = "dropped"]
      BY <1>6 DEF DropOrder
    <3>2. QED BY <1>6, <2>1, <3>1 DEF Left
  <2>3. QED BY <2>2 DEF VehicleStep
<1>7. ASSUME NEW p \in BOOLEAN, veh' = [veh EXCEPT !.paused = p], UNCHANGED ended PROVE VehicleStep
  BY <1>1, <1>7 DEF VehicleStep, Unmoved
<1>8. ASSUME NEW m \in Jobs, NEW a \in BOOLEAN, Select(m, a) PROVE VehicleStep
  BY <1>4, <1>8 DEF Select
<1>9. ASSUME NEW m \in Jobs, Dispatch(m) PROVE VehicleStep
  <2>1. ended[m] = "none" /\ thread[m] = "send"
    BY <1>9 DEF VendorInv, OnceInv, Dispatch
  <2>2. ~Busy(veh) => veh.left = 0
    BY <1>0, <1>3 DEF Busy
  <2>3. UNCHANGED <<veh, ended>> \/ (~Busy(veh) /\ Took(m))
    BY <1>9 DEF Dispatch, DispatchVda, DispatchSim, DispatchRest
  <2>4. QED BY <1>4, <1>5, <2>1, <2>2, <2>3
<1>10. ASSUME NEW m \in Jobs, Reconcile(m) \/ CancelEarly(m) PROVE VehicleStep
  BY <1>4, <1>10 DEF Reconcile, CancelEarly
<1>11. ASSUME NEW m \in Jobs, Cancel(m) PROVE VehicleStep
  <2>1. CASE CancelVda(m)
    BY <1>4, <2>1 DEF CancelVda
  <2>2. CASE CancelSim(m)
    <3>1. CASE veh.order = m
      <4>1. veh.left > 0
        BY <2>2, <3>1 DEF VendorInv, AnswerInv, CancelSim
      <4>2. DropOrder(m) /\ ended[m] = "took"
        BY <1>2, <2>2, <3>1, <4>1 DEF CancelSim
      <4>3. QED BY <1>6, <4>2
    <3>2. CASE veh.order # m
      BY <1>4, <2>2, <3>2 DEF CancelSim
    <3>3. QED BY <3>1, <3>2
  <2>3. CASE CancelRest(m)
    BY <1>6, <2>3 DEF CancelRest
  <2>4. QED BY <1>11, <2>1, <2>2, <2>3 DEF Cancel
<1>12. CASE RequestStop
  BY <1>4, <1>7, <1>12 DEF RequestStop
<1>13. CASE IngestState \/ IngestFactsheet \/ Restart \/ VehicleReports \/ Lost
  BY <1>4, <1>13 DEF IngestState, IngestFactsheet, Restart, VehicleReports, Lost
<1>14. CASE VehicleTakesOrder
  <2>1. 1 \in DOMAIN orders /\ Head(orders) = orders[1] /\ orders[1] \in Jobs
    BY <1>14 DEF VehicleTakesOrder, VendorInv, VendorTypeOK
  <2>2. ended[Head(orders)] = "none" /\ Waiting(Head(orders)) # {}
    BY <2>1 DEF VendorInv, OnceInv, Waiting
  <2>3. UNCHANGED <<veh, ended>> \/ (veh.left = 0 /\ Took(Head(orders)))
    BY <1>14 DEF VehicleTakesOrder
  <2>4. QED BY <1>4, <1>5, <2>1, <2>2, <2>3
<1>15. CASE VehicleObeys
  <2>1. \/ veh.left > 0 /\ DropOrder(veh.order)
        \/ veh' = [veh EXCEPT !.paused = TRUE] /\ UNCHANGED ended
        \/ UNCHANGED <<veh, ended>>
    BY <1>15 DEF VehicleObeys
  <2>2. QED BY <1>2, <1>3, <1>4, <1>6, <1>7, <2>1
<1>16. CASE Advance
  <2>1. veh.left > 0 /\ veh.order \in Jobs /\ ended[veh.order] = "took"
    BY <1>2, <1>3, <1>16 DEF Advance, Moving
  <2>2. CASE veh.left = 1
    <3>1. ended' = [ended EXCEPT ![veh.order] = "done"]
      BY <1>16, <2>2 DEF Advance
    <3>2. veh' = IF kind # "vda" THEN IdleVehicle ELSE [veh EXCEPT !.left = @ - 1]
      BY <1>16, <2>2 DEF Advance
    <3>3. /\ veh'.left = 0 /\ (veh'.order = Nothing \/ veh'.order = veh.order)
          /\ kind = "sim" => veh'.order = Nothing
      <4>1. CASE kind # "vda"
        BY <3>2, <4>1 DEF IdleVehicle
      <4>2. CASE kind = "vda"
        BY <1>1, <2>2, <3>2, <4>2
      <4>3. QED BY <4>1, <4>2
    <3>4. Left(veh.order, "done")
      BY <2>1, <3>1, <3>3 DEF Left
    <3>5. QED BY <2>1, <3>4 DEF VehicleStep
  <2>3. CASE veh.left # 1
    <3>1. ended' = ended /\ veh' = [veh EXCEPT !.left = @ - 1]
      BY <1>16, <2>3 DEF Advance
    <3>2. Moved
      BY <1>0, <1>1, <2>1, <2>3, <3>1 DEF Moved
    <3>3. QED BY <3>2 DEF VehicleStep
  <2>4. QED BY <2>2, <2>3
<1>17. CASE VehicleChanges
  <2>1. CASE /\ kind # "sim" /\ veh.left > 0
             /\ veh' = [veh EXCEPT !.failed = TRUE, !.left = 0]
             /\ ended' = [ended EXCEPT ![veh.order] = "failed"]
    <3>1. veh'.left = 0 /\ veh'.failed = TRUE /\ veh'.order = veh.order
      BY <1>1, <2>1
    <3>2. Left(veh.order, "failed") /\ veh.order \in Jobs
      BY <1>2, <1>3, <2>1, <3>1 DEF Left
    <3>3. QED BY <3>2 DEF VehicleStep
  <2>2. CASE veh.left = 0 /\ veh' = [veh EXCEPT !.order = Nothing, !.failed = FALSE] /\ UNCHANGED ended
    <3>1. Cleared
      BY <1>1, <2>2 DEF Cleared
    <3>2. QED BY <3>1 DEF VehicleStep
  <2>3. CASE veh' = [veh EXCEPT !.paused = FALSE] /\ UNCHANGED ended
    BY <1>7, <2>3
  <2>4. QED BY <1>17, <2>1, <2>2, <2>3 DEF VehicleChanges
<1>18. QED
  BY <1>8, <1>9, <1>10, <1>11, <1>12, <1>13, <1>14, <1>15, <1>16, <1>17 DEF VendorNext

\* What is driven to its end stays so, and only a waiting mission is taken.
LEMMA EndedSteps ==
    ASSUME VendorInv, VendorTypeOK', VehicleStep
    PROVE  /\ \A m \in Jobs : ended[m] = "done" => ended'[m] = "done"
           /\ \A m \in Jobs : ended[m] # "none" => ended'[m] # "none"
           /\ \A m \in Jobs : ended'[m] # "none" /\ ended[m] = "none"
                 => (thread[m] = "send" \/ Waiting(m) # {}) /\ ended'[m] = "took"
           /\ \A m \in Jobs : ended'[m] = "took" => ended[m] \in {"none", "took"}
<1> USE VendorAssumption
<1>1. ended \in [Jobs -> {"none", "took", "done", "failed", "dropped"}]
  BY DEF VendorInv, VendorTypeOK
<1>2. CASE ended' = ended
  BY <1>1, <1>2
<1>3. ASSUME NEW m \in Jobs, Taken(m)
      PROVE  /\ \A n \in Jobs : n # m => ended'[n] = ended[n]
             /\ ended[m] = "none" /\ ended'[m] = "took"
             /\ thread[m] = "send" \/ Waiting(m) # {}
  BY <1>1, <1>3 DEF Taken
<1>4. ASSUME NEW m \in Jobs, NEW how \in {"done", "failed", "dropped"}, Left(m, how)
      PROVE  /\ \A n \in Jobs : n # m => ended'[n] = ended[n]
             /\ ended[m] = "took" /\ ended'[m] = how
  BY <1>1, <1>4 DEF Left
<1>5. QED
  BY <1>1, <1>2, <1>3, <1>4 DEF VehicleStep, Unmoved, Moved, Cleared

LEMMA DriveStep ==
    ASSUME VendorInv, VendorTypeOK', VehicleStep
    PROVE  DriveInv' /\ ToldTrue(veh)'
<1> USE VendorAssumption
<1>0. /\ veh.order \in Jobs \cup {Nothing} /\ veh.left \in Nat /\ veh.failed \in BOOLEAN
      /\ veh'.order \in Jobs \cup {Nothing} /\ veh'.left \in Nat /\ veh'.failed \in BOOLEAN
      /\ ended \in [Jobs -> {"none", "took", "done", "failed", "dropped"}]
  BY DEF VendorInv, VendorTypeOK, Vehicles
<1>1. DriveInv /\ ToldTrue(veh)
  BY DEF VendorInv, MessageInv
<1>2. CASE Unmoved
  BY <1>1, <1>2 DEF Unmoved, DriveInv, ToldTrue
<1>3. CASE Moved
  BY <1>0, <1>1, <1>3 DEF Moved, DriveInv, ToldTrue
<1>4. CASE Cleared
  BY <1>0, <1>1, <1>4 DEF Cleared, DriveInv, ToldTrue
<1>5. ASSUME NEW m \in Jobs, Taken(m) PROVE DriveInv' /\ ToldTrue(veh)'
  BY <1>0, <1>1, <1>5 DEF Taken, DriveInv, ToldTrue
<1>6. ASSUME NEW m \in Jobs, NEW how \in {"done", "failed", "dropped"}, Left(m, how)
      PROVE  DriveInv' /\ ToldTrue(veh)'
  BY <1>0, <1>1, <1>6 DEF Left, DriveInv, ToldTrue
<1>7. QED
  BY <1>2, <1>3, <1>4, <1>5, <1>6 DEF VehicleStep

\* Every message that is kept or on its way was true of the vehicle when sent,
\* and an order driven to its end stays so.
LEMMA MessageStep ==
    ASSUME VendorInv, VendorTypeOK', VendorNext
    PROVE  MessageInv'
<1> USE VendorAssumption
<1>0. VehicleStep
  BY VehicleSteps
<1>1. ToldTrue(veh)'
  BY <1>0, DriveStep
<1>2. \A s \in Vehicles : ToldTrue(s) =>
         (s.order # Nothing /\ s.left = 0 /\ ~s.failed => ended'[s.order] = "done")
  <2>1. \A m \in Jobs : ended[m] = "done" => ended'[m] = "done"
    BY <1>0, EndedSteps
  <2>2. QED BY <2>1 DEF ToldTrue, Vehicles
<1>3. veh \in Vehicles /\ news \in Seq(Vehicles) /\ raw \in Vehicles \cup {Nothing}
  BY DEF VendorInv, VendorTypeOK
<1>4. /\ ToldTrue(veh) /\ (raw # Nothing => ToldTrue(raw))
      /\ \A i \in DOMAIN news : ToldTrue(news[i])
  BY DEF VendorInv, MessageInv
<1>5. \A i \in DOMAIN news : news[i] \in Vehicles
  BY <1>3
<1>6. CASE UNCHANGED <<raw, news>>
  <2>1. raw # Nothing => ToldTrue(raw)'
    BY <1>2, <1>3, <1>4, <1>6 DEF ToldTrue
  <2>2. \A i \in DOMAIN news : ToldTrue(news[i])'
    BY <1>2, <1>4, <1>5, <1>6 DEF ToldTrue
  <2>3. QED BY <1>1, <1>6, <2>1, <2>2 DEF MessageInv
<1>7. CASE raw' \in {raw, Nothing, Head(news)} /\ news # <<>> /\ news' \in {news, Tail(news)}
  <2>1. 1 \in DOMAIN news /\ Head(news) = news[1]
    BY <1>3, <1>7
  <2>2. raw' # Nothing => ToldTrue(raw)'
    BY <1>2, <1>3, <1>4, <1>5, <1>7, <2>1 DEF ToldTrue
  <2>3. \A i \in DOMAIN Tail(news) : i + 1 \in DOMAIN news /\ Tail(news)[i] = news[i + 1]
    BY <1>3, <1>7
  <2>4. \A i \in DOMAIN news' : ToldTrue(news[i])'
    BY <1>2, <1>4, <1>5, <1>7, <2>3 DEF ToldTrue
  <2>5. QED BY <1>1, <2>2, <2>4 DEF MessageInv
<1>8. CASE UNCHANGED raw /\ (news' = Append(news, veh))
  <2>1. raw # Nothing => ToldTrue(raw)'
    BY <1>2, <1>3, <1>4, <1>8 DEF ToldTrue
  <2>2. \A i \in DOMAIN Append(news, veh) :
           \/ i \in DOMAIN news /\ Append(news, veh)[i] = news[i]
           \/ Append(news, veh)[i] = veh
    BY <1>3
  <2>3. \A i \in DOMAIN news' : ToldTrue(news[i])'
    BY <1>2, <1>3, <1>4, <1>5, <1>8, <2>2 DEF ToldTrue
  <2>4. QED BY <1>1, <1>8, <2>1, <2>3 DEF MessageInv
<1>9. CASE UNCHANGED news /\ raw' = Nothing
  <2>1. \A i \in DOMAIN news : ToldTrue(news[i])'
    BY <1>2, <1>4, <1>5, <1>9 DEF ToldTrue
  <2>2. QED BY <1>1, <1>9, <2>1 DEF MessageInv
<1>10. \/ UNCHANGED <<raw, news>>
       \/ raw' \in {raw, Nothing, Head(news)} /\ news # <<>> /\ news' \in {news, Tail(news)}
       \/ UNCHANGED raw /\ (news' = Append(news, veh))
       \/ UNCHANGED news /\ raw' = Nothing
  <2>1. CASE \E m \in Jobs : \/ \E a \in BOOLEAN : Select(m, a)
                             \/ Dispatch(m) \/ Reconcile(m) \/ CancelEarly(m) \/ Cancel(m)
    BY <2>1 DEF Select, Dispatch, Reconcile, CancelEarly, Cancel, cacheVars, mqttVars
  <2>2. CASE RequestStop \/ IngestState \/ IngestFactsheet \/ Restart
    BY <2>2 DEF RequestStop, IngestState, IngestFactsheet, Restart, cacheVars,
                mqttVars
  <2>3. CASE VehicleTakesOrder \/ VehicleObeys \/ Lost \/ Advance \/ VehicleChanges
    BY <2>3 DEF VehicleTakesOrder, VehicleObeys, Lost, Advance, VehicleChanges, cacheVars, mqttVars
  <2>4. CASE VehicleReports
    BY <2>4 DEF VehicleReports, Publish, StateMessage, cacheVars
  <2>5. QED BY <2>1, <2>2, <2>3, <2>4 DEF VendorNext
<1>11. QED BY <1>6, <1>7, <1>8, <1>9, <1>10

\* A mission is handed over once: what its submission publishes leaves the
\* thread, and what the vehicle takes leaves the topic.
LEMMA OnceStep ==
    ASSUME VendorInv, VendorTypeOK', VendorNext
    PROVE  OnceInv'
<1> USE VendorAssumption
<1>0. VehicleStep
  BY VehicleSteps
<1>1. /\ phase \in [Jobs -> RowStates] /\ thread \in [Jobs -> {"idle", "send"}]
      /\ orders \in Seq(Jobs) /\ ended \in [Jobs -> {"none", "took", "done", "failed", "dropped"}]
  BY DEF VendorInv, VendorTypeOK
<1>2. /\ \A m \in Jobs : phase[m] = "none" => thread[m] = "idle" /\ ended[m] = "none"
                                              /\ Waiting(m) = {}
      /\ \A m \in Jobs : thread[m] = "send" => ended[m] = "none" /\ Waiting(m) = {}
      /\ \A i \in DOMAIN orders : ended[orders[i]] = "none"
      /\ \A i, j \in DOMAIN orders : orders[i] = orders[j] => i = j
  BY DEF VendorInv, OnceInv
<1>3. ASSUME UNCHANGED <<orders, ended>>,
             \A m \in Jobs : thread'[m] = "send" => thread[m] = "send" \/ phase[m] = "none",
             \A m \in Jobs : phase'[m] = "none" => phase[m] = "none" /\ thread'[m] = "idle"
      PROVE  OnceInv'
  <2>1. \A m \in Jobs : Waiting(m)' = Waiting(m)
    BY <1>3 DEF Waiting
  <2>2. QED BY <1>2, <1>3, <2>1 DEF OnceInv
<1>4. ASSUME UNCHANGED <<phase, thread, orders>>, NEW m \in Jobs, ended[m] # "none",
             \A n \in Jobs : n # m => ended'[n] = ended[n]
      PROVE  OnceInv'
  <2>1. \A n \in Jobs : Waiting(n)' = Waiting(n)
    BY <1>4 DEF Waiting
  <2>2. \A i \in DOMAIN orders : orders[i] \in Jobs
    BY <1>1
  <2>3. QED BY <1>2, <1>4, <2>1, <2>2 DEF OnceInv
<1>5. ASSUME NEW m \in Jobs, NEW a \in BOOLEAN, Select(m, a) PROVE OnceInv'
  <2>1. phase[m] = "none" /\ UNCHANGED <<orders, ended>>
    BY <1>5 DEF Select
  <2>2. \A n \in Jobs : n # m => phase'[n] = phase[n] /\ thread'[n] = thread[n]
    BY <1>1, <1>5 DEF Select
  <2>3. phase'[m] # "none"
    BY <1>1, <1>5 DEF Select
  <2>4. QED BY <1>2, <1>3, <2>1, <2>2, <2>3
<1>6. ASSUME NEW m \in Jobs, Dispatch(m) PROVE OnceInv'
  <2>1. /\ thread[m] = "send" /\ thread' = [thread EXCEPT ![m] = "idle"]
        /\ phase[m] # "none" /\ ended[m] = "none" /\ Waiting(m) = {}
    BY <1>2, <1>6 DEF Dispatch
  <2>2. \A n \in Jobs : phase'[n] = "none" => phase[n] = "none" /\ n # m
    <3>1. CASE Assigned(m)
      BY <1>1, <2>1, <3>1 DEF Assigned
    <3>2. CASE Refuse(m)
      BY <1>1, <2>1, <3>2 DEF Refuse
    <3>3. QED BY <1>6, <3>1, <3>2 DEF Dispatch, DispatchVda, DispatchSim, DispatchRest
  <2>3. \A n \in Jobs : (n # m => thread'[n] = thread[n]) /\ (n = m => thread'[n] = "idle")
    BY <1>1, <2>1
  <2>4. CASE DispatchVda(m)
    <3>1. orders' = Append(orders, m) /\ UNCHANGED ended
      BY <2>4 DEF DispatchVda, Publish
    <3>2. /\ DOMAIN orders' = 1..(Len(orders) + 1) /\ DOMAIN orders = 1..Len(orders)
          /\ Len(orders) \in Nat
          /\ \A i \in DOMAIN orders : orders'[i] = orders[i]
          /\ orders'[Len(orders) + 1] = m
      BY <1>1, <3>1
    <3>3. \A i \in DOMAIN orders : orders[i] # m
      BY <2>1 DEF Waiting
    <3>4. \A n \in Jobs : n # m => Waiting(n)' = Waiting(n)
      BY <3>2 DEF Waiting
    <3>5. /\ \A i \in DOMAIN orders' : ended[orders'[i]] = "none"
          /\ \A i, j \in DOMAIN orders' : orders'[i] = orders'[j] => i = j
      BY <1>2, <2>1, <3>2, <3>3
    <3>6. QED BY <1>2, <2>2, <2>3, <3>1, <3>4, <3>5 DEF OnceInv
  <2>5. CASE UNCHANGED orders /\ \A n \in Jobs : n # m => ended'[n] = ended[n]
    <3>1. \A n \in Jobs : Waiting(n)' = Waiting(n)
      BY <2>5 DEF Waiting
    <3>2. \A i \in DOMAIN orders : orders[i] # m /\ orders[i] \in Jobs
      BY <1>1, <2>1 DEF Waiting
    <3>3. QED BY <1>2, <2>2, <2>3, <2>5, <3>1, <3>2 DEF OnceInv
  <2>6. \A n \in Jobs : DispatchSim(m) \/ DispatchRest(m) => (n # m => ended'[n] = ended[n])
    BY <1>1 DEF DispatchSim, DispatchRest, Took
  <2>7. QED BY <1>6, <2>4, <2>5, <2>6 DEF Dispatch, DispatchSim, DispatchRest
<1>7. ASSUME NEW m \in Jobs, Reconcile(m) PROVE OnceInv'
  <2>1. PICK r \in Reports(m) : phase' = [phase EXCEPT ![m] = r]
    BY <1>7 DEF Reconcile
  <2>2. phase[m] # "none" /\ UNCHANGED <<orders, ended, thread>>
    BY <1>7 DEF Reconcile, mqttVars
  <2>3. r # "none"
    BY <2>1 DEF Reports, VdaReports, RestReports, SimReports, MissionStateFrom
  <2>4. \A n \in Jobs : phase'[n] = "none" => phase[n] = "none"
    BY <1>1, <2>1, <2>2, <2>3
  <2>5. QED BY <1>2, <1>3, <2>2, <2>4
<1>8. ASSUME NEW m \in Jobs, CancelEarly(m) PROVE OnceInv'
  <2>1. \A n \in Jobs : phase'[n] = "none" => phase[n] = "none"
    BY <1>1, <1>8 DEF CancelEarly, CancelRow
  <2>2. QED BY <1>2, <1>3, <1>8, <2>1 DEF CancelEarly, mqttVars
<1>9. ASSUME NEW m \in Jobs, Cancel(m) PROVE OnceInv'
  <2>1. UNCHANGED <<orders, thread>>
    BY <1>9 DEF Cancel
  <2>2. \A n \in Jobs : phase'[n] = "none" => phase[n] = "none"
    BY <1>1, <1>9 DEF Cancel, CancelVda, CancelSim, CancelRest, CancelRow
  <2>3. \/ UNCHANGED ended
        \/ \E n \in Jobs : ended[n] # "none" /\ \A k \in Jobs : k # n => ended'[k] = ended[k]
    <3>1. (\E n \in Jobs : Taken(n)) => FALSE
      <4>1. CASE CancelVda(m)
        BY <1>1, <4>1 DEF CancelVda, Taken
      <4>2. CASE CancelSim(m)
        BY <1>1, <4>2 DEF CancelSim, DropOrder, Taken
      <4>3. CASE CancelRest(m)
        BY <1>1, <4>3 DEF CancelRest, DropOrder, Taken
      <4>4. QED BY <1>9, <4>1, <4>2, <4>3 DEF Cancel
    <3>2. QED BY <1>0, <1>1, <3>1 DEF VehicleStep, Unmoved, Moved, Cleared, Left
  <2>4. \A n \in Jobs : Waiting(n)' = Waiting(n)
    BY <2>1 DEF Waiting
  <2>5. \A i \in DOMAIN orders : orders[i] \in Jobs
    BY <1>1
  <2>6. QED BY <1>2, <2>1, <2>2, <2>3, <2>4, <2>5 DEF OnceInv
<1>10. CASE RequestStop \/ IngestState \/ IngestFactsheet \/ VehicleReports
  BY <1>2, <1>3, <1>10 DEF RequestStop, IngestState, IngestFactsheet,
                           VehicleReports, rowVars, mqttVars
<1>11. CASE Restart
  BY <1>2, <1>3, <1>11 DEF Restart, mqttVars
<1>12. ASSUME orders # <<>>, orders' = Tail(orders), UNCHANGED <<phase, thread>>,
              \A m \in Jobs : m # Head(orders) => ended'[m] = ended[m]
       PROVE  OnceInv'
  <2>1. /\ 1 \in DOMAIN orders /\ Head(orders) = orders[1]
        /\ \A i \in DOMAIN orders' : i + 1 \in DOMAIN orders /\ orders'[i] = orders[i + 1]
        /\ \A i \in DOMAIN orders : orders[i] \in Jobs
        /\ DOMAIN orders' \subseteq Nat \ {0}
    BY <1>1, <1>12
  <2>2. \A i \in DOMAIN orders' : orders'[i] # Head(orders)
    <3>1. \A i \in DOMAIN orders' : i + 1 # 1
      BY <2>1
    <3>2. QED BY <1>2, <2>1, <3>1
  <2>3. \A n \in Jobs : Waiting(n) = {} => Waiting(n)' = {} /\ n # Head(orders)
    BY <2>1 DEF Waiting
  <2>4. \A i, j \in DOMAIN orders' : i + 1 = j + 1 => i = j
    BY <2>1
  <2>5. \A i, j \in DOMAIN orders' : orders'[i] = orders'[j] => i = j
    BY <1>2, <2>1, <2>4
  <2>6. \A i \in DOMAIN orders' : ended'[orders'[i]] = "none"
    BY <1>2, <1>12, <2>1, <2>2
  <2>7. \A m \in Jobs : phase'[m] = "none" => thread'[m] = "idle" /\ ended'[m] = "none"
                                                /\ Waiting(m)' = {}
    BY <1>2, <1>12, <2>3
  <2>8. \A m \in Jobs : thread'[m] = "send" => ended'[m] = "none" /\ Waiting(m)' = {}
    BY <1>2, <1>12, <2>3
  <2>9. QED BY <2>5, <2>6, <2>7, <2>8 DEF OnceInv
<1>13. CASE VehicleTakesOrder
  <2>1. Head(orders) \in Jobs
    BY <1>1, <1>13 DEF VehicleTakesOrder
  <2>2. \A m \in Jobs : m # Head(orders) => ended'[m] = ended[m]
    BY <1>1, <1>13, <2>1 DEF VehicleTakesOrder, Took
  <2>3. QED BY <1>12, <1>13, <2>2 DEF VehicleTakesOrder, rowVars
<1>14. CASE Lost
  <2>1. CASE UNCHANGED orders
    BY <1>2, <1>3, <1>14, <2>1 DEF Lost, rowVars
  <2>2. CASE orders # <<>> /\ orders' = Tail(orders)
    BY <1>12, <1>14, <2>2 DEF Lost, rowVars
  <2>3. QED BY <1>14, <2>1, <2>2 DEF Lost
<1>15. CASE VehicleObeys \/ Advance \/ VehicleChanges
  <2>1. UNCHANGED <<orders, phase, thread>>
    BY <1>15 DEF VehicleObeys, Advance, VehicleChanges, rowVars, mqttVars
  <2>2. \/ UNCHANGED ended
        \/ veh.left > 0 /\ \A k \in Jobs : k # veh.order => ended'[k] = ended[k]
    BY <1>1, <1>15 DEF VehicleObeys, Advance, VehicleChanges, DropOrder, Moving
  <2>3. veh.left > 0 => veh.order \in Jobs /\ ended[veh.order] = "took"
    BY DEF VendorInv, DriveInv, VendorTypeOK, Vehicles
  <2>4. QED BY <1>2, <1>3, <1>4, <2>1, <2>2, <2>3
<1>16. QED
  BY <1>5, <1>6, <1>7, <1>8, <1>9, <1>10, <1>11, <1>13, <1>14, <1>15 DEF VendorNext

\* Without MQTT the row of a mission that is about to reach its vendor is not
\* touched, and it goes back to accepted or preflight only on a vendor's word.
LEMMA AnswerStep ==
    ASSUME VendorInv, VendorTypeOK', VendorNext
    PROVE  AnswerInv'
<1> USE VendorAssumption DEF Undispatched
<1>0. /\ VehicleStep
      /\ \A m \in Jobs : ended[m] = "done" => ended'[m] = "done"
  BY VehicleSteps, EndedSteps
<1>1. /\ phase \in [Jobs -> RowStates] /\ thread \in [Jobs -> {"idle", "send"}]
      /\ known \in [Jobs -> {"none", "assigned", "completed", "cancelled"}]
      /\ kind \in {"vda", "rest", "sim"} /\ kind' = kind /\ veh.left \in Nat
  <2>1. kind' = kind
    BY DEF VendorNext, Select, Dispatch, Reconcile, CancelEarly, Cancel, RequestStop, IngestState,
           IngestFactsheet, Restart, VehicleTakesOrder, VehicleObeys,
           VehicleReports, Lost, Advance, VehicleChanges
  <2>2. QED BY <2>1 DEF VendorInv, VendorTypeOK, Vehicles
<1>2. CASE kind = "vda"
  BY <1>1, <1>2 DEF AnswerInv
<1>3. SUFFICES ASSUME kind # "vda" PROVE AnswerInv'
  BY <1>2
<1>4. /\ orders = <<>>
      /\ \A m \in Jobs : thread[m] = "send" => /\ phase[m] = "dispatching" /\ ended[m] = "none"
                                               /\ kind = "sim" => known[m] = "none"
      /\ \A m \in Jobs : phase[m] \in Undispatched => m \in backed
      /\ kind = "sim" =>
            /\ veh.order # Nothing => veh.left > 0
            /\ \A m \in Jobs : /\ phase[m] = "none" => known[m] = "none"
                               /\ known[m] = "completed" => ended[m] = "done"
      /\ \A m \in Jobs : phase[m] = "none" => ended[m] = "none"
  BY <1>3 DEF VendorInv, AnswerInv, OnceInv
<1>5. kind = "sim" /\ veh'.order # Nothing => veh'.left > 0
  <2>1. CASE Unmoved \/ Moved \/ Cleared
    BY <1>1, <1>4, <2>1 DEF Unmoved, Moved, Cleared
  <2>2. ASSUME NEW m \in Jobs, Taken(m) PROVE veh'.left > 0
    BY <2>2 DEF Taken
  <2>3. ASSUME NEW m \in Jobs, NEW how \in {"done", "failed", "dropped"}, Left(m, how)
        PROVE  kind = "sim" => veh'.order = Nothing
    BY <2>3 DEF Left
  <2>4. QED BY <1>0, <2>1, <2>2, <2>3 DEF VehicleStep
<1>6. ASSUME UNCHANGED orders,
             \A m \in Jobs : thread'[m] = "send" => /\ phase'[m] = "dispatching"
                                                    /\ kind = "sim" => known'[m] = "none",
             \A m \in Jobs : phase'[m] \in Undispatched => m \in backed',
             kind = "sim" => \A m \in Jobs : /\ phase'[m] = "none" => known'[m] = "none"
                                             /\ known'[m] = "completed" => ended'[m] = "done"
      PROVE  AnswerInv'
  BY <1>1, <1>4, <1>5, <1>6 DEF AnswerInv
<1>7. ASSUME UNCHANGED <<phase, thread, orders, known, backed>> PROVE AnswerInv'
  BY <1>0, <1>4, <1>6, <1>7
<1>8. ASSUME NEW m \in Jobs, NEW a \in BOOLEAN, Select(m, a) PROVE AnswerInv'
  <2>1. phase[m] = "none" /\ UNCHANGED <<known, orders, ended, backed>>
    BY <1>8 DEF Select, cacheVars, ghostVars
  <2>2. \A n \in Jobs : n # m => phase'[n] = phase[n] /\ thread'[n] = thread[n]
    BY <1>1, <1>8 DEF Select
  <2>3. \/ phase'[m] = "dispatching"
        \/ phase'[m] = "failed" /\ UNCHANGED thread
    BY <1>1, <1>8 DEF Select
  <2>4. \A n \in Jobs : thread'[n] = "send" => /\ phase'[n] = "dispatching"
                                               /\ kind = "sim" => known'[n] = "none"
    BY <1>4, <2>1, <2>2, <2>3
  <2>5. \A n \in Jobs : phase'[n] \in Undispatched => n \in backed'
    BY <1>4, <2>1, <2>2, <2>3
  <2>6. kind = "sim" => \A n \in Jobs : /\ phase'[n] = "none" => known'[n] = "none"
                                        /\ known'[n] = "completed" => ended'[n] = "done"
    BY <1>4, <2>1, <2>2, <2>3
  <2>7. QED BY <1>6, <2>1, <2>4, <2>5, <2>6
<1>9. ASSUME NEW m \in Jobs, Dispatch(m) PROVE AnswerInv'
  <2>1. /\ thread[m] = "send" /\ thread' = [thread EXCEPT ![m] = "idle"] /\ UNCHANGED backed
        /\ phase[m] = "dispatching"
    BY <1>4, <1>9 DEF Dispatch, ghostVars
  <2>2. (\A n \in Jobs : n # m => phase'[n] = phase[n]) /\ phase'[m] \in {"assigned", "failed"}
    <3>1. CASE Assigned(m)
      BY <1>1, <2>1, <3>1 DEF Assigned
    <3>2. CASE Refuse(m)
      BY <1>1, <2>1, <3>2 DEF Refuse, Terminal
    <3>3. QED BY <1>3, <1>9, <3>1, <3>2 DEF Dispatch, DispatchVda, DispatchSim, DispatchRest
  <2>3. \A n \in Jobs : (n # m => thread'[n] = thread[n]) /\ (n = m => thread'[n] = "idle")
    BY <1>1, <2>1
  <2>4. UNCHANGED orders
    BY <1>3, <1>9 DEF Dispatch, DispatchVda, DispatchSim, DispatchRest
  <2>5. UNCHANGED known \/ known' = [known EXCEPT ![m] = "assigned"]
    BY <1>9 DEF Dispatch, DispatchVda, DispatchSim, DispatchRest
  <2>6. \A n \in Jobs : (n # m => known'[n] = known[n]) /\ (known'[n] = "completed" => known[n] = "completed")
    BY <1>1, <2>5
  <2>7. \A n \in Jobs : thread'[n] = "send" => /\ phase'[n] = "dispatching"
                                               /\ kind = "sim" => known'[n] = "none"
    BY <1>4, <2>2, <2>3, <2>6
  <2>8. \A n \in Jobs : phase'[n] \in Undispatched => n \in backed'
    BY <1>4, <2>1, <2>2
  <2>9. kind = "sim" => \A n \in Jobs : /\ phase'[n] = "none" => known'[n] = "none"
                                        /\ known'[n] = "completed" => ended'[n] = "done"
    BY <1>0, <1>4, <2>2, <2>6
  <2>10. QED BY <1>6, <2>4, <2>7, <2>8, <2>9
<1>10. ASSUME NEW m \in Jobs, Reconcile(m) PROVE AnswerInv'
  <2>1. PICK r \in Reports(m) : /\ phase' = [phase EXCEPT ![m] = r]
                                /\ backed' = IF r \in Undispatched THEN backed \cup {m} ELSE backed
    BY <1>10 DEF Reconcile
  <2>2. phase[m] # "none" /\ UNCHANGED <<orders, ended, thread, known>>
    BY <1>10 DEF Reconcile, mqttVars, cacheVars
  <2>3. thread[m] # "send" /\ r # "none"
    <3>1. CASE kind = "rest"
      BY <1>4, <2>1, <3>1 DEF Reports, RestReports
    <3>2. CASE kind = "sim"
      <4>1. known[m] # "none" /\ (r = known[m] \/ r \in {"assigned", "running"})
        <5>1. r \in SimReports(m)
          BY <2>1, <3>2 DEF Reports
        <5>2. known[m] # "none"
          BY <5>1 DEF SimReports
        <5>3. CASE veh.order = m
          <6>1. r \in {IF veh.left = Steps THEN "assigned" ELSE "running"}
            BY <5>1, <5>2, <5>3, Zenon DEF SimReports
          <6>2. QED BY <5>2, <6>1
        <5>4. CASE veh.order # m
          BY <5>1, <5>2, <5>4 DEF SimReports
        <5>5. QED BY <5>3, <5>4
      <4>2. QED BY <1>4, <3>2, <4>1
    <3>3. QED BY <1>1, <1>3, <3>1, <3>2
  <2>4. (\A n \in Jobs : n # m => phase'[n] = phase[n]) /\ phase'[m] = r
    BY <1>1, <2>1
  <2>5. \A n \in Jobs : phase'[n] \in Undispatched => n \in backed'
    BY <1>4, <2>1, <2>4
  <2>6. QED BY <1>4, <1>6, <2>2, <2>3, <2>4, <2>5
<1>11. ASSUME NEW m \in Jobs, CancelEarly(m) PROVE AnswerInv'
  <2>1. phase[m] \in Undispatched /\ UNCHANGED <<orders, ended, thread, known, backed>>
    BY <1>11 DEF CancelEarly, mqttVars, cacheVars, ghostVars
  <2>2. (\A n \in Jobs : n # m => phase'[n] = phase[n]) /\ phase'[m] = "cancelled"
    BY <1>1, <1>11 DEF CancelEarly, CancelRow
  <2>3. QED BY <1>4, <1>6, <2>1, <2>2
<1>12. ASSUME NEW m \in Jobs, Cancel(m) PROVE AnswerInv'
  <2>1. UNCHANGED <<orders, thread, backed>>
    BY <1>12 DEF Cancel, ghostVars
  <2>2. thread[m] # "send" /\ phase[m] # "none"
    BY <1>3, <1>4, <1>12 DEF Cancel, CancelVda, CancelSim, CancelRest
  <2>3. (\A n \in Jobs : n # m => phase'[n] = phase[n]) /\ phase'[m] \in {"cancelled", phase[m]}
    BY <1>1, <1>12 DEF Cancel, CancelVda, CancelSim, CancelRest, CancelRow
  <2>4. UNCHANGED known \/ known' = [known EXCEPT ![m] = "cancelled"]
    BY <1>12 DEF Cancel, CancelVda, CancelSim, CancelRest
  <2>5. \A n \in Jobs : (n # m => known'[n] = known[n]) /\ (known'[n] = "completed" => known[n] = "completed")
    BY <1>1, <2>4
  <2>6. \A n \in Jobs : thread'[n] = "send" => /\ phase'[n] = "dispatching"
                                               /\ kind = "sim" => known'[n] = "none"
    BY <1>4, <2>1, <2>2, <2>3, <2>5
  <2>7. \A n \in Jobs : phase'[n] \in Undispatched => n \in backed'
    BY <1>4, <2>1, <2>3
  <2>8. kind = "sim" => \A n \in Jobs : /\ phase'[n] = "none" => known'[n] = "none"
                                        /\ known'[n] = "completed" => ended'[n] = "done"
    BY <1>0, <1>4, <2>2, <2>3, <2>5
  <2>9. QED BY <1>6, <2>1, <2>6, <2>7, <2>8
<1>13. CASE RequestStop \/ IngestFactsheet \/ VehicleReports
  BY <1>7, <1>13 DEF RequestStop, IngestFactsheet, VehicleReports, rowVars,
                     cacheVars, mqttVars, ghostVars
<1>14. CASE IngestState \/ VehicleObeys \/ VehicleChanges
  BY <1>7, <1>14 DEF IngestState, VehicleObeys, VehicleChanges, rowVars, cacheVars, mqttVars, ghostVars
<1>15. CASE Restart
  BY <1>3, <1>4, <1>6, <1>15 DEF Restart, mqttVars, ghostVars
<1>16. CASE VehicleTakesOrder \/ Lost
  <2>1. UNCHANGED orders
    BY <1>4, <1>16 DEF VehicleTakesOrder, Lost
  <2>2. QED BY <1>7, <1>16, <2>1 DEF VehicleTakesOrder, Lost, rowVars, cacheVars, ghostVars
<1>17. CASE Advance
  <2>1. UNCHANGED <<orders, phase, thread, backed>>
    BY <1>17 DEF Advance, rowVars, mqttVars, ghostVars
  <2>2. CASE UNCHANGED known
    BY <1>7, <2>1, <2>2
  <2>3. CASE ~UNCHANGED known
    <3>1. /\ known' = [known EXCEPT ![veh.order] = "completed"] /\ veh.left > 0
          /\ ended' = [ended EXCEPT ![veh.order] = "done"]
      BY <1>1, <1>17, <2>3 DEF Advance
    <3>2. veh.order \in Jobs /\ ended[veh.order] = "took"
      BY <3>1 DEF VendorInv, DriveInv, VendorTypeOK, Vehicles
    <3>3. thread[veh.order] # "send" /\ phase[veh.order] # "none"
      BY <1>4, <3>2
    <3>4. \A n \in Jobs : n # veh.order => known'[n] = known[n]
      BY <1>1, <3>1
    <3>5. ended'[veh.order] = "done"
      BY <3>1, <3>2 DEF VendorInv, VendorTypeOK
    <3>6. kind = "sim" => \A n \in Jobs : /\ phase'[n] = "none" => known'[n] = "none"
                                          /\ known'[n] = "completed" => ended'[n] = "done"
      BY <1>0, <1>4, <2>1, <3>3, <3>4, <3>5
    <3>7. \A n \in Jobs : thread'[n] = "send" => /\ phase'[n] = "dispatching"
                                                 /\ kind = "sim" => known'[n] = "none"
      BY <1>4, <2>1, <3>3, <3>4
    <3>8. QED BY <1>4, <1>6, <2>1, <3>6, <3>7
  <2>4. QED BY <2>2, <2>3
<1>18. QED
  BY <1>8, <1>9, <1>10, <1>11, <1>12, <1>13, <1>14, <1>15, <1>16, <1>17 DEF VendorNext

\* A row says completed only after the vehicle is through, and cancelled only
\* after it was stopped.
LEMMA PhaseStep ==
    ASSUME VendorInv, VendorTypeOK', VendorNext
    PROVE  PhaseIsReal'
<1> USE VendorAssumption
<1>0. /\ VehicleStep
      /\ \A m \in Jobs : ended[m] = "done" => ended'[m] = "done"
      /\ \A m \in Jobs : ended'[m] # "none" /\ ended[m] = "none"
            => (thread[m] = "send" \/ Waiting(m) # {}) /\ ended'[m] = "took"
      /\ \A m \in Jobs : ended'[m] = "took" => ended[m] \in {"none", "took"}
  BY VehicleSteps, EndedSteps
<1>1. /\ phase \in [Jobs -> RowStates] /\ ended \in [Jobs -> {"none", "took", "done", "failed", "dropped"}]
      /\ known \in [Jobs -> {"none", "assigned", "completed", "cancelled"}]
      /\ kind \in {"vda", "rest", "sim"} /\ kind' = kind
  <2>1. kind' = kind
    BY DEF VendorNext, Select, Dispatch, Reconcile, CancelEarly, Cancel, RequestStop, IngestState,
           IngestFactsheet, Restart, VehicleTakesOrder, VehicleObeys,
           VehicleReports, Lost, Advance, VehicleChanges
  <2>2. QED BY <2>1 DEF VendorInv, VendorTypeOK
<1>2. misread \subseteq misread' /\ backed \subseteq backed'
  BY DEF VendorNext, Select, Dispatch, Reconcile, CancelEarly, Cancel, RequestStop, IngestState,
         IngestFactsheet, Restart, VehicleTakesOrder, VehicleObeys,
         VehicleReports, Lost, Advance, VehicleChanges, ghostVars
<1>3. /\ \A m \in Jobs : phase[m] = "completed" => ended[m] = "done" \/ m \in misread
      /\ \A m \in Jobs : phase[m] = "cancelled" /\ ended[m] = "took" => kind = "vda" \/ m \in backed
  BY DEF VendorInv, PhaseIsReal, CompletedIsDone, CancelledIsStopped
<1>4. \A m \in Jobs : kind # "vda" /\ (thread[m] = "send" \/ Waiting(m) # {}) =>
         thread[m] = "send" /\ phase[m] = "dispatching"
  BY DEF VendorInv, AnswerInv, Waiting
\* A row that only keeps its phase, or takes another that is neither.
<1>5. ASSUME NEW m \in Jobs, phase'[m] = phase[m] \/ phase'[m] \notin {"completed", "cancelled"}
      PROVE  /\ phase'[m] = "completed" => ended'[m] = "done" \/ m \in misread'
             /\ phase'[m] = "cancelled" /\ ended'[m] = "took" => kind' = "vda" \/ m \in backed'
  BY <1>0, <1>1, <1>2, <1>3, <1>4, <1>5
<1>6. ASSUME \A m \in Jobs : phase'[m] = phase[m] \/ phase'[m] \notin {"completed", "cancelled"}
      PROVE  PhaseIsReal'
  BY <1>5, <1>6 DEF PhaseIsReal, CompletedIsDone, CancelledIsStopped
<1>7. ASSUME NEW m \in Jobs,
             \A n \in Jobs : n # m => phase'[n] = phase[n],
             phase'[m] = "completed" => ended'[m] = "done" \/ m \in misread',
             phase'[m] = "cancelled" /\ ended'[m] = "took" => kind' = "vda" \/ m \in backed'
      PROVE  PhaseIsReal'
  BY <1>5, <1>7 DEF PhaseIsReal, CompletedIsDone, CancelledIsStopped
<1>8. ASSUME NEW m \in Jobs, NEW a \in BOOLEAN, Select(m, a) PROVE PhaseIsReal'
  BY <1>1, <1>6, <1>8 DEF Select
<1>9. ASSUME NEW m \in Jobs, Dispatch(m) PROVE PhaseIsReal'
  <2>1. \A n \in Jobs : phase'[n] = phase[n] \/ phase'[n] \in {"assigned", "failed"}
    BY <1>1, <1>9 DEF Dispatch, DispatchVda, DispatchSim, DispatchRest, Assigned, Refuse
  <2>2. QED BY <1>6, <2>1
<1>10. ASSUME NEW m \in Jobs, Reconcile(m) PROVE PhaseIsReal'
  <2>1. PICK r \in Reports(m) : phase' = [phase EXCEPT ![m] = r]
    BY <1>10 DEF Reconcile
  <2>2. ended' = ended /\ misread' = IF kind = "vda" /\ raw # Nothing /\ raw.order # m
                                     THEN misread \cup {m} ELSE misread
    BY <1>10 DEF Reconcile
  <2>3. (\A n \in Jobs : n # m => phase'[n] = phase[n]) /\ phase'[m] = r
    BY <1>1, <2>1
  <2>4. r = "completed" => ended'[m] = "done" \/ m \in misread'
    <3>1. CASE kind = "vda"
      <4>1. CASE raw = Nothing
        BY <2>1, <3>1, <4>1 DEF Reports, VdaReports
      <4>2. CASE raw # Nothing /\ raw.order # m
        BY <2>2, <3>1, <4>2
      <4>3. CASE raw # Nothing /\ raw.order = m
        <5>1. ToldTrue(raw)
          BY <4>3 DEF VendorInv, MessageInv
        <5>2. r = "completed" => ~raw.failed /\ raw.left = 0
          BY <2>1, <3>1, <4>3 DEF Reports, VdaReports, MissionStateFrom
        <5>3. QED BY <2>2, <4>3, <5>1, <5>2 DEF ToldTrue
      <4>4. QED BY <4>1, <4>2, <4>3
    <3>2. CASE kind = "rest"
      BY <1>1, <2>1, <2>2, <3>2 DEF Reports, RestReports
    <3>3. CASE kind = "sim"
      <4>1. known[m] = "completed" => ended[m] = "done"
        BY <3>3 DEF VendorInv, AnswerInv
      <4>2. r = "completed" => known[m] = "completed"
        BY <2>1, <3>3 DEF Reports, SimReports
      <4>3. QED BY <2>2, <4>1, <4>2
    <3>4. QED BY <1>1, <3>1, <3>2, <3>3
  <2>5. r = "cancelled" => ended[m] # "took" \/ kind = "vda"
    <3>1. CASE kind = "rest"
      BY <1>1, <2>1, <3>1 DEF Reports, RestReports
    <3>2. CASE kind = "sim"
      <4>1. r = "cancelled" => veh.order # m
        BY <2>1, <3>2 DEF Reports, SimReports
      <4>2. QED BY <4>1 DEF VendorInv, DriveInv
    <3>3. QED BY <1>1, <3>1, <3>2
  <2>6. QED BY <1>1, <1>7, <2>2, <2>3, <2>4, <2>5
<1>11. ASSUME NEW m \in Jobs, CancelEarly(m) PROVE PhaseIsReal'
  <2>1. (\A n \in Jobs : n # m => phase'[n] = phase[n]) /\ phase'[m] = "cancelled"
    BY <1>1, <1>11 DEF CancelEarly, CancelRow
  <2>2. kind # "vda" => m \in backed
    BY <1>11 DEF CancelEarly, VendorInv, AnswerInv
  <2>3. QED BY <1>1, <1>2, <1>7, <2>1, <2>2
<1>12. ASSUME NEW m \in Jobs, Cancel(m) PROVE PhaseIsReal'
  <2>1. (\A n \in Jobs : n # m => phase'[n] = phase[n]) /\ phase'[m] \in {"cancelled", phase[m]}
    BY <1>1, <1>12 DEF Cancel, CancelVda, CancelSim, CancelRest, CancelRow
  <2>2. CASE phase'[m] = phase[m]
    BY <1>6, <2>1, <2>2
  <2>3. CASE phase'[m] = "cancelled"
    <3>1. kind = "vda" \/ ended'[m] # "took"
      <4>1. CASE CancelVda(m)
        BY <4>1 DEF CancelVda
      <4>2. CASE CancelSim(m) /\ veh.order = m
        BY <1>1, <4>2 DEF CancelSim, DropOrder
      <4>3. CASE CancelSim(m) /\ veh.order # m
        BY <1>1, <4>3 DEF CancelSim, VendorInv, DriveInv
      <4>4. CASE CancelRest(m)
        BY <1>1, <4>4 DEF CancelRest, DropOrder
      <4>5. QED BY <1>12, <4>1, <4>2, <4>3, <4>4 DEF Cancel
    <3>2. QED BY <1>1, <1>7, <2>1, <2>3, <3>1
  <2>4. QED BY <2>1, <2>2, <2>3
<1>13. CASE RequestStop \/ IngestState \/ IngestFactsheet \/ Restart
  BY <1>6, <1>13 DEF RequestStop, IngestState, IngestFactsheet, Restart, rowVars
<1>14. CASE \/ VehicleTakesOrder \/ VehicleObeys \/ VehicleReports \/ Lost \/ Advance
            \/ VehicleChanges
  BY <1>6, <1>14 DEF VehicleTakesOrder, VehicleObeys, VehicleReports, Lost, Advance,
                     VehicleChanges, rowVars
<1>15. QED
  BY <1>8, <1>9, <1>10, <1>11, <1>12, <1>13, <1>14 DEF VendorNext

LEMMA VendorInduction == VendorSpec => []VendorInv
<1> USE VendorAssumption
<1>1. VendorInit => VendorInv
  <2> SUFFICES ASSUME VendorInit PROVE VendorInv
    OBVIOUS
  <2>1. VendorTypeOK
    BY DEF VendorInit, VendorTypeOK, RowStates, Vehicles, IdleVehicle
  <2>2. OnceInv /\ DriveInv /\ MessageInv
    BY DEF VendorInit, OnceInv, DriveInv, MessageInv, ToldTrue, IdleVehicle, Waiting
  <2>3. AnswerInv /\ PhaseIsReal
    BY DEF VendorInit, AnswerInv, Undispatched, IdleVehicle, PhaseIsReal, CompletedIsDone, CancelledIsStopped
  <2>4. QED BY <2>1, <2>2, <2>3 DEF VendorInv
<1>2. VendorInv /\ [VendorNext]_vendorVars => VendorInv'
  <2> SUFFICES ASSUME VendorInv, [VendorNext]_vendorVars PROVE VendorInv'
    OBVIOUS
  <2>1. CASE VendorNext
    <3>1. VendorTypeOK'
      BY <2>1, VendorTypeStep DEF VendorInv
    <3>2. VehicleStep
      BY <2>1, VehicleSteps
    <3>3. DriveInv'
      BY <3>1, <3>2, DriveStep
    <3>4. OnceInv' /\ MessageInv'
      BY <2>1, <3>1, OnceStep, MessageStep
    <3>5. AnswerInv' /\ PhaseIsReal'
      BY <2>1, <3>1, AnswerStep, PhaseStep
    <3>6. QED BY <3>1, <3>3, <3>4, <3>5 DEF VendorInv
  <2>2. CASE UNCHANGED vendorVars
    <3>1. UNCHANGED <<kind, phase, route, thread, known, raw, sheet, orders, instants, news,
                      veh, ended, misread, backed>>
      BY <2>2 DEF vendorVars, rowVars, cacheVars, mqttVars, ghostVars
    <3>2. VendorTypeOK'
      BY <3>1 DEF VendorInv, VendorTypeOK
    <3>3. OnceInv' /\ DriveInv' /\ MessageInv'
      BY <3>1 DEF VendorInv, OnceInv, DriveInv, MessageInv, ToldTrue, Waiting
    <3>4. AnswerInv' /\ PhaseIsReal'
      BY <3>1 DEF VendorInv, AnswerInv, PhaseIsReal, CompletedIsDone, CancelledIsStopped
    <3>5. QED BY <3>2, <3>3, <3>4 DEF VendorInv
  <2>3. QED BY <2>1, <2>2
<1>3. QED
  BY <1>1, <1>2, PTL DEF VendorSpec

\* What reconcile(), cancel() and halt write of a mission is what its vehicle
\* did, for any number of missions, lost messages and restarts, whichever
\* adapter speaks to the vendor.
THEOREM RowsAreReal == VendorSpec => []PhaseIsReal
<1>1. VendorInv => PhaseIsReal
  BY DEF VendorInv
<1>2. QED
  BY <1>1, VendorInduction, PTL

\* The adapters keep the row, the cache and the topics in their types.
THEOREM VendorTypeCorrect == VendorSpec => []VendorTypeOK
<1>1. VendorInv => VendorTypeOK
  BY DEF VendorInv
<1>2. QED
  BY <1>1, VendorInduction, PTL

\* No vehicle drives a mission again that it has finished, failed or dropped:
\* the order of a submission is published once.
THEOREM DrivenOnce ==
    VendorSpec => [][\A m \in Jobs : ended'[m] = "took" => ended[m] \in {"none", "took"}]_vendorVars
<1>1. ASSUME VendorInv, VendorInv', [VendorNext]_vendorVars
      PROVE  [\A m \in Jobs : ended'[m] = "took" => ended[m] \in {"none", "took"}]_vendorVars
  <2>1. CASE VendorNext
    BY <1>1, <2>1, VehicleSteps, EndedSteps DEF VendorInv
  <2>2. CASE UNCHANGED vendorVars
    BY <2>2
  <2>3. QED BY <1>1, <2>1, <2>2
<1>2. QED
  BY <1>1, VendorInduction, PTL DEF VendorSpec

-----------------------------------------------------------------------------
(* Reservations: types, and the bounds of times *)

Segments == [cell : Cells, start : Int, end : Int, guard : Nat,
             box : [frame : {"none", "map"}, low : Int, high : Int]]
Courses == [from : Int, speed : {-SpeedCap, SpeedCap, 0}, stamp : Int, frame : {"none", "map"}]
Bookings == [owner : Owners, state : {"granted", "released"}, segs : SUBSET Segments,
             lease : Int, course : Courses]

BookTypeOK ==
    /\ moment \in Nat
    /\ rows \in [Ids -> Bookings \cup {NoRow}]
    /\ skew \in [Owners -> {-Doubt, Doubt}]

\* A segment was cut from a course no later than its start, its guard covers
\* the doubt of its clock, and its box, if it has one, is the course's at its
\* end.
CutFrom(course, s) ==
    /\ s.guard >= Doubt
    /\ s.box.frame = "map" =>
          /\ s.box = BoxAt(course, s.end) /\ course.speed \in {-SpeedCap, SpeedCap}
          /\ course.stamp <= s.start
BookedInv == \A i \in Ids : Active(i) => \A s \in rows[i].segs : CutFrom(rows[i].course, s)

\* No two rows that hold are in conflict, guard to guard.
ClearOf(segs, others) == \A s \in segs, t \in others : ~InConflict(s, t)
ClearInv == \A i, j \in Ids : i # j /\ Active(i) /\ Active(j) => ClearOf(rows[i].segs, rows[j].segs)

BookInv == BookTypeOK /\ BookedInv /\ ClearInv

\* A slice of a window begins no earlier than the window and ends within it.
LEMMA CutWithin ==
    ASSUME NEW k \in 0..Slices, NEW len \in Nat
    PROVE  (k * len) \div Slices \in 0..len
<1> USE BookAssumption
<1>1. k \in Nat /\ Slices \in Nat /\ Slices >= 1 /\ k <= Slices
  OBVIOUS
<1>2. k * len \in Nat /\ k * len <= Slices * len
  <2>1. PICK rest \in Nat : Slices = k + rest
    <3>1. Slices - k \in Nat
      BY <1>1
    <3>2. QED BY <1>1, <3>1
  <2>2. rest * len \in Nat /\ Slices * len = k * len + rest * len /\ k * len \in Nat
    BY <1>1, <2>1
  <2>3. QED BY <2>2
<1>3. PICK q : q = (k * len) \div Slices
  OBVIOUS
<1>4. q \in Int /\ q * Slices <= k * len /\ k * len < q * Slices + Slices
  BY <1>1, <1>2, <1>3
<1>5. q >= 0
  <2>1. SUFFICES ASSUME q <= -1 PROVE FALSE
    BY <1>4
  <2>2. PICK r \in Nat : q = -1 - r
    <3>1. -1 - q \in Nat
      BY <1>4, <2>1
    <3>2. QED BY <1>4, <3>1
  <2>3. r * Slices \in Nat /\ q * Slices = -Slices - r * Slices
    BY <1>1, <2>2
  <2>4. QED BY <1>1, <1>2, <1>4, <2>3
<1>6. q <= len
  <2>1. SUFFICES ASSUME q >= len + 1 PROVE FALSE
    BY <1>4
  <2>2. PICK r \in Nat : q = len + 1 + r
    <3>1. q - len - 1 \in Nat
      BY <1>4, <2>1
    <3>2. QED BY <1>4, <3>1
  <2>3. r * Slices \in Nat /\ q * Slices = len * Slices + Slices + r * Slices /\ len * Slices \in Nat
        /\ Slices * len = len * Slices
    BY <1>1, <2>2
  <2>4. QED BY <1>1, <1>2, <1>4, <2>3
<1>7. QED BY <1>3, <1>4, <1>5, <1>6

\* The greatest of the times at which segments end, which are bounded.
LEMMA GreatestOf ==
    ASSUME NEW S \in SUBSET Int, S # {}, NEW top \in Int, \A x \in S : x <= top
    PROVE  Most(S) \in Int
<1> DEFINE Less == {p \in Nat \X Nat : p[1] < p[2]}
           D == {top - x : x \in S}
<1>1. IsWellFoundedOn(Less, Nat)
  BY NatLessThanWellFounded DEF OpToRel
<1>2. D \in SUBSET Nat /\ D # {}
  <2>1. \A x \in S : top - x \in Nat
    OBVIOUS
  <2>2. QED BY <2>1
<1>3. PICK d \in D : \A y \in D : <<y, d>> \notin Less
  <2> HIDE DEF Less, D
  <2> QED BY <1>1, <1>2, WFMin
<1>4. \A y \in D : d <= y
  <2> TAKE y \in D
  <2>1. y \in Nat /\ d \in Nat /\ <<y, d>> \in Nat \X Nat
    BY <1>2
  <2>2. ~(<<y, d>>[1] < <<y, d>>[2])
    BY <1>3, <2>1
  <2> HIDE DEF D
  <2>3. QED BY <2>1, <2>2
<1>5. PICK x \in S : d = top - x
  BY <1>3
<1>6. \A y \in S : x >= y
  BY <1>4, <1>5
<1>7. \E z \in S : \A y \in S : z >= y
  BY <1>6
<1>8. Most(S) \in S
  BY <1>7, Zenon DEF Most
<1>9. QED BY <1>8

LEMMA LeaseIsTime ==
    ASSUME NEW segs, segs # {}, moment \in Nat, NEW term \in Int,
           NEW top \in Int, \A s \in segs : s.end + s.guard \in Int /\ s.end + s.guard <= top
    PROVE  LeaseUntil(segs, term) \in Int
<1> USE BookAssumption
<1> DEFINE S == {s.end + s.guard : s \in segs}
           a == moment + term
           b == Most(S) + Grace
<1>1. S \in SUBSET Int /\ S # {} /\ \A x \in S : x <= top
  OBVIOUS
<1>2. Most(S) \in Int
  <2> HIDE DEF S
  <2> QED BY <1>1, GreatestOf
<1>3. a \in Int /\ b \in Int
  BY <1>2
<1>4. \E x \in {a, b} : \A y \in {a, b} : x <= y
  <2> HIDE DEF a, b
  <2> QED BY <1>3
<1>5. Least({a, b}) \in {a, b}
  <2> HIDE DEF a, b
  <2> QED BY <1>4, Zenon DEF Least
<1>6. QED BY <1>3, <1>5 DEF LeaseUntil

-----------------------------------------------------------------------------
(* Reservations: what robots ask for *)

\* The corridor of a course is cut into slices that each carry the course's
\* box at their end, and a guard that covers the doubt.
LEMMA CorridorIsCut ==
    ASSUME BookTypeOK, NEW o \in Owners, NEW from \in Places, NEW speed \in {-SpeedCap, SpeedCap},
           NEW wait \in Waits, NEW len \in Windows, NEW cell \in Cells, NEW course,
           course = Course(o, from, speed, "map"), NEW start, start = ClockOf(o) + wait
    PROVE  /\ course \in Courses
           /\ SegmentsForOccupancy(course, cell, start, start + len) \subseteq Segments
           /\ \A s \in SegmentsForOccupancy(course, cell, start, start + len) :
                 CutFrom(course, s) /\ s.end + s.guard <= start + len + Doubt + Slack
<1> USE BookAssumption
<1>1. /\ ClockOf(o) \in Int /\ from \in Int /\ speed \in Int /\ wait \in Nat /\ len \in Nat
      /\ start \in Int /\ start >= ClockOf(o)
  BY DEF BookTypeOK, ClockOf
<1>2. /\ course \in Courses /\ course.stamp = ClockOf(o) /\ course.frame = "map"
      /\ course.speed = speed /\ course.from = from
  BY <1>1 DEF Course, Courses
<1> DEFINE cut(k) == start + (k * ((start + len) - start)) \div Slices
<1>3. (start + len) - start = len
  BY <1>1
<1>4. ASSUME NEW k \in 0..Slices
      PROVE  cut(k) \in Int /\ start <= cut(k) /\ cut(k) <= start + len
  <2>1. (k * len) \div Slices \in 0..len
    BY <1>1, CutWithin
  <2>2. QED BY <1>1, <1>3, <2>1
<1> HIDE DEF cut
<1>5. ASSUME NEW t \in Int PROVE BoxAt(course, t) \in [frame : {"none", "map"}, low : Int, high : Int]
  BY <1>1, <1>2, <1>5 DEF BoxAt, Position
<1>6. ASSUME NEW s \in SegmentsForOccupancy(course, cell, start, start + len)
      PROVE  s \in Segments /\ CutFrom(course, s) /\ s.end + s.guard <= start + len + Doubt + Slack
  <2>1. PICK k \in 1..Slices :
           s = [cell |-> cell, start |-> cut(k - 1), end |-> cut(k), guard |-> Doubt + Slack,
                box |-> BoxAt(course, cut(k))]
    BY <1>6 DEF SegmentsForOccupancy, cut
  <2>2. k \in 0..Slices /\ k - 1 \in 0..Slices
    OBVIOUS
  <2>3. /\ cut(k) \in Int /\ cut(k - 1) \in Int /\ start <= cut(k - 1) /\ cut(k) <= start + len
    BY <1>4, <2>2
  <2>4. /\ s.cell = cell /\ s.start = cut(k - 1) /\ s.end = cut(k) /\ s.guard = Doubt + Slack
        /\ s.box = BoxAt(course, cut(k))
    BY <2>1
  <2>5. s \in Segments
    <3>1. BoxAt(course, cut(k)) \in [frame : {"none", "map"}, low : Int, high : Int]
      BY <1>5, <2>3
    <3>2. Doubt + Slack \in Nat
      OBVIOUS
    <3>3. QED BY <2>1, <2>3, <3>1, <3>2 DEF Segments
  <2>6. CutFrom(course, s)
    BY <1>1, <1>2, <2>3, <2>4 DEF CutFrom
  <2>7. QED BY <1>1, <2>3, <2>4, <2>5, <2>6
<1>7. QED BY <1>2, <1>6

LEMMA CellIsCut ==
    ASSUME BookTypeOK, NEW o \in Owners, NEW wait \in Waits, NEW len \in Windows,
           NEW cell \in Cells, NEW course, course = Course(o, 0, 0, "none"),
           NEW start, start = ClockOf(o) + wait
    PROVE  /\ course \in Courses
           /\ SegmentByCell(cell, start, start + len) \subseteq Segments
           /\ \A s \in SegmentByCell(cell, start, start + len) :
                 CutFrom(course, s) /\ s.end + s.guard <= start + len + Doubt
<1> USE BookAssumption
<1>1. ClockOf(o) \in Int /\ wait \in Nat /\ len \in Nat /\ start \in Int
  BY DEF BookTypeOK, ClockOf
<1>2. course \in Courses
  BY <1>1 DEF Course, Courses
<1>3. SegmentByCell(cell, start, start + len) \subseteq Segments
  BY <1>1 DEF SegmentByCell, Segments, NoBox
<1>4. ASSUME NEW s \in SegmentByCell(cell, start, start + len)
      PROVE  CutFrom(course, s) /\ s.end + s.guard <= start + len + Doubt
  BY <1>1 DEF SegmentByCell, CutFrom, NoBox
<1>5. QED BY <1>2, <1>3, <1>4

-----------------------------------------------------------------------------
(* Reservations: the steps *)

\* One request: the sweep drops what no longer holds, and a grant is clear of
\* everything that does.
LEMMA RequestStep ==
    ASSUME BookInv, UNCHANGED <<moment, skew>>, NEW i \in Ids, NEW o \in Owners,
           NEW segs \in SUBSET Segments, NEW term \in Nat, NEW course \in Courses,
           \A s \in segs : CutFrom(course, s),
           NEW top \in Int, \A s \in segs : s.end + s.guard <= top,
           Request(i, o, segs, term, course)
    PROVE  BookInv'
<1> DEFINE row == [owner |-> o, state |-> "granted", segs |-> segs,
                   lease |-> LeaseUntil(segs, term), course |-> course]
<1>1. rows \in [Ids -> Bookings \cup {NoRow}] /\ moment \in Nat
  BY DEF BookInv, BookTypeOK
<1>2. Swept \in [Ids -> Bookings \cup {NoRow}] /\ \A k \in Ids : Swept[k] = IF Active(k) THEN rows[k] ELSE NoRow
  BY <1>1 DEF Swept
<1>3. ASSUME NEW k \in Ids, rows'[k] = Swept[k] PROVE Active(k)' => Active(k) /\ rows'[k] = rows[k]
  BY <1>2, <1>3 DEF Active
<1>4. CASE ~Granted(i, o, segs)
  <2>1. rows' = Swept
    BY <1>4 DEF Request
  <2>2. BookTypeOK'
    BY <1>1, <1>2, <2>1 DEF BookInv, BookTypeOK
  <2>3. \A k \in Ids : Active(k)' => Active(k) /\ rows'[k] = rows[k]
    BY <1>3, <2>1
  <2>4. BookedInv' /\ ClearInv'
    BY <2>3 DEF BookInv, BookedInv, ClearInv
  <2>5. QED BY <2>2, <2>4 DEF BookInv
<1>5. CASE Granted(i, o, segs)
  <2>1. rows' = [Swept EXCEPT ![i] = row]
    BY <1>5 DEF Request
  <2>2. row \in Bookings
    <3>1. segs # {}
      BY <1>5 DEF Granted, ValidSegments
    <3>2. LeaseUntil(segs, term) \in Int
      <4>1. \A s \in segs : s.end + s.guard \in Int
        BY DEF Segments
      <4>2. QED BY <1>1, <3>1, <4>1, LeaseIsTime
    <3>3. QED BY <3>2 DEF Bookings
  <2>3. rows' \in [Ids -> Bookings \cup {NoRow}]
    BY <1>2, <2>1, <2>2
  <2>4. BookTypeOK'
    BY <2>3 DEF BookInv, BookTypeOK
  <2>5. rows'[i] = row /\ \A k \in Ids \ {i} : rows'[k] = Swept[k]
    BY <1>2, <2>1
  <2>6. rows'[i].segs = segs /\ rows'[i].course = course
    BY <2>5
  <2>7. \A k \in Ids \ {i} : Active(k)' => Active(k) /\ rows'[k] = rows[k]
    BY <1>3, <2>5
  <2> HIDE DEF row
  <2>8. BookedInv'
    <3>1. ASSUME NEW k \in Ids, Active(k)', NEW s \in rows'[k].segs
          PROVE  CutFrom(rows'[k].course, s)
      BY <2>6, <2>7, <3>1 DEF BookInv, BookedInv
    <3>2. QED BY <3>1 DEF BookedInv
  <2>9. \A k \in Ids : Active(k) => ClearOf(segs, rows[k].segs) /\ ClearOf(rows[k].segs, segs)
    BY <1>5 DEF Granted, FindConflict, ClearOf, InConflict, Together, SameSpace
  <2>10. ASSUME NEW k \in Ids, NEW j \in Ids, k # j, Active(k)', Active(j)'
         PROVE  ClearOf(rows'[k].segs, rows'[j].segs)
    <3>1. CASE k = i
      BY <2>6, <2>7, <2>9, <2>10, <3>1
    <3>2. CASE j = i
      BY <2>6, <2>7, <2>9, <2>10, <3>2
    <3>3. CASE k # i /\ j # i
      BY <2>7, <2>10, <3>3 DEF BookInv, ClearInv
    <3>4. QED BY <3>1, <3>2, <3>3
  <2>11. ClearInv'
    BY <2>10 DEF ClearInv, ClearOf, InConflict, Together, SameSpace
  <2>12. QED BY <2>4, <2>8, <2>11 DEF BookInv
<1>6. QED BY <1>4, <1>5

LEMMA BookInduction == BookSpec => []BookInv
<1> USE BookAssumption
<1>1. BookInit => BookInv
  BY DEF BookInit, BookInv, BookTypeOK, BookedInv, ClearInv, Active
<1>2. BookInv /\ [BookNext]_bookVars => BookInv'
  <2> SUFFICES ASSUME BookInv, [BookNext]_bookVars PROVE BookInv'
    OBVIOUS
  <2>0. BookTypeOK
    BY DEF BookInv
  <2>00. \A o \in Owners : ClockOf(o) \in Int
    BY <2>0 DEF BookTypeOK, ClockOf
  <2>1. ASSUME NEW o \in Owners, NEW i \in Ids, ReserveOccupancy(o, i) PROVE BookInv'
    <3>1. PICK cell \in Cells, from \in Places, speed \in {-SpeedCap, SpeedCap}, wait \in Waits,
               len \in Windows, term \in Leases :
             Request(i, o, SegmentsForOccupancy(Course(o, from, speed, "map"), cell,
                                                ClockOf(o) + wait, ClockOf(o) + wait + len),
                     term, Course(o, from, speed, "map"))
      BY <2>1 DEF ReserveOccupancy
    <3>2. PICK course : course = Course(o, from, speed, "map")
      OBVIOUS
    <3>3. PICK start : start = ClockOf(o) + wait
      OBVIOUS
    <3>4. PICK segs : segs = SegmentsForOccupancy(course, cell, start, start + len)
      OBVIOUS
    <3>5. /\ course \in Courses /\ segs \subseteq Segments
          /\ \A s \in segs : CutFrom(course, s) /\ s.end + s.guard <= start + len + Doubt + Slack
      BY <2>0, <3>2, <3>3, <3>4, CorridorIsCut
    <3>6. term \in Nat /\ start + len + Doubt + Slack \in Int
      <4>1. start \in Int /\ len \in Nat /\ term \in Nat /\ Doubt \in Nat /\ Slack \in Nat
        <5>1. wait \in Nat /\ ClockOf(o) \in Int
          BY <2>00
        <5>2. start \in Int
          BY <3>3, <5>1
        <5>3. QED BY <5>2
      <4>2. QED BY <4>1
    <3>7. Request(i, o, segs, term, course) /\ UNCHANGED <<moment, skew>>
      BY <2>1, <3>1, <3>2, <3>3, <3>4 DEF ReserveOccupancy
    <3>8. QED BY <3>5, <3>6, <3>7, RequestStep
  <2>2. ASSUME NEW o \in Owners, NEW i \in Ids, ReserveCell(o, i) PROVE BookInv'
    <3>1. PICK cell \in Cells, wait \in Waits, len \in Windows, term \in Leases :
             Request(i, o, SegmentByCell(cell, ClockOf(o) + wait, ClockOf(o) + wait + len),
                     term, Course(o, 0, 0, "none"))
      BY <2>2 DEF ReserveCell
    <3>2. PICK course : course = Course(o, 0, 0, "none")
      OBVIOUS
    <3>3. PICK start : start = ClockOf(o) + wait
      OBVIOUS
    <3>4. PICK segs : segs = SegmentByCell(cell, start, start + len)
      OBVIOUS
    <3>5. /\ course \in Courses /\ segs \subseteq Segments
          /\ \A s \in segs : CutFrom(course, s) /\ s.end + s.guard <= start + len + Doubt
      BY <2>0, <3>2, <3>3, <3>4, CellIsCut
    <3>6. term \in Nat /\ start + len + Doubt \in Int
      <4>1. start \in Int /\ len \in Nat /\ term \in Nat /\ Doubt \in Nat
        <5>1. wait \in Nat /\ ClockOf(o) \in Int
          BY <2>00
        <5>2. start \in Int
          BY <3>3, <5>1
        <5>3. QED BY <5>2
      <4>2. QED BY <4>1
    <3>7. Request(i, o, segs, term, course) /\ UNCHANGED <<moment, skew>>
      BY <2>2, <3>1, <3>2, <3>3, <3>4 DEF ReserveCell
    <3>8. QED BY <3>5, <3>6, <3>7, RequestStep
  <2>3. ASSUME NEW o \in Owners, NEW i \in Ids, ReleaseReservation(o, i) PROVE BookInv'
    <3>1. /\ rows \in [Ids -> Bookings \cup {NoRow}] /\ Active(i) /\ UNCHANGED <<moment, skew>>
          /\ rows' = [rows EXCEPT ![i].state = "released"]
      BY <2>3 DEF ReleaseReservation, Release, BookInv, BookTypeOK
    <3>2. rows[i] \in Bookings
      BY <3>1 DEF Active
    <3>3. rows'[i] \in Bookings /\ rows'[i].state = "released" /\ \A k \in Ids \ {i} : rows'[k] = rows[k]
      BY <3>1, <3>2 DEF Bookings
    <3>4. \A k \in Ids : Active(k)' => k # i /\ Active(k) /\ rows'[k] = rows[k]
      BY <3>1, <3>3 DEF Active
    <3>5. BookTypeOK'
      BY <3>1, <3>3 DEF BookInv, BookTypeOK
    <3>6. BookedInv' /\ ClearInv'
      BY <3>4 DEF BookInv, BookedInv, ClearInv
    <3>7. QED BY <3>5, <3>6 DEF BookInv
  <2>4. CASE TimePasses
    <3>1. rows' = rows /\ skew' = skew /\ moment' = moment + 1 /\ moment \in Nat
      BY <2>4 DEF TimePasses, BookInv, BookTypeOK
    <3>2. \A k \in Ids : rows[k] # NoRow => rows[k].lease \in Int
      BY DEF BookInv, BookTypeOK, Bookings
    <3>3. \A k \in Ids : Active(k)' => Active(k)
      BY <3>1, <3>2 DEF Active
    <3>4. BookTypeOK'
      BY <3>1 DEF BookInv, BookTypeOK
    <3>5. BookedInv' /\ ClearInv'
      BY <3>1, <3>3 DEF BookInv, BookedInv, ClearInv
    <3>6. QED BY <3>4, <3>5 DEF BookInv
  <2>5. CASE UNCHANGED bookVars
    BY <2>5 DEF bookVars, BookInv, BookTypeOK, BookedInv, ClearInv, Active, ClearOf, InConflict,
                Together, SameSpace, CutFrom, BoxAt, Position
  <2>6. QED BY <2>1, <2>2, <2>3, <2>4, <2>5 DEF BookNext
<1>3. QED
  BY <1>1, <1>2, PTL DEF BookSpec

-----------------------------------------------------------------------------
(* Reservations: what the book says of the world *)

\* Two robots inside segments they hold, each by its own clock, hold segments
\* that overlap guard to guard in time.
LEMMA InsideTogether ==
    ASSUME BookInv, NEW i \in Ids, NEW j \in Ids, NEW s \in rows[i].segs, NEW t \in rows[j].segs,
           Inside(i, s), Inside(j, t)
    PROVE  Together(s, t)
<1> USE BookAssumption
<1>1. Active(i) /\ Active(j) /\ rows[i] \in Bookings /\ rows[j] \in Bookings
  BY DEF Inside, Active, BookInv, BookTypeOK
<1>2. s \in Segments /\ t \in Segments /\ s.guard >= Doubt /\ t.guard >= Doubt
  BY <1>1 DEF Bookings, BookInv, BookedInv, CutFrom
<1>3. /\ s.start \in Int /\ s.end \in Int /\ s.guard \in Nat
      /\ t.start \in Int /\ t.end \in Int /\ t.guard \in Nat
  BY <1>2 DEF Segments
<1>4. PICK a, b : a = skew[rows[i].owner] /\ b = skew[rows[j].owner]
  OBVIOUS
<1>5. a \in {-Doubt, Doubt} /\ b \in {-Doubt, Doubt} /\ moment \in Nat
  BY <1>1, <1>4 DEF Bookings, BookInv, BookTypeOK
<1>6. /\ s.start <= moment + a /\ moment + a < s.end
      /\ t.start <= moment + b /\ moment + b < t.end
  BY <1>4 DEF Inside, ClockOf
<1>7. QED
  BY <1>2, <1>3, <1>5, <1>6 DEF Together

\* More time at the speed limit reaches no less far.
LEMMA SpeedTimesTime ==
    ASSUME NEW c \in Nat, NEW a \in Int, NEW b \in Int, a <= b
    PROVE  c * a \in Int /\ c * b \in Int /\ c * a <= c * b
<1>1. PICK d \in Nat : b = a + d
  <2>1. b - a \in Nat
    OBVIOUS
  <2>2. QED BY <2>1
<1>2. c * d \in Nat /\ c * b = c * a + c * d /\ c * a \in Int /\ c * b \in Int
  BY <1>1
<1>3. QED BY <1>2

\* While its clock is in a segment, the body of a robot is in the box of it: the
\* margin makes up for the doubt that the age was credited with.
LEMMA BodyInBox ==
    ASSUME BookInv, Slack >= Doubt, NEW i \in Ids, NEW s \in rows[i].segs, Inside(i, s),
           s.box.frame = "map"
    PROVE  /\ Whereabouts(i) \in Int /\ s.box.low \in Int /\ s.box.high \in Int
           /\ s.box.low + Girth <= Whereabouts(i) /\ Whereabouts(i) + Girth <= s.box.high
<1> USE BookAssumption
<1>1. Active(i) /\ rows[i] \in Bookings
  BY DEF Inside, Active, BookInv, BookTypeOK
<1>2. PICK c : c = rows[i].course
  OBVIOUS
<1>3. s \in Segments /\ c \in Courses /\ CutFrom(c, s)
  BY <1>1, <1>2 DEF Bookings, BookInv, BookedInv
<1>4. /\ s.box = BoxAt(c, s.end) /\ c.speed \in {-SpeedCap, SpeedCap} /\ c.stamp <= s.start
      /\ s.start \in Int /\ s.end \in Int /\ c.stamp \in Int /\ c.from \in Int
  BY <1>3 DEF CutFrom, Segments, Courses
<1>5. PICK clock : clock = ClockOf(rows[i].owner)
  OBVIOUS
<1>6. clock \in Int /\ s.start <= clock /\ clock < s.end
  <2>1. skew[rows[i].owner] \in Int /\ moment \in Int
    BY <1>1 DEF Bookings, BookInv, BookTypeOK
  <2>2. QED BY <1>5, <2>1 DEF Inside, ClockOf
<1>7. PICK age \in Nat : age = IF s.end - c.stamp > Doubt THEN s.end - c.stamp - Doubt ELSE 0
  <2>1. (IF s.end - c.stamp > Doubt THEN s.end - c.stamp - Doubt ELSE 0) \in Nat
    BY <1>4
  <2>2. QED BY <2>1
<1>8. s.end - clock >= 0 /\ s.end - clock <= age + Slack
  BY <1>4, <1>6, <1>7
<1>9. /\ SpeedCap * (s.end - clock) \in Nat
      /\ SpeedCap * (s.end - clock) <= SpeedCap * (age + Slack)
      /\ SpeedCap * (age + Slack) \in Int
  <2>1. s.end - clock \in Int /\ age + Slack \in Int
    BY <1>4, <1>6
  <2>2. /\ SpeedCap * (s.end - clock) \in Int /\ SpeedCap * (age + Slack) \in Int
        /\ SpeedCap * (s.end - clock) <= SpeedCap * (age + Slack)
    BY <1>8, <2>1, SpeedTimesTime
  <2>3. SpeedCap * 0 <= SpeedCap * (s.end - clock)
    BY <1>8, <2>1, SpeedTimesTime
  <2>4. QED BY <2>2, <2>3
<1>10. /\ Position(c, clock) \in Int /\ Position(c, s.end) \in Int
       /\ \/ Position(c, s.end) = Position(c, clock) + SpeedCap * (s.end - clock)
          \/ Position(c, s.end) = Position(c, clock) - SpeedCap * (s.end - clock)
  <2>1. CASE c.speed = SpeedCap
    <3>1. SpeedCap * (s.end - c.stamp) = SpeedCap * (clock - c.stamp) + SpeedCap * (s.end - clock)
      BY <1>4, <1>6
    <3>2. SpeedCap * (s.end - c.stamp) \in Int /\ SpeedCap * (clock - c.stamp) \in Int
      BY <1>4, <1>6
    <3>3. QED BY <1>4, <1>9, <2>1, <3>1, <3>2 DEF Position
  <2>2. CASE c.speed = -SpeedCap
    <3>1. (-SpeedCap) * (s.end - c.stamp) = (-SpeedCap) * (clock - c.stamp) - SpeedCap * (s.end - clock)
      BY <1>4, <1>6
    <3>2. (-SpeedCap) * (s.end - c.stamp) \in Int /\ (-SpeedCap) * (clock - c.stamp) \in Int
      BY <1>4, <1>6
    <3>3. QED BY <1>4, <1>9, <2>2, <3>1, <3>2 DEF Position
  <2>3. QED BY <1>4, <2>1, <2>2
<1>11. Whereabouts(i) = Position(c, clock)
  BY <1>2, <1>5 DEF Whereabouts
<1>12. /\ s.box.low = Position(c, s.end) - (SpeedCap * (age + Slack) + Girth)
       /\ s.box.high = Position(c, s.end) + (SpeedCap * (age + Slack) + Girth)
  BY <1>4, <1>7 DEF BoxAt
<1>13. QED
  BY <1>9, <1>10, <1>11, <1>12

\* Two robots inside windows they hold are never in one cell, whatever was
\* released, expired or asked again: this needs no margin.
THEOREM CellsAreExclusive ==
    BookSpec => [](\A i, j \in Ids : i # j =>
                     \A s \in IF Active(i) THEN rows[i].segs ELSE {},
                        t \in IF Active(j) THEN rows[j].segs ELSE {} :
                         Inside(i, s) /\ Inside(j, t) => s.cell # t.cell)
<1>1. BookInv => \A i, j \in Ids : i # j =>
                   \A s \in IF Active(i) THEN rows[i].segs ELSE {},
                      t \in IF Active(j) THEN rows[j].segs ELSE {} :
                       Inside(i, s) /\ Inside(j, t) => s.cell # t.cell
  <2> SUFFICES ASSUME BookInv, NEW i \in Ids, NEW j \in Ids, i # j,
                      NEW s \in IF Active(i) THEN rows[i].segs ELSE {},
                      NEW t \in IF Active(j) THEN rows[j].segs ELSE {},
                      Inside(i, s), Inside(j, t)
               PROVE  s.cell # t.cell
    OBVIOUS
  <2>1. Active(i) /\ Active(j) /\ s \in rows[i].segs /\ t \in rows[j].segs
    OBVIOUS
  <2>2. Together(s, t)
    BY <2>1, InsideTogether
  <2>3. ~InConflict(s, t)
    BY <2>1 DEF BookInv, ClearInv, ClearOf
  <2>4. QED BY <2>2, <2>3 DEF InConflict, SameSpace
<1>2. QED
  BY <1>1, BookInduction, PTL

\* A grant is a statement about the world (spatial/reservation.py): when the
\* decision margin covers the doubt of the stamps, the bodies of two robots
\* inside windows they hold do not touch either.
THEOREM SpaceIsNotShared ==
    ASSUME Slack >= Doubt
    PROVE  BookSpec => []NoSharedSpace
<1>1. BookInv => NoSharedSpace
  <2> SUFFICES ASSUME BookInv, NEW i \in Ids, NEW j \in Ids, i # j,
                      NEW s \in IF Active(i) THEN rows[i].segs ELSE {},
                      NEW t \in IF Active(j) THEN rows[j].segs ELSE {},
                      Inside(i, s), Inside(j, t)
               PROVE  /\ s.cell # t.cell
                      /\ s.box.frame = "map" /\ t.box.frame = "map" => Apart(i, j)
    BY DEF NoSharedSpace
  <2>1. Active(i) /\ Active(j) /\ s \in rows[i].segs /\ t \in rows[j].segs
    OBVIOUS
  <2>2. ~SameSpace(s, t)
    <3>1. Together(s, t)
      BY <2>1, InsideTogether
    <3>2. ~InConflict(s, t)
      BY <2>1 DEF BookInv, ClearInv, ClearOf
    <3>3. QED BY <3>1, <3>2 DEF InConflict
  <2>3. ASSUME s.box.frame = "map", t.box.frame = "map" PROVE Apart(i, j)
    <3>1. /\ Whereabouts(i) \in Int /\ s.box.low \in Int /\ s.box.high \in Int
          /\ s.box.low + Girth <= Whereabouts(i) /\ Whereabouts(i) + Girth <= s.box.high
      BY <2>1, <2>3, BodyInBox
    <3>2. /\ Whereabouts(j) \in Int /\ t.box.low \in Int /\ t.box.high \in Int
          /\ t.box.low + Girth <= Whereabouts(j) /\ Whereabouts(j) + Girth <= t.box.high
      BY <2>1, <2>3, BodyInBox
    <3>3. s.box.low >= t.box.high \/ t.box.low >= s.box.high
      BY <2>2, <2>3, <3>1, <3>2 DEF SameSpace
    <3>4. QED BY <3>1, <3>2, <3>3, BookAssumption DEF Apart
  <2>4. QED BY <2>2, <2>3 DEF SameSpace
<1>2. QED
  BY <1>1, BookInduction, PTL

\* The book and its rows keep their types.
THEOREM BookTypeCorrect == BookSpec => []BookTypeOK
<1>1. BookInv => BookTypeOK
  BY DEF BookInv
<1>2. QED
  BY <1>1, BookInduction, PTL

-----------------------------------------------------------------------------
(* Preflight: what a plan carries *)

StepKinds == [kind : {"move", "pick", "wait", "charge"}, to : 0..Track, dwell : Nat, target : Nat]
Visits == [cell : 0..Track, start : Nat, end : Nat]
Situations == [at : 0..Track, left : 0..Full, cursor : Nat, low : Int, seen : Seq(Visits)]
Routes == UNION {[0..n -> Situations] : n \in Nat}
Spans == [cell : 0..Track, start : Nat, end : Nat]
Plans == [stage : {"checked", "blind", "driving"}, id : Ids \cup {NoRow}, windows : SUBSET Spans,
          sim : Routes, steps : Trips]

\* A window as a segment: no guard and no box.
SegmentOf(w) == [cell |-> w.cell, start |-> w.start, end |-> w.end, guard |-> 0, box |-> NoBox]
Pieces == [cell : 0..Track, start : Nat, end : Nat, guard : {0}, box : {NoBox}]
Grants == [owner : Owners, state : {"granted", "released"}, segs : SUBSET Pieces, lease : Int,
           course : {NoRow}]

TwinTypeOK ==
    /\ moment \in Nat
    /\ rows \in [Ids -> Grants \cup {NoRow}]
    /\ plan \in [Owners -> Plans \cup {NoPlan}]
    /\ stands \in [Owners -> 0..Track] /\ battery \in [Owners -> 0..Full]
    /\ streak \in [Owners -> 0..Threshold] /\ trusted \in [Owners -> BOOLEAN]

\* One situation of the simulation follows from the one before.
Stepped(s, step) ==
    LET t == After(s, step) IN [t EXCEPT !.low = IF s.low <= t.left THEN s.low ELSE t.left]

\* A simulation that began by now: its clock and its trace only grow, its low
\* water only falls, and no window ends after its clock.
Follows(steps, sim) ==
    /\ DOMAIN sim = 0..Len(steps)
    /\ \A k \in 1..Len(steps) : sim[k] = Stepped(sim[k - 1], steps[k])
    /\ \A k \in 0..Len(steps) :
          /\ sim[k] \in Situations /\ sim[k].low <= sim[k].left
          /\ \A q \in DOMAIN sim[k].seen : sim[k].seen[q].end <= sim[k].cursor
RouteInv ==
    \A v \in Owners : plan[v] # NoPlan =>
        /\ Follows(plan[v].steps, plan[v].sim) /\ plan[v].sim[0].cursor <= moment
        /\ plan[v].stage # "blind" =>
              /\ LowWater(plan[v].sim, Len(plan[v].steps)) >= Floor
              /\ plan[v].windows = Occupancy(plan[v].sim[Len(plan[v].steps)].seen)

\* A vehicle that drives holds, under an id of its own, the windows of its
\* whole trip for as long as the row is active.
GrantInv ==
    \A v \in Owners : plan[v] # NoPlan /\ plan[v].stage = "driving" =>
        /\ plan[v].id \in Ids
        /\ Active(plan[v].id) => rows[plan[v].id].segs = {SegmentOf(w) : w \in plan[v].windows}
        /\ \A u \in Owners \ {v} : plan[u] # NoPlan /\ plan[u].stage = "driving" => plan[u].id # plan[v].id

TwinInv == TwinTypeOK /\ RouteInv /\ GrantInv /\ ClearInv

-----------------------------------------------------------------------------
(* Preflight: least and greatest of times and of steps *)

LEMMA LeastOfNaturals ==
    ASSUME NEW S \in SUBSET Nat, S # {}
    PROVE  Least(S) \in S /\ \A x \in S : Least(S) <= x
<1> DEFINE Less == {p \in Nat \X Nat : p[1] < p[2]}
<1>1. IsWellFoundedOn(Less, Nat)
  BY NatLessThanWellFounded DEF OpToRel
<1>2. PICK n \in S : \A y \in S : <<y, n>> \notin Less
  <2> HIDE DEF Less
  <2> QED BY <1>1, WFMin
<1>3. \A y \in S : n <= y
  <2> TAKE y \in S
  <2>1. <<y, n>> \in Nat \X Nat
    OBVIOUS
  <2>2. ~(<<y, n>>[1] < <<y, n>>[2])
    BY <1>2, <2>1
  <2>3. QED BY <2>2
<1>4. \E z \in S : \A y \in S : z <= y
  BY <1>3
<1>5. QED BY <1>4, Zenon DEF Least

LEMMA MostOfNaturals ==
    ASSUME NEW S \in SUBSET Nat, S # {}, NEW top \in Nat, \A x \in S : x <= top
    PROVE  Most(S) \in S /\ \A x \in S : x <= Most(S)
<1> DEFINE D == {top - x : x \in S}
<1>1. D \in SUBSET Nat /\ D # {}
  <2>1. \A x \in S : top - x \in Nat
    OBVIOUS
  <2>2. QED BY <2>1
<1>2. PICK d : d = Least(D)
  OBVIOUS
<1>3. d \in D /\ \A y \in D : d <= y
  <2> HIDE DEF D
  <2> QED BY <1>1, <1>2, LeastOfNaturals
<1>4. PICK x \in S : d = top - x
  BY <1>3
<1>5. ASSUME NEW y \in S PROVE x >= y
  <2>1. top - y \in D
    OBVIOUS
  <2>2. d <= top - y
    <3> HIDE DEF D
    <3> QED BY <1>3, <2>1
  <2>3. QED BY <1>4, <2>2
<1>6. \E z \in S : \A y \in S : z >= y
  BY <1>5
<1>7. Most(S) \in S /\ \A y \in S : Most(S) >= y
  BY <1>6, Zenon DEF Most
<1>8. QED BY <1>7

LEMMA LeastOfTwo ==
    ASSUME NEW x \in Int, NEW y \in Int
    PROVE  Least({x, y}) = IF x <= y THEN x ELSE y
<1>1. \E z \in {x, y} : \A w \in {x, y} : z <= w
  OBVIOUS
<1>2. Least({x, y}) \in {x, y} /\ \A w \in {x, y} : Least({x, y}) <= w
  BY <1>1, Zenon DEF Least
<1>3. QED BY <1>2

LEMMA MostOfTwo ==
    ASSUME NEW x \in Int, NEW y \in Int
    PROVE  Most({x, y}) \in Int
<1>1. \E z \in {x, y} : \A w \in {x, y} : z >= w
  OBVIOUS
<1>2. Most({x, y}) \in {x, y}
  BY <1>1, Zenon DEF Most
<1>3. QED BY <1>2

LEMMA NaturalsBySteps ==
    ASSUME NEW G \in SUBSET Nat, 0 \in G, \A n \in G : n + 1 \in G
    PROVE  G = Nat
<1>1. SUFFICES ASSUME Nat \ G # {} PROVE FALSE
  OBVIOUS
<1>2. PICK n : n = Least(Nat \ G)
  OBVIOUS
<1>3. n \in Nat \ G /\ \A m \in Nat \ G : n <= m
  BY <1>1, <1>2, LeastOfNaturals
<1>4. n - 1 \in Nat /\ n - 1 \notin Nat \ G
  BY <1>3
<1>5. (n - 1) + 1 \in G
  BY <1>4
<1>6. QED BY <1>3, <1>5

-----------------------------------------------------------------------------
(* Preflight: one step of the simulation *)

\* The cells of a leg are cells of the grid.
LEMMA LegOnGrid ==
    ASSUME NEW a \in 0..Track, NEW b \in 0..Track
    PROVE  /\ Gap(a, b) \in Nat /\ DOMAIN Trace(a, b) = 1..(Gap(a, b) + 1)
           /\ Trace(a, b) \in Seq(0..Track) /\ Len(Trace(a, b)) = Gap(a, b) + 1
           /\ \A m \in 1..(Gap(a, b) + 1) : Trace(a, b)[m] \in 0..Track
<1> USE PreflightAssumption
<1>1. a \in Int /\ b \in Int /\ 0 <= a /\ a <= Track /\ 0 <= b /\ b <= Track /\ Track \in Nat
  OBVIOUS
<1>2. Gap(a, b) \in Nat /\ (a <= b => Gap(a, b) = b - a) /\ (~(a <= b) => Gap(a, b) = a - b)
  BY <1>1 DEF Gap
<1>3. PICK n \in Nat : n = Gap(a, b) + 1
  BY <1>2
<1>4. \A m \in 1..n : (IF a <= b THEN a + m - 1 ELSE a - m + 1) \in 0..Track
  BY <1>1, <1>2, <1>3
<1>5. Trace(a, b) = [m \in 1..n |-> IF a <= b THEN a + m - 1 ELSE a - m + 1]
  BY <1>3 DEF Trace
<1>6. \A m \in 1..n : Trace(a, b)[m] \in 0..Track
  BY <1>4, <1>5
<1>7. Trace(a, b) \in [1..n -> 0..Track]
  BY <1>4, <1>5
<1>8. Trace(a, b) \in Seq(0..Track) /\ Len(Trace(a, b)) = n
  BY <1>7
<1>9. QED BY <1>2, <1>3, <1>5, <1>6, <1>8

\* What one travelled leg adds to the trace: a window for every cell of it.
Added(s, step, until) ==
    [k \in 1..(Gap(s.at, step.to) + 1) |->
        [cell |-> Trace(s.at, step.to)[k], start |-> s.cursor, end |-> until]]

\* A step, field by field.
LEMMA TravelIs ==
    ASSUME NEW s \in Situations, NEW step \in StepKinds, step.kind \in {"move", "pick"}
    PROVE  \E until \in Nat, rest \in 0..Full :
              /\ s.cursor <= until
              /\ After(s, step) = [at |-> step.to, left |-> rest, cursor |-> until, low |-> s.low,
                                   seen |-> s.seen \o Added(s, step, until)]
<1>1. /\ s.at \in 0..Track /\ s.left \in 0..Full /\ s.cursor \in Nat /\ s.low \in Int
      /\ s.seen \in Seq(Visits) /\ step.to \in 0..Track /\ step.dwell \in Nat /\ Full \in Nat
  BY PreflightAssumption DEF Situations, StepKinds
<1>2. Gap(s.at, step.to) \in Nat
  BY <1>1, LegOnGrid
<1>3. PICK dwell : dwell = (IF step.kind = "pick" THEN step.dwell ELSE 0) /\ dwell \in Nat
  BY <1>1
<1> DEFINE cursor == s.cursor
           leg == Gap(s.at, step.to)
<1>4. PICK until : until = cursor + DriveTime(s.at, step.to) + dwell /\ until \in Nat /\ cursor <= until
  <2>1. cursor \in Nat /\ leg \in Nat
    BY <1>1, <1>2
  <2>2. DriveTime(s.at, step.to) = leg
    BY DEF DriveTime
  <2> HIDE DEF cursor, leg
  <2>3. cursor + leg + dwell \in Nat /\ cursor <= cursor + leg + dwell
    BY <1>3, <2>1
  <2>4. QED BY <2>2, <2>3
<1>5. PICK drained : drained = s.left - Energy(DriveTime(s.at, step.to), dwell) /\ drained \in Int
                     /\ drained <= s.left
  <2>1. DriveTime(s.at, step.to) = leg /\ Energy(leg, dwell) = 2 * leg + dwell /\ leg \in Nat
    BY <1>2 DEF DriveTime, Energy
  <2> HIDE DEF leg
  <2>2. Energy(leg, dwell) \in Nat
    BY <1>3, <2>1
  <2>3. QED BY <1>1, <2>1, <2>2
<1>6. PICK rest : rest = (IF drained < 0 THEN 0 ELSE drained) /\ rest \in 0..Full
  BY <1>1, <1>5
<1>7. PICK new : new = s.seen \o Added(s, step, until)
  OBVIOUS
<1>8. After(s, step) = Travel(s, step)
  BY DEF After
<1>9. Travel(s, step) = [s EXCEPT !.at = step.to, !.cursor = until, !.left = rest, !.seen = new]
  BY <1>3, <1>4, <1>5, <1>6, <1>7, Zenon DEF Travel, Added, DriveTime
<1>10. [s EXCEPT !.at = step.to, !.cursor = until, !.left = rest, !.seen = new]
         = [at |-> step.to, left |-> rest, cursor |-> until, low |-> s.low, seen |-> new]
  <2>1. PICK a : a = [s EXCEPT !.at = step.to]
    OBVIOUS
  <2>2. a = [at |-> step.to, left |-> s.left, cursor |-> s.cursor, low |-> s.low, seen |-> s.seen]
    BY <2>1 DEF Situations
  <2>3. PICK b : b = [a EXCEPT !.cursor = until]
    OBVIOUS
  <2>4. b = [at |-> step.to, left |-> s.left, cursor |-> until, low |-> s.low, seen |-> s.seen]
    BY <2>2, <2>3
  <2>5. PICK c : c = [b EXCEPT !.left = rest]
    OBVIOUS
  <2>6. c = [at |-> step.to, left |-> rest, cursor |-> until, low |-> s.low, seen |-> s.seen]
    BY <2>4, <2>5
  <2>7. [c EXCEPT !.seen = new]
          = [at |-> step.to, left |-> rest, cursor |-> until, low |-> s.low, seen |-> new]
    BY <2>6
  <2>8. [s EXCEPT !.at = step.to, !.cursor = until, !.left = rest, !.seen = new] = [c EXCEPT !.seen = new]
    BY <2>1, <2>3, <2>5, Zenon
  <2>9. QED BY <2>7, <2>8
<1>11. After(s, step) = [at |-> step.to, left |-> rest, cursor |-> until, low |-> s.low,
                         seen |-> s.seen \o Added(s, step, until)]
  BY <1>7, <1>8, <1>9, <1>10, Zenon
<1>12. QED BY <1>4, <1>6, <1>11

LEMMA StandingIs ==
    ASSUME NEW s \in Situations, NEW step \in StepKinds, step.kind \in {"wait", "charge"}
    PROVE  \E until \in Nat, rest \in 0..Full :
              /\ s.cursor <= until
              /\ After(s, step) = [at |-> s.at, left |-> rest, cursor |-> until, low |-> s.low,
                                   seen |-> s.seen]
<1>1. /\ s.at \in 0..Track /\ s.left \in 0..Full /\ s.cursor \in Nat /\ s.low \in Int
      /\ s.seen \in Seq(Visits) /\ step.dwell \in Nat /\ Full \in Nat
  BY PreflightAssumption DEF Situations, StepKinds
<1>2. ASSUME NEW until, NEW rest
      PROVE  [s EXCEPT !.cursor = until, !.left = rest]
               = [at |-> s.at, left |-> rest, cursor |-> until, low |-> s.low, seen |-> s.seen]
  <2>1. PICK a : a = [s EXCEPT !.cursor = until]
    OBVIOUS
  <2>2. a = [at |-> s.at, left |-> s.left, cursor |-> until, low |-> s.low, seen |-> s.seen]
    BY <2>1 DEF Situations
  <2>3. [a EXCEPT !.left = rest]
          = [at |-> s.at, left |-> rest, cursor |-> until, low |-> s.low, seen |-> s.seen]
    BY <2>2
  <2>4. [s EXCEPT !.cursor = until, !.left = rest] = [a EXCEPT !.left = rest]
    BY <2>1, Zenon
  <2>5. QED BY <2>3, <2>4
<1>3. CASE step.kind = "wait"
  <2>1. PICK until : until = s.cursor + step.dwell /\ until \in Nat /\ s.cursor <= until
    BY <1>1
  <2>2. PICK rest : rest = (IF s.left < step.dwell THEN 0 ELSE s.left - step.dwell) /\ rest \in 0..Full
    BY <1>1
  <2>3. After(s, step) = Rest(s, step)
    BY <1>3 DEF After
  <2>4. Rest(s, step) = [s EXCEPT !.cursor = until, !.left = rest]
    BY <2>1, <2>2, Zenon DEF Rest
  <2>5. After(s, step) = [at |-> s.at, left |-> rest, cursor |-> until, low |-> s.low, seen |-> s.seen]
    BY <1>2, <2>3, <2>4, Zenon
  <2>6. QED BY <2>1, <2>2, <2>5
<1>4. CASE step.kind = "charge"
  <2>1. PICK goal : goal = Least({Full, step.target})
    OBVIOUS
  <2>2. goal \in 0..Full
    <3>1. step.target \in Nat
      BY DEF StepKinds
    <3>2. goal = IF Full <= step.target THEN Full ELSE step.target
      BY <1>1, <2>1, <3>1, LeastOfTwo
    <3>3. QED BY <1>1, <3>1, <3>2
  <2>3. After(s, step) = Charge(s, step)
    BY <1>4 DEF After
  <2>4. CASE s.left < goal
    <3>1. PICK until : until = s.cursor + (goal - s.left) /\ until \in Nat /\ s.cursor <= until
      <4>1. goal - s.left \in Nat
        BY <1>1, <2>2, <2>4
      <4>2. s.cursor + (goal - s.left) \in Nat /\ s.cursor <= s.cursor + (goal - s.left)
        BY <1>1, <4>1
      <4>3. QED BY <4>2
    <3>2. Charge(s, step) = [s EXCEPT !.cursor = until, !.left = goal]
      BY <2>1, <2>4, <3>1, Zenon DEF Charge
    <3>3. After(s, step) = [at |-> s.at, left |-> goal, cursor |-> until, low |-> s.low, seen |-> s.seen]
      BY <1>2, <2>3, <3>2, Zenon
    <3>4. QED BY <2>2, <3>1, <3>3
  <2>5. CASE ~(s.left < goal)
    <3>1. Charge(s, step) = s
      BY <2>1, <2>5, Zenon DEF Charge
    <3>2. s = [at |-> s.at, left |-> s.left, cursor |-> s.cursor, low |-> s.low, seen |-> s.seen]
      BY DEF Situations
    <3>3. QED BY <1>1, <2>3, <3>1, <3>2
  <2>6. QED BY <2>4, <2>5
<1>5. QED BY <1>3, <1>4

LEMMA Joined ==
    ASSUME NEW A, NEW x \in Seq(A), NEW y \in Seq(A), NEW z, z = x \o y
    PROVE  /\ z \in Seq(A) /\ Len(z) = Len(x) + Len(y) /\ Len(x) \in Nat
           /\ \A q \in 1..Len(x) : z[q] = x[q]
           /\ \A m \in 1..Len(y) : z[Len(x) + m] = y[m]
<1>1. Len(x) \in Nat /\ Len(y) \in Nat
  OBVIOUS
<1>2. z \in Seq(A) /\ Len(z) = Len(x) + Len(y)
  OBVIOUS
<1>3. \A q \in 1..Len(x) : z[q] = x[q]
  OBVIOUS
<1>4. ASSUME NEW m \in 1..Len(y) PROVE z[Len(x) + m] = y[m]
  <2>1. Len(x) + m \in 1..(Len(x) + Len(y)) /\ Len(x) + m > Len(x) /\ (Len(x) + m) - Len(x) = m
    BY <1>1
  <2>2. QED BY <1>1, <2>1
<1>5. QED BY <1>1, <1>2, <1>3, <1>4

LEMMA SteppedIs ==
    ASSUME NEW s \in Situations, s.low <= s.left, \A q \in DOMAIN s.seen : s.seen[q].end <= s.cursor,
           NEW step \in StepKinds, NEW t, t = Stepped(s, step)
    PROVE  /\ t \in Situations /\ t.low <= t.left /\ t.low <= s.low /\ s.cursor <= t.cursor
           /\ \A q \in DOMAIN t.seen : t.seen[q].end <= t.cursor
           /\ Len(s.seen) <= Len(t.seen) /\ \A q \in 1..Len(s.seen) : t.seen[q] = s.seen[q]
           /\ step.kind \in {"move", "pick"} =>
                 /\ t.at = step.to
                 /\ \A m \in 1..(Gap(s.at, step.to) + 1) : \E q \in 1..Len(t.seen) :
                       t.seen[q] = [cell |-> Trace(s.at, step.to)[m], start |-> s.cursor, end |-> t.cursor]
<1>1. /\ s.at \in 0..Track /\ s.left \in 0..Full /\ s.cursor \in Nat /\ s.low \in Int
      /\ s.seen \in Seq(Visits) /\ step.to \in 0..Track /\ step.dwell \in Nat /\ Full \in Nat
  BY PreflightAssumption DEF Situations, StepKinds
<1>2. ASSUME NEW u, NEW place \in 0..Track, NEW rest \in 0..Full, NEW until \in Nat, NEW new \in Seq(Visits),
             After(s, step) = u,
             u = [at |-> place, left |-> rest, cursor |-> until, low |-> s.low, seen |-> new]
      PROVE  /\ t \in Situations /\ t.low <= t.left /\ t.low <= s.low
             /\ t.at = place /\ t.cursor = until /\ t.seen = new
  <2>1. PICK water \in Int : water = IF s.low <= rest THEN s.low ELSE rest
    BY <1>1
  <2>2. t = [u EXCEPT !.low = water]
    <3>1. u.left = rest
      BY <1>2
    <3>2. QED BY <1>2, <2>1, <3>1, Zenon DEF Stepped
  <2>3. t = [at |-> place, left |-> rest, cursor |-> until, low |-> water, seen |-> new]
    BY <1>2, <2>2
  <2>4. QED BY <1>1, <2>1, <2>3 DEF Situations
<1>3. CASE step.kind \in {"wait", "charge"}
  <2>1. PICK until \in Nat, rest \in 0..Full :
              /\ s.cursor <= until
              /\ After(s, step) = [at |-> s.at, left |-> rest, cursor |-> until, low |-> s.low,
                                   seen |-> s.seen]
    BY <1>3, StandingIs
  <2>2. /\ t \in Situations /\ t.low <= t.left /\ t.low <= s.low
        /\ t.cursor = until /\ t.seen = s.seen
    BY <1>1, <1>2, <2>1
  <2>3. \A q \in DOMAIN s.seen : s.seen[q].end <= until
    <3>1. ASSUME NEW q \in DOMAIN s.seen PROVE s.seen[q].end \in Nat
      <4>1. s.seen[q] \in Visits
        BY <1>1, <3>1
      <4>2. QED BY <4>1 DEF Visits
    <3>2. QED BY <1>1, <2>1, <3>1
  <2>4. Len(s.seen) \in Nat
    BY <1>1
  <2>5. QED BY <1>3, <2>1, <2>2, <2>3, <2>4
<1>4. CASE step.kind \in {"move", "pick"}
  <2>1. PICK until \in Nat, rest \in 0..Full :
              /\ s.cursor <= until
              /\ After(s, step) = [at |-> step.to, left |-> rest, cursor |-> until, low |-> s.low,
                                   seen |-> s.seen \o Added(s, step, until)]
    BY <1>4, TravelIs
  <2>2. PICK n : n = Gap(s.at, step.to) + 1 /\ n \in Nat
    <3>1. Gap(s.at, step.to) \in Nat
      BY <1>1, LegOnGrid
    <3>2. QED BY <3>1
  <2>3. PICK add : add = Added(s, step, until)
    OBVIOUS
  <2>4. /\ add \in Seq(Visits) /\ Len(add) = n
        /\ \A m \in 1..n : add[m] = [cell |-> Trace(s.at, step.to)[m], start |-> s.cursor, end |-> until]
    <3>1. \A m \in 1..n : Trace(s.at, step.to)[m] \in 0..Track
      BY <1>1, <2>2, LegOnGrid
    <3>2. add = [m \in 1..n |-> [cell |-> Trace(s.at, step.to)[m], start |-> s.cursor, end |-> until]]
      BY <2>2, <2>3, Zenon DEF Added
    <3>3. \A m \in 1..n : [cell |-> Trace(s.at, step.to)[m], start |-> s.cursor, end |-> until] \in Visits
      BY <1>1, <3>1 DEF Visits
    <3>4. add \in [1..n -> Visits]
      BY <3>2, <3>3
    <3>5. add \in Seq(Visits) /\ Len(add) = n
      BY <2>2, <3>4
    <3>6. QED BY <3>2, <3>5
  <2>5. PICK new : new = s.seen \o add
    OBVIOUS
  <2>6. /\ new \in Seq(Visits) /\ Len(new) = Len(s.seen) + n /\ Len(s.seen) \in Nat
        /\ \A q \in 1..Len(s.seen) : new[q] = s.seen[q]
        /\ \A m \in 1..n : new[Len(s.seen) + m] = add[m]
    <3>1. PICK old : old = s.seen
      OBVIOUS
    <3>2. old \in Seq(Visits) /\ new = old \o add
      BY <1>1, <2>5, <3>1
    <3>3. /\ new \in Seq(Visits) /\ Len(new) = Len(old) + Len(add) /\ Len(old) \in Nat
          /\ \A q \in 1..Len(old) : new[q] = old[q]
          /\ \A m \in 1..Len(add) : new[Len(old) + m] = add[m]
      <4>1. add \in Seq(Visits)
        BY <2>4
      <4>2. QED BY <3>2, <4>1, Joined
    <3>4. QED BY <2>4, <3>1, <3>3
  <2>7. /\ t \in Situations /\ t.low <= t.left /\ t.low <= s.low
        /\ t.at = step.to /\ t.cursor = until /\ t.seen = new
    <3>1. After(s, step) = [at |-> step.to, left |-> rest, cursor |-> until, low |-> s.low, seen |-> new]
      BY <2>1, <2>3, <2>5, Zenon
    <3>2. QED BY <1>1, <1>2, <2>6, <3>1
  <2>8. ASSUME NEW q \in 1..Len(new) PROVE new[q].end <= until
    <3>1. CASE q <= Len(s.seen)
      <4>1. q \in 1..Len(s.seen) /\ s.seen[q] \in Visits /\ q \in DOMAIN s.seen
        BY <1>1, <2>6, <3>1
      <4>2. s.seen[q].end \in Nat
        BY <4>1 DEF Visits
      <4>3. s.seen[q].end <= s.cursor
        BY <4>1
      <4>4. new[q] = s.seen[q]
        BY <2>6, <4>1
      <4>5. PICK x : x = new[q].end
        OBVIOUS
      <4>6. x \in Nat /\ x <= s.cursor
        BY <4>2, <4>3, <4>4, <4>5
      <4>7. QED BY <1>1, <2>1, <4>5, <4>6
    <3>2. CASE ~(q <= Len(s.seen))
      <4>1. q - Len(s.seen) \in 1..n /\ q = Len(s.seen) + (q - Len(s.seen))
        BY <2>2, <2>6, <3>2
      <4>2. new[q] = add[q - Len(s.seen)]
        BY <2>6, <4>1
      <4>3. add[q - Len(s.seen)].end = until
        BY <2>4, <4>1
      <4>4. QED BY <4>2, <4>3
    <3>3. QED BY <3>1, <3>2
  <2>9. ASSUME NEW m \in 1..n
        PROVE  \E q \in 1..Len(new) :
                  new[q] = [cell |-> Trace(s.at, step.to)[m], start |-> s.cursor, end |-> until]
    <3>1. Len(s.seen) + m \in 1..Len(new)
      BY <2>2, <2>6
    <3>2. new[Len(s.seen) + m] = [cell |-> Trace(s.at, step.to)[m], start |-> s.cursor, end |-> until]
      BY <2>4, <2>6
    <3>3. QED BY <3>1, <3>2
  <2>10. DOMAIN new = 1..Len(new) /\ Len(s.seen) <= Len(new)
    BY <2>2, <2>6
  <2>11. \A q \in DOMAIN t.seen : t.seen[q].end <= t.cursor
    BY <2>7, <2>8, <2>10
  <2>12. Len(s.seen) <= Len(t.seen) /\ \A q \in 1..Len(s.seen) : t.seen[q] = s.seen[q]
    BY <2>6, <2>7, <2>10
  <2>13. \A m \in 1..(Gap(s.at, step.to) + 1) : \E q \in 1..Len(t.seen) :
            t.seen[q] = [cell |-> Trace(s.at, step.to)[m], start |-> s.cursor, end |-> t.cursor]
    BY <2>2, <2>7, <2>9
  <2>14. QED BY <2>1, <2>7, <2>11, <2>12, <2>13
<1>5. QED BY <1>3, <1>4 DEF StepKinds

-----------------------------------------------------------------------------
(* Preflight: the whole simulation *)

Begun(from, left, since) ==
    [at |-> from, left |-> left, cursor |-> since, low |-> left, seen |-> << >>]
Lowered(s, step) == LET t == After(s, step) IN [t EXCEPT !.low = Least({@, t.left})]
IsSimulation(g, steps, from, left, since) ==
    g = [k \in 0..Len(steps) |-> IF k = 0 THEN Begun(from, left, since) ELSE Lowered(g[k - 1], steps[k])]

LEMMA SimulationExists ==
    ASSUME NEW steps, Len(steps) \in Nat, NEW from, NEW left, NEW since
    PROVE  \E g : IsSimulation(g, steps, from, left, since)
<1> DEFINE Value(g, k) == IF k = 0 THEN Begun(from, left, since) ELSE Lowered(g[k - 1], steps[k])
           Upto(g, n) == \A k \in 0..n : g[k] = Value(g, k)
           G == {n \in Nat : \E g : Upto(g, n)}
<1>1. 0 \in G
  <2>1. PICK g : g = [k \in 0..0 |-> Begun(from, left, since)]
    OBVIOUS
  <2>2. ASSUME NEW k \in 0..0 PROVE g[k] = Value(g, k)
    BY <2>1
  <2>3. Upto(g, 0)
    BY <2>2
  <2> HIDE DEF Upto
  <2>4. QED BY <2>3
<1>2. ASSUME NEW n \in G PROVE n + 1 \in G
  <2>1. PICK g : Upto(g, n)
    OBVIOUS
  <2>2. n \in Nat
    OBVIOUS
  <2>3. PICK h : h = [k \in 0..(n + 1) |-> IF k <= n THEN g[k] ELSE Lowered(g[n], steps[n + 1])]
    OBVIOUS
  <2>4. \A k \in 0..n : h[k] = g[k]
    BY <2>2, <2>3
  <2>5. h[n + 1] = Lowered(g[n], steps[n + 1])
    BY <2>2, <2>3
  <2>6. ASSUME NEW k \in 0..(n + 1) PROVE h[k] = Value(h, k)
    <3>1. CASE k = 0
      BY <2>1, <2>2, <2>4, <3>1
    <3>2. CASE k # 0 /\ k <= n
      <4>1. k \in 0..n /\ k - 1 \in 0..n
        BY <2>2, <3>2
      <4>2. g[k] = Lowered(g[k - 1], steps[k])
        BY <2>1, <3>2, <4>1
      <4>3. h[k] = g[k] /\ h[k - 1] = g[k - 1]
        BY <2>4, <4>1
      <4>4. QED BY <3>2, <4>2, <4>3
    <3>3. CASE k = n + 1
      <4>1. k # 0 /\ k - 1 = n /\ n \in 0..n
        BY <2>2, <3>3
      <4>2. h[n] = g[n]
        BY <2>4, <4>1
      <4>3. QED BY <2>5, <3>3, <4>1, <4>2
    <3>4. QED BY <2>2, <3>1, <3>2, <3>3
  <2>7. Upto(h, n + 1)
    BY <2>6
  <2> HIDE DEF Upto
  <2>8. QED BY <2>2, <2>7
<1>3. G = Nat
  <2>1. G \in SUBSET Nat
    OBVIOUS
  <2> HIDE DEF G
  <2>2. QED BY <1>1, <1>2, <2>1, NaturalsBySteps
<1>4. PICK g : Upto(g, Len(steps))
  <2> HIDE DEF Upto
  <2> QED BY <1>3
<1>5. PICK f : f = [k \in 0..Len(steps) |-> g[k]]
  OBVIOUS
<1>6. ASSUME NEW k \in 0..Len(steps) PROVE f[k] = Value(f, k)
  <2>1. f[k] = g[k] /\ (k # 0 => f[k - 1] = g[k - 1])
    BY <1>5
  <2>2. g[k] = Value(g, k)
    BY <1>4
  <2>3. QED BY <2>1, <2>2
<1>7. f = [k \in 0..Len(steps) |-> f[k]]
  BY <1>5
<1>8. f = [k \in 0..Len(steps) |-> Value(f, k)]
  <2> HIDE DEF Value
  <2> QED BY <1>6, <1>7
<1>9. QED BY <1>8 DEF IsSimulation

LEMMA SimulatedIs ==
    ASSUME NEW steps, Len(steps) \in Nat, NEW from, NEW left, NEW since
    PROVE  IsSimulation(Simulated(steps, from, left, since), steps, from, left, since)
<1>1. PICK f : f = CHOOSE g : IsSimulation(g, steps, from, left, since)
  OBVIOUS
<1>2. IsSimulation(f, steps, from, left, since)
  BY <1>1, SimulationExists, Zenon
<1>3. Simulated(steps, from, left, since) = f
  BY <1>1, Zenon DEF Simulated, IsSimulation, Begun, Lowered
<1>4. QED BY <1>2, <1>3, Zenon

\* A step of a trip is one.
LEMMA StepOfTrip ==
    ASSUME NEW steps \in Trips
    PROVE  Len(steps) \in Nat /\ \A k \in 1..Len(steps) : steps[k] \in StepKinds
<1>1. steps \in Seq(StepKinds)
  BY PreflightAssumption DEF StepKinds
<1>2. QED BY <1>1

\* What follows one situation is a situation.
LEMMA NextSituation ==
    ASSUME NEW s \in Situations, NEW step \in StepKinds
    PROVE  Lowered(s, step) = Stepped(s, step)
<1>1. PICK t : t = After(s, step)
  OBVIOUS
<1>2. t.low = s.low /\ t.left \in 0..Full
  <2>1. CASE step.kind \in {"move", "pick"}
    BY <1>1, <2>1, TravelIs
  <2>2. CASE step.kind \in {"wait", "charge"}
    BY <1>1, <2>2, StandingIs
  <2>3. QED BY <2>1, <2>2 DEF StepKinds
<1>3. Least({t.low, t.left}) = IF s.low <= t.left THEN s.low ELSE t.left
  BY <1>2, LeastOfTwo DEF Situations
<1>4. Lowered(s, step) = [t EXCEPT !.low = Least({t.low, t.left})]
  BY <1>1 DEF Lowered
<1>5. Stepped(s, step) = [t EXCEPT !.low = IF s.low <= t.left THEN s.low ELSE t.left]
  BY <1>1 DEF Stepped
<1>6. QED BY <1>3, <1>4, <1>5, Zenon

LEMMA SimulationFollows ==
    ASSUME NEW steps \in Trips, NEW from \in 0..Track, NEW left \in 0..Full, NEW since \in Nat,
           NEW sim, sim = Simulated(steps, from, left, since)
    PROVE  Follows(steps, sim) /\ sim[0].cursor = since /\ sim \in Routes
<1>1. Len(steps) \in Nat /\ \A k \in 1..Len(steps) : steps[k] \in StepKinds
  BY StepOfTrip
<1>2. sim = [k \in 0..Len(steps) |-> IF k = 0 THEN Begun(from, left, since) ELSE Lowered(sim[k - 1], steps[k])]
  BY <1>1, SimulatedIs DEF IsSimulation
<1>3. DOMAIN sim = 0..Len(steps) /\ sim[0] = Begun(from, left, since)
  BY <1>1, <1>2
<1>4. ASSUME NEW k \in 1..Len(steps) PROVE sim[k] = Lowered(sim[k - 1], steps[k])
  BY <1>1, <1>2
<1> DEFINE Sound(k) == /\ sim[k] \in Situations /\ sim[k].low <= sim[k].left
                       /\ \A q \in DOMAIN sim[k].seen : sim[k].seen[q].end <= sim[k].cursor
           G == {n \in Nat : n <= Len(steps) => Sound(n)}
<1>5. 0 \in G
  <2>1. PICK s : s = Begun(from, left, since)
    OBVIOUS
  <2>2. s.at = from /\ s.left = left /\ s.cursor = since /\ s.low = left /\ s.seen = << >>
    BY <2>1 DEF Begun
  <2>3. << >> \in Seq(Visits) /\ left \in Int
    OBVIOUS
  <2>4. s \in Situations
    BY <2>1, <2>3 DEF Begun, Situations
  <2>5. Sound(0)
    BY <1>3, <2>1, <2>2, <2>3, <2>4
  <2> HIDE DEF Sound
  <2>6. QED BY <2>5
<1>6. ASSUME NEW n \in G PROVE n + 1 \in G
  <2>1. SUFFICES ASSUME n + 1 <= Len(steps) PROVE Sound(n + 1)
    <3> HIDE DEF Sound
    <3> QED OBVIOUS
  <2>2. n \in Nat /\ Sound(n) /\ n + 1 \in 1..Len(steps) /\ (n + 1) - 1 = n
    <3> HIDE DEF Sound
    <3> QED BY <1>1, <2>1
  <2>3. PICK s, step, t : s = sim[n] /\ step = steps[n + 1] /\ t = sim[n + 1]
    OBVIOUS
  <2>4. /\ s \in Situations /\ s.low <= s.left /\ \A q \in DOMAIN s.seen : s.seen[q].end <= s.cursor
        /\ step \in StepKinds
    BY <1>1, <2>2, <2>3
  <2>5. t = Stepped(s, step)
    <3>1. t = Lowered(s, step)
      BY <1>4, <2>2, <2>3
    <3>2. QED BY <2>4, <3>1, NextSituation
  <2>6. /\ t \in Situations /\ t.low <= t.left
        /\ \A q \in DOMAIN t.seen : t.seen[q].end <= t.cursor
    BY <2>4, <2>5, SteppedIs
  <2>7. QED BY <2>3, <2>6
<1>7. G = Nat
  <2>1. G \in SUBSET Nat
    OBVIOUS
  <2> HIDE DEF G
  <2>2. QED BY <1>5, <1>6, <2>1, NaturalsBySteps
<1>8. \A k \in 0..Len(steps) : Sound(k)
  <2> HIDE DEF Sound
  <2> QED BY <1>1, <1>7
<1>9. \A k \in 1..Len(steps) : sim[k] = Stepped(sim[k - 1], steps[k])
  <2> TAKE k \in 1..Len(steps)
  <2>1. k - 1 \in 0..Len(steps)
    BY <1>1
  <2>2. sim[k - 1] \in Situations /\ steps[k] \in StepKinds
    BY <1>1, <1>8, <2>1
  <2>3. QED BY <1>4, <2>2, NextSituation
<1>10. Follows(steps, sim)
  BY <1>3, <1>8, <1>9 DEF Follows
<1>11. sim[0].cursor = since
  BY <1>3 DEF Begun
<1>12. sim \in Routes
  <2>1. sim \in [0..Len(steps) -> Situations]
    BY <1>2, <1>3, <1>8
  <2>2. QED BY <1>1, <2>1 DEF Routes
<1>13. QED BY <1>10, <1>11, <1>12

\* The clock and the trace of a simulation only grow, its low water only falls.
LEMMA SituationsInOrder ==
    ASSUME NEW steps \in Trips, NEW sim, Follows(steps, sim), NEW k \in 0..Len(steps),
           NEW n \in 0..Len(steps), k <= n
    PROVE  /\ sim[k].cursor <= sim[n].cursor /\ sim[n].low <= sim[k].left
           /\ Len(sim[k].seen) <= Len(sim[n].seen)
           /\ \A q \in 1..Len(sim[k].seen) : sim[n].seen[q] = sim[k].seen[q]
<1>1. Len(steps) \in Nat /\ \A j \in 1..Len(steps) : steps[j] \in StepKinds
  BY StepOfTrip
<1>2. ASSUME NEW j \in 0..Len(steps)
      PROVE  /\ sim[j] \in Situations /\ sim[j].low <= sim[j].left
             /\ \A q \in DOMAIN sim[j].seen : sim[j].seen[q].end <= sim[j].cursor
             /\ sim[j].cursor \in Nat /\ sim[j].low \in Int /\ sim[j].left \in Int
             /\ Len(sim[j].seen) \in Nat
  <2>1. sim[j] \in Situations /\ sim[j].low <= sim[j].left
    BY DEF Follows
  <2>2. \A q \in DOMAIN sim[j].seen : sim[j].seen[q].end <= sim[j].cursor
    BY DEF Follows
  <2>3. /\ sim[j].cursor \in Nat /\ sim[j].low \in Int /\ sim[j].left \in 0..Full
        /\ sim[j].seen \in Seq(Visits)
    BY <2>1 DEF Situations
  <2>4. QED BY <2>1, <2>2, <2>3
<1> DEFINE Grown(m) == /\ sim[k].cursor <= sim[m].cursor /\ sim[m].low <= sim[k].left
                       /\ Len(sim[k].seen) <= Len(sim[m].seen)
                       /\ \A q \in 1..Len(sim[k].seen) : sim[m].seen[q] = sim[k].seen[q]
           G == {d \in Nat : k + d <= Len(steps) => Grown(k + d)}
<1>3. 0 \in G
  <2>1. k + 0 = k
    OBVIOUS
  <2>2. Grown(k)
    BY <1>2
  <2> HIDE DEF Grown
  <2>3. QED BY <2>1, <2>2
<1>4. ASSUME NEW d \in G PROVE d + 1 \in G
  <2>1. SUFFICES ASSUME k + (d + 1) <= Len(steps) PROVE Grown(k + (d + 1))
    <3> HIDE DEF Grown
    <3> QED OBVIOUS
  <2>2. PICK m : m = k + d
    OBVIOUS
  <2>3. k + (d + 1) = m + 1 /\ m \in 0..Len(steps) /\ m + 1 \in 1..Len(steps) /\ (m + 1) - 1 = m
        /\ m + 1 \in 0..Len(steps)
    BY <1>1, <2>1, <2>2
  <2>4. Grown(m)
    <3>1. k + d <= Len(steps)
      BY <2>2, <2>3
    <3> HIDE DEF Grown
    <3>2. QED BY <2>2, <3>1
  <2>5. PICK s, step, t : s = sim[m] /\ step = steps[m + 1] /\ t = sim[m + 1]
    OBVIOUS
  <2>6. /\ s \in Situations /\ s.low <= s.left /\ \A q \in DOMAIN s.seen : s.seen[q].end <= s.cursor
        /\ step \in StepKinds
    BY <1>1, <1>2, <2>3, <2>5
  <2>7. t = Stepped(s, step)
    BY <2>3, <2>5 DEF Follows
  <2>8. /\ t.low <= s.low /\ s.cursor <= t.cursor /\ Len(s.seen) <= Len(t.seen)
        /\ \A q \in 1..Len(s.seen) : t.seen[q] = s.seen[q]
    BY <2>6, <2>7, SteppedIs
  <2>9. /\ t.low \in Int /\ t.cursor \in Nat /\ Len(t.seen) \in Nat
        /\ s.low \in Int /\ s.cursor \in Nat /\ Len(s.seen) \in Nat
    BY <1>2, <2>3, <2>5
  <2>10. PICK r : r = sim[k]
    OBVIOUS
  <2>11. r.cursor \in Nat /\ r.left \in Int /\ Len(r.seen) \in Nat
    BY <1>2, <2>10
  <2>12. /\ r.cursor <= s.cursor /\ s.low <= r.left /\ Len(r.seen) <= Len(s.seen)
         /\ \A q \in 1..Len(r.seen) : s.seen[q] = r.seen[q]
    BY <2>4, <2>5, <2>10
  <2>13. r.cursor <= t.cursor /\ t.low <= r.left /\ Len(r.seen) <= Len(t.seen)
    <3>1. r.cursor <= t.cursor
      <4>1. r.cursor <= s.cursor /\ s.cursor <= t.cursor
        BY <2>8, <2>12
      <4>2. QED BY <2>9, <2>11, <4>1
    <3>2. t.low <= r.left
      <4>1. t.low <= s.low /\ s.low <= r.left
        BY <2>8, <2>12
      <4>2. PICK x, y, z : x = t.low /\ y = s.low /\ z = r.left
        OBVIOUS
      <4>3. x \in Int /\ y \in Int /\ z \in Int /\ x <= y /\ y <= z
        BY <2>9, <2>11, <4>1, <4>2
      <4>4. QED BY <4>2, <4>3
    <3>3. Len(r.seen) <= Len(t.seen)
      <4>1. Len(r.seen) <= Len(s.seen) /\ Len(s.seen) <= Len(t.seen)
        BY <2>8, <2>12
      <4>2. QED BY <2>9, <2>11, <4>1
    <3>4. QED BY <3>1, <3>2, <3>3
  <2>14. ASSUME NEW q \in 1..Len(r.seen) PROVE t.seen[q] = r.seen[q]
    <3>1. q \in 1..Len(s.seen)
      BY <2>9, <2>11, <2>12
    <3>2. QED BY <2>8, <2>12, <3>1
  <2>15. QED BY <2>3, <2>5, <2>10, <2>13, <2>14
<1>5. G = Nat
  <2>1. G \in SUBSET Nat
    OBVIOUS
  <2> HIDE DEF G
  <2>2. QED BY <1>3, <1>4, <2>1, NaturalsBySteps
<1>6. n - k \in Nat /\ k + (n - k) = n /\ n <= Len(steps)
  BY <1>1
<1>7. Grown(n)
  <2> HIDE DEF Grown
  <2> QED BY <1>5, <1>6
<1>8. QED BY <1>7

\* The step a vehicle is at, before its mission has ended.
LEMMA StepNowIs ==
    ASSUME TwinInv, NEW v \in Owners, Underway(v), NEW n, n = StepNow(v)
    PROVE  /\ n \in 1..Len(plan[v].steps) /\ n - 1 \in 0..Len(plan[v].steps)
           /\ plan[v].sim[n - 1].cursor <= moment /\ moment < plan[v].sim[n].cursor
<1>1. plan[v] # NoPlan /\ ~Ended(plan[v]) /\ plan[v] \in Plans /\ moment \in Nat
  BY DEF Underway, TwinInv, TwinTypeOK
<1>2. PICK steps, sim : steps = plan[v].steps /\ sim = plan[v].sim
  OBVIOUS
<1>3. steps \in Trips /\ Follows(steps, sim) /\ sim[0].cursor <= moment
  BY <1>1, <1>2 DEF Plans, TwinInv, RouteInv
<1>4. Len(steps) \in Nat /\ DOMAIN steps = 1..Len(steps)
  <2>1. steps \in Seq(StepKinds)
    BY <1>3, PreflightAssumption DEF StepKinds
  <2>2. QED BY <2>1
<1>5. \A k \in 0..Len(steps) : sim[k].cursor \in Nat
  BY <1>3 DEF Follows, Situations
<1>6. moment < sim[Len(steps)].cursor
  <2>1. ~(sim[Len(steps)].cursor <= moment)
    BY <1>1, <1>2 DEF Ended
  <2>2. Len(steps) \in 0..Len(steps)
    BY <1>4
  <2>3. QED BY <1>1, <1>5, <2>1, <2>2
<1>7. PICK S : S = {k \in DOMAIN steps : moment < sim[k].cursor}
  OBVIOUS
<1>8. S \in SUBSET Nat /\ S # {}
  <2>1. Len(steps) # 0
    BY <1>1, <1>3, <1>4, <1>5, <1>6
  <2>2. Len(steps) \in S
    BY <1>4, <1>6, <1>7, <2>1
  <2>3. QED BY <1>4, <1>7, <2>2
<1>9. n = Least(S)
  BY <1>2, <1>7 DEF StepNow
<1>10. n \in S /\ \A k \in S : n <= k
  BY <1>8, <1>9, LeastOfNaturals
<1>11. n \in 1..Len(steps) /\ moment < sim[n].cursor /\ n - 1 \in 0..Len(steps)
  BY <1>4, <1>7, <1>10
<1>12. sim[n - 1].cursor <= moment
  <2>1. CASE n - 1 = 0
    BY <1>3, <2>1
  <2>2. CASE n - 1 # 0
    <3>1. n - 1 \in DOMAIN steps /\ ~(n <= n - 1)
      BY <1>4, <1>11, <2>2
    <3>2. n - 1 \notin S
      BY <1>10, <3>1
    <3>3. QED BY <1>1, <1>5, <1>7, <1>11, <3>1, <3>2
  <2>3. QED BY <2>1, <2>2
<1>13. QED BY <1>2, <1>11, <1>12

\* A vehicle that crosses a cell is inside a window of its trace for it.
LEMMA CellIsVisited ==
    ASSUME TwinInv, NEW v \in Owners, Underway(v), Crossing(v)
    PROVE  LET trail == plan[v].sim[Len(plan[v].steps)].seen
           IN \E q \in 1..Len(trail) :
                 trail[q].cell = CellNow(v) /\ trail[q].start <= moment /\ moment < trail[q].end
<1>1. plan[v] # NoPlan /\ plan[v] \in Plans /\ moment \in Nat
  BY DEF Underway, TwinInv, TwinTypeOK
<1>2. PICK steps, sim : steps = plan[v].steps /\ sim = plan[v].sim
  OBVIOUS
<1>3. steps \in Trips /\ Follows(steps, sim)
  BY <1>1, <1>2 DEF Plans, TwinInv, RouteInv
<1>4. PICK n : n = StepNow(v)
  OBVIOUS
<1>5. /\ n \in 1..Len(steps) /\ n - 1 \in 0..Len(steps) /\ n \in 0..Len(steps)
      /\ sim[n - 1].cursor <= moment /\ moment < sim[n].cursor /\ Len(steps) \in Nat
      /\ Len(steps) \in 0..Len(steps) /\ n <= Len(steps)
  <2>1. /\ n \in 1..Len(steps) /\ n - 1 \in 0..Len(steps)
        /\ sim[n - 1].cursor <= moment /\ moment < sim[n].cursor
    BY <1>2, <1>4, StepNowIs
  <2>2. Len(steps) \in Nat
    BY <1>3, StepOfTrip
  <2>3. QED BY <2>1, <2>2
<1>6. PICK s, step, t : s = sim[n - 1] /\ step = steps[n] /\ t = sim[n]
  OBVIOUS
<1>7. /\ s \in Situations /\ s.low <= s.left /\ \A q \in DOMAIN s.seen : s.seen[q].end <= s.cursor
      /\ t = Stepped(s, step) /\ t \in Situations
  BY <1>3, <1>5, <1>6 DEF Follows
<1>8. step \in StepKinds
  BY <1>3, <1>5, <1>6, StepOfTrip
<1>9. step.kind \in {"move", "pick"}
  BY <1>2, <1>4, <1>6 DEF Crossing
<1>10. /\ t.at = step.to
       /\ \A m \in 1..(Gap(s.at, step.to) + 1) : \E q \in 1..Len(t.seen) :
             t.seen[q] = [cell |-> Trace(s.at, step.to)[m], start |-> s.cursor, end |-> t.cursor]
  BY <1>7, <1>8, <1>9, SteppedIs
<1>11. s.at \in 0..Track /\ step.to \in 0..Track /\ s.cursor \in Nat /\ t.cursor \in Nat
  BY <1>7, <1>8 DEF Situations, StepKinds
<1>12. Gap(s.at, step.to) \in Nat /\ Len(Trace(s.at, step.to)) = Gap(s.at, step.to) + 1
  BY <1>11, LegOnGrid
<1>13. PICK m : m = Least({moment - s.cursor + 1, Len(Trace(s.at, t.at))})
  OBVIOUS
<1>14. m \in 1..(Gap(s.at, step.to) + 1)
  <2>1. PICK past, whole : past = moment - s.cursor + 1 /\ whole = Len(Trace(s.at, t.at))
    OBVIOUS
  <2>2. past \in Int /\ past >= 1
    <3>1. s.cursor \in Nat /\ s.cursor <= moment /\ moment \in Nat
      BY <1>1, <1>5, <1>6, <1>11
    <3>2. QED BY <2>1, <3>1
  <2>3. whole \in Int /\ whole >= 1 /\ whole = Gap(s.at, step.to) + 1
    BY <1>10, <1>12, <2>1
  <2>4. m = IF past <= whole THEN past ELSE whole
    BY <1>13, <2>1, <2>2, <2>3, LeastOfTwo
  <2>5. QED BY <1>12, <2>2, <2>3, <2>4
<1>15. CellNow(v) = Trace(s.at, t.at)[m]
  BY <1>2, <1>4, <1>6, <1>13, Zenon DEF CellNow
<1>16. PICK q \in 1..Len(t.seen) :
          t.seen[q] = [cell |-> Trace(s.at, step.to)[m], start |-> s.cursor, end |-> t.cursor]
  BY <1>10, <1>14
<1>17. PICK trail : trail = sim[Len(steps)].seen
  OBVIOUS
<1>18. q \in 1..Len(trail) /\ trail[q] = t.seen[q]
  <2>1. Len(t.seen) <= Len(trail) /\ \A p \in 1..Len(t.seen) : trail[p] = t.seen[p]
    BY <1>3, <1>5, <1>6, <1>17, SituationsInOrder
  <2>2. sim[Len(steps)] \in Situations
    BY <1>3, <1>5 DEF Follows
  <2>3. Len(trail) \in Nat /\ Len(t.seen) \in Nat
    <3>1. trail \in Seq(Visits) /\ t.seen \in Seq(Visits)
      BY <1>7, <1>17, <2>2 DEF Situations
    <3>2. QED BY <3>1
  <2>4. QED BY <2>1, <2>3
<1>19. /\ trail[q].cell = CellNow(v) /\ trail[q].start = s.cursor /\ trail[q].end = t.cursor
  BY <1>10, <1>15, <1>16, <1>18
<1>20. trail[q].cell = CellNow(v) /\ trail[q].start <= moment /\ moment < trail[q].end
  BY <1>5, <1>6, <1>19
<1>21. QED BY <1>2, <1>17, <1>18, <1>20

-----------------------------------------------------------------------------
(* Preflight: what is reserved covers the trip *)

\* The window of a cell covers each of its visits.
LEMMA MergedIs ==
    ASSUME NEW trail \in Seq(Visits), NEW top \in Nat, \A q \in DOMAIN trail : trail[q].end <= top
    PROVE  /\ \A w \in Merged(trail) : w \in Spans /\ w.end <= top /\ w.cell \in Visited(trail)
           /\ \A q \in 1..Len(trail) : trail[q].start < trail[q].end =>
                 \E w \in Merged(trail) :
                    w.cell = trail[q].cell /\ w.start <= trail[q].start /\ trail[q].end <= w.end
<1> DEFINE All(c) == {k \in DOMAIN trail : trail[k].cell = c /\ trail[k].end > trail[k].start}
           Starts(c) == {trail[k].start : k \in All(c)}
           Ends(c) == {trail[k].end : k \in All(c)}
           Window(c) == [cell |-> c, start |-> Least(Starts(c)), end |-> Most(Ends(c))]
<1>1. \A q \in DOMAIN trail :
         trail[q] \in Visits /\ trail[q].cell \in 0..Track /\ trail[q].start \in Nat /\ trail[q].end \in Nat
  <2> TAKE q \in DOMAIN trail
  <2>1. trail[q] \in Visits
    OBVIOUS
  <2>2. QED BY <2>1 DEF Visits
<1>2. Merged(trail) = {Window(c) : c \in Visited(trail)}
  BY Zenon DEF Merged
<1>3. ASSUME NEW k \in DOMAIN trail, trail[k].end > trail[k].start
      PROVE  trail[k].cell \in Visited(trail)
  BY <1>3 DEF Visited
<1>4. ASSUME NEW c \in Visited(trail)
      PROVE  /\ c \in 0..Track /\ Least(Starts(c)) \in Nat /\ Most(Ends(c)) \in Nat /\ Most(Ends(c)) <= top
             /\ \A k \in All(c) : Least(Starts(c)) <= trail[k].start /\ trail[k].end <= Most(Ends(c))
  <2>1. PICK j \in DOMAIN trail : trail[j].end > trail[j].start /\ trail[j].cell = c
    BY DEF Visited
  <2>2. c \in 0..Track /\ j \in All(c)
    BY <1>1, <2>1
  <2>3. Starts(c) \in SUBSET Nat /\ Ends(c) \in SUBSET Nat /\ trail[j].start \in Starts(c) /\ trail[j].end \in Ends(c)
    BY <1>1, <2>2
  <2>4. \A k \in All(c) : trail[k].start \in Starts(c) /\ trail[k].end \in Ends(c)
    OBVIOUS
  <2>5. \A x \in Ends(c) : x <= top
    BY <1>1
  <2> HIDE DEF Starts, Ends
  <2>6. Least(Starts(c)) \in Starts(c) /\ \A x \in Starts(c) : Least(Starts(c)) <= x
    BY <2>3, LeastOfNaturals
  <2>7. Most(Ends(c)) \in Ends(c) /\ \A x \in Ends(c) : x <= Most(Ends(c))
    BY <2>3, <2>5, MostOfNaturals
  <2>8. Least(Starts(c)) \in Nat /\ Most(Ends(c)) \in Nat /\ Most(Ends(c)) <= top
    BY <2>3, <2>5, <2>6, <2>7
  <2> HIDE DEF All
  <2>9. QED BY <2>2, <2>4, <2>6, <2>7, <2>8
<1>5. ASSUME NEW w \in Merged(trail) PROVE w \in Spans /\ w.end <= top /\ w.cell \in Visited(trail)
  <2>1. PICK c \in Visited(trail) : w = Window(c)
    <3> HIDE DEF Window
    <3> QED BY <1>2
  <2> HIDE DEF Starts, Ends
  <2>2. c \in 0..Track /\ Least(Starts(c)) \in Nat /\ Most(Ends(c)) \in Nat /\ Most(Ends(c)) <= top
    BY <1>4
  <2>3. w.cell = c /\ w.start = Least(Starts(c)) /\ w.end = Most(Ends(c))
    BY <2>1
  <2>4. QED BY <2>1, <2>2, <2>3 DEF Spans
<1>6. ASSUME NEW q \in 1..Len(trail), trail[q].start < trail[q].end
      PROVE  \E w \in Merged(trail) :
                w.cell = trail[q].cell /\ w.start <= trail[q].start /\ trail[q].end <= w.end
  <2>1. q \in DOMAIN trail /\ trail[q].end > trail[q].start
    BY <1>1, <1>6
  <2>2. PICK c : c = trail[q].cell
    OBVIOUS
  <2>3. c \in Visited(trail) /\ q \in All(c)
    BY <1>3, <2>1, <2>2
  <2>4. PICK w : w = Window(c)
    OBVIOUS
  <2>5. w \in Merged(trail)
    <3> HIDE DEF Window
    <3> QED BY <1>2, <2>3, <2>4
  <2> HIDE DEF Starts, Ends, All
  <2>6. w.cell = c /\ w.start = Least(Starts(c)) /\ w.end = Most(Ends(c))
    BY <2>4
  <2>7. Least(Starts(c)) <= trail[q].start /\ trail[q].end <= Most(Ends(c))
    BY <1>4, <2>3
  <2>8. QED BY <2>2, <2>5, <2>6, <2>7
<1>7. QED BY <1>5, <1>6

\* A vehicle that crosses a cell of the list holds a segment of it that
\* covers now.
LEMMA CrossingIsHeld ==
    ASSUME TwinInv, NEW v \in Owners, OnRoute(v)
    PROVE  \E s \in rows[plan[v].id].segs :
              s.cell = CellNow(v) /\ s.start <= moment /\ moment < s.end /\ s.guard = 0
              /\ s.start \in Nat /\ s.end \in Nat
<1>1. /\ plan[v] # NoPlan /\ plan[v] \in Plans /\ plan[v].stage = "driving" /\ moment \in Nat
      /\ Underway(v) /\ Active(plan[v].id) /\ Crossing(v) /\ InList(v)
  BY DEF OnRoute, Underway, TwinInv, TwinTypeOK
<1>2. PICK last, trail : last = plan[v].sim[Len(plan[v].steps)] /\ trail = last.seen
  OBVIOUS
<1>3. Follows(plan[v].steps, plan[v].sim) /\ plan[v].windows = Occupancy(trail)
  BY <1>1, <1>2 DEF TwinInv, RouteInv
<1>4. Len(plan[v].steps) \in Nat /\ Len(plan[v].steps) \in 0..Len(plan[v].steps)
  <2>1. plan[v].steps \in Trips
    BY <1>1 DEF Plans
  <2>2. Len(plan[v].steps) \in Nat
    BY <2>1, StepOfTrip
  <2>3. QED BY <2>2
<1>5. last \in Situations /\ \A q \in DOMAIN last.seen : last.seen[q].end <= last.cursor
  BY <1>2, <1>3, <1>4 DEF Follows
<1>6. trail \in Seq(Visits) /\ last.cursor \in Nat /\ \A q \in DOMAIN trail : trail[q].end <= last.cursor
  BY <1>2, <1>5 DEF Situations
<1>7. PICK q \in 1..Len(trail) :
          trail[q].cell = CellNow(v) /\ trail[q].start <= moment /\ moment < trail[q].end
  BY <1>1, <1>2, CellIsVisited
<1>8. trail[q].start \in Nat /\ trail[q].end \in Nat
  <2>1. trail[q] \in Visits
    BY <1>6
  <2>2. QED BY <2>1 DEF Visits
<1>9. trail[q].start < trail[q].end
  BY <1>1, <1>7, <1>8
<1>10. PICK w \in Merged(trail) :
          w.cell = trail[q].cell /\ w.start <= trail[q].start /\ trail[q].end <= w.end
  BY <1>6, <1>9, MergedIs
<1>11. w \in Spans /\ w.cell \in Visited(trail)
  BY <1>6, MergedIs
<1>12. w \in plan[v].windows
  <2>1. Cardinality(VisitedBefore(trail, w.cell)) < MaxCells
    BY <1>1, <1>2, <1>7, <1>10 DEF InList
  <2>2. QED BY <1>3, <1>10, <2>1 DEF Occupancy
<1>13. rows[plan[v].id].segs = {SegmentOf(u) : u \in plan[v].windows}
  BY <1>1 DEF TwinInv, GrantInv
<1>14. PICK s : s = SegmentOf(w)
  OBVIOUS
<1>15. s \in rows[plan[v].id].segs
  BY <1>12, <1>13, <1>14
<1>16. s.cell = w.cell /\ s.start = w.start /\ s.end = w.end /\ s.guard = 0
  BY <1>14 DEF SegmentOf
<1>17. w.start \in Nat /\ w.end \in Nat
  BY <1>11 DEF Spans
<1>18. w.start <= moment /\ moment < w.end
  BY <1>1, <1>7, <1>8, <1>10, <1>17
<1>19. QED BY <1>7, <1>10, <1>15, <1>16, <1>17, <1>18

LEMMA RoutesKeepApart ==
    ASSUME TwinInv
    PROVE  RoutesApart
<1> SUFFICES ASSUME NEW v \in Owners, NEW u \in Owners, v # u, OnRoute(v), OnRoute(u),
                    CellNow(v) = CellNow(u)
             PROVE  FALSE
  BY DEF RoutesApart
<1>0. Underway(v) /\ Underway(u) /\ Active(plan[v].id) /\ Active(plan[u].id)
  BY DEF OnRoute
<1>1. /\ plan[v] # NoPlan /\ plan[v].stage = "driving" /\ plan[u] # NoPlan /\ plan[u].stage = "driving"
  BY <1>0 DEF Underway
<1>2. /\ plan[v].id \in Ids /\ plan[u].id \in Ids /\ plan[v].id # plan[u].id
  <2>1. \A x \in Owners : plan[x] # NoPlan /\ plan[x].stage = "driving" =>
           /\ plan[x].id \in Ids
           /\ \A y \in Owners \ {x} : plan[y] # NoPlan /\ plan[y].stage = "driving" => plan[y].id # plan[x].id
    BY DEF TwinInv, GrantInv
  <2>2. QED BY <1>1, <2>1
<1>3. PICK s \in rows[plan[v].id].segs :
          s.cell = CellNow(v) /\ s.start <= moment /\ moment < s.end /\ s.guard = 0
          /\ s.start \in Nat /\ s.end \in Nat
  BY CrossingIsHeld
<1>4. PICK t \in rows[plan[u].id].segs :
          t.cell = CellNow(u) /\ t.start <= moment /\ moment < t.end /\ t.guard = 0
          /\ t.start \in Nat /\ t.end \in Nat
  BY CrossingIsHeld
<1>5. moment \in Nat
  BY DEF TwinInv, TwinTypeOK
<1>6. Together(s, t)
  BY <1>3, <1>4, <1>5 DEF Together
<1>7. ~InConflict(s, t)
  BY <1>0, <1>2, <1>3, <1>4 DEF TwinInv, ClearInv, ClearOf
<1>8. QED BY <1>3, <1>4, <1>6, <1>7 DEF InConflict, SameSpace

LEMMA BatteryKeepsFloor ==
    ASSUME TwinInv
    PROVE  BatteryHolds
<1> SUFFICES ASSUME NEW v \in Owners, Underway(v)
             PROVE  /\ plan[v].sim[StepNow(v) - 1].left >= Floor
                    /\ plan[v].sim[StepNow(v)].left >= Floor
  BY DEF BatteryHolds
<1>1. plan[v] # NoPlan /\ plan[v] \in Plans /\ plan[v].stage = "driving"
  BY DEF Underway, TwinInv, TwinTypeOK
<1>2. PICK steps, sim : steps = plan[v].steps /\ sim = plan[v].sim
  OBVIOUS
<1>3. steps \in Trips /\ Follows(steps, sim) /\ sim[Len(steps)].low >= Floor
  BY <1>1, <1>2 DEF Plans, TwinInv, RouteInv, LowWater
<1>4. PICK n : n = StepNow(v)
  OBVIOUS
<1>5. n \in 1..Len(steps) /\ n - 1 \in 0..Len(steps)
  BY <1>2, <1>4, StepNowIs
<1>6. Len(steps) \in Nat
  BY <1>3, StepOfTrip
<1>7. ASSUME NEW k \in 0..Len(steps) PROVE sim[k].left >= Floor
  <2>1. Len(steps) \in 0..Len(steps) /\ k <= Len(steps)
    BY <1>6
  <2>2. sim[Len(steps)].low <= sim[k].left
    BY <1>3, <2>1, SituationsInOrder
  <2>3. sim[Len(steps)].low \in Int /\ sim[k].left \in Int /\ Floor \in Int
    <3>1. sim[Len(steps)] \in Situations /\ sim[k] \in Situations
      BY <1>3, <2>1 DEF Follows
    <3>2. sim[Len(steps)].low \in Int /\ sim[k].left \in 0..Full
      BY <3>1 DEF Situations
    <3>3. Floor \in Nat
      BY PreflightAssumption
    <3>4. QED BY <3>2, <3>3
  <2>4. QED BY <1>3, <2>2, <2>3
<1>8. n \in 0..Len(steps)
  BY <1>5, <1>6
<1>9. QED BY <1>2, <1>4, <1>5, <1>7, <1>8

-----------------------------------------------------------------------------
(* Preflight: the steps *)

\* A reservation of a trip: what no longer holds is swept, and what is
\* granted is clear of everything that does.
LEMMA TripRequestStep ==
    ASSUME TwinTypeOK, ClearInv, UNCHANGED moment, NEW i \in Ids, NEW v \in Owners,
           NEW segs \in SUBSET Pieces, segs # {}, NEW term \in Int,
           NEW top \in Nat, \A s \in segs : s.end <= top,
           Request(i, v, segs, term, NoRow)
    PROVE  /\ rows' \in [Ids -> Grants \cup {NoRow}]
           /\ ClearInv'
           /\ \A k \in Ids : Active(k)' => (k = i /\ Granted(i, v, segs)) \/ (Active(k) /\ rows'[k] = rows[k])
           /\ Granted(i, v, segs) => rows'[i].segs = segs /\ ~Active(i)
<1> DEFINE row == [owner |-> v, state |-> "granted", segs |-> segs,
                   lease |-> LeaseUntil(segs, term), course |-> NoRow]
<1>1. rows \in [Ids -> Grants \cup {NoRow}] /\ moment \in Nat
  BY DEF TwinTypeOK
<1>2. Swept \in [Ids -> Grants \cup {NoRow}] /\ \A k \in Ids : Swept[k] = IF Active(k) THEN rows[k] ELSE NoRow
  BY <1>1 DEF Swept
<1>3. ASSUME NEW k \in Ids, rows'[k] = Swept[k] PROVE Active(k)' => Active(k) /\ rows'[k] = rows[k]
  BY <1>2, <1>3 DEF Active
<1>4. CASE ~Granted(i, v, segs)
  <2>1. rows' = Swept
    BY <1>4 DEF Request
  <2>2. \A k \in Ids : Active(k)' => Active(k) /\ rows'[k] = rows[k]
    BY <1>3, <2>1
  <2>3. ClearInv'
    BY <2>2 DEF ClearInv
  <2>4. QED BY <1>2, <1>4, <2>1, <2>2, <2>3
<1>5. CASE Granted(i, v, segs)
  <2>1. rows' = [Swept EXCEPT ![i] = row]
    BY <1>5 DEF Request
  <2>2. row \in Grants
    <3>1. \A s \in segs : s.end + s.guard \in Int /\ s.end + s.guard <= top
      <4> TAKE s \in segs
      <4>1. s.end \in Nat /\ s.guard = 0 /\ s.end <= top
        BY DEF Pieces
      <4>2. QED BY <4>1
    <3>2. LeaseUntil(segs, term) \in Int
      <4>1. top \in Int
        OBVIOUS
      <4>2. QED BY <1>1, <3>1, <4>1, LeaseIsTime
    <3>3. QED BY <3>2 DEF Grants
  <2>3. rows' \in [Ids -> Grants \cup {NoRow}]
    BY <1>2, <2>1, <2>2
  <2>4. rows'[i] = row /\ \A k \in Ids \ {i} : rows'[k] = Swept[k]
    BY <1>2, <2>1
  <2>5. rows'[i].segs = segs
    BY <2>4
  <2>6. \A k \in Ids \ {i} : Active(k)' => Active(k) /\ rows'[k] = rows[k]
    BY <1>3, <2>4
  <2> HIDE DEF row
  <2>7. \A k \in Ids : Active(k) => ClearOf(segs, rows[k].segs) /\ ClearOf(rows[k].segs, segs)
    BY <1>5 DEF Granted, FindConflict, ClearOf, InConflict, Together, SameSpace
  <2>8. ASSUME NEW k \in Ids, NEW j \in Ids, k # j, Active(k)', Active(j)'
        PROVE  ClearOf(rows'[k].segs, rows'[j].segs)
    <3>1. CASE k = i
      BY <2>5, <2>6, <2>7, <2>8, <3>1
    <3>2. CASE j = i
      BY <2>5, <2>6, <2>7, <2>8, <3>2
    <3>3. CASE k # i /\ j # i
      BY <2>6, <2>8, <3>3 DEF ClearInv
    <3>4. QED BY <3>1, <3>2, <3>3
  <2>9. ClearInv'
    BY <2>8 DEF ClearInv, ClearOf, InConflict, Together, SameSpace
  <2>10. ~Active(i)
    BY <1>5 DEF Granted
  <2>11. QED BY <1>5, <2>3, <2>5, <2>6, <2>9, <2>10
<1>6. QED BY <1>4, <1>5

\* Steps that leave the plan of every other vehicle and the book alone.
LEMMA OneVehicleStep ==
    ASSUME TwinInv, UNCHANGED moment, NEW v \in Owners,
           plan' \in [Owners -> Plans \cup {NoPlan}],
           \A u \in Owners \ {v} : plan'[u] = plan[u],
           \A k \in Ids : Active(k)' => Active(k) /\ rows'[k] = rows[k],
           plan'[v] # NoPlan =>
              /\ Follows(plan'[v].steps, plan'[v].sim) /\ plan'[v].sim[0].cursor <= moment
              /\ plan'[v].stage # "driving"
              /\ plan'[v].stage # "blind" =>
                    /\ LowWater(plan'[v].sim, Len(plan'[v].steps)) >= Floor
                    /\ plan'[v].windows = Occupancy(plan'[v].sim[Len(plan'[v].steps)].seen)
    PROVE  (RouteInv /\ GrantInv /\ ClearInv)'
<1>1. RouteInv'
  <2>1. ASSUME NEW u \in Owners, plan'[u] # NoPlan
        PROVE  /\ Follows(plan'[u].steps, plan'[u].sim) /\ plan'[u].sim[0].cursor <= moment'
               /\ plan'[u].stage # "blind" =>
                    /\ LowWater(plan'[u].sim, Len(plan'[u].steps)) >= Floor
                    /\ plan'[u].windows = Occupancy(plan'[u].sim[Len(plan'[u].steps)].seen)
    <3>1. CASE u = v
      BY <2>1, <3>1
    <3>2. CASE u # v
      BY <2>1, <3>2 DEF TwinInv, RouteInv
    <3>3. QED BY <3>1, <3>2
  <2>2. QED BY <2>1 DEF RouteInv
<1>2. GrantInv'
  <2>1. ASSUME NEW u \in Owners, plan'[u] # NoPlan, plan'[u].stage = "driving"
        PROVE  /\ plan'[u].id \in Ids
               /\ Active(plan[u].id)' => rows'[plan'[u].id].segs = {SegmentOf(w) : w \in plan'[u].windows}
               /\ \A x \in Owners \ {u} :
                     plan'[x] # NoPlan /\ plan'[x].stage = "driving" => plan'[x].id # plan'[u].id
    <3>1. u # v /\ plan'[u] = plan[u]
      BY <2>1
    <3>2. /\ plan[u].id \in Ids
          /\ Active(plan[u].id) => rows[plan[u].id].segs = {SegmentOf(w) : w \in plan[u].windows}
          /\ \A x \in Owners \ {u} : plan[x] # NoPlan /\ plan[x].stage = "driving" => plan[x].id # plan[u].id
      BY <2>1, <3>1 DEF TwinInv, GrantInv
    <3>3. Active(plan[u].id)' => rows'[plan'[u].id].segs = {SegmentOf(w) : w \in plan'[u].windows}
      <4>1. PICK k : k = plan[u].id /\ k = plan'[u].id /\ k \in Ids
        BY <3>1, <3>2
      <4>2. Active(plan[u].id)' => Active(k)'
        BY <4>1 DEF Active
      <4>3. Active(k)' => Active(k) /\ rows'[k] = rows[k]
        BY <4>1
      <4>4. QED BY <3>1, <3>2, <4>1, <4>2, <4>3
    <3>4. ASSUME NEW x \in Owners \ {u}, plan'[x] # NoPlan, plan'[x].stage = "driving"
          PROVE  plan'[x].id # plan'[u].id
      <4>1. x # v /\ plan'[x] = plan[x]
        BY <3>4
      <4>2. QED BY <3>1, <3>2, <3>4, <4>1
    <3>5. QED BY <3>1, <3>2, <3>3, <3>4
  <2>2. QED BY <2>1 DEF GrantInv
<1>3. ClearInv'
  BY DEF TwinInv, ClearInv
<1>4. QED BY <1>1, <1>2, <1>3

\* A preflight: the new plan is the simulation's.
LEMMA PreflightStep ==
    ASSUME TwinInv, NEW v \in Owners, NEW steps \in Trips, RunPreflight(v, steps)
    PROVE  TwinInv'
<1>1. /\ moment \in Nat /\ plan \in [Owners -> Plans \cup {NoPlan}]
      /\ stands[v] \in 0..Track /\ battery[v] \in 0..Full
  BY DEF TwinInv, TwinTypeOK
<1>2. /\ UNCHANGED <<moment, rows, skew, stands, battery, streak, trusted>>
  BY DEF RunPreflight, bookVars
<1>3. PICK sim : sim = Simulated(steps, stands[v], battery[v], moment)
  OBVIOUS
<1>4. Follows(steps, sim) /\ sim[0].cursor = moment /\ sim \in Routes
  BY <1>1, <1>3, SimulationFollows
<1>5. Len(steps) \in Nat /\ Len(steps) \in 0..Len(steps)
  <2>1. Len(steps) \in Nat
    BY StepOfTrip
  <2>2. QED BY <2>1
<1>6. PICK trail : trail = sim[Len(steps)].seen
  OBVIOUS
<1>7. Occupancy(trail) \in SUBSET Spans
  <2>1. sim[Len(steps)] \in Situations
        /\ \A q \in DOMAIN sim[Len(steps)].seen : sim[Len(steps)].seen[q].end <= sim[Len(steps)].cursor
    BY <1>4, <1>5 DEF Follows
  <2>2. PICK top : top = sim[Len(steps)].cursor
    OBVIOUS
  <2>3. trail \in Seq(Visits) /\ top \in Nat /\ \A q \in DOMAIN trail : trail[q].end <= top
    BY <1>6, <2>1, <2>2 DEF Situations
  <2>4. \A w \in Merged(trail) : w \in Spans
    BY <2>3, MergedIs
  <2>5. Occupancy(trail) \subseteq Merged(trail)
    BY DEF Occupancy
  <2>6. QED BY <2>4, <2>5
<1>8. PICK stage, windows :
         /\ plan' = [plan EXCEPT ![v] = [stage |-> stage, id |-> NoRow, windows |-> windows,
                                         sim |-> sim, steps |-> steps]]
         /\ \/ stage = "checked" /\ windows = Occupancy(trail) /\ Feasible(sim, Len(steps))
            \/ stage = "blind" /\ windows = {}
  <2>1. CASE /\ trusted[v] /\ Feasible(sim, Len(steps))
             /\ plan' = [plan EXCEPT ![v] =
                           Dispatched(v, steps, "checked", Occupancy(sim[Len(steps)].seen))]
    <3>1. plan' = [plan EXCEPT ![v] = [stage |-> "checked", id |-> NoRow, windows |-> Occupancy(trail),
                                       sim |-> sim, steps |-> steps]]
      BY <1>3, <1>6, <2>1, Zenon DEF Dispatched
    <3>2. QED BY <2>1, <3>1
  <2>2. CASE plan' = [plan EXCEPT ![v] = Dispatched(v, steps, "blind", {})]
    <3>1. plan' = [plan EXCEPT ![v] = [stage |-> "blind", id |-> NoRow, windows |-> {},
                                       sim |-> sim, steps |-> steps]]
      BY <1>3, <2>2, Zenon DEF Dispatched
    <3>2. QED BY <3>1
  <2>3. QED BY <1>3, <2>1, <2>2, Zenon DEF RunPreflight
<1>9. PICK p : p = [stage |-> stage, id |-> NoRow, windows |-> windows, sim |-> sim, steps |-> steps]
  OBVIOUS
<1>10. plan' = [plan EXCEPT ![v] = p]
  BY <1>8, <1>9
<1>11. p \in Plans
  BY <1>4, <1>7, <1>8, <1>9 DEF Plans
<1>12. plan' \in [Owners -> Plans \cup {NoPlan}] /\ plan'[v] = p /\ \A u \in Owners \ {v} : plan'[u] = plan[u]
  BY <1>1, <1>10, <1>11
<1>13. /\ p.stage = stage /\ p.windows = windows /\ p.sim = sim /\ p.steps = steps
  BY <1>9
<1>14. \A k \in Ids : Active(k)' => Active(k) /\ rows'[k] = rows[k]
  BY <1>2 DEF Active
<1>15. (RouteInv /\ GrantInv /\ ClearInv)'
  <2>1. plan'[v].stage # "driving"
    BY <1>8, <1>12, <1>13
  <2>2. Follows(plan'[v].steps, plan'[v].sim)
    BY <1>4, <1>12, <1>13
  <2>3. plan'[v].sim[0].cursor <= moment
    BY <1>1, <1>4, <1>12, <1>13
  <2>4. plan'[v].stage # "blind" =>
           /\ LowWater(plan'[v].sim, Len(plan'[v].steps)) >= Floor
           /\ plan'[v].windows = Occupancy(plan'[v].sim[Len(plan'[v].steps)].seen)
    BY <1>6, <1>8, <1>12, <1>13 DEF Feasible
  <2>5. UNCHANGED moment
    BY <1>2
  <2>6. QED BY <1>12, <1>14, <2>1, <2>2, <2>3, <2>4, <2>5, OneVehicleStep
<1>16. TwinTypeOK'
  BY <1>2, <1>12 DEF TwinInv, TwinTypeOK
<1>17. QED BY <1>15, <1>16 DEF TwinInv

\* A reservation that is not granted fails the mission; one that is gives the
\* vehicle a row that no other plan names.
LEMMA ReserveStep ==
    ASSUME TwinInv, NEW v \in Owners, NEW i \in Ids, Reserve(v, i)
    PROVE  TwinInv'
<1> DEFINE segs == {[cell |-> w.cell, start |-> w.start, end |-> w.end, guard |-> 0, box |-> NoBox] :
                       w \in plan[v].windows}
<1>1. /\ moment \in Nat /\ plan \in [Owners -> Plans \cup {NoPlan}] /\ rows \in [Ids -> Grants \cup {NoRow}]
  BY DEF TwinInv, TwinTypeOK
<1>2. /\ plan[v] # NoPlan /\ plan[v].stage = "checked"
      /\ \A u \in Owners : plan[u] # NoPlan => plan[u].id # i
      /\ UNCHANGED <<moment, skew, stands, battery, streak, trusted>>
  BY DEF Reserve
<1>3. PICK p : p = plan[v]
  OBVIOUS
<1>4. p \in Plans /\ p # NoPlan /\ p.stage = "checked"
  BY <1>1, <1>2, <1>3
<1>5. /\ Follows(p.steps, p.sim) /\ p.sim[0].cursor <= moment
      /\ LowWater(p.sim, Len(p.steps)) >= Floor /\ p.windows = Occupancy(p.sim[Len(p.steps)].seen)
  BY <1>3, <1>4 DEF TwinInv, RouteInv
<1>6. PICK top \in Nat : \A w \in p.windows : w.end <= top
  <2>1. p.steps \in Trips
    BY <1>4 DEF Plans
  <2>2. Len(p.steps) \in Nat
    BY <2>1, StepOfTrip
  <2>3. Len(p.steps) \in 0..Len(p.steps)
    BY <2>2
  <2>4. PICK s : s = p.sim[Len(p.steps)]
    OBVIOUS
  <2>5. s \in Situations /\ \A q \in DOMAIN s.seen : s.seen[q].end <= s.cursor
    BY <1>5, <2>3, <2>4 DEF Follows
  <2>6. PICK trail, last : trail = s.seen /\ last = s.cursor
    OBVIOUS
  <2>7. trail \in Seq(Visits) /\ last \in Nat /\ \A q \in DOMAIN trail : trail[q].end <= last
    BY <2>5, <2>6 DEF Situations
  <2>8. \A w \in Merged(trail) : w.end <= last
    BY <2>7, MergedIs
  <2>9. p.windows \subseteq Merged(trail)
    BY <1>5, <2>4, <2>6 DEF Occupancy
  <2>10. QED BY <2>7, <2>8, <2>9
<1>7. segs = {SegmentOf(w) : w \in p.windows}
  BY <1>3, Zenon DEF SegmentOf
<1>8. segs \in SUBSET Pieces /\ \A s \in segs : s.end <= top
  <2>1. ASSUME NEW s \in segs PROVE s \in Pieces /\ s.end <= top
    <3>1. PICK w \in p.windows : s = SegmentOf(w)
      <4> HIDE DEF segs
      <4> QED BY <1>7, <2>1
    <3>2. w \in Spans
      BY <1>4 DEF Plans
    <3>3. w.cell \in 0..Track /\ w.start \in Nat /\ w.end \in Nat
      BY <3>2 DEF Spans
    <3>4. s.end = w.end
      BY <3>1 DEF SegmentOf
    <3>5. s \in Pieces
      BY <3>1, <3>3 DEF SegmentOf, Pieces
    <3>6. QED BY <1>6, <3>1, <3>4, <3>5
  <2> HIDE DEF segs
  <2>2. QED BY <2>1
<1>9. CASE segs = {} /\ plan' = [plan EXCEPT ![v].stage = "blind"] /\ UNCHANGED rows
  <2>1. PICK r : r = [p EXCEPT !.stage = "blind"]
    OBVIOUS
  <2>2. r \in Plans /\ r.stage = "blind" /\ r.steps = p.steps /\ r.sim = p.sim
    BY <1>4, <2>1 DEF Plans
  <2>3. plan' = [plan EXCEPT ![v] = r]
    BY <1>3, <1>9, <2>1
  <2>4. plan' \in [Owners -> Plans \cup {NoPlan}] /\ plan'[v] = r /\ \A u \in Owners \ {v} : plan'[u] = plan[u]
    BY <1>1, <2>2, <2>3
  <2>5. \A k \in Ids : Active(k)' => Active(k) /\ rows'[k] = rows[k]
    BY <1>2, <1>9 DEF Active
  <2>6. UNCHANGED moment
    BY <1>2
  <2>7. /\ Follows(plan'[v].steps, plan'[v].sim) /\ plan'[v].sim[0].cursor <= moment
        /\ plan'[v].stage = "blind"
    BY <1>5, <2>2, <2>4
  <2>8. (RouteInv /\ GrantInv /\ ClearInv)'
    BY <2>4, <2>5, <2>6, <2>7, OneVehicleStep
  <2>9. TwinTypeOK'
    BY <1>2, <1>9, <2>4 DEF TwinInv, TwinTypeOK
  <2>10. QED BY <2>8, <2>9 DEF TwinInv
<1>10. ASSUME NEW term, segs # {}, Request(i, v, segs, term, NoRow),
              term = Most({1, Least({MaxLease, Most({s.end : s \in segs}) - moment + Grace})}),
              plan' = [plan EXCEPT ![v] = IF Granted(i, v, segs)
                                          THEN [@ EXCEPT !.stage = "driving", !.id = i] ELSE NoPlan]
       PROVE  TwinInv'
  <2> HIDE DEF segs
  <2>1. term \in Int
    <3>1. PICK E : E = {s.end : s \in segs}
      OBVIOUS
    <3>2. E \in SUBSET Nat /\ E # {} /\ \A x \in E : x <= top
      <4>1. \A s \in segs : s.end \in Nat /\ s.end <= top
        BY <1>8 DEF Pieces
      <4>2. QED BY <1>10, <3>1, <4>1
    <3>3. Most(E) \in E
      BY <3>2, MostOfNaturals
    <3>4. PICK x : x = Most(E) - moment + Grace
      OBVIOUS
    <3>5. x \in Int /\ MaxLease \in Int
      <4>1. Most(E) \in Nat /\ Grace \in Nat /\ MaxLease \in Nat
        BY <3>2, <3>3, BookAssumption
      <4>2. QED BY <1>1, <3>4, <4>1
    <3>6. PICK y : y = Least({MaxLease, x})
      OBVIOUS
    <3>7. y \in Int
      BY <3>5, <3>6, LeastOfTwo
    <3>8. Most({1, y}) \in Int
      BY <3>7, MostOfTwo
    <3>9. QED BY <1>10, <3>1, <3>4, <3>6, <3>8
  <2>2. /\ rows' \in [Ids -> Grants \cup {NoRow}]
        /\ ClearInv'
        /\ \A k \in Ids : Active(k)' => (k = i /\ Granted(i, v, segs)) \/ (Active(k) /\ rows'[k] = rows[k])
        /\ Granted(i, v, segs) => rows'[i].segs = segs /\ ~Active(i)
    <3>1. TwinTypeOK /\ ClearInv /\ UNCHANGED moment
      BY <1>2 DEF TwinInv
    <3>2. QED BY <1>8, <1>10, <2>1, <3>1, TripRequestStep
  <2>3. PICK r : r = IF Granted(i, v, segs) THEN [p EXCEPT !.stage = "driving", !.id = i] ELSE NoPlan
    OBVIOUS
  <2>4. plan' = [plan EXCEPT ![v] = r]
    BY <1>3, <1>10, <2>3
  <2>5. /\ r \in Plans \cup {NoPlan}
        /\ Granted(i, v, segs) => /\ r.stage = "driving" /\ r.id = i /\ r.steps = p.steps
                                  /\ r.sim = p.sim /\ r.windows = p.windows
    <3>1. CASE Granted(i, v, segs)
      <4>1. PICK a : a = [p EXCEPT !.stage = "driving"]
        OBVIOUS
      <4>2. /\ a \in Plans /\ a.stage = "driving" /\ a.steps = p.steps /\ a.sim = p.sim
            /\ a.windows = p.windows
        BY <1>4, <4>1 DEF Plans
      <4>3. r = [a EXCEPT !.id = i]
        BY <2>3, <3>1, <4>1
      <4>4. QED BY <4>2, <4>3 DEF Plans
    <3>2. CASE ~Granted(i, v, segs)
      BY <2>3, <3>2
    <3>3. QED BY <3>1, <3>2
  <2>6. plan' \in [Owners -> Plans \cup {NoPlan}] /\ plan'[v] = r /\ \A u \in Owners \ {v} : plan'[u] = plan[u]
    BY <1>1, <2>4, <2>5
  <2>7. TwinTypeOK'
    BY <1>2, <2>2, <2>6 DEF TwinInv, TwinTypeOK
  <2>8. CASE ~Granted(i, v, segs)
    <3>1. plan'[v] = NoPlan
      BY <2>3, <2>6, <2>8
    <3>2. \A k \in Ids : Active(k)' => Active(k) /\ rows'[k] = rows[k]
      BY <2>2, <2>8
    <3>3. UNCHANGED moment
      BY <1>2
    <3>4. (RouteInv /\ GrantInv /\ ClearInv)'
      BY <2>6, <3>1, <3>2, <3>3, OneVehicleStep
    <3>5. QED BY <2>7, <3>4 DEF TwinInv
  <2>9. CASE Granted(i, v, segs)
    <3>1. RouteInv'
      <4>1. ASSUME NEW u \in Owners, plan'[u] # NoPlan
            PROVE  /\ Follows(plan'[u].steps, plan'[u].sim) /\ plan'[u].sim[0].cursor <= moment'
                   /\ plan'[u].stage # "blind" =>
                        /\ LowWater(plan'[u].sim, Len(plan'[u].steps)) >= Floor
                        /\ plan'[u].windows = Occupancy(plan'[u].sim[Len(plan'[u].steps)].seen)
        <5>1. CASE u = v
          BY <1>2, <1>5, <2>5, <2>6, <2>9, <5>1
        <5>2. CASE u # v
          <6>1. plan'[u] = plan[u] /\ moment' = moment
            BY <1>2, <2>6, <5>2
          <6>2. QED BY <4>1, <6>1 DEF TwinInv, RouteInv
        <5>3. QED BY <5>1, <5>2
      <4>2. QED BY <4>1 DEF RouteInv
    <3>2. GrantInv'
      <4>1. ASSUME NEW u \in Owners, plan'[u] # NoPlan, plan'[u].stage = "driving"
            PROVE  /\ plan'[u].id \in Ids
                   /\ Active(plan[u].id)' /\ u # v =>
                         rows'[plan'[u].id].segs = {SegmentOf(w) : w \in plan'[u].windows}
                   /\ u = v => rows'[plan'[u].id].segs = {SegmentOf(w) : w \in plan'[u].windows}
                   /\ u # v => plan'[u] = plan[u] /\ plan'[u].id # i
                   /\ u = v => plan'[u].id = i
        <5>1. CASE u = v
          BY <1>7, <2>2, <2>5, <2>6, <2>9, <5>1
        <5>2. CASE u # v
          <6>1. plan'[u] = plan[u]
            BY <2>6, <5>2
          <6>2. /\ plan[u].id \in Ids /\ plan[u].id # i
                /\ Active(plan[u].id) => rows[plan[u].id].segs = {SegmentOf(w) : w \in plan[u].windows}
            BY <1>2, <4>1, <6>1 DEF TwinInv, GrantInv
          <6>3. PICK k : k = plan[u].id
            OBVIOUS
          <6>4. PICK k2 : k2 = plan'[u].id
            OBVIOUS
          <6>5. k2 = k /\ k \in Ids /\ k # i
            BY <6>1, <6>2, <6>3, <6>4
          <6>6. Active(k)' => Active(k) /\ rows'[k] = rows[k]
            BY <2>2, <6>5
          <6>7. Active(plan[u].id)' => Active(k)'
            BY <6>4, <6>5 DEF Active
          <6>8. QED BY <5>2, <6>1, <6>2, <6>3, <6>4, <6>5, <6>6, <6>7
        <5>3. QED BY <5>1, <5>2
      <4>2. \A u, x \in Owners : u # x /\ plan'[u] # NoPlan /\ plan'[u].stage = "driving"
                                       /\ plan'[x] # NoPlan /\ plan'[x].stage = "driving"
               => plan'[x].id # plan'[u].id
        <5> SUFFICES ASSUME NEW u \in Owners, NEW x \in Owners, u # x,
                            plan'[u] # NoPlan, plan'[u].stage = "driving",
                            plan'[x] # NoPlan, plan'[x].stage = "driving"
                     PROVE  plan'[x].id # plan'[u].id
          OBVIOUS
        <5>1. CASE u = v
          BY <4>1, <5>1
        <5>2. CASE x = v
          BY <4>1, <5>2
        <5>3. CASE u # v /\ x # v
          <6>1. plan'[u] = plan[u] /\ plan'[x] = plan[x]
            BY <4>1, <5>3
          <6>2. QED BY <6>1 DEF TwinInv, GrantInv
        <5>4. QED BY <5>1, <5>2, <5>3
      <4>3. QED BY <4>1, <4>2 DEF GrantInv
    <3>3. QED BY <2>2, <2>7, <3>1, <3>2 DEF TwinInv
  <2>10. QED BY <2>8, <2>9
<1>11. QED BY <1>9, <1>10 DEF Reserve

\* The end of a mission: its row is released and the vehicle stands where the
\* simulation ended.
LEMMA FinishStep ==
    ASSUME TwinInv, NEW v \in Owners, Finish(v)
    PROVE  TwinInv'
<1>1. /\ moment \in Nat /\ plan \in [Owners -> Plans \cup {NoPlan}] /\ rows \in [Ids -> Grants \cup {NoRow}]
      /\ stands \in [Owners -> 0..Track] /\ battery \in [Owners -> 0..Full]
  BY DEF TwinInv, TwinTypeOK
<1>2. /\ plan[v] # NoPlan /\ plan[v].stage # "checked" /\ plan[v] \in Plans
      /\ plan' = [plan EXCEPT ![v] = NoPlan]
      /\ UNCHANGED <<moment, skew, streak, trusted>>
  BY <1>1 DEF Finish
<1>3. plan' \in [Owners -> Plans \cup {NoPlan}] /\ plan'[v] = NoPlan /\ \A u \in Owners \ {v} : plan'[u] = plan[u]
  BY <1>1, <1>2
<1>4. stands' \in [Owners -> 0..Track] /\ battery' \in [Owners -> 0..Full]
  <2>1. PICK s : s = plan[v].sim[Len(plan[v].steps)]
    OBVIOUS
  <2>2. s \in Situations
    <3>1. plan[v].steps \in Trips /\ Follows(plan[v].steps, plan[v].sim)
      BY <1>2 DEF Plans, TwinInv, RouteInv
    <3>2. Len(plan[v].steps) \in Nat
      BY <3>1, StepOfTrip
    <3>3. Len(plan[v].steps) \in 0..Len(plan[v].steps)
      BY <3>2
    <3>4. QED BY <2>1, <3>1, <3>3 DEF Follows
  <2>3. s.at \in 0..Track /\ s.left \in 0..Full
    BY <2>2 DEF Situations
  <2>4. stands' = [stands EXCEPT ![v] = s.at] /\ battery' = [battery EXCEPT ![v] = s.left]
    BY <2>1 DEF Finish
  <2>5. QED BY <1>1, <2>3, <2>4
<1>5. /\ rows' \in [Ids -> Grants \cup {NoRow}]
      /\ \A k \in Ids : Active(k)' => Active(k) /\ rows'[k] = rows[k]
  <2>1. CASE UNCHANGED rows
    BY <1>1, <1>2, <2>1 DEF Active
  <2>2. CASE plan[v].id # NoRow /\ Active(plan[v].id) /\ Release(plan[v].id, v)
    <3>1. PICK i : i = plan[v].id
      OBVIOUS
    <3>2. rows' = [rows EXCEPT ![i].state = "released"] /\ i \in Ids
      BY <1>2, <2>2, <3>1 DEF Release, Plans
    <3>3. rows[i] \in Grants
      BY <1>1, <2>2, <3>1, <3>2 DEF Active
    <3>4. rows'[i] \in Grants /\ rows'[i].state = "released" /\ \A k \in Ids \ {i} : rows'[k] = rows[k]
      BY <1>1, <3>2, <3>3 DEF Grants
    <3>5. \A k \in Ids : Active(k)' => k # i /\ Active(k) /\ rows'[k] = rows[k]
      BY <1>2, <3>4 DEF Active
    <3>6. rows' \in [Ids -> Grants \cup {NoRow}]
      BY <1>1, <3>2, <3>4
    <3>7. QED BY <3>5, <3>6
  <2>3. QED BY <2>1, <2>2 DEF Finish
<1>6. (RouteInv /\ GrantInv /\ ClearInv)'
  <2>1. UNCHANGED moment
    BY <1>2
  <2>2. QED BY <1>3, <1>5, <2>1, OneVehicleStep
<1>7. TwinTypeOK'
  BY <1>2, <1>3, <1>4, <1>5 DEF TwinInv, TwinTypeOK
<1>8. QED BY <1>6, <1>7 DEF TwinInv

\* A sample of the real robot touches the streak and the trust alone.
LEMMA ObserveStep ==
    ASSUME TwinInv, NEW v \in Owners, NEW beyond \in BOOLEAN, ObserveTwin(v, beyond)
    PROVE  TwinInv'
<1>1. PICK run : run = IF beyond THEN Least({streak[v] + 1, Threshold}) ELSE 0
  OBVIOUS
<1>2. streak \in [Owners -> 0..Threshold] /\ trusted \in [Owners -> BOOLEAN] /\ Threshold \in Nat
  BY PreflightAssumption DEF TwinInv, TwinTypeOK
<1>3. run \in 0..Threshold
  <2>1. streak[v] \in 0..Threshold
    BY <1>2
  <2>2. PICK x : x = streak[v] + 1 /\ x \in Nat
    BY <1>2, <2>1
  <2>3. Least({x, Threshold}) = IF x <= Threshold THEN x ELSE Threshold
    BY <1>2, <2>2, LeastOfTwo
  <2>4. QED BY <1>1, <1>2, <2>2, <2>3
<1>4. streak' = [streak EXCEPT ![v] = run]
  BY <1>1 DEF ObserveTwin
<1>5. streak' \in [Owners -> 0..Threshold]
  BY <1>2, <1>3, <1>4
<1>6. trusted' = [trusted EXCEPT ![v] = IF beyond THEN @ /\ run < Threshold ELSE TRUE]
  BY <1>1 DEF ObserveTwin
<1>7. PICK sure \in BOOLEAN : sure = IF beyond THEN trusted[v] /\ run < Threshold ELSE TRUE
  BY <1>2
<1>8. trusted' = [trusted EXCEPT ![v] = sure]
  BY <1>6, <1>7
<1>9. trusted' \in [Owners -> BOOLEAN]
  BY <1>2, <1>8
<1>10. UNCHANGED <<moment, rows, skew, plan, stands, battery>>
  BY DEF ObserveTwin, bookVars
<1>11. TwinTypeOK'
  BY <1>5, <1>9, <1>10 DEF TwinInv, TwinTypeOK
<1>12. (RouteInv /\ GrantInv /\ ClearInv)'
  BY <1>10 DEF TwinInv, RouteInv, GrantInv, ClearInv, Active
<1>13. QED BY <1>11, <1>12 DEF TwinInv

\* Time: rows lapse.
LEMMA DriveOn ==
    ASSUME TwinInv, Drive
    PROVE  TwinInv'
<1>1. /\ moment' = moment + 1 /\ moment \in Nat /\ UNCHANGED <<rows, plan, stands, battery, streak, trusted>>
      /\ rows \in [Ids -> Grants \cup {NoRow}] /\ plan \in [Owners -> Plans \cup {NoPlan}]
  BY DEF Drive, TimePasses, twinVars, TwinInv, TwinTypeOK
<1>2. ASSUME NEW k \in Ids PROVE Active(k)' => Active(k)
  <2>1. ASSUME rows[k] # NoRow PROVE rows[k].lease \in Int
    BY <1>1, <2>1 DEF Grants
  <2>2. QED BY <1>1, <2>1 DEF Active
<1>3. TwinTypeOK'
  BY <1>1 DEF TwinInv, TwinTypeOK
<1>4. RouteInv'
  <2>1. ASSUME NEW v \in Owners, plan[v] # NoPlan PROVE plan[v].sim[0].cursor <= moment + 1
    <3>1. plan[v] \in Plans
      BY <1>1, <2>1
    <3>2. plan[v].steps \in Trips /\ Follows(plan[v].steps, plan[v].sim) /\ plan[v].sim[0].cursor <= moment
      BY <2>1, <3>1 DEF Plans, TwinInv, RouteInv
    <3>3. Len(plan[v].steps) \in Nat
      BY <3>2, StepOfTrip
    <3>4. plan[v].sim[0] \in Situations
      BY <3>2, <3>3 DEF Follows
    <3>5. plan[v].sim[0].cursor \in Nat
      BY <3>4 DEF Situations
    <3>6. QED BY <1>1, <3>2, <3>5
  <2>2. QED BY <1>1, <2>1 DEF TwinInv, RouteInv
<1>5. GrantInv'
  <2>1. ASSUME NEW v \in Owners, plan[v] # NoPlan, plan[v].stage = "driving"
        PROVE  /\ plan[v].id \in Ids
               /\ Active(plan[v].id)' => rows[plan[v].id].segs = {SegmentOf(w) : w \in plan[v].windows}
               /\ \A u \in Owners \ {v} : plan[u] # NoPlan /\ plan[u].stage = "driving" => plan[u].id # plan[v].id
    <3>1. /\ plan[v].id \in Ids
          /\ Active(plan[v].id) => rows[plan[v].id].segs = {SegmentOf(w) : w \in plan[v].windows}
          /\ \A u \in Owners \ {v} : plan[u] # NoPlan /\ plan[u].stage = "driving" => plan[u].id # plan[v].id
      BY <2>1 DEF TwinInv, GrantInv
    <3>2. PICK k : k = plan[v].id /\ k \in Ids
      BY <3>1
    <3>3. Active(plan[v].id)' => Active(k)'
      BY <1>1, <3>2 DEF Active
    <3>4. QED BY <1>2, <3>1, <3>2, <3>3
  <2>2. QED BY <1>1, <2>1 DEF GrantInv
<1>6. ClearInv'
  BY <1>1, <1>2 DEF TwinInv, ClearInv
<1>7. QED BY <1>3, <1>4, <1>5, <1>6 DEF TwinInv

LEMMA TwinInduction == PreflightSpec => []TwinInv
<1>1. PreflightInit => TwinInv
  <2> SUFFICES ASSUME PreflightInit PROVE TwinInv
    OBVIOUS
  <2>1. /\ moment = 0 /\ rows = [i \in Ids |-> NoRow] /\ plan = [v \in Owners |-> NoPlan]
        /\ stands \in [Owners -> 0..Track] /\ battery \in [Owners -> Charges]
        /\ streak = [v \in Owners |-> 0] /\ trusted = [v \in Owners |-> TRUE]
    BY DEF PreflightInit
  <2>2. Charges \subseteq 0..Full /\ Threshold \in Nat
    BY PreflightAssumption
  <2>3. TwinTypeOK
    <3>1. rows \in [Ids -> Grants \cup {NoRow}] /\ plan \in [Owners -> Plans \cup {NoPlan}]
      BY <2>1
    <3>2. battery \in [Owners -> 0..Full]
      BY <2>1, <2>2
    <3>3. streak \in [Owners -> 0..Threshold] /\ trusted \in [Owners -> BOOLEAN]
      BY <2>1, <2>2
    <3>4. moment \in Nat /\ stands \in [Owners -> 0..Track]
      BY <2>1
    <3>5. QED BY <3>1, <3>2, <3>3, <3>4 DEF TwinTypeOK
  <2>4. RouteInv /\ GrantInv
    BY <2>1 DEF RouteInv, GrantInv
  <2>5. ClearInv
    BY <2>1 DEF ClearInv, Active
  <2>6. QED BY <2>3, <2>4, <2>5 DEF TwinInv
<1>2. TwinInv /\ [PreflightNext]_<<bookVars, twinVars>> => TwinInv'
  <2> SUFFICES ASSUME TwinInv, [PreflightNext]_<<bookVars, twinVars>> PROVE TwinInv'
    OBVIOUS
  <2>1. ASSUME NEW v \in Owners, NEW steps \in Trips, RunPreflight(v, steps) PROVE TwinInv'
    BY <2>1, PreflightStep
  <2>2. ASSUME NEW v \in Owners, NEW i \in Ids, Reserve(v, i) PROVE TwinInv'
    BY <2>2, ReserveStep
  <2>3. ASSUME NEW v \in Owners, Finish(v) PROVE TwinInv'
    BY <2>3, FinishStep
  <2>4. ASSUME NEW v \in Owners, NEW beyond \in BOOLEAN, ObserveTwin(v, beyond) PROVE TwinInv'
    BY <2>4, ObserveStep
  <2>5. CASE Drive
    BY <2>5, DriveOn
  <2>6. CASE UNCHANGED <<bookVars, twinVars>>
    <3>1. UNCHANGED <<moment, rows, skew, plan, stands, battery, streak, trusted>>
      BY <2>6 DEF bookVars, twinVars
    <3>2. TwinTypeOK'
      BY <3>1 DEF TwinInv, TwinTypeOK
    <3>3. (RouteInv /\ GrantInv /\ ClearInv)'
      BY <3>1 DEF TwinInv, RouteInv, GrantInv, ClearInv, Active
    <3>4. QED BY <3>2, <3>3 DEF TwinInv
  <2>7. QED BY <2>1, <2>2, <2>3, <2>4, <2>5, <2>6 DEF PreflightNext
<1>3. QED
  BY <1>1, <1>2, PTL DEF PreflightSpec

-----------------------------------------------------------------------------
(* Preflight: what a plan promises *)

\* The low water of the whole trip is that of every leg: no vehicle that
\* drives what preflight_mission accepted runs below the reserve before it is
\* done, whatever else is dispatched, released or lapses meanwhile.
THEOREM ReserveIsKept == PreflightSpec => []BatteryHolds
<1>1. QED
  BY TwinInduction, BatteryKeepsFloor, PTL

\* Two vehicles on routes granted to them are never in one cell that is among
\* the first MaxCells of both their trips, and none runs below the reserve,
\* for trips of any length: past the cut of _reserve nothing is promised.
THEOREM PlansAreKept == PreflightSpec => []PlanHolds
<1>1. TwinInv => PlanHolds
  BY RoutesKeepApart, BatteryKeepsFloor DEF PlanHolds
<1>2. QED
  BY <1>1, TwinInduction, PTL

\* Plans, rows and the twin's trust keep their types.
THEOREM TwinTypeCorrect == PreflightSpec => []TwinTypeOK
<1>1. TwinInv => TwinTypeOK
  BY DEF TwinInv
<1>2. QED
  BY <1>1, TwinInduction, PTL
=============================================================================
