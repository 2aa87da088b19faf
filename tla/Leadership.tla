------------------------------ MODULE Leadership ------------------------------
(***************************************************************************)
(* What the leader lease promises to the work it guards: terms are         *)
(* numbered, each term has one leader, and a new term begins only when the *)
(* current one is not live.  LeaderLease implements this specification;    *)
(* Missions is built on it.                                                *)
(***************************************************************************)
EXTENDS Naturals

CONSTANTS Nodes, None

VARIABLES leader,  \* the node of the current term
          term,    \* its number, the fence
          live     \* the term has neither lapsed nor been surrendered

leadershipVars == <<leader, term, live>>

\* The clock reading behind an election is old: it may be lapsed at once.
Elect(n) ==
    /\ ~live
    /\ leader' = n
    /\ term' = term + 1
    /\ live' \in BOOLEAN

Lapse == live /\ live' = FALSE /\ UNCHANGED <<leader, term>>

\* A renewal on a clock reading from before the lapse revives the same term.
Revive(n) == leader = n /\ ~live /\ live' = TRUE /\ UNCHANGED <<leader, term>>

\* A stopped leader ends its term, so that it can never be revived.
Surrender(n) == leader = n /\ term' = term + 1 /\ live' = FALSE /\ UNCHANGED leader

LeadershipInit == leader = None /\ term = 0 /\ live = FALSE

LeadershipNext ==
    \/ Lapse
    \/ \E n \in Nodes : Elect(n) \/ Revive(n) \/ Surrender(n)

LeadershipSpec == LeadershipInit /\ [][LeadershipNext]_leadershipVars
=============================================================================
