------------------------------- MODULE MCAgents -------------------------------
(*****************************************************************************)
(* What agents keep and pass on by themselves, on small instances: letters   *)
(* on a line of three mesh nodes, the second of which may expire on the way; *)
(* and the TypeScript bridges' log, identity card and channel.  `part` is    *)
(* the component a behaviour exercises; the others stay in one initial       *)
(* state, and no product of them is built.                                   *)
(*****************************************************************************)
EXTENDS Mesh, ActionLog, AgentCard, PeerLink, TLC

CONSTANTS a, b, c, l1, l2,   \* mesh nodes and letters
          big, p1, live1     \* posts, the last of which is an observation

VARIABLE part
agentVars == <<part, meshVars, logVars, cardVars, linkVars>>

Line == a :> {b} @@ b :> {a, c} @@ c :> {b}
FromA == [l \in Letters |-> a]
ToC == [l \in Letters |-> c]
Lives == [l \in Letters |-> IF l = l2 THEN 1 ELSE 9]
PostWeight == [p \in Posts |-> IF p = big THEN 2 ELSE 1]

-----------------------------------------------------------------------------
\* What a component that is not exercised starts from, where there is a choice.
Pinned == part # "card" => toolset = {}
AgentInit ==
    /\ part \in {"mesh", "log", "card", "link"} /\ Pinned
    /\ MeshInit /\ LogInit /\ CardInit /\ LinkInit
AgentNext ==
    /\ UNCHANGED part
    /\ \/ part = "mesh" /\ MeshNext /\ UNCHANGED <<logVars, cardVars, linkVars>>
       \/ part = "log" /\ LogNext /\ UNCHANGED <<meshVars, cardVars, linkVars>>
       \/ part = "card" /\ CardNext /\ UNCHANGED <<meshVars, logVars, linkVars>>
       \/ part = "link" /\ LinkNext /\ UNCHANGED <<meshVars, logVars, cardVars>>
\* The mesh's fairness asks nothing of the other parts, whose mesh is empty.
AgentSpec == AgentInit /\ [][AgentNext]_agentVars /\ MeshFairness
=============================================================================
