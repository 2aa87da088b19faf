----------------------------- MODULE MCExchange -----------------------------
(*****************************************************************************)
(* The parts of a node that face its peers, on small instances: pairing and  *)
(* grants, streams, live channels and artifacts.  `part` is the component a  *)
(* behaviour exercises; the others stay in one initial state, and no product *)
(* of them is built.                                                         *)
(*****************************************************************************)
EXTENDS Streams, Channels, Artifacts, Pairing, TLC

CONSTANTS po, ps, m1, m2,   \* the stream's two peers and its two packets
          k1, k2, k3,       \* sockets, of one host and of another
          b, c              \* the systems around the node

VARIABLE part
exchangeVars == <<part, streamVars, channelVars, artifactVars, pairVars>>

ExchangeSymmetry == Permutations({b, c}) \cup Permutations({k1, k2})

\* The producer's grant and the subscriber's.
OwnGrant == [id |-> 0, peer |-> po]
TwoGrants == {OwnGrant, [id |-> 1, peer |-> ps]}
PacketNumber(m) == IF m = m1 THEN 0 ELSE 1
SocketHost(k) == IF k = k3 THEN "y" ELSE "x"
ArtifactSize(d) == IF d = "big" THEN 2 ELSE 1

-----------------------------------------------------------------------------
\* What a component that is not exercised starts from, where there is a choice.
Pinned ==
    /\ part # "pairing" => serves = [u \in Urls |-> b]
ExchangeInit ==
    /\ part \in {"streams", "channels", "artifacts", "pairing"}
    /\ Pinned
    /\ StreamInit /\ ChannelInit /\ ArtifactInit /\ PairInit
ExchangeNext ==
    /\ UNCHANGED part
    /\ \/ part = "streams" /\ StreamNext
          /\ UNCHANGED <<channelVars, artifactVars, pairVars>>
       \/ part = "channels" /\ ChannelNext
          /\ UNCHANGED <<streamVars, artifactVars, pairVars>>
       \/ part = "artifacts" /\ ArtifactNext
          /\ UNCHANGED <<streamVars, channelVars, pairVars>>
       \/ part = "pairing" /\ PairNext
          /\ UNCHANGED <<streamVars, channelVars, artifactVars>>
ExchangeSpec == ExchangeInit /\ [][ExchangeNext]_exchangeVars
=============================================================================
