------------------------------- MODULE MCSettle -------------------------------
(* IntentHarness for TLC: what eventually happens to one proposal and one   *)
(* cancellation, under changing policy and pairing, expiry and a crash.     *)
EXTENDS IntentHarness, TLC

CONSTANTS k1, p1, a, m1, m3, w1

SettleKind == m1 :> "propose" @@ m3 :> "cancel"
SettleKey == [m \in Messages |-> k1]
SettlePeer == [m \in Messages |-> p1]
SettlePayload == [m \in Messages |-> a]
=============================================================================
