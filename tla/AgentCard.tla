------------------------------- MODULE AgentCard -------------------------------
(***************************************************************************)
(* The agent identity card of the TypeScript bridges: AgentHarness         *)
(* (bridge_core/harness.ts) with its epochs, tiers and renewals            *)
(* (epoch.ts, tiers.ts, renewal.ts), each kept in a JSON file of its own   *)
(* (fsjson.ts).                                                            *)
(*                                                                         *)
(* An operation runs without a pause, so it is one action: the list of     *)
(* writes it makes, all of them or, when the process dies, the first few,  *)
(* the next of which may be left half written (writeJson overwrites its    *)
(* target in place).  Whatever an operation creates (a key, an epoch, a    *)
(* detail) carries the number of that operation, which stands for its      *)
(* digest.  A signature is the key that made it; operator, protocols,      *)
(* names, hardware and limitations are carried along unchanged and left    *)
(* out.  The adapter's capabilities and the log entries about them are     *)
(* sets and sequences of Tools.                                            *)
(***************************************************************************)
EXTENDS Naturals, Sequences, FiniteSets, SequencesExt

CONSTANTS Tools,       \* capabilities
          Absent, Torn,   \* a file that does not exist, one that does not parse
          MaxMints,    \* bound: operations that write
          MaxCardCuts, \* bound: processes that die in one
          MaxHistory   \* bound: log entries about capabilities

ASSUME CardAssumption ==
    /\ IsFiniteSet(Tools) /\ Absent # Torn /\ Absent \notin Nat
    /\ MaxMints \in Nat /\ MaxCardCuts \in Nat /\ MaxHistory \in Nat

VARIABLES
    file,       \* identity, chain, detail, sensitive, renewal (.json)
    history,    \* the capability entries of the log
    toolset,    \* adapter.capabilities()
    minted, cardCuts,
    whole,      \* history: the last operation on epochs ran to its end
    rounds      \* history: reconciliations since the toolset last changed

cardVars == <<file, history, toolset, minted, cardCuts, whole, rounds>>

Readable(f) == file[f] \notin {Absent, Torn}
NotTorn(f) == file[f] # Torn

Newest == minted + 1     \* what this operation creates
LastEpoch == Last(file["chain"])

-----------------------------------------------------------------------------
(* Records *)

Detail(no, tools, key) == [id |-> Newest, no |-> no, tools |-> tools, key |-> key]
Sensitive(no, key) == [id |-> Newest, no |-> no, key |-> key]
Genesis(key, sensitive) ==
    [id |-> Newest, no |-> 0, how |-> "genesis", prior |-> 0, key |-> key, by |-> key,
     detail |-> Newest, sensitive |-> sensitive]
\* `by` is the key of predecessor_signature; without a rotation there is none.
Successor(prior, how, key, old, sensitive) ==
    [id |-> Newest, no |-> prior.no + 1, how |-> how, prior |-> prior.id, key |-> key,
     by |-> IF how = "key_rotation" THEN old ELSE key, detail |-> Newest,
     sensitive |-> sensitive]
Renewal(epoch, key) == [epoch |-> epoch, key |-> key, live |-> TRUE]

\* verifyEpoch and verifyChain
GenesisVerifies(e) == e.no = 0 /\ e.how = "genesis" /\ e.prior = 0
EpochVerifies(e, prior) ==
    /\ e.no = prior.no + 1 /\ e.prior = prior.id
    /\ IF e.how = "key_rotation" THEN e.by = prior.key ELSE e.key = prior.key
ChainVerifies(c) ==
    /\ GenesisVerifies(c[1])
    /\ \A i \in 2..Len(c) : EpochVerifies(c[i], c[i - 1])
\* verifyDetail, verifySensitive, verifyRenewal
TierVerifies(t, e, digest) == t.no = e.no /\ t.id = digest /\ t.key = e.key
RenewalVerifies(r, e) == r.epoch = e.id /\ r.key = e.key
RenewalHolds(r, e) == RenewalVerifies(r, e) /\ r.live

-----------------------------------------------------------------------------
(* Running an operation *)

To(f, value) == [file |-> f, value |-> value]
\* The files after the first n writes, the next one torn or not begun.
Applied(writes, n, tearing) ==
    [f \in DOMAIN file |->
        IF tearing /\ n < Len(writes) /\ writes[n + 1].file = f THEN Torn
        ELSE LET past == {i \in 1..n : writes[i].file = f}
             IN IF past = {} THEN file[f]
                ELSE writes[CHOOSE i \in past : \A j \in past : j <= i].value]
Completes(writes) ==
    /\ minted < MaxMints /\ minted' = minted + 1
    /\ file' = Applied(writes, Len(writes), FALSE)
    /\ UNCHANGED cardCuts
Dies(writes) ==
    /\ minted < MaxMints /\ minted' = minted + 1
    /\ cardCuts < MaxCardCuts /\ cardCuts' = cardCuts + 1
    /\ \E n \in 0..Len(writes) - 1, tearing \in BOOLEAN : file' = Applied(writes, n, tearing)

\* An operation on epochs leaves the card whole when it ends.
Runs(writes) ==
    \/ Completes(writes) /\ whole' = TRUE
    \/ Dies(writes) /\ whole' = FALSE

-----------------------------------------------------------------------------
(* bootstrap *)

SensitiveWrites(has, no, key) == IF has THEN <<To("sensitive", Sensitive(no, key))>> ELSE <<>>
Bootstrap(tools, has) ==
    /\ file["identity"] = Absent
    /\ LET key == Newest
           genesis == Genesis(key, IF has THEN Newest ELSE 0)
       IN Runs(<<To("identity", key), To("chain", <<genesis>>), To("detail", Detail(0, tools, key))>>
               \o SensitiveWrites(has, 0, key) \o <<To("renewal", Renewal(genesis.id, key))>>)
    /\ UNCHANGED <<history, toolset, rounds>>

-----------------------------------------------------------------------------
(* ensureLive, renewCurrent *)

EnsureLive ==
    /\ Readable("chain") /\ NotTorn("renewal")
    /\ Readable("renewal") => ~RenewalHolds(file["renewal"], LastEpoch)
    /\ Readable("identity") /\ file["identity"] = LastEpoch.key
    /\ LET writes == <<To("renewal", Renewal(LastEpoch.id, LastEpoch.key))>>
       IN \/ Completes(writes) /\ UNCHANGED whole
          \/ Dies(writes) /\ whole' = FALSE
    /\ UNCHANGED <<history, toolset, rounds>>

-----------------------------------------------------------------------------
(* updateCapabilities, rotateKey, commitNewEpoch *)

\* What the getters and createSuccessorEpoch refuse.
CanSucceedAnyKey ==                                       \* fault: the key is not compared
    Readable("identity") /\ Readable("chain") /\ Readable("detail") /\ NotTorn("sensitive")
CanSucceed ==
    /\ Readable("identity") /\ Readable("chain") /\ Readable("detail") /\ NotTorn("sensitive")
    /\ file["identity"] = LastEpoch.key

Commit(epoch, detail, has) ==
    <<To("chain", Append(file["chain"], epoch)), To("detail", detail)>>
        \o SensitiveWrites(has, epoch.no, epoch.key)
        \o <<To("renewal", Renewal(epoch.id, epoch.key))>>
UpdateWrites(tools) ==
    LET key == file["identity"]
        has == Readable("sensitive")
        epoch == Successor(LastEpoch, "capability_update", key, key, IF has THEN Newest ELSE 0)
    IN Commit(epoch, Detail(epoch.no, tools, key), has)
RotateKey ==
    /\ CanSucceed
    /\ LET old == file["identity"]
           key == Newest
           has == Readable("sensitive")
           epoch == Successor(LastEpoch, "key_rotation", key, old, IF has THEN Newest ELSE 0)
       IN Runs(<<To("identity", key)>>
               \o Commit(epoch, Detail(epoch.no, file["detail"].tools, key), has))
    /\ UNCHANGED <<history, toolset, rounds>>

-----------------------------------------------------------------------------
(* reconcile *)

\* registerMcpTools: a connected server's tool is live, and logged.
Connect(t) ==
    /\ t \notin toolset /\ toolset' = toolset \cup {t} /\ rounds' = 0
    /\ Len(history) < MaxHistory
    /\ history' = IF file["identity"] = Absent THEN history
                  ELSE Append(history, [tool |-> t, found |-> TRUE])
    /\ UNCHANGED <<file, minted, cardCuts, whole>>
\* A tool goes with its server or its session, without an entry.
Disconnect(t) ==
    /\ t \in toolset /\ toolset' = toolset \ {t} /\ rounds' = 0
    /\ UNCHANGED <<file, history, minted, cardCuts, whole>>

Noted(tools, found) == {[tool |-> t, found |-> found] : t \in tools}
\* The entries the adapter's answer calls for, in an order of its own.
Observed(before) == SetToSeq(Noted(toolset \ before, TRUE)) \o SetToSeq(Noted(before \ toolset, FALSE))
\* replaySet: over the whole log, the last entry about a tool counts.
Replay(h, before) ==
    {t \in Tools : LET about == {i \in DOMAIN h : h[i].tool = t}
                   IN IF about = {} THEN t \in before
                      ELSE h[CHOOSE i \in about : \A j \in about : j <= i].found}

Reconcile(apply) ==
    /\ Readable("detail")
    /\ LET before == file["detail"].tools
           noted == history \o Observed(before)
           after == Replay(noted, before)
           changes == after # before /\ apply
       IN /\ Len(noted) <= MaxHistory
          /\ \/ \* the process dies among the entries
                /\ cardCuts < MaxCardCuts /\ cardCuts' = cardCuts + 1
                /\ \E n \in 0..Len(Observed(before)) - 1 :
                      history' = history \o SubSeq(Observed(before), 1, n)
                /\ UNCHANGED <<file, minted, whole, rounds>>
             \/ /\ ~changes /\ history' = noted
                /\ rounds' = IF apply /\ rounds < 2 THEN rounds + 1 ELSE rounds
                /\ UNCHANGED <<file, minted, cardCuts, whole>>
             \/ /\ changes /\ CanSucceed /\ history' = noted
                /\ \/ /\ Completes(UpdateWrites(after)) /\ whole' = TRUE
                      /\ rounds' = IF rounds < 2 THEN rounds + 1 ELSE rounds
                   \/ Dies(UpdateWrites(after)) /\ whole' = FALSE /\ UNCHANGED rounds
             \/ \* updateCapabilities raises, the entries stay
                /\ changes /\ ~CanSucceed /\ history' = noted
                /\ UNCHANGED <<file, minted, cardCuts, whole, rounds>>
    /\ UNCHANGED toolset

-----------------------------------------------------------------------------
\* DEFAULT_VALIDITY_MS pass.
RenewalEnds ==
    /\ Readable("renewal") /\ file["renewal"].live
    /\ file' = [file EXCEPT !["renewal"].live = FALSE]
    /\ UNCHANGED <<history, toolset, minted, cardCuts, whole, rounds>>

CardInit ==
    /\ file = [f \in {"identity", "chain", "detail", "sensitive", "renewal"} |-> Absent]
    /\ history = <<>> /\ toolset \in SUBSET Tools /\ minted = 0 /\ cardCuts = 0
    /\ whole = TRUE /\ rounds = 0
CardNext ==
    \/ \E has \in BOOLEAN : Bootstrap(toolset, has) \/ Reconcile(has)
    \/ EnsureLive \/ RotateKey \/ RenewalEnds
    \/ \E t \in Tools : Connect(t) \/ Disconnect(t)
CardSpec == CardInit /\ [][CardNext]_cardVars

-----------------------------------------------------------------------------
(* Properties *)

\* verifyOwnChain: wherever a process died, a chain that can be read verifies.
ChainIsSound == Readable("chain") => ChainVerifies(file["chain"])

\* Once an operation on epochs has run to its end the five files agree,
\* whatever was cut short before it: the key on disk is that of the last
\* epoch, whose digests are those of the tiers, and the renewal is for it.
CardAgrees ==
    whole /\ file["identity"] # Absent =>
        LET e == LastEpoch
        IN /\ file["identity"] = e.key
           /\ TierVerifies(file["detail"], e, e.detail)
           /\ e.sensitive # 0 => TierVerifies(file["sensitive"], e, e.sensitive)
           /\ RenewalVerifies(file["renewal"], e)

\* "the card already matches recorded experience and pi's current toolset"
\* (the reconcile command): one reconciliation can still replay an entry that
\* is out of date, but a second one with the same toolset settles the card on
\* what the agent can do.
CardSettles == rounds = 2 /\ Readable("detail") => file["detail"].tools = toolset

\* What a bundle shows verifies across crashes and rotations of the key, and
\* comes to declare what the agent can do.
CardIsSound == ChainIsSound /\ CardAgrees /\ CardSettles
=============================================================================
