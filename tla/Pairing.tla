--------------------------------- MODULE Pairing ---------------------------------
(***************************************************************************)
(* Identity and authority of one node (core.py, storage/peers_repo.py,     *)
(* storage/revocations_repo.py, storage/grants_repo.py, audit/chain.py)    *)
(* and the commands of agent_cli.py that lead to them: scan, connect,      *)
(* approve, disconnect, route, ping.                                       *)
(*                                                                         *)
(* A system's id is the digest of its public key, so a system stands for   *)
(* both; the key identifier on its card is its own choice.  The pairing    *)
(* code of two systems is the pair of them.  A command is a process: every *)
(* request it makes and every transaction is a step, and meanwhile the     *)
(* server answers hellos, the operator approves and revokes, and addresses *)
(* change hands.                                                           *)
(***************************************************************************)
EXTENDS Integers, Sequences, FiniteSets

CONSTANTS Me, Others,       \* this node and the systems around it
          Urls, Names, KeyIds,
          Scopes, DefaultScope,   \* scopes an operator gives, and a hello's own
          MaxPendingPeers,  \* PeersRepo.max_pending
          Validity,         \* PEER_PAIRING_VALIDITY
          PendingLife,      \* a quarter of an hour
          LastDate, MaxEvents   \* bounds: the clock, audited events

ASSUME PairingAssumption ==
    /\ Me \notin Others
    /\ {MaxPendingPeers, Validity, PendingLife, LastDate, MaxEvents} \subseteq Nat

VARIABLES
    date,
    serves,     \* the system that answers at each url
    peers,      \* the peers table: [state, scope, kid, seen, until]
    revocations,\* the revocations table
    grants,     \* the grants table: [to, live]
    audit,      \* audit_log: [event, about, until, hash]
    known, scanned,   \* agent-peers.json, discovered.json: system -> url
    routes,     \* agent-routes.json: name -> system
    cli,        \* the command in progress: [at, url, peer, name]
    consent     \* what the operator last approved: [scope, kid, until]

network == <<date, serves>>
trustTables == <<peers, revocations, grants, audit, consent>>
cliFiles == <<known, scanned, routes>>
pairVars == <<network, trustTables, cliFiles, cli>>

Systems == Others \cup {Me}
Nothing == [x \in {} |-> 0]
Put(f, x, v) == [y \in DOMAIN f \cup {x} |-> IF y = x THEN v ELSE f[y]]
Omit(f, S) == [y \in DOMAIN f \ S |-> f[y]]
NoCommand == [at |-> "none", url |-> "none", peer |-> Me, name |-> "none"]

-----------------------------------------------------------------------------
(* audit/chain.py: an entry commits with what it documents *)

\* The hash of a row covers the row before it: the chain up to that row.
Genesis == <<>>
LastHash == IF audit = <<>> THEN Genesis ELSE audit[Len(audit)].hash
AuditAppend(event, about, until) ==
    /\ Len(audit) < MaxEvents
    /\ audit' = Append(audit, [event |-> event, about |-> about, until |-> until,
                               hash |-> Append(LastHash, <<event, about, until>>)])
AuditVerifies ==
    \A n \in DOMAIN audit :
        audit[n].hash = Append(IF n = 1 THEN Genesis ELSE audit[n - 1].hash,
                               <<audit[n].event, audit[n].about, audit[n].until>>)

-----------------------------------------------------------------------------
(* core.py and its repositories *)

\* _peer: paired, not revoked, not expired.
Authorized(s) ==
    /\ s \in DOMAIN peers /\ s \notin revocations
    /\ peers[s].state = "paired" /\ date < peers[s].until

\* upsert_pending_or_seen.  A card that is seen again keeps state and scope;
\* when it was seen is kept while the row is pending, for the sweep.
SeenAt(row) == IF row.state = "pending" THEN date ELSE row.seen
SeenResetsScope(row, kid) == [row EXCEPT !.kid = kid, !.seen = SeenAt(row), !.scope = DefaultScope]   \* fault
Seen(row, kid) == [row EXCEPT !.kid = kid, !.seen = SeenAt(row)]
Pending(f) == {s \in DOMAIN f : f[s].state = "pending"}
Swept == Omit(peers, {s \in Pending(peers) : peers[s].seen < date - PendingLife})
CanUpsert(s, kid) ==
    IF s \in DOMAIN peers THEN peers[s].state = "paired" => peers[s].kid = kid
    ELSE Cardinality(Pending(Swept)) < MaxPendingPeers
Upserted(s, kid) ==
    IF s \in DOMAIN peers THEN [peers EXCEPT ![s] = Seen(@, kid)]
    ELSE Put(Swept, s, [state |-> "pending", scope |-> DefaultScope, kid |-> kid, seen |-> date, until |-> 0])

\* hello() for a card that reached this node's server.
Hello(s, kid) ==
    /\ CanUpsert(s, kid) /\ peers' = Upserted(s, kid)
    /\ UNCHANGED <<network, revocations, grants, audit, consent, cliFiles, cli>>

\* confirm_peer, with new scopes or the ones on record.
ConfirmPeer(s, code, given) ==
    /\ s \in DOMAIN peers /\ code = {Me, s}
    /\ LET scope == IF given = {} THEN peers[s].scope ELSE given
           until == date + Validity
       IN /\ peers' = [peers EXCEPT ![s].state = "paired", ![s].until = until,
                                   ![s].scope = scope, ![s].seen = 0]
          /\ revocations' = revocations \ {s}
          /\ AuditAppend("peer.paired", s, until)
          /\ consent' = Put(consent, s, [scope |-> scope, kid |-> peers[s].kid, until |-> until])
    /\ UNCHANGED <<network, grants, cliFiles, cli>>
RevokePeer(s) ==
    /\ revocations' = revocations \cup {s}
    /\ AuditAppend("peer.revoked", s, 0)
    /\ consent' = Omit(consent, {s})
    /\ UNCHANGED <<network, peers, grants, cliFiles, cli>>

IssueGrant(s) ==
    /\ s \in DOMAIN peers
    /\ grants' = Append(grants, [to |-> s, live |-> TRUE])
    /\ AuditAppend("grant.issued", Len(grants) + 1, 0)
    /\ UNCHANGED <<network, peers, revocations, consent, cliFiles, cli>>
RevokeGrant(g) ==
    /\ g \in DOMAIN grants /\ grants[g].live
    /\ grants' = [grants EXCEPT ![g].live = FALSE]
    /\ AuditAppend("grant.revoked", g, 0)
    /\ UNCHANGED <<network, peers, revocations, consent, cliFiles, cli>>

-----------------------------------------------------------------------------
(* agent_cli.py *)

\* One command runs at a time; a ping that was answered stays in view.
Ready == cli.at \in {"none", "answered"}
Serving(s) == {u \in Urls : serves[u] = s}
\* scan_devices adds what answers to discovered.json; nothing reads this
\* node's own entry.
Scan ==
    /\ Ready
    /\ scanned' = [s \in DOMAIN scanned \cup ({serves[u] : u \in Urls} \ {Me}) |->
                      IF Serving(s) # {} THEN CHOOSE u \in Serving(s) : TRUE ELSE scanned[s]]
    /\ cli' = NoCommand
    /\ UNCHANGED <<network, trustTables, known, routes>>

\* connect_device, up to the reply of GET /profile: _resolve_device takes a
\* url, or an id with a recorded or scanned url, which must still answer as
\* that id.  A name that targets another system is refused.
MayName(n, s) == n \in DOMAIN routes => routes[n] = s
Inspect(u, expected, n) ==
    LET s == serves[u]
    IN /\ Ready
       /\ \/ expected = {}
          \/ \E x \in expected : /\ s = x
                                 /\ \/ x \in DOMAIN known /\ known[x] = u
                                    \/ x \notin DOMAIN known /\ x \in DOMAIN scanned /\ scanned[x] = u
       /\ s # Me /\ MayName(n, s)
       /\ cli' = [at |-> "hello", url |-> u, peer |-> s, name |-> n]
       /\ UNCHANGED <<network, trustTables, cliFiles>>
\* POST /pair/hello: the answer must be signed by the system inspected.  Then
\* hello() with the card it returned; the codes of the two sides agree.
ExchangeHello(kid) ==
    /\ cli.at = "hello"
    /\ IF serves[cli.url] = cli.peer /\ CanUpsert(cli.peer, kid)
       THEN peers' = Upserted(cli.peer, kid) /\ cli' = [cli EXCEPT !.at = "url"]
       ELSE UNCHANGED peers /\ cli' = NoCommand
    /\ UNCHANGED <<network, revocations, grants, audit, consent, cliFiles>>
RecordUrl ==
    /\ cli.at = "url"
    /\ known' = Put(known, cli.peer, cli.url)
    /\ cli' = IF cli.name = "none" THEN NoCommand ELSE [cli EXCEPT !.at = "name"]
    /\ UNCHANGED <<network, trustTables, scanned, routes>>
\* _bind_route, also of 'route add', which asks for an authorized peer.
BindRoute ==
    /\ cli.at = "name"
    /\ routes' = IF MayName(cli.name, cli.peer) THEN Put(routes, cli.name, cli.peer) ELSE routes
    /\ cli' = NoCommand
    /\ UNCHANGED <<network, trustTables, known, scanned>>
RouteAdd(n, s) ==
    /\ Ready /\ Authorized(s) /\ MayName(n, s)
    /\ routes' = Put(routes, n, s)
    /\ cli' = NoCommand
    /\ UNCHANGED <<network, trustTables, known, scanned>>
RouteRemove(n) ==
    /\ Ready /\ n \in DOMAIN routes
    /\ routes' = Omit(routes, {n})
    /\ cli' = NoCommand
    /\ UNCHANGED <<network, trustTables, known, scanned>>

\* ping_device over http: the name is resolved and the peer's authority read,
\* then GET /profile at the recorded url must show the pinned identity, then
\* the envelope is posted; its audience is checked where it arrives.
Ping(n) ==
    /\ Ready /\ n \in DOMAIN routes
    /\ Authorized(routes[n]) /\ routes[n] \in DOMAIN known
    /\ cli' = [at |-> "profile", url |-> known[routes[n]], peer |-> routes[n], name |-> n]
    /\ UNCHANGED <<network, trustTables, cliFiles>>
PeerEndpoint ==
    /\ cli.at = "profile"
    /\ cli' = IF serves[cli.url] = cli.peer /\ Authorized(cli.peer)
              THEN [cli EXCEPT !.at = "post"] ELSE NoCommand
    /\ UNCHANGED <<network, trustTables, cliFiles>>
PostEnvelope ==
    /\ cli.at = "post"
    /\ cli' = IF serves[cli.url] = cli.peer THEN [cli EXCEPT !.at = "answered"] ELSE NoCommand
    /\ UNCHANGED <<network, trustTables, cliFiles>>

-----------------------------------------------------------------------------
(* The network, and time *)

Readdress(u, s) ==
    /\ serves' = [serves EXCEPT ![u] = s]
    /\ UNCHANGED <<date, trustTables, cliFiles, cli>>
NextDate ==
    /\ date < LastDate /\ date' = date + 1
    /\ UNCHANGED <<serves, trustTables, cliFiles, cli>>

PairInit ==
    /\ date = 0 /\ serves \in [Urls -> Others]
    /\ peers = Nothing /\ revocations = {} /\ grants = <<>> /\ audit = <<>> /\ consent = Nothing
    /\ known = Nothing /\ scanned = Nothing /\ routes = Nothing
    /\ cli = NoCommand
PairNext ==
    \/ \E s \in Others, kid \in KeyIds : Hello(s, kid)
    \/ \E s \in Others, t \in Systems, given \in Scopes \cup {{}} : ConfirmPeer(s, {Me, t}, given)
    \/ \E s \in Others : RevokePeer(s) \/ IssueGrant(s)
    \/ \E g \in DOMAIN grants : RevokeGrant(g)
    \/ \E kid \in KeyIds : ExchangeHello(kid)
    \/ Scan \/ RecordUrl \/ BindRoute \/ PeerEndpoint \/ PostEnvelope
    \/ \E u \in Urls, x \in {{}} \cup {{s} : s \in Others}, n \in Names \cup {"none"} : Inspect(u, x, n)
    \/ \E n \in Names : RouteRemove(n) \/ Ping(n) \/ \E s \in Others : RouteAdd(n, s)
    \/ \E u \in Urls, s \in Others : Readdress(u, s)
    \/ NextDate
PairSpec == PairInit /\ [][PairNext]_pairVars

-----------------------------------------------------------------------------
(* Properties *)

\* What an audit entry covers, the entries, and the rows of the peers table.
Events == {"peer.paired", "peer.revoked", "grant.issued", "grant.revoked"}
Said == Events \X (Systems \cup Nat) \X Nat
Entries == [event : Events, about : Systems \cup Nat, until : Nat, hash : Seq(Said)]
PeerRows == [state : {"pending", "paired"}, scope : Scopes \cup {DefaultScope}, kid : KeyIds,
             seen : Nat, until : Nat]
Commands == [at : {"none", "hello", "url", "name", "profile", "post", "answered"},
             url : Urls \cup {"none"}, peer : Systems, name : Names \cup {"none"}]

\* The type invariant of the tables, the files and the command in progress.
PairTypeOK ==
    /\ date \in Nat /\ serves \in [Urls -> Others]
    /\ DOMAIN peers \subseteq Others /\ \A s \in DOMAIN peers : peers[s] \in PeerRows
    /\ revocations \subseteq Others
    /\ grants \in Seq([to : Others, live : BOOLEAN])
    /\ audit \in Seq(Entries)
    /\ DOMAIN known \subseteq Others /\ \A s \in DOMAIN known : known[s] \in Urls
    /\ DOMAIN routes \subseteq Names /\ \A n \in DOMAIN routes : routes[n] \in Others
    /\ cli \in Commands
    /\ cli.at # "none" => cli.url \in Urls /\ cli.peer \in Others
    /\ cli.at = "name" => cli.name \in Names

About(s) == {n \in DOMAIN audit : audit[n].about = s /\ audit[n].event \in {"peer.paired", "peer.revoked"}}
LastAbout(s) == CHOOSE n \in About(s) : \A m \in About(s) : m <= n

\* "Connecting does not grant authority", and neither does being seen again
\* (agent_cli.py, peers_repo.py): a peer is authorized only by an approval
\* that nothing has revoked since and that has not run out, with the scope
\* and the key identifier approved then, and the audit log, which verifies,
\* says so; a grant is live exactly if the log issued and did not revoke it;
\* and a ping that is answered was answered by the system its name stood for.
TrustIsConsented ==
    /\ \A s \in Others : Authorized(s) =>
          /\ s \in DOMAIN consent /\ date < consent[s].until
          /\ peers[s].scope = consent[s].scope /\ peers[s].kid = consent[s].kid
          /\ About(s) # {} /\ audit[LastAbout(s)].event = "peer.paired"
          /\ audit[LastAbout(s)].until = peers[s].until
    /\ AuditVerifies
    /\ \A g \in DOMAIN grants :
          grants[g].live <=> /\ \E n \in DOMAIN audit : audit[n].event = "grant.issued" /\ audit[n].about = g
                             /\ ~\E n \in DOMAIN audit : audit[n].event = "grant.revoked" /\ audit[n].about = g
    /\ Cardinality(Pending(peers)) <= MaxPendingPeers
    /\ cli.at = "answered" => cli.peer = routes[cli.name]
=============================================================================
