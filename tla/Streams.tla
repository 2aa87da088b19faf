--------------------------------- MODULE Streams ---------------------------------
(***************************************************************************)
(* Live streams (streaming.py, storage/streams_repo.py, policy/sharing.py, *)
(* policy/grants.py, protocol/volatile.py, the pairing and grant tables,   *)
(* and the stream handlers of core.py): one stream of one producer, its    *)
(* subscribers, and an operator who revokes, pairs again and issues grants *)
(* while packets are in the handlers.                                      *)
(*                                                                         *)
(* Payloads, checksums, content types and the accepted rate only decide    *)
(* whether a packet is refused, which is the same as not being sent.       *)
(* One packet is handled at a time: packet() holds the registry's lock     *)
(* from its first read to advance(), and VolatileInbox.accept holds its    *)
(* own across the whole handler, so a second handler could only fan out an *)
(* earlier packet meanwhile.                                               *)
(***************************************************************************)
EXTENDS Integers, FiniteSets

CONSTANTS Producer,      \* the stream's owner
          Subscribers,   \* the peers in forward_to
          Grants,        \* grants: records [id, peer]
          ProducerGrant, \* the grant the contract was opened with
          Messages,      \* volatile envelopes
          SequenceOf(_), \* the sequence a volatile envelope carries
          MaxSequence,   \* bound: sequence numbers
          CreditWindow,  \* window
          Keep,          \* retention_packets
          InboxCapacity, \* capacity of the volatile inbox
          MaxRestarts,   \* bound
          NoStream, NoSession

\* A row of `streams`, and the state of a memory stream.
StreamRows == [state : {"open", "closed"}, delivery : {"reliable", "latest"},
               storage : {"disk", "memory"}, next : Nat, retention : Nat]
Sessions == [next : Nat]
Sequences0 == 0..MaxSequence

ASSUME StreamAssumption ==
    /\ {MaxSequence, CreditWindow, Keep, InboxCapacity, MaxRestarts} \subseteq Nat
    /\ Producer \notin Subscribers
    /\ \A m \in Messages : SequenceOf(m) \in Sequences0
    /\ NoStream \notin StreamRows /\ NoSession \notin Sessions

VARIABLES
    stream,     \* the row of `streams`
    kept,       \* stream_packets: the sequences retained
    session,    \* _memory_streams: the state of a memory stream
    subscribed, \* _subscribers: a subscriber's grant
    standing,   \* peers and revocations: "paired" or "barred"
    dead,       \* grants revoked or expired
    lapsed,     \* expires_at has passed
    permitted,  \* a rule of stream_sharing covers the contract
    handler,    \* the thread in _handle_stream_packet
    closer,     \* the thread in close()
    inbox,      \* VolatileInbox: the envelopes remembered
    late,       \* volatile envelopes past their expires_at, or of an earlier process
    restarts,
    accepted,   \* history: how often each sequence was acknowledged as new
    handled,    \* history: volatile envelopes and how often they were handled
    deadAt,     \* history: the dead grants when a sequence was accepted
    pushed      \* history: <<subscriber, grant, sequence>> given to the channel

streamVars == <<stream, kept, session, subscribed, standing, dead, lapsed, permitted, handler,
                closer, inbox, late, restarts, accepted, handled, deadAt, pushed>>
tables == <<stream, kept, standing, dead, lapsed, permitted>>
history == <<accepted, handled, deadAt, pushed>>

StreamPeers == Subscribers \cup {Producer}
Idle == [at |-> "idle", seq |-> 0, todo |-> {}, pick |-> {}, message |-> {}]
Locked == handler.at = "read"         \* StreamRegistry._lock

-----------------------------------------------------------------------------
(* Authority: _peer, authorize_open, _validate_stream_grant *)

Live(g, p) == g \in Grants /\ g.peer = p /\ g \notin dead
PeerOk(p) == standing[p] = "paired"
Open == stream # NoStream /\ stream.state = "open"

\* _authorize_existing_stream, for a peer and the grant it refers to.
AuthorizedExisting(p, g) ==
    /\ PeerOk(p) /\ Open /\ ~lapsed /\ permitted
    /\ Live(g, p)

\* _authorize_stream for an open: authorize_open (a rule of stream_sharing that
\* covers producer, consumers, content, rate and lease) and the grant.
MayOpen == PeerOk(Producer) /\ ~lapsed /\ permitted /\ Live(ProducerGrant, Producer)

\* The row ends and the packets go in one transaction.
Ended == /\ stream' = [stream EXCEPT !.state = "closed"]
         /\ kept' = {}
Forget == subscribed' = <<>> /\ session' = NoSession

-----------------------------------------------------------------------------
(* open and the control operations *)

OpenStream(delivery, storage) ==
    /\ stream = NoStream
    /\ storage = "memory" => delivery = "latest"
    /\ MayOpen
    /\ stream' = [state |-> "open", delivery |-> delivery, storage |-> storage, next |-> 0,
                  retention |-> IF storage = "memory" THEN 0 ELSE Keep]
    /\ session' = IF storage = "memory" THEN [next |-> 0] ELSE NoSession
    /\ UNCHANGED <<kept, subscribed, standing, dead, lapsed, permitted, handler, closer, inbox, late,
                   restarts, history>>

Subscribe(s, g) ==
    /\ s \in Subscribers /\ AuthorizedExisting(s, g) /\ ~Locked
    /\ subscribed' = [x \in DOMAIN subscribed \cup {s} |-> IF x = s THEN g ELSE subscribed[x]]
    /\ UNCHANGED <<tables, session, handler, closer, inbox, late, restarts, history>>

Unsubscribe(s) ==
    /\ s \in DOMAIN subscribed /\ ~Locked
    /\ subscribed' = [x \in DOMAIN subscribed \ {s} |-> subscribed[x]]
    /\ UNCHANGED <<tables, session, handler, closer, inbox, late, restarts, history>>

\* close(): the row without the registry's lock, then the rest under it.
CloseRow ==
    /\ closer = "none" /\ Open /\ PeerOk(Producer)
    /\ closer' = "row" /\ Ended
    /\ UNCHANGED <<session, subscribed, standing, dead, lapsed, permitted, handler, inbox, late,
                   restarts, history>>
CloseDrop ==
    /\ closer = "row" /\ ~Locked
    /\ closer' = "none" /\ Forget
    /\ UNCHANGED <<tables, handler, inbox, late, restarts, history>>

\* _require_active in a pull or a subscription that meets an expired lease:
\* expire() too ends the row first, and the rest under the lock.
ExpireLease ==
    /\ closer = "none" /\ Open /\ lapsed
    /\ closer' = "row" /\ Ended
    /\ UNCHANGED <<session, subscribed, standing, dead, lapsed, permitted, handler, inbox, late,
                   restarts, history>>

-----------------------------------------------------------------------------
(* _handle_stream_packet, one step per database access or unlocked gap *)

\* _verify_envelope and _authorize_existing_stream, for a durable envelope ...
EnterDurable(seq) ==
    /\ handler.at = "idle" /\ AuthorizedExisting(Producer, ProducerGrant)
    /\ handler' = [Idle EXCEPT !.at = "entered", !.seq = seq]
    /\ UNCHANGED <<tables, session, subscribed, closer, inbox, late, restarts, history>>

\* ... and for a volatile one, inside VolatileInbox.accept: a remembered id is
\* answered from the inbox, a full inbox refuses, late envelopes are refused.
Admit(m) == m \notin late /\ m \notin inbox /\ Cardinality(inbox) < InboxCapacity
EnterVolatile(m) ==
    /\ handler.at = "idle" /\ Admit(m) /\ AuthorizedExisting(Producer, ProducerGrant)
    /\ handler' = [Idle EXCEPT !.at = "entered", !.seq = SequenceOf(m), !.message = {m}]
    /\ UNCHANGED <<tables, session, subscribed, closer, inbox, late, restarts, history>>

\* A handler that raises leaves no entry; one that answers leaves its answer.
Raised == handler' = Idle /\ UNCHANGED <<inbox, handled>>
Answered ==
    /\ handler' = Idle
    /\ inbox' = inbox \cup (handler.message \ late)
    /\ handled' = [m \in Messages |-> handled[m] + (IF m \in handler.message THEN 1 ELSE 0)]

NextExpected == IF stream.storage = "memory" THEN session.next ELSE stream.next
\* _require_active, the delivery mode, and the session of a memory stream.
Usable ==
    /\ Open /\ ~lapsed
    /\ (stream.storage = "memory") = (handler.message # {})
    /\ stream.storage = "memory" => session # NoSession
\* Reliable takes only the next sequence; latest takes any newer one.
Duplicate(seq) == seq < NextExpected
Taken(seq) == stream.delivery = "reliable" => seq = NextExpected /\ CreditWindow > 0

RecordNew(seq) ==
    /\ accepted' = [accepted EXCEPT ![seq] = @ + 1]
    /\ deadAt' = [deadAt EXCEPT ![seq] = dead]

\* packet(): the lock is taken and the row read.  A memory stream is done here.
Judge ==
    IF ~Usable THEN Raised /\ UNCHANGED <<session, accepted, deadAt>>
    ELSE IF Duplicate(handler.seq) THEN Answered /\ UNCHANGED <<session, accepted, deadAt>>
    ELSE IF ~Taken(handler.seq) THEN Raised /\ UNCHANGED <<session, accepted, deadAt>>
    ELSE IF stream.storage = "memory"
    THEN /\ session' = [next |-> handler.seq + 1] /\ RecordNew(handler.seq)
         /\ handler' = [handler EXCEPT !.at = "fan"] /\ UNCHANGED <<inbox, handled>>
    ELSE /\ handler' = [handler EXCEPT !.at = "read"]
         /\ UNCHANGED <<session, accepted, deadAt, inbox, handled>>
\* A lease that ran out since the packet came in is met here, under the lock:
\* expire() then ends the row and forgets the rest before the lock is free.
ReadStream ==
    /\ handler.at = "entered"
    /\ IF Open /\ lapsed
       THEN Raised /\ Ended /\ Forget /\ UNCHANGED <<accepted, deadAt>>
       ELSE Judge /\ UNCHANGED <<stream, kept, subscribed>>
    /\ UNCHANGED <<standing, dead, lapsed, permitted, closer, late, restarts, pushed>>

Newest(S, n) == {q \in S : Cardinality({r \in S : r > q}) < n}
AdvanceBlind ==                                              \* fault: state not checked
    /\ stream' = [stream EXCEPT !.next = handler.seq + 1]
    /\ kept' = Newest(kept \cup {handler.seq}, stream.retention)
    /\ RecordNew(handler.seq) /\ handler' = [handler EXCEPT !.at = "fan"]
\* advance(): nothing is written for a stream that a close() ended meanwhile.
Advance ==
    IF Open
    THEN /\ stream' = [stream EXCEPT !.next = handler.seq + 1]
         /\ kept' = Newest(kept \cup {handler.seq}, stream.retention)
         /\ RecordNew(handler.seq) /\ handler' = [handler EXCEPT !.at = "fan"]
    ELSE handler' = Idle /\ UNCHANGED <<stream, kept, accepted, deadAt>>
AdvanceStream ==
    /\ handler.at = "read" /\ Advance
    /\ UNCHANGED <<session, subscribed, standing, dead, lapsed, permitted, closer, inbox, late,
                   restarts, handled, pushed>>

\* subscription_grants_of: a snapshot.
Snapshot ==
    /\ handler.at = "fan"
    /\ handler' = [handler EXCEPT !.at = "check",
                                  !.todo = {<<s, subscribed[s]>> : s \in DOMAIN subscribed}]
    /\ UNCHANGED <<tables, session, subscribed, closer, inbox, late, restarts, history>>

\* _stream_subscriber_is_authorized: asked again before every push.
StillAuthorizedAtSubscribe(s, g) == PeerOk(s)                \* fault: consent not asked again
StillAuthorized(s, g) == AuthorizedExisting(s, g)
Recheck ==
    /\ handler.at = "check"
    /\ \/ handler.todo = {} /\ Answered /\ UNCHANGED subscribed
       \/ \E e \in handler.todo :
             /\ IF StillAuthorized(e[1], e[2])
                THEN handler' = [handler EXCEPT !.at = "push", !.pick = {e}] /\ UNCHANGED subscribed
                ELSE /\ handler' = [handler EXCEPT !.todo = @ \ {e}]
                     /\ subscribed' = [x \in DOMAIN subscribed \ {e[1]} |-> subscribed[x]]
             /\ UNCHANGED <<inbox, handled>>
    /\ UNCHANGED <<tables, session, closer, late, restarts, accepted, deadAt, pushed>>

\* channels.push asks for the peer's standing once more.
PushPacket ==
    /\ handler.at = "push"
    /\ \E e \in handler.pick :
          /\ handler' = [handler EXCEPT !.at = "check", !.pick = {}, !.todo = @ \ {e}]
          /\ pushed' = IF PeerOk(e[1]) THEN pushed \cup {<<e[1], e[2], handler.seq>>} ELSE pushed
    /\ UNCHANGED <<tables, session, subscribed, closer, inbox, late, restarts, accepted, handled, deadAt>>

-----------------------------------------------------------------------------
(* The operator, time and the process *)

Bar(p) ==   \* revoke_peer, or the pairing expires
    /\ standing' = [standing EXCEPT ![p] = "barred"] /\ PeerOk(p)
    /\ UNCHANGED <<stream, kept, session, subscribed, dead, lapsed, permitted, handler, closer, inbox,
                   late, restarts, history>>
Pair(p) ==  \* confirm_peer: pairing again clears the revocation
    /\ standing' = [standing EXCEPT ![p] = "paired"] /\ ~PeerOk(p)
    /\ UNCHANGED <<stream, kept, session, subscribed, dead, lapsed, permitted, handler, closer, inbox,
                   late, restarts, history>>
EndGrant(g) ==   \* revoke_grant, or it expires
    /\ g \notin dead /\ dead' = dead \cup {g}
    /\ UNCHANGED <<stream, kept, session, subscribed, standing, lapsed, permitted, handler, closer,
                   inbox, late, restarts, history>>
Lapse ==
    /\ ~lapsed /\ lapsed' = TRUE
    /\ UNCHANGED <<stream, kept, session, subscribed, standing, dead, permitted, handler, closer, inbox,
                   late, restarts, history>>
\* An envelope passes its expires_at; only then is its entry dropped.
ExpireMessage(m) ==
    /\ m \notin late /\ late' = late \cup {m} /\ inbox' = inbox \ {m}
    /\ UNCHANGED <<tables, session, subscribed, handler, closer, restarts, history>>
\* The process exits: envelopes are bound to its instance, the sharing rules
\* are read again.
RestartNode ==
    /\ restarts < MaxRestarts /\ restarts' = restarts + 1
    /\ handler' = Idle /\ closer' = "none" /\ Forget
    /\ inbox' = {} /\ late' = late \cup handler.message \cup {m \in Messages : handled[m] > 0}
    /\ permitted' \in BOOLEAN
    /\ UNCHANGED <<stream, kept, standing, dead, lapsed, history>>

StreamInit ==
    /\ stream = NoStream /\ kept = {} /\ session = NoSession /\ subscribed = <<>>
    /\ standing = [p \in StreamPeers |-> "paired"] /\ dead = {} /\ lapsed = FALSE /\ permitted = TRUE
    /\ handler = Idle /\ closer = "none" /\ inbox = {} /\ late = {} /\ restarts = 0
    /\ accepted = [q \in Sequences0 |-> 0] /\ handled = [m \in Messages |-> 0]
    /\ deadAt = [q \in Sequences0 |-> {}] /\ pushed = {}
StreamNext ==
    \/ \E d \in {"reliable", "latest"}, st \in {"disk", "memory"} : OpenStream(d, st)
    \/ \E s \in Subscribers : Unsubscribe(s) \/ \E g \in Grants : Subscribe(s, g)
    \/ CloseRow \/ CloseDrop \/ ExpireLease
    \/ \E q \in Sequences0 : EnterDurable(q)
    \/ \E m \in Messages : EnterVolatile(m) \/ ExpireMessage(m)
    \/ ReadStream \/ AdvanceStream \/ Snapshot \/ Recheck \/ PushPacket
    \/ \E p \in StreamPeers : Bar(p) \/ Pair(p)
    \/ \E g \in Grants : EndGrant(g)
    \/ Lapse \/ RestartNode
StreamSpec == StreamInit /\ [][StreamNext]_streamVars

-----------------------------------------------------------------------------
(* Properties *)

Offers == Subscribers \X Grants
Handlers == [at : {"idle", "entered", "read", "fan", "check", "push"}, seq : Sequences0,
             todo : SUBSET Offers, pick : SUBSET Offers, message : SUBSET Messages]
StreamTypeOK ==
    /\ stream \in StreamRows \cup {NoStream} /\ session \in Sessions \cup {NoSession}
    /\ kept \subseteq Sequences0
    /\ DOMAIN subscribed \subseteq Subscribers
    /\ \A s \in DOMAIN subscribed : subscribed[s] \in Grants
    /\ standing \in [StreamPeers -> {"paired", "barred"}] /\ dead \subseteq Grants
    /\ lapsed \in BOOLEAN /\ permitted \in BOOLEAN
    /\ handler \in Handlers /\ closer \in {"none", "row"}
    /\ inbox \subseteq Messages /\ late \subseteq Messages /\ restarts \in Nat
    /\ accepted \in [Sequences0 -> Nat] /\ handled \in [Messages -> Nat]
    /\ deadAt \in [Sequences0 -> SUBSET Grants]
    /\ pushed \subseteq Subscribers \X Grants \X Sequences0

\* The packets a subscriber can pull are the newest ones, without a gap when
\* the stream is reliable, and none once it is closed, although close() does
\* not take the registry's lock; no sequence is accepted as new twice and no
\* volatile envelope is handled twice, across retries, late copies and a
\* restart that loses the state of a memory stream.
StreamIsKept ==
    /\ stream # NoStream /\ stream.state = "closed" => kept = {}
    /\ Open /\ stream.delivery = "reliable" =>
          kept = {q \in Sequences0 : q < stream.next /\ q >= stream.next - stream.retention}
    /\ \A q \in Sequences0 : accepted[q] <= 1
    /\ \A m \in Messages : handled[m] <= 1

\* "Recheck recipient consent and peer state immediately before forwarding"
\* (core.py): a packet accepted after a grant ended is never forwarded on it.
PushIsConsented == \A e \in pushed : e[2] \notin deadAt[e[3]]
=============================================================================
