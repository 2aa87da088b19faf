---------------------------- MODULE ExchangeProofs ----------------------------
(***************************************************************************)
(* Machine-checked facts about what peers exchange: Streams, Artifacts,    *)
(* Pairing and Channels, for any number of subscribers, grants, packets,   *)
(* envelopes, digests, systems, sockets and restarts.                      *)
(***************************************************************************)
EXTENDS Streams, Artifacts, Pairing, Channels, FiniteSetTheorems, WellFoundedInduction, TLAPS

-----------------------------------------------------------------------------
(* Streams: the inductive invariant *)

\* What has been accepted is behind the next sequence, wherever that is kept.
Behind(q) ==
    /\ stream # NoStream
    /\ stream.storage = "disk" => q < stream.next
    /\ stream.storage = "memory" => session = NoSession \/ q < session.next
AcceptInv ==
    /\ \A q \in Sequences0 : accepted[q] > 0 => accepted[q] = 1 /\ Behind(q)
    /\ handler.at = "read" =>
          /\ stream # NoStream /\ stream.storage = "disk" /\ stream.next <= handler.seq
          /\ stream.delivery = "reliable" => stream.next = handler.seq

\* The retained packets; a stream kept in memory is never reliable.
KeptInv ==
    /\ stream = NoStream => kept = {}
    /\ stream # NoStream =>
          /\ stream.state = "closed" => kept = {}
          /\ stream.delivery = "reliable" => stream.storage = "disk"
          /\ stream.state = "open" /\ stream.delivery = "reliable" =>
                kept = {q \in Sequences0 : q < stream.next /\ q >= stream.next - stream.retention}

\* An envelope that was handled is remembered or late; the one in the handler
\* has not been.
HandledInv ==
    /\ \A m \in Messages : handled[m] > 0 => handled[m] = 1 /\ m \in inbox \cup late
    /\ \A m \in handler.message : handled[m] = 0

\* What is forwarded was accepted under the grant it is forwarded on.
ForwardInv ==
    /\ \A q \in Sequences0 : deadAt[q] \subseteq dead
    /\ handler.at \in {"fan", "check", "push"} => accepted[handler.seq] > 0
    /\ handler.at = "push" => \A e \in handler.pick : e[2] \notin deadAt[handler.seq]
    /\ \A e \in pushed : accepted[e[3]] > 0 /\ e[2] \notin deadAt[e[3]]

StreamInv == StreamTypeOK /\ AcceptInv /\ KeptInv /\ HandledInv /\ ForwardInv

LEMMA StreamInitially == ASSUME StreamInit PROVE StreamInv
<1>1. MaxSequence \in Nat /\ 0 \in Sequences0
  BY StreamAssumption DEF Sequences0
<1>2. Idle \in Handlers
  BY <1>1 DEF Idle, Handlers
<1>3. StreamTypeOK
  BY <1>1, <1>2 DEF StreamInit, StreamTypeOK
<1>4. AcceptInv /\ KeptInv /\ HandledInv /\ ForwardInv
  BY <1>1 DEF StreamInit, AcceptInv, KeptInv, HandledInv, ForwardInv, Idle
<1>5. QED
  BY <1>3, <1>4 DEF StreamInv

-----------------------------------------------------------------------------
(* Streams: every step keeps the invariant *)

\* What the handler's type says of its parts, and of its next states.
LEMMA HandlerParts ==
    ASSUME NEW h \in Handlers
    PROVE  /\ h.at \in {"idle", "entered", "read", "fan", "check", "push"} /\ h.seq \in Sequences0
           /\ h.todo \subseteq Offers /\ h.pick \subseteq Offers /\ h.message \subseteq Messages
           /\ \A at \in {"read", "fan"} :
                 /\ [h EXCEPT !.at = at] \in Handlers /\ [h EXCEPT !.at = at].at = at
                 /\ [h EXCEPT !.at = at].seq = h.seq /\ [h EXCEPT !.at = at].message = h.message
BY DEF Handlers

LEMMA IdleHandler == Idle \in Handlers /\ Idle.at = "idle" /\ Idle.message = {}
<1>1. 0 \in Sequences0
  BY StreamAssumption DEF Sequences0
<1>2. QED
  BY <1>1 DEF Idle, Handlers

LEMMA EnteredHandler ==
    /\ \A q \in Sequences0 : \E h \in Handlers :
          h = [Idle EXCEPT !.at = "entered", !.seq = q] /\ h.at = "entered" /\ h.message = {}
    /\ \A q \in Sequences0, m \in Messages : \E h \in Handlers :
          /\ h = [Idle EXCEPT !.at = "entered", !.seq = q, !.message = {m}]
          /\ h.at = "entered" /\ h.message = {m}
<1>1. ASSUME NEW q \in Sequences0, NEW h, h = [Idle EXCEPT !.at = "entered", !.seq = q]
      PROVE  h \in Handlers /\ h.at = "entered" /\ h.message = {}
  BY <1>1 DEF Idle, Handlers
<1>2. ASSUME NEW q \in Sequences0, NEW m \in Messages, NEW h,
             h = [Idle EXCEPT !.at = "entered", !.seq = q, !.message = {m}]
      PROVE  h \in Handlers /\ h.at = "entered" /\ h.message = {m}
  BY <1>2 DEF Idle, Handlers
<1>3. QED
  BY <1>1, <1>2

\* The steps that leave the stream, its handler and the histories alone.
LEMMA AuthorityKeeps ==
    ASSUME StreamInv,
           \/ \E p \in StreamPeers : Bar(p) \/ Pair(p)
           \/ \E g \in Grants : EndGrant(g)
           \/ Lapse
    PROVE  StreamInv'
<1>1. /\ dead \subseteq dead' /\ dead' \subseteq Grants
      /\ standing' \in [StreamPeers -> {"paired", "barred"}] /\ lapsed' \in BOOLEAN
      /\ UNCHANGED <<stream, kept, session, subscribed, permitted, handler, closer, inbox, late,
                     restarts, history>>
  BY DEF Bar, Pair, EndGrant, Lapse, StreamInv, StreamTypeOK
<1>2. StreamTypeOK'
  BY <1>1 DEF StreamInv, StreamTypeOK, history
<1>3. AcceptInv' /\ KeptInv' /\ HandledInv'
  BY <1>1 DEF StreamInv, AcceptInv, Behind, KeptInv, HandledInv, history
<1>4. ForwardInv'
  BY <1>1 DEF StreamInv, ForwardInv, history
<1>5. QED
  BY <1>2, <1>3, <1>4 DEF StreamInv

LEMMA SubscriptionKeeps ==
    ASSUME StreamInv, NEW s \in Subscribers, Unsubscribe(s) \/ \E g \in Grants : Subscribe(s, g)
    PROVE  StreamInv'
<1>1. /\ UNCHANGED <<tables, session, handler, closer, inbox, late, restarts, history>>
      /\ DOMAIN subscribed' \subseteq Subscribers
      /\ \A x \in DOMAIN subscribed' : subscribed'[x] \in Grants
  <2>1. CASE Unsubscribe(s)
    BY <2>1 DEF Unsubscribe, StreamInv, StreamTypeOK
  <2>2. ASSUME NEW g \in Grants, Subscribe(s, g)
        PROVE  /\ UNCHANGED <<tables, session, handler, closer, inbox, late, restarts, history>>
               /\ DOMAIN subscribed' \subseteq Subscribers
               /\ \A x \in DOMAIN subscribed' : subscribed'[x] \in Grants
    BY <2>2 DEF Subscribe, StreamInv, StreamTypeOK
  <2>3. QED
    BY <2>1, <2>2
<1>2. StreamTypeOK'
  BY <1>1 DEF StreamInv, StreamTypeOK, tables, history
<1>3. AcceptInv' /\ KeptInv' /\ HandledInv' /\ ForwardInv'
  BY <1>1 DEF StreamInv, AcceptInv, Behind, KeptInv, HandledInv, ForwardInv, tables, history
<1>4. QED
  BY <1>2, <1>3 DEF StreamInv

LEMMA OpenKeeps ==
    ASSUME StreamInv, NEW d \in {"reliable", "latest"}, NEW st \in {"disk", "memory"}, OpenStream(d, st)
    PROVE  StreamInv'
<1>1. /\ stream' \in StreamRows /\ stream' # NoStream
      /\ stream'.state = "open" /\ stream'.delivery = d /\ stream'.storage = st /\ stream'.next = 0
      /\ stream'.retention \in Nat
      /\ d = "reliable" => st = "disk"
      /\ session' \in Sessions \cup {NoSession}
  BY StreamAssumption DEF OpenStream, StreamRows, Sessions
<1>2. /\ stream = NoStream
      /\ UNCHANGED <<kept, subscribed, standing, dead, lapsed, permitted, handler, closer, inbox, late,
                     restarts, history>>
  BY DEF OpenStream
<1>3. \A q \in Sequences0 : accepted[q] = 0
  BY <1>2 DEF StreamInv, StreamTypeOK, AcceptInv, Behind
<1>4. StreamTypeOK'
  BY <1>1, <1>2 DEF StreamInv, StreamTypeOK, history
<1>5. AcceptInv' /\ HandledInv' /\ ForwardInv'
  BY <1>2, <1>3 DEF StreamInv, StreamTypeOK, AcceptInv, HandledInv, ForwardInv, history
<1>6. KeptInv'
  <2>1. {q \in Sequences0 : q < 0 /\ q >= 0 - stream'.retention} = {}
    BY StreamAssumption DEF Sequences0
  <2>2. kept' = {}
    BY <1>2 DEF StreamInv, KeptInv
  <2>3. QED
    BY <1>1, <2>1, <2>2 DEF KeptInv
<1>7. QED
  BY <1>4, <1>5, <1>6 DEF StreamInv

\* A row that ends keeps everything but its state and its packets.
LEMMA EndedRow ==
    ASSUME StreamInv, stream # NoStream, stream' = [stream EXCEPT !.state = "closed"]
    PROVE  /\ stream \in StreamRows /\ stream' \in StreamRows /\ stream' # NoStream
           /\ stream'.state = "closed" /\ stream'.delivery = stream.delivery
           /\ stream'.storage = stream.storage /\ stream'.next = stream.next
BY StreamAssumption DEF StreamInv, StreamTypeOK, StreamRows

LEMMA CloseKeeps ==
    ASSUME StreamInv, CloseRow \/ CloseDrop \/ ExpireLease
    PROVE  StreamInv'
<1>1. /\ UNCHANGED <<standing, dead, lapsed, permitted, handler, inbox, late, restarts, history>>
      /\ closer' \in {"none", "row"}
      /\ session' \in {session, NoSession}
      /\ subscribed' \in {subscribed, <<>>}
  BY DEF CloseRow, CloseDrop, ExpireLease, Forget, StreamInv, StreamTypeOK, tables
<1>2. \/ UNCHANGED <<stream, kept>>
      \/ /\ stream # NoStream /\ stream' = [stream EXCEPT !.state = "closed"] /\ kept' = {}
  BY DEF CloseRow, CloseDrop, ExpireLease, Ended, Open, tables
<1>3. /\ DOMAIN subscribed' \subseteq Subscribers
      /\ \A x \in DOMAIN subscribed' : subscribed'[x] \in Grants
  BY <1>1 DEF StreamInv, StreamTypeOK
<1>4. /\ stream' \in StreamRows \cup {NoStream} /\ kept' \subseteq Sequences0
      /\ stream # NoStream => /\ stream' # NoStream /\ stream'.storage = stream.storage
                              /\ stream'.next = stream.next /\ stream'.delivery = stream.delivery
  BY <1>2, EndedRow DEF StreamInv, StreamTypeOK
<1>5. StreamTypeOK'
  BY <1>1, <1>3, <1>4 DEF StreamInv, StreamTypeOK, history
<1>6. AcceptInv'
  BY <1>1, <1>4 DEF StreamInv, AcceptInv, Behind, history
<1>7. HandledInv' /\ ForwardInv'
  BY <1>1 DEF StreamInv, HandledInv, ForwardInv, history
<1>8. KeptInv'
  <2>1. CASE UNCHANGED <<stream, kept>>
    BY <2>1 DEF StreamInv, KeptInv
  <2>2. CASE stream # NoStream /\ stream' = [stream EXCEPT !.state = "closed"] /\ kept' = {}
    BY <2>2, EndedRow DEF StreamInv, KeptInv
  <2>3. QED
    BY <1>2, <2>1, <2>2
<1>9. QED
  BY <1>5, <1>6, <1>7, <1>8 DEF StreamInv

LEMMA EnterKeeps ==
    ASSUME StreamInv,
           \/ \E q \in Sequences0 : EnterDurable(q)
           \/ \E m \in Messages : EnterVolatile(m)
    PROVE  StreamInv'
<1>1. /\ UNCHANGED <<tables, session, subscribed, closer, inbox, late, restarts, history>>
      /\ handler' \in Handlers /\ handler'.at = "entered"
      /\ \A m \in handler'.message : m \in Messages /\ m \notin inbox \cup late
  <2>1. ASSUME NEW q \in Sequences0, EnterDurable(q)
        PROVE  /\ UNCHANGED <<tables, session, subscribed, closer, inbox, late, restarts, history>>
               /\ handler' \in Handlers /\ handler'.at = "entered"
               /\ handler'.message = {}
    BY <2>1, EnteredHandler DEF EnterDurable
  <2>2. ASSUME NEW m \in Messages, EnterVolatile(m)
        PROVE  /\ UNCHANGED <<tables, session, subscribed, closer, inbox, late, restarts, history>>
               /\ handler' \in Handlers /\ handler'.at = "entered"
               /\ handler'.message = {m} /\ m \notin inbox \cup late
    <3>1. SequenceOf(m) \in Sequences0
      BY StreamAssumption
    <3>2. PICK h \in Handlers :
             /\ h = [Idle EXCEPT !.at = "entered", !.seq = SequenceOf(m), !.message = {m}]
             /\ h.at = "entered" /\ h.message = {m}
      BY <3>1, EnteredHandler
    <3>3. handler' = h
      BY <2>2, <3>2 DEF EnterVolatile
    <3>4. QED
      BY <2>2, <3>2, <3>3 DEF EnterVolatile, Admit
  <2>3. QED
    BY <2>1, <2>2
<1>2. StreamTypeOK'
  BY <1>1 DEF StreamInv, StreamTypeOK, tables, history
<1>3. AcceptInv' /\ KeptInv' /\ ForwardInv'
  BY <1>1 DEF StreamInv, AcceptInv, Behind, KeptInv, ForwardInv, tables, history
<1>4. HandledInv'
  BY <1>1 DEF StreamInv, StreamTypeOK, HandledInv, tables, history
<1>5. QED
  BY <1>2, <1>3, <1>4 DEF StreamInv

\* The handler ends, with or without an answer to remember.
LEMMA HandlerEnds ==
    ASSUME StreamInv, Raised \/ Answered, UNCHANGED late
    PROVE  /\ handler' = Idle /\ handler' \in Handlers /\ handler'.at = "idle"
           /\ inbox' \subseteq Messages /\ handled' \in [Messages -> Nat] /\ HandledInv'
<1>1. handler' = Idle /\ handler' \in Handlers /\ handler'.at = "idle" /\ handler'.message = {}
  BY IdleHandler DEF Raised, Answered
<1>2. handler.message \subseteq Messages
  BY HandlerParts DEF StreamInv, StreamTypeOK
<1>3. CASE Raised
  BY <1>1, <1>3 DEF Raised, StreamInv, StreamTypeOK, HandledInv
<1>4. CASE Answered
  <2>1. /\ inbox' = inbox \cup (handler.message \ late)
        /\ \A m \in Messages : handled'[m] = handled[m] + (IF m \in handler.message THEN 1 ELSE 0)
    BY <1>4 DEF Answered
  <2>2. inbox' \subseteq Messages /\ handled' \in [Messages -> Nat]
    BY <1>2, <1>4 DEF Answered, StreamInv, StreamTypeOK
  <2>3. \A m \in Messages : handled'[m] > 0 => handled'[m] = 1 /\ m \in inbox' \cup late'
    BY <1>2, <2>1 DEF StreamInv, StreamTypeOK, HandledInv
  <2>4. QED
    BY <1>1, <2>2, <2>3 DEF HandledInv
<1>5. QED
  BY <1>3, <1>4

\* A sequence at or past the next one is recorded as new for the first time.
LEMMA RecordedNew ==
    ASSUME StreamInv, NEW q \in Sequences0, RecordNew(q), accepted[q] = 0, UNCHANGED <<dead, pushed>>
    PROVE  /\ accepted' \in [Sequences0 -> Nat] /\ deadAt' \in [Sequences0 -> SUBSET Grants]
           /\ accepted'[q] = 1
           /\ \A x \in Sequences0 : x # q => accepted'[x] = accepted[x]
           /\ \A x \in Sequences0 : deadAt'[x] \subseteq dead'
           /\ \A e \in pushed' : accepted'[e[3]] > 0 /\ e[2] \notin deadAt'[e[3]]
<1>1. /\ accepted' \in [Sequences0 -> Nat] /\ deadAt' \in [Sequences0 -> SUBSET Grants]
      /\ accepted'[q] = 1 /\ deadAt'[q] = dead
      /\ \A x \in Sequences0 : x # q => accepted'[x] = accepted[x] /\ deadAt'[x] = deadAt[x]
  BY DEF RecordNew, StreamInv, StreamTypeOK
<1>2. \A e \in pushed : e[3] \in Sequences0 /\ accepted[e[3]] > 0 /\ e[2] \notin deadAt[e[3]]
  BY DEF StreamInv, StreamTypeOK, ForwardInv
<1>3. QED
  BY <1>1, <1>2 DEF StreamInv, ForwardInv

\* packet() under the lock: refused, a duplicate, new on a memory stream, or
\* on the way to advance().
LEMMA JudgeKeeps ==
    ASSUME StreamInv, handler.at = "entered", Judge,
           UNCHANGED <<tables, subscribed, closer, late, restarts, pushed>>
    PROVE  StreamInv'
<1>1. UNCHANGED <<tables, subscribed, closer, late, restarts, pushed>>
  OBVIOUS
<1>2. /\ handler \in Handlers /\ handler.seq \in Sequences0 /\ handler.at = "entered"
      /\ Sequences0 \subseteq Nat
  <2>1. handler \in Handlers /\ handler.seq \in Sequences0 /\ handler.at = "entered"
    BY HandlerParts DEF StreamInv, StreamTypeOK
  <2>2. QED
    BY <2>1 DEF Sequences0
<1>3. CASE (Raised \/ Answered) /\ UNCHANGED <<session, accepted, deadAt>>
  <2>1. /\ handler' \in Handlers /\ handler'.at = "idle"
        /\ inbox' \subseteq Messages /\ handled' \in [Messages -> Nat] /\ HandledInv'
    BY <1>1, <1>3, HandlerEnds
  <2>2. StreamTypeOK'
    BY <1>1, <1>3, <2>1 DEF StreamInv, StreamTypeOK, tables
  <2>3. AcceptInv' /\ KeptInv' /\ ForwardInv'
    BY <1>1, <1>3, <2>1 DEF StreamInv, AcceptInv, Behind, KeptInv, ForwardInv, tables
  <2>4. QED
    BY <2>1, <2>2, <2>3 DEF StreamInv
<1>4. CASE /\ Usable /\ ~Duplicate(handler.seq) /\ stream.storage = "memory"
           /\ session' = [next |-> handler.seq + 1] /\ RecordNew(handler.seq)
           /\ handler' = [handler EXCEPT !.at = "fan"] /\ UNCHANGED <<inbox, handled>>
  <2>1. /\ stream # NoStream /\ session \in Sessions /\ session.next <= handler.seq /\ session.next \in Nat
    BY <1>2, <1>4 DEF Usable, Open, Duplicate, NextExpected, StreamInv, StreamTypeOK, Sessions
  <2>2. session' \in Sessions /\ session' # NoSession /\ session'.next = handler.seq + 1
    BY <1>2, <1>4, StreamAssumption DEF Sessions
  <2>3. accepted[handler.seq] = 0
    BY <1>2, <1>4, <2>1, StreamAssumption DEF StreamInv, StreamTypeOK, AcceptInv, Behind
  <2>4. /\ accepted' \in [Sequences0 -> Nat] /\ deadAt' \in [Sequences0 -> SUBSET Grants]
        /\ accepted'[handler.seq] = 1
        /\ \A x \in Sequences0 : x # handler.seq => accepted'[x] = accepted[x]
        /\ \A x \in Sequences0 : deadAt'[x] \subseteq dead'
        /\ \A e \in pushed' : accepted'[e[3]] > 0 /\ e[2] \notin deadAt'[e[3]]
    BY <1>1, <1>2, <1>4, <2>3, RecordedNew DEF tables
  <2>5. /\ handler' \in Handlers /\ handler'.at = "fan" /\ handler'.seq = handler.seq
        /\ handler'.message = handler.message
    BY <1>2, <1>4, HandlerParts
  <2>6. StreamTypeOK'
    BY <1>1, <1>4, <2>2, <2>4, <2>5 DEF StreamInv, StreamTypeOK, tables
  <2>7. AcceptInv'
    <3>1. ASSUME NEW q \in Sequences0, accepted'[q] > 0
          PROVE  accepted'[q] = 1 /\ q < session'.next
      BY <1>2, <1>4, <2>1, <2>2, <2>4, <3>1, StreamAssumption DEF StreamInv, AcceptInv, Behind
    <3>2. QED
      BY <1>1, <1>4, <2>1, <2>5, <3>1 DEF AcceptInv, Behind, tables
  <2>8. KeptInv' /\ HandledInv'
    BY <1>1, <1>4, <2>5 DEF StreamInv, KeptInv, HandledInv, tables
  <2>9. ForwardInv'
    BY <2>4, <2>5 DEF ForwardInv
  <2>10. QED
    BY <2>6, <2>7, <2>8, <2>9 DEF StreamInv
<1>5. CASE /\ Usable /\ ~Duplicate(handler.seq) /\ Taken(handler.seq) /\ stream.storage # "memory"
           /\ handler' = [handler EXCEPT !.at = "read"]
           /\ UNCHANGED <<session, accepted, deadAt, inbox, handled>>
  <2>1. /\ handler' \in Handlers /\ handler'.at = "read" /\ handler'.seq = handler.seq
        /\ handler'.message = handler.message
    BY <1>2, <1>5, HandlerParts
  <2>2. stream # NoStream /\ stream.next \in Nat /\ stream.storage = "disk"
    BY <1>5 DEF Usable, Open, StreamInv, StreamTypeOK, StreamRows
  <2>3. stream.next <= handler.seq /\ (stream.delivery = "reliable" => stream.next = handler.seq)
    BY <1>2, <1>5, <2>2 DEF Duplicate, Taken, NextExpected
  <2>4. StreamTypeOK'
    BY <1>1, <1>5, <2>1 DEF StreamInv, StreamTypeOK, tables
  <2>5. AcceptInv' /\ KeptInv' /\ HandledInv' /\ ForwardInv'
    BY <1>1, <1>5, <2>1, <2>2, <2>3 DEF StreamInv, AcceptInv, Behind, KeptInv, HandledInv, ForwardInv, tables
  <2>6. QED
    BY <2>4, <2>5 DEF StreamInv
<1>6. QED
  BY <1>3, <1>4, <1>5 DEF Judge

\* The same, or a lease that ran out is met and the stream ends.
LEMMA ReadKeeps == ASSUME StreamInv, ReadStream PROVE StreamInv'
<1>1. CASE Judge /\ UNCHANGED <<stream, kept, subscribed>>
  BY <1>1, JudgeKeeps DEF ReadStream, tables
<1>2. CASE Open /\ Raised /\ Ended /\ Forget /\ UNCHANGED <<accepted, deadAt>>
  <2>1. /\ UNCHANGED <<standing, dead, lapsed, permitted, closer, late, restarts, pushed>>
        /\ stream # NoStream /\ stream' = [stream EXCEPT !.state = "closed"] /\ kept' = {}
        /\ session' = NoSession /\ subscribed' = <<>>
    BY <1>2 DEF ReadStream, Open, Ended, Forget
  <2>2. /\ handler' \in Handlers /\ handler'.at = "idle"
        /\ inbox' \subseteq Messages /\ handled' \in [Messages -> Nat] /\ HandledInv'
    BY <1>2, <2>1, HandlerEnds
  <2>3. /\ stream' \in StreamRows /\ stream' # NoStream
        /\ stream'.state = "closed" /\ stream'.delivery = stream.delivery
        /\ stream'.storage = stream.storage /\ stream'.next = stream.next
    BY <2>1, EndedRow
  <2>4. StreamTypeOK'
    BY <1>2, <2>1, <2>2, <2>3 DEF StreamInv, StreamTypeOK
  <2>5. AcceptInv' /\ KeptInv' /\ ForwardInv'
    BY <1>2, <2>1, <2>2, <2>3 DEF StreamInv, AcceptInv, Behind, KeptInv, ForwardInv
  <2>6. QED
    BY <2>2, <2>4, <2>5 DEF StreamInv
<1>3. QED
  BY <1>1, <1>2 DEF ReadStream

\* The newest of an interval of packets, after the next one was added.
LEMMA NewestOfInterval ==
    ASSUME NEW n \in Sequences0, NEW keep \in Nat, NEW K,
           K = {q \in Sequences0 : q < n /\ q >= n - keep}
    PROVE  Newest(K \cup {n}, keep) = {q \in Sequences0 : q < n + 1 /\ q >= n + 1 - keep}
<1> DEFINE S == K \cup {n}
<1>1. n \in Nat /\ MaxSequence \in Nat /\ n <= MaxSequence
  BY StreamAssumption DEF Sequences0
<1>2. ASSUME NEW q \in S
      PROVE  Cardinality({r \in S : r > q}) = n - q
  <2>1. q \in Nat /\ q <= n /\ q >= n - keep
    BY <1>1, <1>2 DEF Sequences0
  <2>2. {r \in S : r > q} = (q + 1)..n
    BY <1>1, <2>1 DEF Sequences0
  <2>3. q + 1 \in Int /\ n \in Int
    BY <1>1, <2>1
  <2>4. Cardinality((q + 1)..n) = IF q + 1 > n THEN 0 ELSE n - (q + 1) + 1
    BY <2>3, FS_Interval
  <2>5. (IF q + 1 > n THEN 0 ELSE n - (q + 1) + 1) = n - q
    BY <1>1, <2>1
  <2>6. QED
    BY <2>2, <2>4, <2>5, Zenon
<1>3. Newest(S, keep) = {q \in S : n - q < keep}
  BY <1>2 DEF Newest
<1>4. {q \in S : n - q < keep} = {q \in Sequences0 : q < n + 1 /\ q >= n + 1 - keep}
  BY <1>1 DEF Sequences0
<1>5. QED
  BY <1>3, <1>4

\* advance(): the row and the packet in one transaction, or nothing.
LEMMA AdvanceKeeps == ASSUME StreamInv, AdvanceStream PROVE StreamInv'
<1>1. UNCHANGED <<session, subscribed, standing, dead, lapsed, permitted, closer, inbox, late,
                  restarts, handled, pushed>>
  BY DEF AdvanceStream
<1>2. /\ handler \in Handlers /\ handler.seq \in Sequences0 /\ handler.at = "read"
      /\ stream \in StreamRows /\ stream # NoStream /\ stream.storage = "disk"
      /\ stream.next <= handler.seq /\ (stream.delivery = "reliable" => stream.next = handler.seq)
  BY HandlerParts DEF AdvanceStream, StreamInv, StreamTypeOK, AcceptInv
<1>3. /\ stream.next \in Nat /\ stream.retention \in Nat /\ stream.state \in {"open", "closed"}
      /\ stream.delivery \in {"reliable", "latest"}
  BY <1>2 DEF StreamRows
<1>4. handler.seq \in Nat /\ \A q \in Sequences0 : q \in Nat
  BY <1>2 DEF Sequences0
<1>5. CASE handler' = Idle /\ UNCHANGED <<stream, kept, accepted, deadAt>>
  <2>1. handler' \in Handlers /\ handler'.at = "idle" /\ handler'.message = {}
    BY <1>5, IdleHandler
  <2>2. StreamTypeOK'
    BY <1>1, <1>5, <2>1 DEF StreamInv, StreamTypeOK
  <2>3. AcceptInv' /\ KeptInv' /\ HandledInv' /\ ForwardInv'
    BY <1>1, <1>5, <2>1 DEF StreamInv, AcceptInv, Behind, KeptInv, HandledInv, ForwardInv
  <2>4. QED
    BY <2>2, <2>3 DEF StreamInv
<1>6. CASE /\ Open /\ stream' = [stream EXCEPT !.next = handler.seq + 1]
           /\ kept' = Newest(kept \cup {handler.seq}, stream.retention)
           /\ RecordNew(handler.seq) /\ handler' = [handler EXCEPT !.at = "fan"]
  <2>1. /\ stream' \in StreamRows /\ stream' # NoStream /\ stream'.next = handler.seq + 1
        /\ stream'.storage = "disk" /\ stream'.delivery = stream.delivery
        /\ stream'.retention = stream.retention /\ stream'.state = stream.state
    BY <1>2, <1>4, <1>6, StreamAssumption DEF StreamRows
  <2>2. accepted[handler.seq] = 0
    <3>1. accepted[handler.seq] > 0 => Behind(handler.seq)
      BY <1>2 DEF StreamInv, AcceptInv
    <3>2. ~Behind(handler.seq)
      <4>1. stream.storage = "disk" /\ ~(handler.seq < stream.next)
        BY <1>2, <1>3, <1>4
      <4>2. QED
        BY <4>1 DEF Behind
    <3>3. QED
      BY <1>2, <3>1, <3>2 DEF StreamInv, StreamTypeOK
  <2>3. /\ accepted' \in [Sequences0 -> Nat] /\ deadAt' \in [Sequences0 -> SUBSET Grants]
        /\ accepted'[handler.seq] = 1
        /\ \A x \in Sequences0 : x # handler.seq => accepted'[x] = accepted[x]
        /\ \A x \in Sequences0 : deadAt'[x] \subseteq dead'
        /\ \A e \in pushed' : accepted'[e[3]] > 0 /\ e[2] \notin deadAt'[e[3]]
    BY <1>1, <1>2, <1>6, <2>2, RecordedNew
  <2>4. /\ handler' \in Handlers /\ handler'.at = "fan" /\ handler'.seq = handler.seq
        /\ handler'.message = handler.message
    BY <1>2, <1>6, HandlerParts
  <2>5. kept' \subseteq Sequences0
    BY <1>2, <1>6 DEF Newest, StreamInv, StreamTypeOK
  <2>6. StreamTypeOK'
    BY <1>1, <2>1, <2>3, <2>4, <2>5 DEF StreamInv, StreamTypeOK
  <2>7. AcceptInv'
    <3>1. ASSUME NEW q \in Sequences0, accepted'[q] > 0
          PROVE  accepted'[q] = 1 /\ q < stream'.next
      <4>1. CASE q = handler.seq
        BY <1>4, <2>1, <2>3, <4>1
      <4>2. CASE q # handler.seq
        <5>1. accepted'[q] = 1 /\ Behind(q)
          BY <2>3, <3>1, <4>2 DEF StreamInv, AcceptInv
        <5>2. q < stream.next
          BY <1>2, <5>1 DEF Behind
        <5>3. QED
          BY <1>2, <1>3, <1>4, <2>1, <5>1, <5>2
      <4>3. QED
        BY <4>1, <4>2
    <3>2. QED
      BY <2>1, <2>4, <3>1 DEF AcceptInv, Behind
  <2>8. KeptInv'
    <3>1. stream.delivery = "reliable" =>
             kept' = {q \in Sequences0 : q < stream'.next /\ q >= stream'.next - stream'.retention}
      <4>1. SUFFICES ASSUME stream.delivery = "reliable"
                     PROVE  kept' = {q \in Sequences0 : q < stream'.next /\ q >= stream'.next - stream'.retention}
        OBVIOUS
      <4>2. kept = {q \in Sequences0 : q < handler.seq /\ q >= handler.seq - stream.retention}
        BY <1>2, <1>6, <4>1 DEF StreamInv, KeptInv, Open
      <4>3. kept' = {q \in Sequences0 : q < handler.seq + 1 /\ q >= handler.seq + 1 - stream.retention}
        BY <1>2, <1>3, <1>6, <4>2, NewestOfInterval
      <4>4. \A q \in Sequences0 :
               q < stream'.next /\ q >= stream'.next - stream'.retention
               <=> q < handler.seq + 1 /\ q >= handler.seq + 1 - stream.retention
        BY <1>3, <1>4, <2>1
      <4>5. QED
        BY <4>3, <4>4
    <3>2. QED
      BY <1>2, <1>6, <2>1, <3>1 DEF StreamInv, KeptInv, Open
  <2>9. HandledInv'
    BY <1>1, <2>4 DEF StreamInv, HandledInv
  <2>10. ForwardInv'
    BY <2>3, <2>4 DEF ForwardInv
  <2>11. QED
    BY <2>6, <2>7, <2>8, <2>9, <2>10 DEF StreamInv
<1>7. QED
  BY <1>5, <1>6 DEF AdvanceStream, Advance

\* The fan-out: the snapshot, the question before each push, and the push.
LEMMA FanKeeps == ASSUME StreamInv, Snapshot \/ Recheck \/ PushPacket PROVE StreamInv'
<1>1. UNCHANGED <<tables, session, closer, late, restarts, accepted, deadAt>>
  BY DEF Snapshot, Recheck, PushPacket, history
<1>2. handler \in Handlers /\ handler.seq \in Sequences0 /\ accepted[handler.seq] > 0
  BY HandlerParts DEF StreamInv, StreamTypeOK, ForwardInv, Snapshot, Recheck, PushPacket
<1>3. CASE Snapshot
  <2>1. {<<s, subscribed[s]>> : s \in DOMAIN subscribed} \subseteq Offers
    BY DEF StreamInv, StreamTypeOK, Offers
  <2>2. /\ handler' \in Handlers /\ handler'.at = "check" /\ handler'.seq = handler.seq
        /\ handler'.message = handler.message
    BY <1>2, <1>3, <2>1 DEF Snapshot, Handlers
  <2>3. UNCHANGED <<subscribed, inbox, handled, pushed>>
    BY <1>3 DEF Snapshot, history
  <2>4. StreamTypeOK'
    BY <1>1, <2>2, <2>3 DEF StreamInv, StreamTypeOK, tables
  <2>5. AcceptInv' /\ KeptInv' /\ HandledInv' /\ ForwardInv'
    BY <1>1, <1>2, <2>2, <2>3
       DEF StreamInv, AcceptInv, Behind, KeptInv, HandledInv, ForwardInv, tables
  <2>6. QED
    BY <2>4, <2>5 DEF StreamInv
<1>4. CASE Recheck /\ handler.todo = {} /\ Answered /\ UNCHANGED subscribed
  <2>1. /\ handler' \in Handlers /\ handler'.at = "idle"
        /\ inbox' \subseteq Messages /\ handled' \in [Messages -> Nat] /\ HandledInv'
    BY <1>1, <1>4, HandlerEnds
  <2>2. UNCHANGED pushed
    BY <1>4 DEF Recheck
  <2>3. StreamTypeOK'
    BY <1>1, <1>4, <2>1, <2>2 DEF StreamInv, StreamTypeOK, tables
  <2>4. AcceptInv' /\ KeptInv' /\ ForwardInv'
    BY <1>1, <2>1, <2>2 DEF StreamInv, AcceptInv, Behind, KeptInv, ForwardInv, tables
  <2>5. QED
    BY <2>1, <2>3, <2>4 DEF StreamInv
<1>5. ASSUME Recheck, NEW e \in handler.todo, UNCHANGED <<inbox, handled>>,
             IF StillAuthorized(e[1], e[2])
             THEN handler' = [handler EXCEPT !.at = "push", !.pick = {e}] /\ UNCHANGED subscribed
             ELSE /\ handler' = [handler EXCEPT !.todo = @ \ {e}]
                  /\ subscribed' = [x \in DOMAIN subscribed \ {e[1]} |-> subscribed[x]]
      PROVE  StreamInv'
  <2>1. handler.todo \subseteq Offers /\ e \in Offers /\ handler.at = "check"
    BY <1>2, <1>5, HandlerParts DEF Recheck
  <2>2. /\ handler' \in Handlers /\ handler'.at \in {"check", "push"} /\ handler'.seq = handler.seq
        /\ handler'.message = handler.message
        /\ handler'.at = "push" => StillAuthorized(e[1], e[2]) /\ handler'.pick = {e}
    <3>1. CASE /\ StillAuthorized(e[1], e[2])
               /\ handler' = [handler EXCEPT !.at = "push", !.pick = {e}]
      BY <1>2, <2>1, <3>1 DEF Handlers
    <3>2. CASE handler' = [handler EXCEPT !.todo = @ \ {e}]
      BY <1>2, <2>1, <3>2 DEF Handlers
    <3>3. QED
      BY <1>5, <3>1, <3>2
  <2>3. UNCHANGED pushed
    BY <1>5 DEF Recheck
  <2>4. /\ DOMAIN subscribed' \subseteq Subscribers
        /\ \A x \in DOMAIN subscribed' : subscribed'[x] \in Grants
    BY <1>5 DEF StreamInv, StreamTypeOK
  <2>5. StreamTypeOK'
    BY <1>1, <1>5, <2>2, <2>3, <2>4 DEF StreamInv, StreamTypeOK, tables
  <2>6. AcceptInv' /\ KeptInv' /\ HandledInv'
    BY <1>1, <1>5, <2>2 DEF StreamInv, AcceptInv, Behind, KeptInv, HandledInv, tables
  <2>7. ForwardInv'
    BY <1>1, <1>2, <2>2, <2>3
       DEF StreamInv, ForwardInv, StillAuthorized, AuthorizedExisting, Live, tables
  <2>8. QED
    BY <2>5, <2>6, <2>7 DEF StreamInv
<1>6. CASE PushPacket
  <2>1. PICK e \in handler.pick :
           /\ handler' = [handler EXCEPT !.at = "check", !.pick = {}, !.todo = @ \ {e}]
           /\ pushed' = IF PeerOk(e[1]) THEN pushed \cup {<<e[1], e[2], handler.seq>>} ELSE pushed
    BY <1>6 DEF PushPacket
  <2>2. handler.todo \subseteq Offers /\ e \in Subscribers \X Grants
    BY <1>2, HandlerParts DEF Offers
  <2>3. e[1] \in Subscribers /\ e[2] \in Grants /\ e[2] \notin deadAt[handler.seq]
    BY <1>6, <2>2 DEF PushPacket, StreamInv, ForwardInv
  <2>4. /\ handler' \in Handlers /\ handler'.at = "check" /\ handler'.seq = handler.seq
        /\ handler'.message = handler.message
    BY <1>2, <2>1, <2>2 DEF Handlers
  <2>5. UNCHANGED <<subscribed, inbox, handled>>
    BY <1>6 DEF PushPacket
  <2>6. pushed' \subseteq Subscribers \X Grants \X Sequences0
    BY <1>2, <2>1, <2>3 DEF StreamInv, StreamTypeOK
  <2>7. StreamTypeOK'
    BY <1>1, <2>4, <2>5, <2>6 DEF StreamInv, StreamTypeOK, tables
  <2>8. AcceptInv' /\ KeptInv' /\ HandledInv'
    BY <1>1, <2>4, <2>5 DEF StreamInv, AcceptInv, Behind, KeptInv, HandledInv, tables
  <2>9. ForwardInv'
    BY <1>1, <1>2, <2>1, <2>3, <2>4 DEF StreamInv, ForwardInv, tables
  <2>10. QED
    BY <2>7, <2>8, <2>9 DEF StreamInv
<1>7. QED
  BY <1>3, <1>4, <1>5, <1>6 DEF Recheck

\* Envelopes pass their expiry; the process exits and loses what is in memory.
LEMMA ForgetKeeps ==
    ASSUME StreamInv, RestartNode \/ \E m \in Messages : ExpireMessage(m)
    PROVE  StreamInv'
<1>1. CASE RestartNode
  <2>1. /\ UNCHANGED <<stream, kept, standing, dead, lapsed, accepted, handled, deadAt, pushed>>
        /\ restarts' = restarts + 1 /\ closer' = "none" /\ permitted' \in BOOLEAN
        /\ session' = NoSession /\ subscribed' = <<>> /\ inbox' = {}
        /\ late' = late \cup handler.message \cup {m \in Messages : handled[m] > 0}
    BY <1>1 DEF RestartNode, Forget, history
  <2>2. handler' \in Handlers /\ handler'.at = "idle" /\ handler'.message = {}
    BY <1>1, IdleHandler DEF RestartNode
  <2>3. handler.message \subseteq Messages
    BY HandlerParts DEF StreamInv, StreamTypeOK
  <2>4. DOMAIN subscribed' = {}
    BY <2>1
  <2>5. StreamTypeOK'
    BY <2>1, <2>2, <2>3, <2>4 DEF StreamInv, StreamTypeOK
  <2>6. AcceptInv' /\ KeptInv' /\ ForwardInv'
    BY <2>1, <2>2 DEF StreamInv, AcceptInv, Behind, KeptInv, ForwardInv
  <2>7. HandledInv'
    BY <2>1, <2>2 DEF StreamInv, HandledInv
  <2>8. QED
    BY <2>5, <2>6, <2>7 DEF StreamInv
<1>2. ASSUME NEW m \in Messages, ExpireMessage(m) PROVE StreamInv'
  <2>1. /\ late' = late \cup {m} /\ inbox' = inbox \ {m}
        /\ UNCHANGED <<tables, session, subscribed, handler, closer, restarts, history>>
    BY <1>2 DEF ExpireMessage
  <2>2. StreamTypeOK'
    BY <2>1 DEF StreamInv, StreamTypeOK, tables, history
  <2>3. AcceptInv' /\ KeptInv' /\ HandledInv' /\ ForwardInv'
    BY <2>1 DEF StreamInv, AcceptInv, Behind, KeptInv, HandledInv, ForwardInv, tables, history
  <2>4. QED
    BY <2>2, <2>3 DEF StreamInv
<1>3. QED
  BY <1>1, <1>2

LEMMA StreamInduction == StreamSpec => []StreamInv
<1>1. StreamInit => StreamInv
  BY StreamInitially
<1>2. StreamInv /\ [StreamNext]_streamVars => StreamInv'
  <2>1. SUFFICES ASSUME StreamInv, [StreamNext]_streamVars PROVE StreamInv'
    OBVIOUS
  <2>2. CASE \/ \E p \in StreamPeers : Bar(p) \/ Pair(p)
             \/ \E g \in Grants : EndGrant(g)
             \/ Lapse
    BY <2>1, <2>2, AuthorityKeeps
  <2>3. CASE \E s \in Subscribers : Unsubscribe(s) \/ \E g \in Grants : Subscribe(s, g)
    BY <2>1, <2>3, SubscriptionKeeps
  <2>4. CASE \E d \in {"reliable", "latest"}, st \in {"disk", "memory"} : OpenStream(d, st)
    BY <2>1, <2>4, OpenKeeps
  <2>5. CASE CloseRow \/ CloseDrop \/ ExpireLease
    BY <2>1, <2>5, CloseKeeps
  <2>6. CASE \/ \E q \in Sequences0 : EnterDurable(q)
             \/ \E m \in Messages : EnterVolatile(m)
    BY <2>1, <2>6, EnterKeeps
  <2>7. CASE ReadStream
    BY <2>1, <2>7, ReadKeeps
  <2>8. CASE AdvanceStream
    BY <2>1, <2>8, AdvanceKeeps
  <2>9. CASE Snapshot \/ Recheck \/ PushPacket
    BY <2>1, <2>9, FanKeeps
  <2>10. CASE RestartNode \/ \E m \in Messages : ExpireMessage(m)
    BY <2>1, <2>10, ForgetKeeps
  <2>11. CASE UNCHANGED streamVars
    <3>1. StreamTypeOK'
      BY <2>1, <2>11 DEF StreamInv, StreamTypeOK, streamVars
    <3>2. AcceptInv' /\ KeptInv' /\ HandledInv' /\ ForwardInv'
      BY <2>1, <2>11 DEF StreamInv, AcceptInv, Behind, KeptInv, HandledInv, ForwardInv, streamVars
    <3>3. QED
      BY <3>1, <3>2 DEF StreamInv
  <2>12. QED
    BY <2>1, <2>2, <2>3, <2>4, <2>5, <2>6, <2>7, <2>8, <2>9, <2>10, <2>11 DEF StreamNext
<1>3. QED
  BY <1>1, <1>2, PTL DEF StreamSpec

\* The stream's row, its session, its handler and what they remember keep
\* their types.
THEOREM StreamTypeCorrect == StreamSpec => []StreamTypeOK
<1>1. StreamInv => StreamTypeOK
  BY DEF StreamInv
<1>2. QED
  BY <1>1, StreamInduction, PTL

\* No sequence is accepted as new twice and no volatile envelope is handled
\* twice; a closed stream retains nothing, a reliable one its newest packets
\* without a gap: for any retention, credit, inbox and number of restarts
\* (StreamRegistry.packet, StreamsRepo.advance, VolatileInbox.accept).
THEOREM PacketsOnce == StreamSpec => []StreamIsKept
<1>1. StreamInv => StreamIsKept
  BY DEF StreamInv, StreamTypeOK, AcceptInv, KeptInv, HandledInv, StreamIsKept, Open
<1>2. QED
  BY <1>1, StreamInduction, PTL

\* A packet accepted after a grant ended is never forwarded on it, for any
\* number of subscribers and grants (_stream_subscriber_is_authorized).
THEOREM PushConsent == StreamSpec => []PushIsConsented
<1>1. StreamInv => PushIsConsented
  BY DEF StreamInv, ForwardInv, PushIsConsented
<1>2. QED
  BY <1>1, StreamInduction, PTL

-----------------------------------------------------------------------------
(* Sums over finite sets *)

\* A set of naturals that is not empty has a smallest element.
LEMMA MinimumExists ==
    ASSUME NEW S \in SUBSET Nat, S # {}
    PROVE  \E x \in S : \A y \in S : x <= y
<1> DEFINE Less == {p \in Nat \X Nat : p[1] < p[2]}
<1>1. IsWellFoundedOn(Less, Nat)
  BY NatLessThanWellFounded DEF OpToRel
<1>2. PICK x \in S : \A y \in S : <<y, x>> \notin Less
  <2> HIDE DEF Less
  <2> QED BY <1>1, WFMin
<1>3. \A y \in S : x <= y
  <2> TAKE y \in S
  <2>1. <<y, x>> \in Nat \X Nat
    OBVIOUS
  <2>2. ~(<<y, x>>[1] < <<y, x>>[2])
    BY <1>2, <2>1
  <2> QED BY <2>2
<1> QED BY <1>3, Zenon

\* Induction on the naturals and on the size of finite sets, with the
\* property given as the set of what has it.
LEMMA NaturalsBySteps ==
    ASSUME NEW G \in SUBSET Nat, 0 \in G, \A n \in G : n + 1 \in G
    PROVE  G = Nat
<1>1. SUFFICES ASSUME Nat \ G # {} PROVE FALSE
  OBVIOUS
<1>2. PICK n \in Nat \ G : \A m \in Nat \ G : n <= m
  <2>1. Nat \ G \in SUBSET Nat
    OBVIOUS
  <2>2. QED
    BY <1>1, <2>1, MinimumExists
<1>3. n - 1 \in Nat /\ n - 1 \notin Nat \ G
  BY <1>2
<1>4. (n - 1) + 1 \in G
  BY <1>3
<1>5. QED
  BY <1>2, <1>4

LEMMA SubsetsBySize ==
    ASSUME NEW T, IsFiniteSet(T), NEW G \in SUBSET (SUBSET T),
           \A U \in SUBSET T :
              (\A V \in SUBSET T : Cardinality(V) < Cardinality(U) => V \in G) => U \in G
    PROVE  G = SUBSET T
<1>1. SUFFICES ASSUME (SUBSET T) \ G # {} PROVE FALSE
  OBVIOUS
<1>2. \A U \in SUBSET T : Cardinality(U) \in Nat
  BY FS_Subset, FS_CardinalityType
<1> DEFINE C == {Cardinality(U) : U \in (SUBSET T) \ G}
<1>3. PICK n \in C : \A m \in C : n <= m
  <2>1. C \in SUBSET Nat
    BY <1>2
  <2>2. C # {}
    BY <1>1
  <2> HIDE DEF C
  <2>3. QED
    BY <2>1, <2>2, MinimumExists
<1>4. PICK U \in (SUBSET T) \ G : n = Cardinality(U)
  BY <1>3
<1>5. ASSUME NEW V \in SUBSET T, Cardinality(V) < Cardinality(U), V \notin G PROVE FALSE
  <2>1. Cardinality(V) \in C
    BY <1>5
  <2>2. n <= Cardinality(V)
    BY <1>3, <2>1
  <2>3. QED
    BY <1>2, <1>4, <1>5, <2>2
<1>6. QED
  BY <1>4, <1>5

LEMMA SmallerSubset ==
    ASSUME NEW T, IsFiniteSet(T), NEW U \in SUBSET T, NEW x \in U
    PROVE  /\ U \ {x} \in SUBSET T /\ Cardinality(U) \in Nat /\ Cardinality(U \ {x}) \in Nat
           /\ Cardinality(U \ {x}) = Cardinality(U) - 1
<1>1. IsFiniteSet(U) /\ Cardinality(U) \in Nat
  BY FS_Subset, FS_CardinalityType
<1>2. IsFiniteSet(U \ {x}) /\ Cardinality(U \ {x}) = Cardinality(U) - 1
  BY <1>1, FS_RemoveElement
<1>3. QED
  BY <1>1, <1>2, FS_CardinalityType

\* The function by which a set is summed, one chosen element after another.
Chosen(s) == CHOOSE x \in s : TRUE
Summed(g, w, s) == IF s = {} THEN 0 ELSE w[Chosen(s)] + g[s \ {Chosen(s)}]
IsSum(g, w, T) == g = [s \in SUBSET T |-> Summed(g, w, s)]

LEMMA ChosenIn == ASSUME NEW s, s # {} PROVE Chosen(s) \in s
BY DEF Chosen

LEMMA SumExists ==
    ASSUME NEW T, IsFiniteSet(T), NEW w \in [T -> Nat]
    PROVE  \E g \in [SUBSET T -> Nat] : IsSum(g, w, T)
<1> DEFINE L(n) == {s \in SUBSET T : Cardinality(s) <= n}
           G == {n \in Nat : \E g \in [L(n) -> Nat] : \A s \in L(n) : g[s] = Summed(g, w, s)}
<1>1. \A s \in SUBSET T : /\ Cardinality(s) \in Nat /\ (s # {} => Chosen(s) \in T)
                          /\ Cardinality(s) = 0 => s = {}
  <2>1. \A s \in SUBSET T : IsFiniteSet(s) /\ Cardinality(s) \in Nat
    BY FS_Subset, FS_CardinalityType
  <2>2. QED
    BY <2>1, FS_EmptySet, ChosenIn
<1>2. 0 \in G
  <2>1. \A s \in L(0) : s = {}
    BY <1>1
  <2> DEFINE z == [s \in L(0) |-> 0]
  <2>2. z \in [L(0) -> Nat] /\ \A s \in L(0) : z[s] = Summed(z, w, s)
    BY <2>1 DEF Summed
  <2>3. QED
    BY <2>2
<1>3. ASSUME NEW n \in G PROVE n + 1 \in G
  <2>1. PICK g \in [L(n) -> Nat] : \A s \in L(n) : g[s] = Summed(g, w, s)
    OBVIOUS
  <2> DEFINE h == [s \in L(n + 1) |-> Summed(g, w, s)]
  <2>2. L(n) \subseteq L(n + 1)
    BY <1>1
  <2>3. \A s \in L(n + 1) : s # {} => s \ {Chosen(s)} \in L(n)
    BY <1>1, ChosenIn, SmallerSubset
  <2>4. \A s \in L(n) : h[s] = g[s]
    BY <2>1, <2>2
  <2>5. ASSUME NEW s \in L(n + 1) PROVE h[s] = Summed(h, w, s) /\ h[s] \in Nat
    <3>1. CASE s = {}
      BY <3>1 DEF Summed
    <3>2. CASE s # {}
      <4>1. s \ {Chosen(s)} \in L(n) /\ w[Chosen(s)] \in Nat
        BY <1>1, <2>3, <3>2
      <4>2. h[s \ {Chosen(s)}] = g[s \ {Chosen(s)}] /\ g[s \ {Chosen(s)}] \in Nat
        BY <2>1, <2>4, <4>1
      <4>3. h[s] = w[Chosen(s)] + g[s \ {Chosen(s)}]
        BY <3>2 DEF Summed
      <4>4. Summed(h, w, s) = w[Chosen(s)] + h[s \ {Chosen(s)}]
        BY <3>2 DEF Summed
      <4> HIDE DEF h, L
      <4>5. QED
        BY <4>1, <4>2, <4>3, <4>4
    <3>3. QED
      BY <3>1, <3>2
  <2>6. h \in [L(n + 1) -> Nat]
    BY <2>5
  <2>7. \E f \in [L(n + 1) -> Nat] : \A s \in L(n + 1) : f[s] = Summed(f, w, s)
    <3> HIDE DEF h
    <3> QED BY <2>5, <2>6
  <2>8. n + 1 \in Nat
    OBVIOUS
  <2> HIDE DEF L
  <2>9. QED
    BY <2>7, <2>8
<1>4. G = Nat
  <2> HIDE DEF L
  <2>1. G \in SUBSET Nat
    OBVIOUS
  <2> HIDE DEF G
  <2>2. QED
    BY <1>2, <1>3, <2>1, NaturalsBySteps
<1>5. Cardinality(T) \in Nat /\ L(Cardinality(T)) = SUBSET T
  BY FS_Subset, FS_CardinalityType
<1>6. PICK g \in [SUBSET T -> Nat] : \A s \in SUBSET T : g[s] = Summed(g, w, s)
  BY <1>4, <1>5
<1>7. QED
  BY <1>6 DEF IsSum

LEMMA SumUnique ==
    ASSUME NEW T, IsFiniteSet(T), NEW S \in SUBSET T, NEW g, NEW h, NEW w, NEW v,
           IsSum(g, w, T), IsSum(h, v, S), \A x \in S : w[x] = v[x]
    PROVE  \A s \in SUBSET S : g[s] = h[s]
<1> DEFINE G == {s \in SUBSET S : g[s] = h[s]}
<1>1. IsFiniteSet(S)
  BY FS_Subset
<1>2. \A s \in SUBSET S : g[s] = Summed(g, w, s) /\ h[s] = Summed(h, v, s)
  <2>1. \A s \in SUBSET T : g[s] = Summed(g, w, s)
    BY Zenon DEF IsSum
  <2>2. \A s \in SUBSET S : h[s] = Summed(h, v, s)
    BY Zenon DEF IsSum
  <2>3. QED
    BY <2>1, <2>2
<1>3. ASSUME NEW U \in SUBSET S, \A V \in SUBSET S : Cardinality(V) < Cardinality(U) => V \in G
      PROVE  U \in G
  <2>1. CASE U = {}
    BY <1>2, <2>1 DEF Summed
  <2>2. CASE U # {}
    <3>1. Chosen(U) \in U /\ Chosen(U) \in S
      BY <2>2, ChosenIn
    <3>2. U \ {Chosen(U)} \in G
      BY <1>1, <1>3, <3>1, SmallerSubset
    <3>3. QED
      BY <1>2, <2>2, <3>1, <3>2 DEF Summed
  <2>3. QED
    BY <2>1, <2>2
<1>4. G = SUBSET S
  <2>1. G \in SUBSET (SUBSET S)
    OBVIOUS
  <2> HIDE DEF G
  <2>2. QED
    BY <1>1, <1>3, <2>1, SubsetsBySize
<1>5. QED
  BY <1>4

\* Any element of the set may be taken out, not only the chosen one.
LEMMA SumStep ==
    ASSUME NEW T, IsFiniteSet(T), NEW w \in [T -> Nat], NEW g \in [SUBSET T -> Nat], IsSum(g, w, T)
    PROVE  /\ g[{}] = 0
           /\ \A U \in SUBSET T : \A x \in U : g[U] = g[U \ {x}] + w[x]
<1> DEFINE G == {U \in SUBSET T : \A x \in U : g[U] = g[U \ {x}] + w[x]}
<1>1. \A s \in SUBSET T : g[s] = Summed(g, w, s)
  BY Zenon DEF IsSum
<1>2. ASSUME NEW U \in SUBSET T, \A V \in SUBSET T : Cardinality(V) < Cardinality(U) => V \in G,
             NEW x \in U
      PROVE  g[U] = g[U \ {x}] + w[x]
  <2> DEFINE c == Chosen(U)
  <2>1. c \in U /\ g[U] = w[c] + g[U \ {c}]
    BY <1>1, ChosenIn DEF Summed
  <2> HIDE DEF c
  <2>2. CASE c = x
    BY <2>1, <2>2
  <2>3. CASE c # x
    <3>1. U \ {c} \in G /\ U \ {x} \in G
      BY <1>2, <2>1, SmallerSubset
    <3>2. x \in U \ {c} /\ c \in U \ {x}
      BY <2>1, <2>3
    <3>3. (U \ {c}) \ {x} = (U \ {x}) \ {c}
      OBVIOUS
    <3>4. /\ g[U \ {c}] = g[(U \ {c}) \ {x}] + w[x]
          /\ g[U \ {x}] = g[(U \ {c}) \ {x}] + w[c]
      BY <3>1, <3>2, <3>3
    <3>5. g[U \ {x}] \in Nat /\ g[(U \ {c}) \ {x}] \in Nat /\ w[x] \in Nat /\ w[c] \in Nat
      BY <2>1
    <3>6. QED
      BY <2>1, <3>4, <3>5
  <2>4. QED
    BY <2>2, <2>3
<1>3. G = SUBSET T
  <2>1. G \in SUBSET (SUBSET T)
    OBVIOUS
  <2>2. \A U \in SUBSET T :
           (\A V \in SUBSET T : Cardinality(V) < Cardinality(U) => V \in G) => U \in G
    BY <1>2
  <2> HIDE DEF G
  <2>3. QED
    BY <2>1, <2>2, SubsetsBySize
<1>4. g[{}] = 0
  BY <1>1 DEF Summed
<1>5. QED
  BY <1>3, <1>4

-----------------------------------------------------------------------------
(* Artifacts: the bytes of a set of rows *)

Weights(R) == [r \in R |-> SizeOf(r.digest)]

LEMMA BytesAreSum ==
    ASSUME NEW R, IsFiniteSet(R), \A r \in R : SizeOf(r.digest) \in Nat
    PROVE  \E h \in [SUBSET R -> Nat] : IsSum(h, Weights(R), R) /\ BytesOf(R) = h[R]
<1> DEFINE Body(h) == [s \in SUBSET R |->
                          IF s = {} THEN 0
                          ELSE SizeOf((CHOOSE x \in s : TRUE).digest) + h[s \ {CHOOSE x \in s : TRUE}]]
<1>1. PICK g \in [SUBSET R -> Nat] : IsSum(g, Weights(R), R)
  <2>1. Weights(R) \in [R -> Nat]
    BY DEF Weights
  <2>2. QED
    BY <2>1, SumExists
<1>2. \A h : h = Body(h) <=> IsSum(h, Weights(R), R)
  BY ChosenIn DEF IsSum, Summed, Chosen, Weights
<1>3. BytesOf(R) = (CHOOSE h : h = Body(h))[R]
  BY Zenon DEF BytesOf, MapThenSumSet, MapThenFoldSet
<1> HIDE DEF Body
<1>4. PICK h : h = Body(h) /\ BytesOf(R) = h[R]
  BY <1>1, <1>2, <1>3, Zenon
<1>5. h[R] = g[R]
  BY <1>1, <1>2, <1>4, SumUnique
<1>6. QED
  BY <1>1, <1>4, <1>5

\* Taking a row out takes its bytes out; fewer rows are not more bytes.
LEMMA BytesStep ==
    ASSUME NEW R, IsFiniteSet(R), \A r \in R : SizeOf(r.digest) \in Nat
    PROVE  /\ BytesOf({}) = 0
           /\ \A U \in SUBSET R :
                 /\ BytesOf(U) \in Nat
                 /\ \A x \in U : BytesOf(U) = BytesOf(U \ {x}) + SizeOf(x.digest)
<1>1. PICK g \in [SUBSET R -> Nat] : IsSum(g, Weights(R), R)
  BY BytesAreSum
<1>2. ASSUME NEW U \in SUBSET R PROVE BytesOf(U) = g[U]
  <2>1. IsFiniteSet(U)
    BY FS_Subset
  <2>2. PICK h \in [SUBSET U -> Nat] : IsSum(h, Weights(U), U) /\ BytesOf(U) = h[U]
    BY <2>1, BytesAreSum
  <2>3. \A x \in U : Weights(R)[x] = Weights(U)[x]
    BY DEF Weights
  <2>4. g[U] = h[U]
    BY <1>1, <2>2, <2>3, SumUnique
  <2>5. QED
    BY <2>2, <2>4
<1>3. /\ g[{}] = 0
      /\ \A U \in SUBSET R : \A x \in U : g[U] = g[U \ {x}] + Weights(R)[x]
  <2>1. Weights(R) \in [R -> Nat]
    BY DEF Weights
  <2>2. QED
    BY <1>1, <2>1, SumStep
<1>4. \A x \in R : Weights(R)[x] = SizeOf(x.digest)
  BY DEF Weights
<1>5. ASSUME NEW U \in SUBSET R
      PROVE  /\ BytesOf(U) \in Nat
             /\ \A x \in U : BytesOf(U) = BytesOf(U \ {x}) + SizeOf(x.digest)
  BY <1>2, <1>3, <1>4
<1>6. QED
  BY <1>2, <1>3, <1>5

LEMMA BytesMonotone ==
    ASSUME NEW R, IsFiniteSet(R), \A r \in R : SizeOf(r.digest) \in Nat, NEW S \in SUBSET R
    PROVE  BytesOf(S) <= BytesOf(R)
<1> DEFINE G == {U \in SUBSET R : S \subseteq U => BytesOf(S) <= BytesOf(U)}
<1>1. \A U \in SUBSET R : BytesOf(U) \in Nat
  BY BytesStep
<1>2. ASSUME NEW U \in SUBSET R, \A V \in SUBSET R : Cardinality(V) < Cardinality(U) => V \in G
      PROVE  U \in G
  <2>1. SUFFICES ASSUME S \subseteq U PROVE BytesOf(S) <= BytesOf(U)
    OBVIOUS
  <2>2. CASE S = U
    BY <1>1, <2>2
  <2>3. CASE S # U
    <3>1. PICK x \in U : x \notin S
      BY <2>1, <2>3
    <3>2. U \ {x} \in G /\ U \ {x} \in SUBSET R
      BY <1>2, SmallerSubset
    <3>3. BytesOf(S) <= BytesOf(U \ {x})
      BY <2>1, <3>1, <3>2
    <3>4. BytesOf(U) = BytesOf(U \ {x}) + SizeOf(x.digest) /\ SizeOf(x.digest) \in Nat
      BY BytesStep
    <3>5. QED
      BY <1>1, <3>2, <3>3, <3>4
  <2>4. QED
    BY <2>2, <2>3
<1>3. G = SUBSET R
  <2>1. G \in SUBSET (SUBSET R)
    OBVIOUS
  <2> HIDE DEF G
  <2>2. QED
    BY <1>2, <2>1, SubsetsBySize
<1>4. QED
  BY <1>3

-----------------------------------------------------------------------------
(* Artifacts: the inductive invariant *)

RowInv ==
    /\ IsFiniteSet(rows)
    /\ \A r, s \in rows : r.id = s.id \/ r.digest = s.digest => r = s
    /\ \A r \in rows : r.id <= drawn /\ r.digest \in files
    /\ TotalBytes <= MaxTotal
    /\ \A a \in access : a[1] \in Ids(rows)

\* What the put under way has established: the rows it unlinks are gone, and
\* the digest it writes is new and fits.
PutInv ==
    /\ put.at = "purge" => put.doomed \subseteq rows
    /\ put.at = "unlink" => \A d \in put.doomed, r \in rows : r.digest # d.digest
    /\ put.at \in {"file", "row"} =>
          /\ \A r \in rows : r.digest # put.digest
          /\ TotalBytes + SizeOf(put.digest) <= MaxTotal
    /\ put.at = "row" => put.digest \in files

\* An id is drawn once: what a fetch read of a row stays true of it.
FetchInv ==
    /\ fetch.at # "none" => fetch.id <= drawn
    /\ fetch.at = "file" => \A r \in rows : r.id = fetch.id => r.digest = fetch.digest

ArtifactInv == ArtifactTypeOK /\ RowInv /\ PutInv /\ FetchInv

LEMMA RowSizes ==
    ASSUME NEW R \in SUBSET Rows
    PROVE  \A r \in R : SizeOf(r.digest) \in Nat
BY ArtifactAssumption DEF Rows

LEMMA ArtifactInitially == ASSUME ArtifactInit PROVE ArtifactInv
<1>1. NoPut \in Puts /\ NoPut.at = "none" /\ NoFetch \in Fetches /\ NoFetch.at = "none"
  BY DEF NoPut, Puts, NoFetch, Fetches
<1>2. IsFiniteSet({}) /\ BytesOf({}) = 0
  BY FS_EmptySet, BytesStep
<1>3. ArtifactTypeOK
  BY <1>1 DEF ArtifactInit, ArtifactTypeOK
<1>4. RowInv
  BY <1>2, ArtifactAssumption DEF ArtifactInit, RowInv, TotalBytes
<1>5. PutInv /\ FetchInv
  BY <1>1 DEF ArtifactInit, PutInv, FetchInv
<1>6. QED
  BY <1>3, <1>4, <1>5 DEF ArtifactInv

LEMMA PutParts ==
    ASSUME NEW p \in Puts
    PROVE  /\ p.at \in {"none", "purge", "unlink", "lookup", "file", "row"}
           /\ p.since \in Nat /\ p.doomed \subseteq Rows
           /\ \A at \in {"lookup", "unlink", "file", "row"} :
                 /\ [p EXCEPT !.at = at] \in Puts /\ [p EXCEPT !.at = at].at = at
                 /\ [p EXCEPT !.at = at].digest = p.digest /\ [p EXCEPT !.at = at].by = p.by
                 /\ [p EXCEPT !.at = at].doomed = p.doomed
BY DEF Puts

\* Steps that leave the rows, the files and the put alone.
LEMMA FetchKeeps ==
    ASSUME ArtifactInv,
           \/ \E n \in 1..MaxArtifacts, p \in Creators : FetchChecks(n, p)
           \/ FetchReadsRow \/ FetchReadsFile \/ NextDay
    PROVE  ArtifactInv'
<1>1. UNCHANGED <<rows, access, files, drawn, put>> /\ day' \in Nat
  <2>1. day \in Nat
    BY DEF ArtifactInv, ArtifactTypeOK
  <2>2. UNCHANGED <<rows, access, files, drawn, put>> /\ day' \in {day, day + 1}
    BY DEF FetchChecks, FetchReadsRow, FetchReadsFile, NextDay
  <2>3. QED
    BY <2>1, <2>2
<1>2. NoFetch \in Fetches /\ NoFetch.at = "none"
  BY DEF NoFetch, Fetches
<1>3. fetch' \in Fetches /\ FetchInv'
  <2>1. CASE \E n \in 1..MaxArtifacts, p \in Creators : FetchChecks(n, p)
    <3>1. PICK n \in 1..MaxArtifacts, p \in Creators : FetchChecks(n, p)
      BY <2>1
    <3>2. fetch' \in Fetches /\ fetch'.at = "row" /\ fetch'.id = n
      <4>1. n \in Nat
        OBVIOUS
      <4>2. fetch' = [NoFetch EXCEPT !.at = "row", !.id = n, !.by = p]
        BY <3>1 DEF FetchChecks
      <4>3. QED
        BY <4>1, <4>2 DEF NoFetch, Fetches
    <3>3. n <= drawn
      BY <3>1 DEF FetchChecks, Ids, ArtifactInv, RowInv
    <3>4. QED
      BY <1>1, <3>2, <3>3 DEF FetchInv
  <2>2. CASE FetchReadsRow
    <3>1. CASE \E r \in rows : r.id = fetch.id
      <4>1. PICK r \in rows : r.id = fetch.id /\ r = CHOOSE x \in rows : x.id = fetch.id
        BY <3>1
      <4>2. r \in Rows /\ r.digest \in Digests
        BY DEF ArtifactInv, ArtifactTypeOK, Rows
      <4>3. fetch' = [fetch EXCEPT !.at = "file", !.digest = r.digest]
        BY <2>2, <3>1, <4>1 DEF FetchReadsRow
      <4>4. /\ fetch' \in Fetches /\ fetch'.at = "file" /\ fetch'.id = fetch.id
            /\ fetch'.digest = r.digest
        BY <4>2, <4>3 DEF ArtifactInv, ArtifactTypeOK, Fetches
      <4>5. \A x \in rows : x.id = fetch.id => x = r
        BY <4>1 DEF ArtifactInv, RowInv
      <4>6. fetch.id <= drawn
        BY <2>2 DEF FetchReadsRow, ArtifactInv, FetchInv
      <4>7. QED
        BY <1>1, <4>4, <4>5, <4>6 DEF FetchInv
    <3>2. CASE ~\E r \in rows : r.id = fetch.id
      BY <1>2, <2>2, <3>2 DEF FetchReadsRow, FetchInv
    <3>3. QED
      BY <3>1, <3>2
  <2>3. CASE FetchReadsFile
    BY <1>2, <2>3 DEF FetchReadsFile, FetchInv
  <2>4. CASE NextDay
    BY <1>1, <2>4 DEF NextDay, ArtifactInv, ArtifactTypeOK, FetchInv
  <2>5. QED
    BY <2>1, <2>2, <2>3, <2>4
<1>4. ArtifactTypeOK'
  BY <1>1, <1>3 DEF ArtifactInv, ArtifactTypeOK
<1>5. RowInv' /\ PutInv'
  BY <1>1 DEF ArtifactInv, RowInv, PutInv, TotalBytes
<1>6. QED
  BY <1>3, <1>4, <1>5 DEF ArtifactInv

LEMMA PutStarts ==
    ASSUME ArtifactInv,
           Dies \/ \E d \in Digests, p \in Creators, since \in 0..day : PutBegins(d, p, since)
    PROVE  ArtifactInv'
<1>1. UNCHANGED <<day, rows, access, files, drawn>>
  BY DEF Dies, PutBegins
<1>2. /\ put' \in Puts /\ put'.at \in {"none", "purge"}
      /\ put'.at # "none" => put'.digest \in Digests /\ put'.by \in Creators
      /\ put'.at = "purge" => put'.doomed \subseteq rows
  <2>1. CASE Dies
    BY <2>1 DEF Dies, NoPut, Puts
  <2>2. ASSUME NEW d \in Digests, NEW p \in Creators, NEW since \in 0..day, PutBegins(d, p, since)
        PROVE  /\ put' \in Puts /\ put'.at = "purge" /\ put'.digest \in Digests /\ put'.by \in Creators
               /\ put'.doomed \subseteq rows
    <3>1. PICK gone \in SUBSET rows : gone = {r \in rows : r.until <= day}
      OBVIOUS
    <3>2. gone \subseteq Rows /\ since \in Nat
      BY DEF ArtifactInv, ArtifactTypeOK
    <3>3. put' = [at |-> "purge", digest |-> d, by |-> p, since |-> since, doomed |-> gone]
      BY <2>2, <3>1 DEF PutBegins
    <3>4. QED
      BY <3>2, <3>3 DEF Puts
  <2>3. QED
    BY <2>1, <2>2
<1>3. fetch' \in Fetches /\ FetchInv'
  <2>1. CASE Dies
    BY <2>1 DEF Dies, NoFetch, Fetches, FetchInv
  <2>2. CASE UNCHANGED fetch
    BY <1>1, <2>2 DEF ArtifactInv, ArtifactTypeOK, FetchInv
  <2>3. QED
    BY <2>1, <2>2 DEF PutBegins
<1>4. ArtifactTypeOK'
  BY <1>1, <1>2, <1>3 DEF ArtifactInv, ArtifactTypeOK
<1>5. RowInv' /\ PutInv'
  BY <1>1, <1>2 DEF ArtifactInv, RowInv, PutInv, TotalBytes
<1>6. QED
  BY <1>3, <1>4, <1>5 DEF ArtifactInv

\* purge_expired commits: what stays has bytes that are not unlinked.
LEMMA PurgeKeeps == ASSUME ArtifactInv, PurgeCommits PROVE ArtifactInv'
<1>1. /\ put.at = "purge" /\ put.doomed \subseteq rows
      /\ rows' = rows \ put.doomed /\ access' = {a \in access : a[1] \notin Ids(put.doomed)}
      /\ UNCHANGED <<day, files, drawn, fetch>>
  BY DEF PurgeCommits, ArtifactInv, PutInv
<1>2. PICK to \in {"lookup", "unlink"} : put' = [put EXCEPT !.at = to]
  BY DEF PurgeCommits
<1>3. /\ put' \in Puts /\ put'.at = to /\ put'.digest = put.digest /\ put'.by = put.by
      /\ put'.doomed = put.doomed
  <2>1. put \in Puts
    BY DEF ArtifactInv, ArtifactTypeOK
  <2>2. CASE to = "lookup"
    <3>1. put' = [put EXCEPT !.at = "lookup"]
      BY <1>2, <2>2
    <3>2. QED
      BY <2>1, <2>2, <3>1 DEF Puts
  <2>3. CASE to = "unlink"
    <3>1. put' = [put EXCEPT !.at = "unlink"]
      BY <1>2, <2>3
    <3>2. QED
      BY <2>1, <2>3, <3>1 DEF Puts
  <2>4. QED
    BY <2>2, <2>3
<1>4. ArtifactTypeOK'
  BY <1>1, <1>3 DEF ArtifactInv, ArtifactTypeOK
<1>5. /\ IsFiniteSet(rows') /\ TotalBytes' <= MaxTotal
  <2>1. rows' \in SUBSET rows /\ IsFiniteSet(rows) /\ \A r \in rows : SizeOf(r.digest) \in Nat
    BY <1>1, RowSizes DEF ArtifactInv, ArtifactTypeOK, RowInv
  <2>2. BytesOf(rows') \in Nat /\ BytesOf(rows) \in Nat /\ BytesOf(rows') <= BytesOf(rows)
    BY <2>1, BytesStep, BytesMonotone
  <2>3. IsFiniteSet(rows')
    BY <2>1, FS_Subset
  <2>4. MaxTotal \in Nat
    BY ArtifactAssumption
  <2>5. QED
    BY <2>2, <2>3, <2>4 DEF ArtifactInv, RowInv, TotalBytes
<1>6. RowInv'
  <2>1. \A a \in access' : a[1] \in Ids(rows')
    BY <1>1 DEF Ids, ArtifactInv, RowInv
  <2>2. QED
    BY <1>1, <1>5, <2>1 DEF ArtifactInv, RowInv
<1>7. PutInv'
  BY <1>1, <1>3 DEF ArtifactInv, RowInv, PutInv
<1>8. FetchInv'
  BY <1>1 DEF ArtifactInv, FetchInv
<1>9. QED
  BY <1>4, <1>6, <1>7, <1>8 DEF ArtifactInv

LEMMA UnlinkKeeps == ASSUME ArtifactInv, PurgeUnlinks PROVE ArtifactInv'
<1>1. PICK r \in put.doomed :
         /\ put.at = "unlink" /\ files' = files \ {r.digest}
         /\ put' = [put EXCEPT !.doomed = @ \ {r}, !.at = IF put.doomed = {r} THEN "lookup" ELSE @]
  BY DEF PurgeUnlinks
<1>2. UNCHANGED <<day, rows, access, drawn, fetch>>
  BY DEF PurgeUnlinks
<1>3. /\ put' \in Puts /\ put'.at \in {"unlink", "lookup"} /\ put'.digest = put.digest
      /\ put'.by = put.by /\ put'.doomed \subseteq put.doomed
  <2>1. put \in Puts
    BY DEF ArtifactInv, ArtifactTypeOK
  <2>2. CASE put' = [put EXCEPT !.doomed = @ \ {r}, !.at = "lookup"]
    BY <2>1, <2>2 DEF Puts
  <2>3. CASE put' = [put EXCEPT !.doomed = @ \ {r}, !.at = @]
    BY <1>1, <2>1, <2>3 DEF Puts
  <2>4. QED
    BY <1>1, <2>2, <2>3
<1>4. \A x \in rows : x.digest # r.digest
  BY <1>1 DEF ArtifactInv, PutInv
<1>5. ArtifactTypeOK'
  BY <1>1, <1>2, <1>3 DEF ArtifactInv, ArtifactTypeOK
<1>6. RowInv'
  BY <1>1, <1>2, <1>4 DEF ArtifactInv, RowInv, TotalBytes
<1>7. PutInv'
  BY <1>1, <1>2, <1>3 DEF ArtifactInv, PutInv
<1>8. FetchInv'
  BY <1>2 DEF ArtifactInv, FetchInv
<1>9. QED
  BY <1>5, <1>6, <1>7, <1>8 DEF ArtifactInv

\* The record there is gets another reader, the put is refused, or the bytes
\* are new and fit.
LEMMA LookupKeeps == ASSUME ArtifactInv, LookupDigest PROVE ArtifactInv'
<1>1. UNCHANGED <<day, rows, files, drawn, fetch>> /\ put.at = "lookup"
  BY DEF LookupDigest
<1>2. /\ put \in Puts /\ put.digest \in Digests /\ put.by \in Creators
      /\ NoPut \in Puts /\ NoPut.at = "none"
  BY <1>1 DEF ArtifactInv, ArtifactTypeOK, NoPut, Puts
<1>3. /\ access' \subseteq Nat \X Creators /\ \A a \in access' : a[1] \in Ids(rows)
  <2>1. CASE \E r \in rows : access' = access \cup {<<r.id, put.by>>}
    <3>1. PICK r \in rows : access' = access \cup {<<r.id, put.by>>}
      BY <2>1
    <3>2. r.id \in Nat /\ r.id \in Ids(rows)
      BY DEF ArtifactInv, ArtifactTypeOK, Rows, Ids
    <3>3. QED
      BY <1>2, <3>1, <3>2 DEF ArtifactInv, ArtifactTypeOK, RowInv
  <2>2. CASE UNCHANGED access
    BY <2>2 DEF ArtifactInv, ArtifactTypeOK, RowInv
  <2>3. QED
    BY <2>1, <2>2 DEF LookupDigest
<1>4. \/ put' = NoPut
      \/ /\ \A r \in rows : r.digest # put.digest
         /\ ~(TotalBytes + SizeOf(put.digest) > MaxTotal) /\ put' = [put EXCEPT !.at = "file"]
  BY <1>1 DEF LookupDigest, MoveOn, After
<1>5. /\ put' \in Puts /\ put'.at \in {"none", "file"}
      /\ put'.at = "file" => /\ put'.digest = put.digest /\ put'.by = put.by
                             /\ \A r \in rows : r.digest # put.digest
                             /\ ~(TotalBytes + SizeOf(put.digest) > MaxTotal)
  <2>1. CASE put' = NoPut
    BY <1>2, <2>1
  <2>2. CASE put' = [put EXCEPT !.at = "file"]
    <3>1. put' \in Puts /\ put'.at = "file" /\ put'.digest = put.digest /\ put'.by = put.by
      <4>1. /\ [put EXCEPT !.at = "file"] \in Puts /\ [put EXCEPT !.at = "file"].at = "file"
            /\ [put EXCEPT !.at = "file"].digest = put.digest /\ [put EXCEPT !.at = "file"].by = put.by
        BY <1>2, PutParts
      <4> QED BY <2>2, <4>1
    <3>2. put' # NoPut
      BY <1>2, <3>1
    <3>3. QED
      BY <1>4, <3>1, <3>2
  <2>3. QED
    BY <1>4, <2>1, <2>2
<1>6. /\ BytesOf(rows) \in Nat /\ SizeOf(put.digest) \in Nat /\ MaxTotal \in Nat
  BY <1>2, RowSizes, BytesStep, ArtifactAssumption DEF ArtifactInv, ArtifactTypeOK, RowInv
<1>7. ArtifactTypeOK'
  BY <1>1, <1>2, <1>3, <1>5 DEF ArtifactInv, ArtifactTypeOK
<1>8. RowInv'
  BY <1>1, <1>3 DEF ArtifactInv, RowInv, TotalBytes
<1>9. PutInv'
  BY <1>1, <1>5, <1>6 DEF PutInv, TotalBytes
<1>10. FetchInv'
  BY <1>1 DEF ArtifactInv, FetchInv
<1>11. QED
  BY <1>7, <1>8, <1>9, <1>10 DEF ArtifactInv

LEMMA WriteKeeps == ASSUME ArtifactInv, WriteBytes PROVE ArtifactInv'
<1>1. /\ UNCHANGED <<day, rows, access, drawn, fetch>> /\ put.at = "file"
      /\ files' = files \cup {put.digest} /\ put' = [put EXCEPT !.at = "row"]
  BY DEF WriteBytes, MoveOn, After
<1>2. put \in Puts /\ put.digest \in Digests /\ put.by \in Creators
  BY <1>1 DEF ArtifactInv, ArtifactTypeOK
<1>3. put' \in Puts /\ put'.at = "row" /\ put'.digest = put.digest /\ put'.by = put.by
  BY <1>1, <1>2, PutParts
<1>4. ArtifactTypeOK'
  BY <1>1, <1>2, <1>3 DEF ArtifactInv, ArtifactTypeOK
<1>5. RowInv' /\ PutInv' /\ FetchInv'
  BY <1>1, <1>3 DEF ArtifactInv, RowInv, PutInv, FetchInv, TotalBytes
<1>6. QED
  BY <1>4, <1>5 DEF ArtifactInv

LEMMA InsertKeeps == ASSUME ArtifactInv, InsertRow PROVE ArtifactInv'
<1>1. /\ UNCHANGED <<day, files, fetch>> /\ put.at = "row" /\ drawn' = drawn + 1
      /\ put' = NoPut /\ access' = access \cup {<<drawn', put.by>>}
  BY DEF InsertRow, MoveOn, After
<1>2. /\ put \in Puts /\ put.digest \in Digests /\ put.by \in Creators /\ put.since \in Nat
      /\ NoPut \in Puts /\ NoPut.at = "none" /\ drawn \in Nat /\ Retention \in Nat
  BY <1>1, PutParts, ArtifactAssumption DEF ArtifactInv, ArtifactTypeOK, NoPut, Puts
<1>3. PICK new \in Rows :
         /\ new = [id |-> drawn + 1, digest |-> put.digest, until |-> put.since + Retention]
         /\ new.id = drawn + 1 /\ new.digest = put.digest
  <2>1. [id |-> drawn + 1, digest |-> put.digest, until |-> put.since + Retention] \in Rows
    BY <1>2 DEF Rows
  <2>2. QED
    BY <2>1
<1>4. rows' = rows \cup {new}
  BY <1>1, <1>3 DEF InsertRow
<1>5. \A r \in rows : r.id \in Nat /\ r.id <= drawn /\ r.digest # new.digest
  BY <1>1, <1>3 DEF ArtifactInv, ArtifactTypeOK, Rows, RowInv, PutInv
<1>6. new \notin rows
  BY <1>5
<1>7. ArtifactTypeOK'
  BY <1>1, <1>2, <1>4 DEF ArtifactInv, ArtifactTypeOK
<1>8. IsFiniteSet(rows') /\ TotalBytes' <= MaxTotal
  <2>1. IsFiniteSet(rows')
    BY <1>4, FS_AddElement DEF ArtifactInv, RowInv
  <2>2. \A r \in rows' : SizeOf(r.digest) \in Nat
    BY <1>4, RowSizes DEF ArtifactInv, ArtifactTypeOK
  <2>3. rows' \ {new} = rows /\ new \in rows' /\ rows' \in SUBSET rows'
    BY <1>4, <1>6
  <2>4. BytesOf(rows') = BytesOf(rows' \ {new}) + SizeOf(new.digest)
    BY <2>1, <2>2, <2>3, BytesStep
  <2>5. BytesOf(rows') = BytesOf(rows) + SizeOf(put.digest)
    BY <1>3, <2>3, <2>4
  <2>6. BytesOf(rows) + SizeOf(put.digest) <= MaxTotal
    BY <1>1 DEF ArtifactInv, PutInv, TotalBytes
  <2>7. QED
    BY <2>1, <2>5, <2>6 DEF TotalBytes
<1>9. RowInv'
  <2>1. \A r \in rows' : r.id <= drawn' /\ r.digest \in files'
    BY <1>1, <1>2, <1>3, <1>4, <1>5 DEF ArtifactInv, RowInv, PutInv
  <2>2. \A a \in access' : a[1] \in Ids(rows')
    BY <1>1, <1>3, <1>4 DEF ArtifactInv, RowInv, Ids
  <2>3. \A r, s \in rows' : r.id = s.id \/ r.digest = s.digest => r = s
    BY <1>2, <1>3, <1>4, <1>5 DEF ArtifactInv, RowInv
  <2>4. QED
    BY <1>8, <2>1, <2>2, <2>3 DEF RowInv
<1>10. PutInv'
  BY <1>1, <1>2 DEF PutInv
<1>11. FetchInv'
  <2>1. fetch.at # "none" => fetch.id \in Nat /\ fetch.id <= drawn
    BY DEF ArtifactInv, ArtifactTypeOK, Fetches, FetchInv
  <2>2. QED
    BY <1>1, <1>2, <1>3, <1>4, <2>1 DEF ArtifactInv, FetchInv
<1>12. QED
  BY <1>7, <1>9, <1>10, <1>11 DEF ArtifactInv

LEMMA ArtifactInduction == ArtifactSpec => []ArtifactInv
<1>1. ArtifactInit => ArtifactInv
  BY ArtifactInitially
<1>2. ArtifactInv /\ [ArtifactNext]_artifactVars => ArtifactInv'
  <2>1. SUFFICES ASSUME ArtifactInv, [ArtifactNext]_artifactVars PROVE ArtifactInv'
    OBVIOUS
  <2>2. CASE UNCHANGED artifactVars
    <3>1. UNCHANGED <<day, rows, access, files, drawn, put, fetch>>
      BY <2>2 DEF artifactVars
    <3>2. ArtifactTypeOK'
      BY <2>1, <3>1 DEF ArtifactInv, ArtifactTypeOK
    <3>3. RowInv' /\ PutInv' /\ FetchInv'
      BY <2>1, <3>1 DEF ArtifactInv, RowInv, PutInv, FetchInv, TotalBytes
    <3>4. QED
      BY <3>2, <3>3 DEF ArtifactInv
  <2>3. QED
    BY <2>1, <2>2, FetchKeeps, PutStarts, PurgeKeeps, UnlinkKeeps, LookupKeeps, WriteKeeps,
       InsertKeeps DEF ArtifactNext
<1>3. QED
  BY <1>1, <1>2, PTL DEF ArtifactSpec

\* The tables, the files, the put and the fetch keep their types.
THEOREM ArtifactTypeCorrect == ArtifactSpec => []ArtifactTypeOK
<1>1. ArtifactInv => ArtifactTypeOK
  BY DEF ArtifactInv
<1>2. QED
  BY <1>1, ArtifactInduction, PTL

\* For any digests, sizes, cap and retention, wherever the process dies: a row
\* has its bytes, a digest one row, the rows fit the cap, a permission has a
\* row, and a fetch finds the bytes of a row that is there (ArtifactStore).
THEOREM RowsHaveBytes == ArtifactSpec => []RowHasBytes
<1>1. ASSUME ArtifactInv PROVE RowHasBytes
  <2>1. fetch.at = "file" /\ fetch.digest \notin files => fetch.id \notin Ids(rows)
    BY <1>1 DEF ArtifactInv, RowInv, FetchInv, Ids
  <2>2. QED
    BY <1>1, <2>1 DEF ArtifactInv, RowInv, RowHasBytes
<1>2. QED
  BY <1>1, ArtifactInduction, PTL

-----------------------------------------------------------------------------
(* Pairing: authority is what the operator last approved *)

\* A row that says paired and is not revoked is the operator's last approval,
\* word for word, and the last thing the log says of that peer.
LastWord(s) ==
    \E n \in About(s) : /\ \A m \in About(s) : m <= n
                        /\ audit[n].event = "peer.paired" /\ audit[n].until = peers[s].until
ConsentInv ==
    \A s \in DOMAIN peers \ revocations : peers[s].state = "paired" =>
        /\ s \in DOMAIN consent
        /\ peers[s].scope = consent[s].scope /\ peers[s].kid = consent[s].kid
        /\ peers[s].until = consent[s].until
        /\ LastWord(s)

\* Grants are numbered as the log numbers them.
Issued(g) == \E n \in DOMAIN audit : audit[n].event = "grant.issued" /\ audit[n].about = g
Withdrawn(g) == \E n \in DOMAIN audit : audit[n].event = "grant.revoked" /\ audit[n].about = g
GrantInv ==
    /\ \A n \in DOMAIN audit : audit[n].event \in {"grant.issued", "grant.revoked"} =>
          audit[n].about \in DOMAIN grants
    /\ \A g \in DOMAIN grants : grants[g].live <=> Issued(g) /\ ~Withdrawn(g)

\* The bounded table, and the name a ping in progress stands for.
PendingInv ==
    /\ IsFiniteSet(Pending(peers)) /\ Cardinality(Pending(peers)) <= MaxPendingPeers
PingInv ==
    cli.at \in {"profile", "post", "answered"} =>
        cli.name \in DOMAIN routes /\ routes[cli.name] = cli.peer

PairInv == PairTypeOK /\ ConsentInv /\ AuditVerifies /\ GrantInv /\ PendingInv /\ PingInv

\* What an append to the audit chain leaves and adds.
LEMMA AuditGrows ==
    ASSUME PairTypeOK, NEW event \in Events, NEW about \in Systems \cup Nat, NEW until \in Nat,
           AuditAppend(event, about, until)
    PROVE  /\ audit' \in Seq(Entries)
           /\ DOMAIN audit = 1..Len(audit) /\ Len(audit) \in Nat
           /\ DOMAIN audit' = 1..(Len(audit) + 1)
           /\ \A n \in DOMAIN audit : audit'[n] = audit[n]
           /\ audit'[Len(audit) + 1].event = event
           /\ audit'[Len(audit) + 1].about = about
           /\ audit'[Len(audit) + 1].until = until
           /\ AuditVerifies => AuditVerifies'
  <1> DEFINE e == [event |-> event, about |-> about, until |-> until,
                   hash |-> Append(LastHash, <<event, about, until>>)]
  <1>1. audit \in Seq(Entries) /\ audit' = Append(audit, e)
    BY DEF PairTypeOK, AuditAppend
  <1>2. <<event, about, until>> \in Said
    BY DEF Said
  <1>3. LastHash \in Seq(Said)
    <2>1. CASE audit = <<>> BY <2>1 DEF LastHash, Genesis
    <2>2. CASE audit # <<>>
      <3>1. Len(audit) \in DOMAIN audit BY <1>1, <2>2
      <3>2. audit[Len(audit)] \in Entries BY <1>1, <3>1
      <3> QED BY <2>2, <3>2 DEF LastHash, Entries
    <2> QED BY <2>1, <2>2
  <1>4. Append(LastHash, <<event, about, until>>) \in Seq(Said)
    BY <1>2, <1>3
  <1>5. e \in Entries
    BY <1>4 DEF Entries
  <1>6. e.event = event /\ e.about = about /\ e.until = until
        /\ e.hash = Append(LastHash, <<event, about, until>>)
    OBVIOUS
  <1> HIDE DEF e
  <1>7. /\ audit' \in Seq(Entries) /\ Len(audit) \in Nat
        /\ DOMAIN audit = 1..Len(audit) /\ DOMAIN audit' = 1..(Len(audit) + 1)
        /\ \A n \in DOMAIN audit : audit'[n] = audit[n]
        /\ audit'[Len(audit) + 1] = e
    BY <1>1, <1>5
  <1>8. ASSUME AuditVerifies, NEW n \in DOMAIN audit'
        PROVE  audit'[n].hash = Append(IF n = 1 THEN Genesis ELSE audit'[n - 1].hash,
                                       <<audit'[n].event, audit'[n].about, audit'[n].until>>)
    <2>1. CASE n \in DOMAIN audit
      <3>1. audit'[n] = audit[n] /\ (n # 1 => audit'[n - 1] = audit[n - 1])
        BY <1>7, <2>1
      <3> QED BY <1>8, <2>1, <3>1 DEF AuditVerifies
    <2>2. CASE n = Len(audit) + 1
      <3>1. (IF n = 1 THEN Genesis ELSE audit'[n - 1].hash) = LastHash
        <4>1. CASE Len(audit) = 0
          BY <1>1, <1>7, <2>2, <4>1 DEF LastHash
        <4>2. CASE Len(audit) # 0
          <5>1. n # 1 /\ n - 1 = Len(audit) /\ Len(audit) \in DOMAIN audit /\ audit # <<>>
            BY <1>1, <1>7, <2>2, <4>2
          <5> QED BY <1>7, <5>1 DEF LastHash
        <4> QED BY <4>1, <4>2
      <3> QED BY <1>6, <1>7, <2>2, <3>1
    <2>3. n \in DOMAIN audit \/ n = Len(audit) + 1
      BY <1>7
    <2> QED BY <2>1, <2>2, <2>3
  <1>9. AuditVerifies => AuditVerifies'
    BY <1>8 DEF AuditVerifies
  <1> QED BY <1>6, <1>7, <1>9

\* A card that is seen again keeps what the operator decided.
LEMMA SeenRow ==
    ASSUME PairTypeOK, NEW row \in PeerRows, NEW kid \in KeyIds
    PROVE  /\ Seen(row, kid) \in PeerRows
           /\ Seen(row, kid).state = row.state /\ Seen(row, kid).scope = row.scope
           /\ Seen(row, kid).until = row.until /\ Seen(row, kid).kid = kid
  <1>1. SeenAt(row) \in Nat
    BY DEF SeenAt, PeerRows, PairTypeOK
  <1> QED BY <1>1 DEF Seen, PeerRows

\* upsert_pending_or_seen creates pending rows within the limit and decides
\* nothing else.
LEMMA UpsertKeeps ==
    ASSUME PairTypeOK, PendingInv, NEW s \in Others, NEW kid \in KeyIds,
           CanUpsert(s, kid), peers' = Upserted(s, kid)
    PROVE  /\ DOMAIN peers' \subseteq Others /\ \A x \in DOMAIN peers' : peers'[x] \in PeerRows
           /\ \A x \in DOMAIN peers' : peers'[x].state = "paired" =>
                 /\ x \in DOMAIN peers /\ peers[x].state = "paired"
                 /\ peers'[x].scope = peers[x].scope /\ peers'[x].kid = peers[x].kid
                 /\ peers'[x].until = peers[x].until
           /\ PendingInv'
  <1>1. CASE s \in DOMAIN peers
    <2>1. /\ peers' = [peers EXCEPT ![s] = Seen(peers[s], kid)]
          /\ peers[s].state = "paired" => peers[s].kid = kid
      BY <1>1 DEF Upserted, CanUpsert
    <2>2. peers[s] \in PeerRows
      BY <1>1 DEF PairTypeOK
    <2>3. /\ DOMAIN peers' = DOMAIN peers /\ peers'[s] = Seen(peers[s], kid)
          /\ \A x \in DOMAIN peers : x # s => peers'[x] = peers[x]
      BY <1>1, <2>1
    <2>4. \A x \in DOMAIN peers' : peers'[x] \in PeerRows
      BY <2>2, <2>3, SeenRow DEF PairTypeOK
    <2>5. \A x \in DOMAIN peers' :
             /\ peers'[x].state = peers[x].state /\ peers'[x].scope = peers[x].scope
             /\ peers'[x].until = peers[x].until
             /\ peers'[x].kid = peers[x].kid \/ (x = s /\ peers'[x].kid = kid)
      BY <2>2, <2>3, SeenRow
    <2>6. Pending(peers)' = Pending(peers)
      BY <2>3, <2>5 DEF Pending
    <2> QED BY <2>1, <2>3, <2>4, <2>5, <2>6 DEF PendingInv, PairTypeOK
  <1>2. CASE s \notin DOMAIN peers
    <2> DEFINE row == [state |-> "pending", scope |-> DefaultScope, kid |-> kid, seen |-> date,
                       until |-> 0]
    <2>1. peers' = Put(Swept, s, row) /\ Cardinality(Pending(Swept)) < MaxPendingPeers
      BY <1>2 DEF Upserted, CanUpsert
    <2>2. row \in PeerRows /\ row.state = "pending"
      BY DEF PeerRows, PairTypeOK
    <2> HIDE DEF row
    <2>3. DOMAIN Swept \subseteq DOMAIN peers /\ \A x \in DOMAIN Swept : Swept[x] = peers[x]
      BY DEF Swept, Omit
    <2>4. /\ DOMAIN peers' = DOMAIN Swept \cup {s} /\ peers'[s] = row
          /\ \A x \in DOMAIN Swept : x # s => peers'[x] = Swept[x]
      BY <2>1 DEF Put
    <2>5. s \notin DOMAIN Swept
      BY <1>2, <2>3
    <2>6. Pending(peers)' = Pending(Swept) \cup {s} /\ Pending(Swept) \subseteq Pending(peers)
      BY <2>2, <2>3, <2>4, <2>5 DEF Pending
    <2>7. IsFiniteSet(Pending(Swept))
      BY <2>6, FS_Subset DEF PendingInv
    <2>8. /\ IsFiniteSet(Pending(Swept) \cup {s}) /\ Cardinality(Pending(Swept)) \in Nat
          /\ Cardinality(Pending(Swept) \cup {s}) <= Cardinality(Pending(Swept)) + 1
          /\ Cardinality(Pending(Swept) \cup {s}) \in Nat
      <3>1. IsFiniteSet(Pending(Swept) \cup {s}) /\ Cardinality(Pending(Swept)) \in Nat
        BY <2>7, FS_AddElement, FS_CardinalityType
      <3>2. Cardinality(Pending(Swept) \cup {s}) \in Nat
        BY <3>1, FS_CardinalityType
      <3>3. Cardinality(Pending(Swept) \cup {s}) = IF s \in Pending(Swept)
                  THEN Cardinality(Pending(Swept)) ELSE Cardinality(Pending(Swept)) + 1
        BY <2>7, FS_AddElement
      <3> QED BY <3>1, <3>2, <3>3
    <2>9. PendingInv'
      <3>1. Cardinality(Pending(Swept) \cup {s}) <= MaxPendingPeers
        BY <2>1, <2>8, PairingAssumption
      <3> QED BY <2>6, <2>8, <3>1 DEF PendingInv
    <2> QED BY <2>2, <2>3, <2>4, <2>9 DEF PairTypeOK
  <1> QED BY <1>1, <1>2

\* A step that changes nothing of the tables but the peers it sees keeps what
\* is said about them.
LEMMA SightKeeps ==
    ASSUME PairInv, UNCHANGED <<revocations, grants, audit, consent>>,
           \A x \in DOMAIN peers' : peers'[x].state = "paired" =>
              /\ x \in DOMAIN peers /\ peers[x].state = "paired"
              /\ peers'[x].scope = peers[x].scope /\ peers'[x].kid = peers[x].kid
              /\ peers'[x].until = peers[x].until
    PROVE  ConsentInv' /\ AuditVerifies' /\ GrantInv'
  <1>1. \A x \in DOMAIN peers' : peers'[x].until = peers[x].until /\ LastWord(x) => LastWord(x)'
    BY DEF LastWord, About
  <1>2. ConsentInv'
    BY <1>1 DEF PairInv, ConsentInv
  <1>3. AuditVerifies' BY DEF PairInv, AuditVerifies
  <1>4. GrantInv' BY DEF PairInv, GrantInv, Issued, Withdrawn
  <1> QED BY <1>2, <1>3, <1>4

\* hello(), on the server and in the command.
LEMMA HelloPair ==
    ASSUME PairInv, NEW kid \in KeyIds, (\E s \in Others : Hello(s, kid)) \/ ExchangeHello(kid)
    PROVE  PairInv'
  <1>1. CASE \E s \in Others : Hello(s, kid)
    <2>1. PICK s \in Others : Hello(s, kid) BY <1>1
    <2>2. /\ DOMAIN peers' \subseteq Others /\ \A x \in DOMAIN peers' : peers'[x] \in PeerRows
          /\ PendingInv' /\ ConsentInv' /\ AuditVerifies' /\ GrantInv'
      BY <2>1, UpsertKeeps, SightKeeps DEF Hello, PairInv
    <2>3. PairTypeOK'
      BY <2>1, <2>2 DEF PairInv, PairTypeOK, Hello, network, cliFiles
    <2>4. PingInv' BY <2>1 DEF PairInv, PingInv, Hello, cliFiles
    <2> QED BY <2>2, <2>3, <2>4 DEF PairInv
  <1>2. CASE ExchangeHello(kid)
    <2>1. /\ cli.at = "hello" /\ cli.peer \in Others /\ cli \in Commands
          /\ cli.url \in Urls
      BY <1>2 DEF ExchangeHello, PairInv, PairTypeOK
    <2>2. CASE serves[cli.url] = cli.peer /\ CanUpsert(cli.peer, kid)
      <3>1. peers' = Upserted(cli.peer, kid) /\ cli' = [cli EXCEPT !.at = "url"]
        BY <1>2, <2>2 DEF ExchangeHello
      <3>2. /\ cli' \in Commands /\ cli'.at = "url" /\ cli'.url = cli.url /\ cli'.peer = cli.peer
        BY <2>1, <3>1 DEF Commands
      <3>3. /\ DOMAIN peers' \subseteq Others /\ \A x \in DOMAIN peers' : peers'[x] \in PeerRows
            /\ PendingInv' /\ ConsentInv' /\ AuditVerifies' /\ GrantInv'
        BY <1>2, <2>1, <2>2, <3>1, UpsertKeeps, SightKeeps DEF ExchangeHello, PairInv
      <3>4. PairTypeOK'
        BY <1>2, <2>1, <3>2, <3>3 DEF PairInv, PairTypeOK, ExchangeHello, network, cliFiles
      <3>5. PingInv' BY <3>2 DEF PingInv
      <3> QED BY <3>3, <3>4, <3>5 DEF PairInv
    <2>3. CASE ~(serves[cli.url] = cli.peer /\ CanUpsert(cli.peer, kid))
      <3>1. UNCHANGED peers /\ cli' = NoCommand
        BY <1>2, <2>3 DEF ExchangeHello
      <3>2. cli' \in Commands /\ cli'.at = "none"
        BY <3>1 DEF NoCommand, Commands, Systems
      <3>3. ConsentInv' /\ AuditVerifies' /\ GrantInv'
        BY <1>2, <3>1, SightKeeps DEF ExchangeHello
      <3>4. PairTypeOK'
        BY <1>2, <3>1, <3>2 DEF PairInv, PairTypeOK, ExchangeHello, network, cliFiles
      <3>5. PingInv' /\ PendingInv' BY <3>1, <3>2 DEF PairInv, PingInv, PendingInv
      <3> QED BY <3>3, <3>4, <3>5 DEF PairInv
    <2> QED BY <2>2, <2>3
  <1> QED BY <1>1, <1>2

\* What an append says of a peer: nothing, or the last word.
LEMMA AboutGrows ==
    ASSUME PairTypeOK, NEW event \in Events, NEW about \in Systems \cup Nat, NEW until \in Nat,
           AuditAppend(event, about, until), NEW s \in Others,
           event \in {"peer.paired", "peer.revoked"} => about # s
    PROVE  /\ About(s)' = About(s)
           /\ \A n \in About(s) : audit'[n] = audit[n]
  <1>1. \A n \in DOMAIN audit' : n \in DOMAIN audit \/ n = Len(audit) + 1
    BY AuditGrows
  <1>2. \A n \in DOMAIN audit : n \in DOMAIN audit' /\ audit'[n] = audit[n]
    BY AuditGrows
  <1>3. Len(audit) + 1 \notin About(s)'
    BY AuditGrows DEF About
  <1> QED BY <1>1, <1>2, <1>3 DEF About

\* The tables after a step that appends about something that is no grant.
LEMMA GrantsStay ==
    ASSUME PairInv, NEW event \in Events, NEW about \in Systems \cup Nat, NEW until \in Nat,
           AuditAppend(event, about, until), event \notin {"grant.issued", "grant.revoked"},
           UNCHANGED grants
    PROVE  GrantInv'
  <1>0. PairTypeOK BY DEF PairInv
  <1>1. /\ \A n \in DOMAIN audit' : n \in DOMAIN audit \/ n = Len(audit) + 1
        /\ \A n \in DOMAIN audit : n \in DOMAIN audit' /\ audit'[n] = audit[n]
        /\ audit'[Len(audit) + 1].event = event
    BY <1>0, AuditGrows
  <1>2. \A g : Issued(g)' = Issued(g) /\ Withdrawn(g)' = Withdrawn(g)
    BY <1>1 DEF Issued, Withdrawn
  <1>3. \A n \in DOMAIN audit' : audit'[n].event \in {"grant.issued", "grant.revoked"} =>
          audit'[n].about \in DOMAIN grants'
    BY <1>1 DEF PairInv, GrantInv
  <1>4. \A g \in DOMAIN grants' : grants'[g].live <=> Issued(g)' /\ ~Withdrawn(g)'
    BY <1>2 DEF PairInv, GrantInv
  <1> QED BY <1>3, <1>4 DEF GrantInv

\* confirm_peer
LEMMA ConfirmPair ==
    ASSUME PairInv, NEW s \in Others, NEW code, NEW given \in Scopes \cup {{}},
           ConfirmPeer(s, code, given)
    PROVE  PairInv'
  <1> DEFINE scope == IF given = {} THEN peers[s].scope ELSE given
             until == date + Validity
  <1>0. PairTypeOK /\ s \in DOMAIN peers /\ peers[s] \in PeerRows /\ until \in Nat
        /\ "peer.paired" \in Events /\ s \in Systems \cup Nat
    BY PairingAssumption DEF ConfirmPeer, PairInv, PairTypeOK, Systems, Events
  <1>1. /\ peers' = [peers EXCEPT ![s].state = "paired", ![s].until = until,
                                 ![s].scope = scope, ![s].seen = 0]
        /\ revocations' = revocations \ {s}
        /\ AuditAppend("peer.paired", s, until)
        /\ consent' = Put(consent, s, [scope |-> scope, kid |-> peers[s].kid, until |-> until])
        /\ UNCHANGED <<date, serves, grants, known, scanned, routes, cli>>
    BY DEF ConfirmPeer, network, cliFiles
  <1>2. scope \in Scopes \cup {DefaultScope}
    BY <1>0 DEF PeerRows
  <1> HIDE DEF scope, until
  <1>3. /\ DOMAIN peers' = DOMAIN peers
        /\ \A x \in DOMAIN peers : x # s => peers'[x] = peers[x]
        /\ peers'[s] \in PeerRows /\ peers'[s].state = "paired" /\ peers'[s].until = until
        /\ peers'[s].scope = scope /\ peers'[s].kid = peers[s].kid
    BY <1>0, <1>1, <1>2 DEF PeerRows
  <1>4. PairTypeOK'
    <2>1. audit' \in Seq(Entries) BY <1>0, <1>1, AuditGrows
    <2> QED BY <1>0, <1>1, <1>3, <2>1 DEF PairTypeOK
  <1>5. AuditVerifies' BY <1>0, <1>1, AuditGrows DEF PairInv
  <1>6. GrantInv' BY <1>0, <1>1, GrantsStay
  <1>7. PendingInv'
    <2>1. Pending(peers)' \subseteq Pending(peers)
      BY <1>3 DEF Pending
    <2>2. IsFiniteSet(Pending(peers)') /\ Cardinality(Pending(peers)') <= Cardinality(Pending(peers))
      BY <2>1, FS_Subset DEF PairInv, PendingInv
    <2>3. Cardinality(Pending(peers)') \in Nat /\ Cardinality(Pending(peers)) \in Nat
      BY <2>2, FS_CardinalityType DEF PairInv, PendingInv
    <2> QED BY <2>2, <2>3, PairingAssumption DEF PairInv, PendingInv
  <1>8. PingInv' BY <1>1 DEF PairInv, PingInv
  <1>9. ConsentInv'
    <2>1. ASSUME NEW x \in DOMAIN peers' \ revocations', peers'[x].state = "paired"
          PROVE  /\ x \in DOMAIN consent'
                 /\ peers'[x].scope = consent'[x].scope /\ peers'[x].kid = consent'[x].kid
                 /\ peers'[x].until = consent'[x].until
                 /\ LastWord(x)'
      <3>1. CASE x = s
        <4>1. /\ x \in DOMAIN consent' /\ consent'[x].scope = scope
              /\ consent'[x].kid = peers[s].kid /\ consent'[x].until = until
          BY <1>1, <3>1 DEF Put
        <4>2. /\ DOMAIN audit' = 1..(Len(audit) + 1) /\ Len(audit) \in Nat
              /\ audit'[Len(audit) + 1].event = "peer.paired"
              /\ audit'[Len(audit) + 1].about = s
              /\ audit'[Len(audit) + 1].until = until
          BY <1>0, <1>1, AuditGrows
        <4>3. Len(audit) + 1 \in About(s)' /\ \A m \in About(s)' : m <= Len(audit) + 1
          BY <4>2 DEF About
        <4>4. LastWord(s)'
          BY <1>3, <4>2, <4>3 DEF LastWord
        <4> QED BY <1>3, <3>1, <4>1, <4>4
      <3>2. CASE x # s
        <4>1. /\ x \in DOMAIN peers \ revocations /\ peers[x].state = "paired"
              /\ peers'[x] = peers[x]
          BY <1>1, <1>3, <2>1, <3>2
        <4>2. x \in DOMAIN consent' /\ consent'[x] = consent[x]
          BY <1>1, <3>2, <4>1 DEF Put, PairInv, ConsentInv
        <4>3. x \in Others BY <4>1 DEF PairInv, PairTypeOK
        <4>4. About(x)' = About(x) /\ \A n \in About(x) : audit'[n] = audit[n]
          BY <1>0, <1>1, <3>2, <4>3, AboutGrows
        <4>5. LastWord(x)'
          BY <4>1, <4>4 DEF LastWord, PairInv, ConsentInv
        <4> QED BY <4>1, <4>2, <4>5 DEF PairInv, ConsentInv
      <3> QED BY <3>1, <3>2
    <2> QED BY <2>1 DEF ConsentInv
  <1> QED BY <1>4, <1>5, <1>6, <1>7, <1>8, <1>9 DEF PairInv

\* revoke_peer
LEMMA RevokePair ==
    ASSUME PairInv, NEW s \in Others, RevokePeer(s)
    PROVE  PairInv'
  <1>0. PairTypeOK /\ "peer.revoked" \in Events /\ s \in Systems \cup Nat /\ 0 \in Nat
    BY DEF PairInv, Systems, Events
  <1>1. /\ revocations' = revocations \cup {s}
        /\ AuditAppend("peer.revoked", s, 0)
        /\ consent' = Omit(consent, {s})
        /\ UNCHANGED <<date, serves, peers, grants, known, scanned, routes, cli>>
    BY DEF RevokePeer, network, cliFiles
  <1>2. PairTypeOK'
    <2>1. audit' \in Seq(Entries) BY <1>0, <1>1, AuditGrows
    <2> QED BY <1>0, <1>1, <2>1 DEF PairTypeOK
  <1>3. AuditVerifies' BY <1>0, <1>1, AuditGrows DEF PairInv
  <1>4. GrantInv' BY <1>0, <1>1, GrantsStay
  <1>5. PendingInv' /\ PingInv' BY <1>1 DEF PairInv, PendingInv, PingInv
  <1>6. ASSUME NEW x \in DOMAIN peers' \ revocations', peers'[x].state = "paired"
        PROVE  /\ x \in DOMAIN consent'
               /\ peers'[x].scope = consent'[x].scope /\ peers'[x].kid = consent'[x].kid
               /\ peers'[x].until = consent'[x].until
               /\ LastWord(x)'
    <2>1. x # s /\ x \in DOMAIN peers \ revocations /\ x \in Others
      BY <1>0, <1>1, <1>6 DEF PairTypeOK
    <2>2. x \in DOMAIN consent' /\ consent'[x] = consent[x]
      BY <1>1, <1>6, <2>1 DEF Omit, PairInv, ConsentInv
    <2>3. About(x)' = About(x) /\ \A n \in About(x) : audit'[n] = audit[n]
      BY <1>0, <1>1, <2>1, AboutGrows
    <2>4. LastWord(x)'
      BY <1>1, <1>6, <2>1, <2>3 DEF LastWord, PairInv, ConsentInv
    <2> QED BY <1>1, <1>6, <2>1, <2>2, <2>4 DEF PairInv, ConsentInv
  <1>7. ConsentInv' BY <1>6 DEF ConsentInv
  <1> QED BY <1>2, <1>3, <1>4, <1>5, <1>7 DEF PairInv

\* issue_grant and revoke_grant: the table and the log change together.
LEMMA GrantPair ==
    ASSUME PairInv, (\E s \in Others : IssueGrant(s)) \/ (\E g \in DOMAIN grants : RevokeGrant(g))
    PROVE  PairInv'
  <1>0. PairTypeOK /\ 0 \in Nat /\ {"grant.issued", "grant.revoked"} \subseteq Events
        /\ grants \in Seq([to : Others, live : BOOLEAN])
    BY DEF PairInv, PairTypeOK, Events
  <1>1. ASSUME NEW event \in {"grant.issued", "grant.revoked"}, NEW about \in Nat,
               AuditAppend(event, about, 0), grants' \in Seq([to : Others, live : BOOLEAN]),
               UNCHANGED <<network, peers, revocations, consent, cliFiles, cli>>, GrantInv'
        PROVE  PairInv'
    <2>1. about \in Systems \cup Nat /\ event \in Events BY <1>0, <1>1
    <2>2. PairTypeOK'
      <3>1. audit' \in Seq(Entries) BY <1>0, <1>1, <2>1, AuditGrows
      <3> QED BY <1>0, <1>1, <3>1 DEF PairTypeOK, network, cliFiles
    <2>3. AuditVerifies' BY <1>0, <1>1, <2>1, AuditGrows DEF PairInv
    <2>4. PendingInv' /\ PingInv' BY <1>1 DEF PairInv, PendingInv, PingInv, cliFiles
    <2>5. ASSUME NEW x \in Others PROVE About(x)' = About(x) /\ \A n \in About(x) : audit'[n] = audit[n]
      BY <1>0, <1>1, <2>1, AboutGrows
    <2>6. \A x \in DOMAIN peers : LastWord(x) => LastWord(x)'
      BY <1>0, <1>1, <2>5 DEF LastWord, PairTypeOK
    <2>7. ConsentInv' BY <1>1, <2>6 DEF PairInv, ConsentInv
    <2> QED BY <1>1, <2>2, <2>3, <2>4, <2>7 DEF PairInv
  <1>2. ASSUME NEW event \in {"grant.issued", "grant.revoked"}, NEW about \in Nat,
               AuditAppend(event, about, 0)
        PROVE  /\ \A n \in DOMAIN audit' : n \in DOMAIN audit \/ n = Len(audit) + 1
               /\ \A n \in DOMAIN audit : n \in DOMAIN audit' /\ audit'[n] = audit[n]
               /\ Len(audit) + 1 \in DOMAIN audit'
               /\ audit'[Len(audit) + 1].event = event
               /\ audit'[Len(audit) + 1].about = about
    <2>1. about \in Systems \cup Nat /\ event \in Events BY <1>0, <1>2
    <2>2. /\ DOMAIN audit = 1..Len(audit) /\ Len(audit) \in Nat
          /\ DOMAIN audit' = 1..(Len(audit) + 1)
          /\ \A n \in DOMAIN audit : audit'[n] = audit[n]
          /\ audit'[Len(audit) + 1].event = event
          /\ audit'[Len(audit) + 1].about = about
      BY <1>0, <1>2, <2>1, AuditGrows
    <2> QED BY <2>2
  <1>3. ASSUME NEW s \in Others, IssueGrant(s) PROVE PairInv'
    <2>0. PICK g : g = Len(grants) + 1 OBVIOUS
    <2>1. /\ grants' = Append(grants, [to |-> s, live |-> TRUE])
          /\ AuditAppend("grant.issued", g, 0)
          /\ UNCHANGED <<network, peers, revocations, consent, cliFiles, cli>>
      BY <1>3, <2>0 DEF IssueGrant
    <2>2. /\ g \in Nat /\ g \notin DOMAIN grants /\ DOMAIN grants' = DOMAIN grants \cup {g}
          /\ grants' \in Seq([to : Others, live : BOOLEAN])
          /\ grants'[g].live = TRUE /\ \A h \in DOMAIN grants : grants'[h] = grants[h]
      BY <1>0, <2>0, <2>1
    <2>3. /\ \A n \in DOMAIN audit' : n \in DOMAIN audit \/ n = Len(audit) + 1
          /\ \A n \in DOMAIN audit : n \in DOMAIN audit' /\ audit'[n] = audit[n]
          /\ Len(audit) + 1 \in DOMAIN audit'
          /\ audit'[Len(audit) + 1].event = "grant.issued"
          /\ audit'[Len(audit) + 1].about = g
      BY <1>2, <2>1, <2>2
    <2>4. ~Withdrawn(g)'
      BY <2>2, <2>3 DEF Withdrawn, PairInv, GrantInv
    <2>5. Issued(g)'
      BY <2>3 DEF Issued
    <2>6. \A h \in DOMAIN grants : Issued(h)' = Issued(h) /\ Withdrawn(h)' = Withdrawn(h)
      BY <2>2, <2>3 DEF Issued, Withdrawn
    <2>7. \A h \in DOMAIN grants' : grants'[h].live <=> Issued(h)' /\ ~Withdrawn(h)'
      BY <2>2, <2>4, <2>5, <2>6 DEF PairInv, GrantInv
    <2>8. \A n \in DOMAIN audit' : audit'[n].event \in {"grant.issued", "grant.revoked"} =>
            audit'[n].about \in DOMAIN grants'
      BY <2>2, <2>3 DEF PairInv, GrantInv
    <2>9. GrantInv' BY <2>7, <2>8 DEF GrantInv
    <2> QED BY <1>1, <2>1, <2>2, <2>9
  <1>4. ASSUME NEW g \in DOMAIN grants, RevokeGrant(g) PROVE PairInv'
    <2>1. /\ grants' = [grants EXCEPT ![g].live = FALSE]
          /\ AuditAppend("grant.revoked", g, 0)
          /\ UNCHANGED <<network, peers, revocations, consent, cliFiles, cli>>
      BY <1>4 DEF RevokeGrant
    <2>2. /\ g \in Nat /\ DOMAIN grants' = DOMAIN grants
          /\ grants' \in Seq([to : Others, live : BOOLEAN])
          /\ grants'[g].live = FALSE /\ \A h \in DOMAIN grants : h # g => grants'[h] = grants[h]
      <3>1. g \in Nat /\ grants[g] \in [to : Others, live : BOOLEAN]
        <4> DEFINE GrantRows == [to : Others, live : BOOLEAN]
        <4>1. grants \in Seq(GrantRows) BY <1>0
        <4> HIDE DEF GrantRows
        <4>2. g \in Nat /\ grants[g] \in GrantRows BY <1>4, <4>1
        <4> QED BY <4>2 DEF GrantRows
      <3>2. [grants[g] EXCEPT !.live = FALSE] \in [to : Others, live : BOOLEAN]
            /\ [grants[g] EXCEPT !.live = FALSE].live = FALSE
        BY <3>1
      <3>3. grants' = [grants EXCEPT ![g] = [grants[g] EXCEPT !.live = FALSE]]
        BY <1>4, <2>1
      <3> QED BY <1>0, <1>4, <3>1, <3>2, <3>3
    <2>3. /\ \A n \in DOMAIN audit' : n \in DOMAIN audit \/ n = Len(audit) + 1
          /\ \A n \in DOMAIN audit : n \in DOMAIN audit' /\ audit'[n] = audit[n]
          /\ Len(audit) + 1 \in DOMAIN audit'
          /\ audit'[Len(audit) + 1].event = "grant.revoked"
          /\ audit'[Len(audit) + 1].about = g
      BY <1>2, <2>1, <2>2
    <2>4. Withdrawn(g)'
      BY <2>3 DEF Withdrawn
    <2>5. \A h \in DOMAIN grants : h # g => Issued(h)' = Issued(h) /\ Withdrawn(h)' = Withdrawn(h)
      BY <2>3 DEF Issued, Withdrawn
    <2>6. \A h \in DOMAIN grants' : grants'[h].live <=> Issued(h)' /\ ~Withdrawn(h)'
      BY <2>2, <2>4, <2>5 DEF PairInv, GrantInv
    <2>7. \A n \in DOMAIN audit' : audit'[n].event \in {"grant.issued", "grant.revoked"} =>
            audit'[n].about \in DOMAIN grants'
      BY <2>2, <2>3 DEF PairInv, GrantInv
    <2>8. GrantInv' BY <2>6, <2>7 DEF GrantInv
    <2> QED BY <1>1, <2>1, <2>2, <2>8
  <1> QED BY <1>3, <1>4

\* The commands of agent_cli.py, the network and time decide nothing about
\* trust.
LEMMA CommandPair ==
    ASSUME PairInv, UNCHANGED trustTables, PairTypeOK', PingInv'
    PROVE  PairInv'
  <1>1. ConsentInv' /\ AuditVerifies' /\ GrantInv'
    BY SightKeeps DEF trustTables, PairInv, PairTypeOK
  <1>2. PendingInv' BY DEF PairInv, PendingInv, trustTables
  <1> QED BY <1>1, <1>2 DEF PairInv

\* scan, connect, route: what a command writes to its files.
LEMMA ConnectPair ==
    ASSUME PairInv,
           \/ Scan \/ RecordUrl \/ BindRoute \/ NextDate
           \/ \E u \in Urls, x \in {{}} \cup {{s} : s \in Others}, n \in Names \cup {"none"} :
                 Inspect(u, x, n)
           \/ \E u \in Urls, s \in Others : Readdress(u, s)
    PROVE  PairInv'
  <1>0. PairTypeOK /\ PingInv /\ cli \in Commands BY DEF PairInv, PairTypeOK
  <1>1. NoCommand \in Commands /\ NoCommand.at = "none"
    BY DEF NoCommand, Commands, Systems
  <1>2. CASE Scan
    <2>1. cli' = NoCommand BY <1>2 DEF Scan
    <2>2. PairTypeOK' BY <1>0, <1>1, <1>2, <2>1 DEF PairTypeOK, Scan, trustTables, network
    <2>3. PingInv' BY <1>1, <2>1 DEF PingInv
    <2> QED BY <1>2, <2>2, <2>3, CommandPair DEF Scan
  <1>3. CASE RecordUrl
    <2>1. /\ cli.at = "url" /\ cli.url \in Urls /\ cli.peer \in Others
          /\ known' = Put(known, cli.peer, cli.url)
      BY <1>0, <1>3 DEF RecordUrl, PairTypeOK
    <2>2. DOMAIN known' \subseteq Others /\ \A s \in DOMAIN known' : known'[s] \in Urls
      BY <1>0, <2>1 DEF Put, PairTypeOK
    <2>3. /\ cli' \in Commands /\ cli'.at \in {"none", "name"}
          /\ cli'.at # "none" => cli'.url = cli.url /\ cli'.peer = cli.peer
          /\ cli'.at = "name" => cli'.name = cli.name /\ cli.name # "none"
      <3>1. CASE cli.name = "none" BY <1>1, <1>3, <3>1 DEF RecordUrl
      <3>2. CASE cli.name # "none"
        <4>1. cli' = [cli EXCEPT !.at = "name"] BY <1>3, <3>2 DEF RecordUrl
        <4> QED BY <1>0, <3>2, <4>1 DEF Commands
      <3> QED BY <3>1, <3>2
    <2>4. cli'.at = "name" => cli'.name \in Names
      BY <1>0, <2>3 DEF Commands
    <2>5. PairTypeOK'
      BY <1>0, <1>3, <2>1, <2>2, <2>3, <2>4 DEF PairTypeOK, RecordUrl, trustTables, network
    <2>6. PingInv' BY <2>3 DEF PingInv
    <2> QED BY <1>3, <2>5, <2>6, CommandPair DEF RecordUrl
  <1>4. CASE BindRoute
    <2>1. cli' = NoCommand /\ cli.at = "name" /\ cli.name \in Names /\ cli.peer \in Others
      BY <1>0, <1>4 DEF BindRoute, PairTypeOK
    <2>2. DOMAIN routes' \subseteq Names /\ \A n \in DOMAIN routes' : routes'[n] \in Others
      BY <1>0, <1>4, <2>1 DEF BindRoute, Put, PairTypeOK
    <2>3. PairTypeOK'
      BY <1>0, <1>1, <1>4, <2>1, <2>2 DEF PairTypeOK, BindRoute, trustTables, network
    <2>4. PingInv' BY <1>1, <2>1 DEF PingInv
    <2> QED BY <1>4, <2>3, <2>4, CommandPair DEF BindRoute
  <1>5. CASE NextDate
    <2>1. PairTypeOK' /\ PingInv'
      BY <1>0, <1>5 DEF PairTypeOK, PingInv, NextDate, trustTables, cliFiles
    <2> QED BY <1>5, <2>1, CommandPair DEF NextDate
  <1>6. ASSUME NEW u \in Urls, NEW x, NEW n \in Names \cup {"none"}, Inspect(u, x, n)
        PROVE  PairInv'
    <2>1. cli' = [at |-> "hello", url |-> u, peer |-> serves[u], name |-> n]
          /\ serves[u] \in Others
      BY <1>0, <1>6 DEF Inspect, PairTypeOK
    <2>2. cli' \in Commands /\ cli'.at = "hello" /\ cli'.url \in Urls /\ cli'.peer \in Others
      BY <2>1 DEF Commands, Systems
    <2>3. PairTypeOK'
      BY <1>0, <1>6, <2>2 DEF PairTypeOK, Inspect, trustTables, network, cliFiles
    <2>4. PingInv' BY <2>2 DEF PingInv
    <2> QED BY <1>6, <2>3, <2>4, CommandPair DEF Inspect
  <1>7. ASSUME NEW u \in Urls, NEW s \in Others, Readdress(u, s)
        PROVE  PairInv'
    <2>1. PairTypeOK' /\ PingInv'
      BY <1>0, <1>7 DEF PairTypeOK, PingInv, Readdress, trustTables, cliFiles
    <2> QED BY <1>7, <2>1, CommandPair DEF Readdress
  <1> QED BY <1>2, <1>3, <1>4, <1>5, <1>6, <1>7

\* route and ping: a name and the system behind it.
LEMMA RoutePair ==
    ASSUME PairInv,
           \/ PeerEndpoint \/ PostEnvelope
           \/ \E n \in Names : RouteRemove(n) \/ Ping(n) \/ \E s \in Others : RouteAdd(n, s)
    PROVE  PairInv'
  <1>0. PairTypeOK /\ PingInv /\ cli \in Commands BY DEF PairInv, PairTypeOK
  <1>1. NoCommand \in Commands /\ NoCommand.at = "none"
    BY DEF NoCommand, Commands, Systems
  <1>2. ASSUME cli.at \in {"profile", "post"}, NEW l \in {"post", "answered"},
               cli' = NoCommand \/ cli' = [cli EXCEPT !.at = l],
               UNCHANGED <<network, trustTables, cliFiles>>
        PROVE  PairInv'
    <2>1. /\ cli' \in Commands
          /\ \/ cli'.at = "none"
             \/ /\ cli'.at = l /\ cli'.url = cli.url /\ cli'.peer = cli.peer
                /\ cli'.name = cli.name
      BY <1>0, <1>1, <1>2 DEF Commands
    <2>2. PairTypeOK'
      BY <1>0, <1>2, <2>1 DEF PairTypeOK, trustTables, network, cliFiles
    <2>3. PingInv' BY <1>0, <1>2, <2>1 DEF PingInv, cliFiles
    <2> QED BY <1>2, <2>2, <2>3, CommandPair
  <1>3. CASE PeerEndpoint BY <1>2, <1>3 DEF PeerEndpoint
  <1>4. CASE PostEnvelope BY <1>2, <1>4 DEF PostEnvelope
  <1>5. ASSUME NEW n \in Names, RouteRemove(n) PROVE PairInv'
    <2>1. cli' = NoCommand BY <1>5 DEF RouteRemove
    <2>2. DOMAIN routes' \subseteq Names /\ \A m \in DOMAIN routes' : routes'[m] \in Others
      BY <1>0, <1>5 DEF RouteRemove, Omit, PairTypeOK
    <2>3. PairTypeOK'
      BY <1>0, <1>1, <1>5, <2>1, <2>2 DEF PairTypeOK, RouteRemove, trustTables, network
    <2>4. PingInv' BY <1>1, <2>1 DEF PingInv
    <2> QED BY <1>5, <2>3, <2>4, CommandPair DEF RouteRemove
  <1>6. ASSUME NEW n \in Names, NEW s \in Others, RouteAdd(n, s) PROVE PairInv'
    <2>1. cli' = NoCommand BY <1>6 DEF RouteAdd
    <2>2. DOMAIN routes' \subseteq Names /\ \A m \in DOMAIN routes' : routes'[m] \in Others
      BY <1>0, <1>6 DEF RouteAdd, Put, PairTypeOK
    <2>3. PairTypeOK'
      BY <1>0, <1>1, <1>6, <2>1, <2>2 DEF PairTypeOK, RouteAdd, trustTables, network
    <2>4. PingInv' BY <1>1, <2>1 DEF PingInv
    <2> QED BY <1>6, <2>3, <2>4, CommandPair DEF RouteAdd
  <1>7. ASSUME NEW n \in Names, Ping(n) PROVE PairInv'
    <2>1. /\ cli' = [at |-> "profile", url |-> known[routes[n]], peer |-> routes[n], name |-> n]
          /\ n \in DOMAIN routes /\ routes[n] \in DOMAIN known
          /\ UNCHANGED <<network, trustTables, cliFiles>>
      BY <1>7 DEF Ping
    <2>2. routes[n] \in Others /\ known[routes[n]] \in Urls
      BY <1>0, <2>1 DEF PairTypeOK
    <2>3. /\ cli' \in Commands /\ cli'.at = "profile" /\ cli'.url \in Urls /\ cli'.peer \in Others
          /\ cli'.peer = routes[n] /\ cli'.name = n
      BY <2>1, <2>2 DEF Commands, Systems
    <2>4. PairTypeOK'
      BY <1>0, <2>1, <2>3 DEF PairTypeOK, trustTables, network, cliFiles
    <2>5. PingInv' BY <2>1, <2>3 DEF PingInv, cliFiles
    <2> QED BY <2>1, <2>4, <2>5, CommandPair
  <1> QED BY <1>3, <1>4, <1>5, <1>6, <1>7

\* Every step keeps PairInv.
LEMMA PairStep == PairInv /\ [PairNext]_pairVars => PairInv'
  <1> SUFFICES ASSUME PairInv, [PairNext]_pairVars PROVE PairInv' OBVIOUS
  <1>1. CASE UNCHANGED pairVars
    <2>1. PairTypeOK' /\ PingInv'
      BY <1>1 DEF pairVars, network, trustTables, cliFiles, PairInv, PairTypeOK, PingInv
    <2> QED BY <1>1, <2>1, CommandPair DEF pairVars
  <1>2. CASE PairNext
    BY <1>2, HelloPair, ConfirmPair, RevokePair, GrantPair, ConnectPair, RoutePair
       DEF PairNext
  <1> QED BY <1>1, <1>2

LEMMA PairStart == PairInit => PairInv
  <1> SUFFICES ASSUME PairInit PROVE PairInv OBVIOUS
  <1>1. DOMAIN Nothing = {} BY DEF Nothing
  <1>2. PairTypeOK
    BY <1>1 DEF PairInit, PairTypeOK, NoCommand, Commands, Systems
  <1>3. ConsentInv /\ AuditVerifies /\ GrantInv /\ PingInv
    BY <1>1 DEF PairInit, ConsentInv, AuditVerifies, GrantInv, PingInv, NoCommand
  <1>4. PendingInv
    <2>1. Pending(peers) = {} BY <1>1 DEF PairInit, Pending
    <2> QED BY <2>1, FS_EmptySet, PairingAssumption DEF PendingInv
  <1> QED BY <1>2, <1>3, <1>4 DEF PairInv

\* The tables, the files and the command stay well formed.
THEOREM PairTypeCorrect == PairSpec => []PairTypeOK
  <1>1. PairInv => PairTypeOK BY DEF PairInv
  <1> QED BY <1>1, PairStart, PairStep, PTL DEF PairSpec

\* Whatever hellos, commands, readdressed hosts, revocations and the clock do
\* in between, a peer is authorized only as the operator last approved it and
\* the audit chain says so; grants agree with the chain; strangers cannot
\* outgrow the table; and a ping is answered by the system its name stands
\* for.
THEOREM TrustNeedsConsent == PairSpec => []TrustIsConsented
  <1>1. PairInv => TrustIsConsented
    <2> SUFFICES ASSUME PairInv PROVE TrustIsConsented OBVIOUS
    <2>1. ASSUME NEW s \in Others, Authorized(s)
          PROVE  /\ s \in DOMAIN consent /\ date < consent[s].until
                 /\ peers[s].scope = consent[s].scope /\ peers[s].kid = consent[s].kid
                 /\ About(s) # {} /\ audit[LastAbout(s)].event = "peer.paired"
                 /\ audit[LastAbout(s)].until = peers[s].until
      <3>1. /\ s \in DOMAIN consent /\ date < consent[s].until
            /\ peers[s].scope = consent[s].scope /\ peers[s].kid = consent[s].kid
            /\ LastWord(s)
        BY <2>1 DEF Authorized, PairInv, ConsentInv
      <3>2. PICK n \in About(s) : /\ \A m \in About(s) : m <= n
                                  /\ audit[n].event = "peer.paired"
                                  /\ audit[n].until = peers[s].until
        BY <3>1 DEF LastWord
      <3>3. About(s) \subseteq Int
        BY DEF About, PairInv, PairTypeOK
      <3>4. LastAbout(s) \in About(s) /\ \A m \in About(s) : m <= LastAbout(s)
        BY <3>2 DEF LastAbout
      <3>5. LastAbout(s) = n
        BY <3>2, <3>3, <3>4
      <3> QED BY <3>1, <3>2, <3>5
    <2>2. \A g \in DOMAIN grants :
             grants[g].live
               <=> /\ \E n \in DOMAIN audit : audit[n].event = "grant.issued" /\ audit[n].about = g
                   /\ ~\E n \in DOMAIN audit : audit[n].event = "grant.revoked" /\ audit[n].about = g
      BY DEF PairInv, GrantInv, Issued, Withdrawn
    <2>3. AuditVerifies /\ Cardinality(Pending(peers)) <= MaxPendingPeers
          /\ (cli.at = "answered" => cli.peer = routes[cli.name])
      BY DEF PairInv, PendingInv, PingInv
    <2> QED BY <2>1, <2>2, <2>3 DEF TrustIsConsented
  <1> QED BY <1>1, PairStart, PairStep, PTL DEF PairSpec

-----------------------------------------------------------------------------
(* Channels: the bytes of a set of sends *)

SizesOf(R) == MapThenSumSet(LAMBDA s : s.size, R)
Loads(R) == [s \in R |-> s.size]

LEMMA SizesAreSum ==
    ASSUME NEW R, IsFiniteSet(R), \A s \in R : s.size \in Nat
    PROVE  \E h \in [SUBSET R -> Nat] : IsSum(h, Loads(R), R) /\ SizesOf(R) = h[R]
<1> DEFINE Body(h) == [s \in SUBSET R |->
                          IF s = {} THEN 0
                          ELSE (CHOOSE x \in s : TRUE).size + h[s \ {CHOOSE x \in s : TRUE}]]
<1>1. PICK g \in [SUBSET R -> Nat] : IsSum(g, Loads(R), R)
  <2>1. Loads(R) \in [R -> Nat]
    BY DEF Loads
  <2>2. QED
    BY <2>1, SumExists
<1>2. \A h : h = Body(h) <=> IsSum(h, Loads(R), R)
  BY ChosenIn DEF IsSum, Summed, Chosen, Loads
<1>3. SizesOf(R) = (CHOOSE h : h = Body(h))[R]
  BY Zenon DEF SizesOf, MapThenSumSet, MapThenFoldSet
<1> HIDE DEF Body
<1>4. PICK h : h = Body(h) /\ SizesOf(R) = h[R]
  BY <1>1, <1>2, <1>3, Zenon
<1>5. h[R] = g[R]
  BY <1>1, <1>2, <1>4, SumUnique
<1>6. QED
  BY <1>1, <1>4, <1>5

\* Taking a send out takes its bytes out.
LEMMA SizesStep ==
    ASSUME NEW R, IsFiniteSet(R), \A s \in R : s.size \in Nat
    PROVE  /\ SizesOf({}) = 0 /\ SizesOf(R) \in Nat
           /\ \A x \in R : SizesOf(R) = SizesOf(R \ {x}) + x.size /\ SizesOf(R \ {x}) \in Nat
<1>1. PICK g \in [SUBSET R -> Nat] : IsSum(g, Loads(R), R)
  BY SizesAreSum
<1>2. ASSUME NEW U \in SUBSET R PROVE SizesOf(U) = g[U]
  <2>1. IsFiniteSet(U)
    BY FS_Subset
  <2>2. PICK h \in [SUBSET U -> Nat] : IsSum(h, Loads(U), U) /\ SizesOf(U) = h[U]
    BY <2>1, SizesAreSum
  <2>3. \A x \in U : Loads(R)[x] = Loads(U)[x]
    BY DEF Loads
  <2>4. g[U] = h[U]
    BY <1>1, <2>2, <2>3, SumUnique
  <2>5. QED
    BY <2>2, <2>4
<1>3. /\ g[{}] = 0
      /\ \A U \in SUBSET R : \A x \in U : g[U] = g[U \ {x}] + Loads(R)[x]
  <2>1. Loads(R) \in [R -> Nat]
    BY DEF Loads
  <2>2. QED
    BY <1>1, <2>1, SumStep
<1>4. \A x \in R : Loads(R)[x] = x.size
  BY DEF Loads
<1>5. R \in SUBSET R /\ {} \in SUBSET R /\ \A x \in R : R \ {x} \in SUBSET R
  OBVIOUS
<1>6. SizesOf({}) = 0 /\ SizesOf(R) = g[R] /\ g[R] \in Nat
  BY <1>2, <1>3, <1>5
<1>7. ASSUME NEW x \in R
      PROVE  SizesOf(R) = SizesOf(R \ {x}) + x.size /\ SizesOf(R \ {x}) \in Nat
  <2>1. SizesOf(R \ {x}) = g[R \ {x}] /\ g[R \ {x}] \in Nat
    BY <1>2, <1>5
  <2>2. g[R] = g[R \ {x}] + x.size
    BY <1>3, <1>4, <1>5
  <2>3. QED
    BY <1>6, <2>1, <2>2
<1>8. QED
  BY <1>6, <1>7

\* Adding a send that was not there adds its bytes.
LEMMA SizesAdd ==
    ASSUME NEW R, IsFiniteSet(R), \A s \in R : s.size \in Nat, NEW x, x \notin R, x.size \in Nat
    PROVE  SizesOf(R \cup {x}) = SizesOf(R) + x.size /\ SizesOf(R) \in Nat
<1>1. IsFiniteSet(R \cup {x}) /\ \A s \in R \cup {x} : s.size \in Nat
  BY FS_AddElement
<1>2. (R \cup {x}) \ {x} = R
  OBVIOUS
<1>3. QED
  BY <1>1, <1>2, SizesStep

\* A frame for each of several sockets adds that many times its size.
LEMMA SizesOfFrame ==
    ASSUME NEW R, IsFiniteSet(R), \A s \in R : s.size \in Nat,
           NEW T, IsFiniteSet(T), NEW z \in Nat, NEW f,
           \A c \in T : f[c] \notin R /\ f[c].size = z /\ f[c].to = c,
           NEW all, \A s : s \in all <=> s \in R \/ \E c \in T : s = f[c]
    PROVE  SizesOf(all) = SizesOf(R) + Cardinality(T) * z
<1> DEFINE W(U) == R \cup {f[c] : c \in U}
           G == {U \in SUBSET T : IsFiniteSet(W(U)) /\ SizesOf(W(U)) = SizesOf(R) + Cardinality(U) * z}
<1>1. SizesOf(R) \in Nat
  BY SizesStep
<1>2. ASSUME NEW U \in SUBSET T, \A V \in SUBSET T : Cardinality(V) < Cardinality(U) => V \in G
      PROVE  U \in G
  <2>1. CASE U = {}
    <3>1. W(U) = R /\ Cardinality(U) = 0
      BY <2>1, FS_EmptySet
    <3>2. 0 * z = 0
      OBVIOUS
    <3> HIDE DEF W
    <3>3. QED
      BY <1>1, <3>1, <3>2
  <2>2. CASE U # {}
    <3>1. PICK x \in U : TRUE
      BY <2>2
    <3> DEFINE V == U \ {x}
    <3>2. V \in G /\ Cardinality(U) \in Nat /\ Cardinality(V) = Cardinality(U) - 1 /\ V \in SUBSET T
      <4> HIDE DEF G
      <4>1. /\ V \in SUBSET T /\ Cardinality(U) \in Nat /\ Cardinality(V) \in Nat
            /\ Cardinality(V) = Cardinality(U) - 1
        BY <3>1, SmallerSubset
      <4>2. Cardinality(V) < Cardinality(U)
        BY <4>1
      <4>3. QED
        BY <1>2, <4>1, <4>2
    <3>3. W(U) = W(V) \cup {f[x]}
      BY <3>1
    <3>4. f[x] \notin W(V)
      <4>1. \A c \in V : f[c].to = c /\ f[x].to = x
        BY <3>1
      <4>2. QED
        BY <3>1, <4>1
    <3>5. IsFiniteSet(W(V)) /\ SizesOf(W(V)) = SizesOf(R) + Cardinality(V) * z
      BY <3>2
    <3>6. (\A s \in W(V) : s.size \in Nat) /\ f[x].size = z
      BY <3>1
    <3> HIDE DEF W, V
    <3>7. SizesOf(W(U)) = SizesOf(W(V)) + z /\ IsFiniteSet(W(U))
      BY <3>3, <3>4, <3>5, <3>6, SizesAdd, FS_AddElement
    <3>8. ASSUME NEW a \in Nat, NEW b \in Int, a = b - 1 PROVE a * z + z = b * z
      BY <3>8
    <3>9. Cardinality(V) * z + z = Cardinality(U) * z /\ Cardinality(V) * z \in Int
      <4>1. Cardinality(V) \in Nat
        BY <3>2, FS_Subset, FS_CardinalityType
      <4>2. QED
        BY <3>2, <3>8, <4>1
    <3>10. SizesOf(W(U)) = SizesOf(R) + Cardinality(U) * z
      BY <1>1, <3>5, <3>7, <3>9
    <3>11. QED
      BY <3>7, <3>10
  <2>3. QED
    BY <2>1, <2>2
<1>3. G = SUBSET T
  <2>1. G \in SUBSET (SUBSET T)
    OBVIOUS
  <2>2. \A U \in SUBSET T :
           (\A V \in SUBSET T : Cardinality(V) < Cardinality(U) => V \in G) => U \in G
    BY <1>2
  <2> HIDE DEF G
  <2>3. QED
    BY <2>1, <2>2, SubsetsBySize
<1>4. T \in G
  BY <1>3
<1>5. W(T) = all
  OBVIOUS
<1>6. QED
  BY <1>4, <1>5

-----------------------------------------------------------------------------
(* Channels: the inductive invariant *)

SendRows == [n : Nat, to : Sockets, size : Nat, at : {"due", "sending", "failed"}]
PushRows == [at : {"idle", "connected", "allowed", "scheduling"}, host : Hosts \cup {"none"}, size : Nat]
CallRows == [at : {"none", "running", "left", "done"}, host : Hosts \cup {"none"}]

ChannelTypeOK ==
    /\ socket \in [Sockets -> {"new", "open", "bound", "ending", "gone"}]
    /\ live \subseteq Sockets /\ IsFiniteSet(live) /\ revoked \subseteq Hosts
    /\ DOMAIN pending \subseteq Sockets /\ pending \in [DOMAIN pending -> Nat]
    /\ sends \subseteq SendRows /\ IsFiniteSet(sends)
    /\ bytes \in Nat /\ pushes \in Nat /\ push \in PushRows /\ eventLoop \in BOOLEAN
    /\ call \in [Calls -> CallRows] /\ active \in [Hosts -> Nat]

\* A push makes at most one send to a socket, and those of the push under way
\* are new.
SendInv ==
    /\ \A s, t \in sends : s.n = t.n /\ s.to = t.to => s = t
    /\ \A s \in sends : s.n <= pushes /\ (push.at \in {"connected", "allowed"} => s.n < pushes)

\* The entry of a socket in the counts: its sends that are out.
OutIn(X, c) == {s \in X : s.to = c}
Counted(c) ==
    IF c \in DOMAIN pending
    THEN /\ pending[c] = Cardinality(OutIn(sends, c)) /\ pending[c] <= MaxPending
         /\ pending[c] = 0 => c \in live
    ELSE OutIn(sends, c) = {} /\ c \notin live
CountInv == \A c \in Sockets : Counted(c)
ByteInv == bytes = SizesOf(sends) /\ bytes <= MaxPendingBytes

Running(h) == {r \in Calls : call[r].host = h /\ call[r].at \in {"running", "left"}}
PoolInv ==
    /\ \A h \in Hosts : IsFiniteSet(Running(h)) /\ active[h] = Cardinality(Running(h))
    /\ \A r \in Calls : call[r].at \in {"running", "left"} => call[r].host \in Hosts

ChannelInv == ChannelTypeOK /\ SendInv /\ CountInv /\ ByteInv /\ PoolInv

\* What a socket has out when a send is taken out, or one is added.
LEMMA OneLess ==
    ASSUME NEW X, IsFiniteSet(X), NEW s \in X, NEW c
    PROVE  /\ Cardinality(OutIn(X, c)) \in Nat /\ Cardinality(OutIn(X \ {s}, c)) \in Nat
           /\ c # s.to => OutIn(X \ {s}, c) = OutIn(X, c)
           /\ c = s.to => Cardinality(OutIn(X \ {s}, c)) = Cardinality(OutIn(X, c)) - 1
<1>1. IsFiniteSet(OutIn(X, c)) /\ IsFiniteSet(OutIn(X \ {s}, c))
  BY FS_Subset DEF OutIn
<1>2. c # s.to => OutIn(X \ {s}, c) = OutIn(X, c)
  BY DEF OutIn
<1>3. ASSUME c = s.to PROVE Cardinality(OutIn(X \ {s}, c)) = Cardinality(OutIn(X, c)) - 1
  <2>1. s \in OutIn(X, c) /\ OutIn(X \ {s}, c) = OutIn(X, c) \ {s}
    BY <1>3 DEF OutIn
  <2>2. QED
    BY <1>1, <2>1, FS_RemoveElement
<1>4. QED
  BY <1>1, <1>2, <1>3, FS_CardinalityType

LEMMA OneMore ==
    ASSUME NEW X, IsFiniteSet(X), NEW s, s \notin X, NEW c
    PROVE  /\ Cardinality(OutIn(X, c)) \in Nat
           /\ c # s.to => OutIn(X \cup {s}, c) = OutIn(X, c)
           /\ c = s.to => Cardinality(OutIn(X \cup {s}, c)) = Cardinality(OutIn(X, c)) + 1
<1>1. IsFiniteSet(OutIn(X, c))
  BY FS_Subset DEF OutIn
<1>2. c # s.to => OutIn(X \cup {s}, c) = OutIn(X, c)
  BY DEF OutIn
<1>3. ASSUME c = s.to PROVE Cardinality(OutIn(X \cup {s}, c)) = Cardinality(OutIn(X, c)) + 1
  <2>1. s \notin OutIn(X, c) /\ OutIn(X \cup {s}, c) = OutIn(X, c) \cup {s}
    BY <1>3 DEF OutIn
  <2>2. QED
    BY <1>1, <2>1, FS_AddElement
<1>4. QED
  BY <1>1, <1>2, <1>3, FS_CardinalityType

\* Sockets are unregistered: the entry of one with sends out stays
\* (ConnectionRegistry.unregister, disconnect).
LEMMA UnregisterKeeps ==
    ASSUME ChannelTypeOK, CountInv, NEW S, UnregisterAll(S), sends' = sends
    PROVE  /\ live' \subseteq Sockets /\ IsFiniteSet(live')
           /\ DOMAIN pending' \subseteq Sockets /\ pending' \in [DOMAIN pending' -> Nat]
           /\ CountInv'
<1> DEFINE gone == {c \in (live \cap S) \cap DOMAIN pending : pending[c] = 0}
<1>1. pending' = [c \in DOMAIN pending \ gone |-> pending[c]] /\ live' = live \ S
  BY DEF UnregisterAll, AfterDrop, Without
<1>2. DOMAIN pending' = DOMAIN pending \ gone /\ \A c \in DOMAIN pending' : pending'[c] = pending[c]
  BY <1>1
<1>3. DOMAIN pending \subseteq Sockets /\ live \subseteq Sockets
      /\ \A c \in DOMAIN pending : pending[c] \in Nat
  BY DEF ChannelTypeOK
<1>4. live' \subseteq Sockets /\ DOMAIN pending' \subseteq Sockets /\ pending' \in [DOMAIN pending' -> Nat]
  BY <1>1, <1>2, <1>3
<1>5. ASSUME NEW c \in Sockets PROVE Counted(c)'
  <2>1. Counted(c) /\ IsFiniteSet(OutIn(sends, c)) /\ OutIn(sends, c)' = OutIn(sends, c)
    BY FS_Subset DEF CountInv, ChannelTypeOK, OutIn
  <2>2. CASE c \in gone
    <3>1. Cardinality(OutIn(sends, c)) = 0 /\ c \notin live' /\ c \notin DOMAIN pending'
      BY <1>1, <1>2, <2>1, <2>2 DEF Counted
    <3>2. OutIn(sends, c) = {}
      BY <2>1, <3>1, FS_EmptySet
    <3>3. QED
      BY <2>1, <3>1, <3>2 DEF Counted
  <2>3. CASE c \in DOMAIN pending \ gone
    <3>1. c \in DOMAIN pending' /\ pending'[c] = pending[c]
      BY <1>2, <2>3
    <3>2. pending[c] = 0 => c \in live'
      BY <1>1, <2>1, <2>3 DEF Counted
    <3>3. QED
      BY <2>1, <2>3, <3>1, <3>2 DEF Counted
  <2>4. CASE c \notin DOMAIN pending
    BY <1>1, <1>2, <2>1, <2>4 DEF Counted
  <2>5. QED
    BY <2>2, <2>3, <2>4
<1>6. IsFiniteSet(live')
  BY <1>1, FS_Subset DEF ChannelTypeOK
<1>7. QED
  BY <1>4, <1>5, <1>6 DEF CountInv

\* A send is counted where it goes.
LEMMA SendCounted ==
    ASSUME ChannelTypeOK, CountInv, NEW s \in sends
    PROVE  /\ s.to \in Sockets /\ s.to \in DOMAIN pending
           /\ pending[s.to] \in Nat /\ pending[s.to] >= 1
           /\ pending[s.to] = Cardinality(OutIn(sends, s.to))
<1>1. s.to \in Sockets /\ s \in OutIn(sends, s.to) /\ IsFiniteSet(OutIn(sends, s.to))
  BY FS_Subset DEF ChannelTypeOK, SendRows, OutIn
<1>2. s.to \in DOMAIN pending /\ pending[s.to] = Cardinality(OutIn(sends, s.to))
  BY <1>1 DEF CountInv, Counted
<1>3. Cardinality(OutIn(sends, s.to)) # 0 /\ Cardinality(OutIn(sends, s.to)) \in Nat
  BY <1>1, FS_EmptySet, FS_CardinalityType
<1>4. QED
  BY <1>1, <1>2, <1>3

\* A send is through: its count and its bytes go, and the entry with the last
\* one of a socket that is no longer registered (_release).
LEMMA ReleaseKeeps ==
    ASSUME ChannelAssumption, ChannelTypeOK, SendInv, CountInv, ByteInv, NEW s \in sends,
           NEW left, live' = left, left = live \/ left = live \ {s.to},
           ReleaseSend(s, left, pending), push' = push \/ push'.at \in {"idle", "scheduling"}, pushes' = pushes
    PROVE  /\ live' \subseteq Sockets /\ IsFiniteSet(live')
           /\ DOMAIN pending' \subseteq Sockets /\ pending' \in [DOMAIN pending' -> Nat]
           /\ sends' \subseteq SendRows /\ IsFiniteSet(sends') /\ bytes' \in Nat
           /\ SendInv' /\ CountInv' /\ ByteInv'
<1> DEFINE fewer == [pending EXCEPT ![s.to] = @ - 1]
<1>1. /\ pending' = (IF fewer[s.to] = 0 /\ s.to \notin left THEN Without(fewer, {s.to}) ELSE fewer)
      /\ bytes' = bytes - s.size /\ sends' = sends \ {s}
  BY DEF ReleaseSend
<1>2. /\ s.to \in Sockets /\ s.to \in DOMAIN pending
      /\ pending[s.to] \in Nat /\ pending[s.to] >= 1
      /\ pending[s.to] = Cardinality(OutIn(sends, s.to))
  BY SendCounted
<1>3. /\ DOMAIN fewer = DOMAIN pending /\ fewer[s.to] = pending[s.to] - 1
      /\ \A c \in DOMAIN pending : c # s.to => fewer[c] = pending[c]
  BY <1>2
<1> HIDE DEF fewer
<1>4. DOMAIN pending \subseteq Sockets /\ live \subseteq Sockets
      /\ \A c \in DOMAIN pending : pending[c] \in Nat
  BY DEF ChannelTypeOK
<1>5. /\ DOMAIN pending' \subseteq DOMAIN pending /\ DOMAIN pending \ {s.to} \subseteq DOMAIN pending'
      /\ \A c \in DOMAIN pending' : pending'[c] = fewer[c]
      /\ s.to \notin DOMAIN pending' => fewer[s.to] = 0 /\ s.to \notin left
      /\ s.to \in DOMAIN pending' => fewer[s.to] # 0 \/ s.to \in left
      /\ pending' = [c \in DOMAIN pending' |-> pending'[c]]
  <2>1. CASE fewer[s.to] = 0 /\ s.to \notin left
    <3>1. pending' = [c \in DOMAIN fewer \ {s.to} |-> fewer[c]]
      BY <1>1, <2>1 DEF Without
    <3>2. QED
      BY <1>3, <2>1, <3>1
  <2>2. CASE ~(fewer[s.to] = 0 /\ s.to \notin left)
    <3>1. pending' = fewer
      BY <1>1, <2>2
    <3>2. fewer = [c \in DOMAIN fewer |-> fewer[c]]
      BY DEF fewer, ChannelTypeOK
    <3>3. QED
      BY <1>2, <1>3, <2>2, <3>1, <3>2
  <2>3. QED
    BY <2>1, <2>2
<1>6. \A c \in DOMAIN pending' : pending'[c] \in Nat
  BY <1>2, <1>3, <1>4, <1>5
<1>7. live' \subseteq Sockets /\ DOMAIN pending' \subseteq Sockets /\ pending' \in [DOMAIN pending' -> Nat]
  BY <1>4, <1>5, <1>6
<1>8. IsFiniteSet(sends) /\ sends \subseteq SendRows /\ \A t \in sends : t.size \in Nat
  BY DEF ChannelTypeOK, SendRows
<1>9. sends' \subseteq SendRows /\ IsFiniteSet(sends')
  BY <1>1, <1>8, FS_RemoveElement
<1>10. SendInv'
  BY <1>1 DEF SendInv
<1>11. ByteInv' /\ bytes' \in Nat
  <2>1. SizesOf(sends) = SizesOf(sends \ {s}) + s.size /\ SizesOf(sends \ {s}) \in Nat /\ s.size \in Nat
    BY <1>8, SizesStep
  <2>2. bytes = SizesOf(sends) /\ bytes <= MaxPendingBytes /\ bytes \in Nat /\ MaxPendingBytes \in Nat
    BY ChannelAssumption DEF ByteInv, ChannelTypeOK, ChannelAssumption
  <2>3. bytes' = SizesOf(sends \ {s}) /\ bytes' <= MaxPendingBytes
    BY <1>1, <2>1, <2>2
  <2>4. QED
    BY <1>1, <2>1, <2>3 DEF ByteInv
<1>12. ASSUME NEW c \in Sockets PROVE Counted(c)'
  <2>1. Counted(c) /\ OutIn(sends, c)' = OutIn(sends \ {s}, c)
    BY <1>1 DEF CountInv, OutIn
  <2>2. CASE c = s.to
    <3>1. Cardinality(OutIn(sends \ {s}, c)) = pending[c] - 1 /\ IsFiniteSet(OutIn(sends \ {s}, c))
      <4>1. IsFiniteSet(OutIn(sends \ {s}, c))
        BY <1>1, <1>9, FS_Subset DEF OutIn
      <4>2. QED
        BY <1>2, <1>8, <2>2, <4>1, OneLess
    <3>2. CASE c \in DOMAIN pending'
      <4>1. pending'[c] = pending[c] - 1 /\ pending[c] <= MaxPending /\ MaxPending \in Nat
        BY <1>2, <1>3, <1>5, <2>1, <2>2, <3>2, ChannelAssumption DEF Counted, ChannelAssumption
      <4>2. pending'[c] <= MaxPending /\ (pending'[c] = 0 => c \in live')
        BY <1>2, <1>3, <1>5, <2>2, <3>2, <4>1
      <4>3. QED
        BY <2>1, <3>1, <3>2, <4>1, <4>2 DEF Counted
    <3>3. CASE c \notin DOMAIN pending'
      <4>1. Cardinality(OutIn(sends \ {s}, c)) = 0 /\ c \notin live'
        BY <1>2, <1>3, <1>5, <2>2, <3>1, <3>3
      <4>2. OutIn(sends \ {s}, c) = {}
        BY <3>1, <4>1, FS_EmptySet
      <4>3. QED
        BY <2>1, <3>3, <4>1, <4>2 DEF Counted
    <3>4. QED
      BY <3>2, <3>3
  <2>3. CASE c # s.to
    <3>1. OutIn(sends \ {s}, c) = OutIn(sends, c)
      BY <1>8, <2>3, OneLess
    <3>2. (c \in live <=> c \in live') /\ (c \in DOMAIN pending <=> c \in DOMAIN pending')
      BY <1>5, <2>3
    <3>3. c \in DOMAIN pending => pending'[c] = pending[c]
      BY <1>3, <1>5, <2>3, <3>2
    <3>4. QED
      BY <2>1, <3>1, <3>2, <3>3 DEF Counted
  <2>4. QED
    BY <2>2, <2>3
<1>13. IsFiniteSet(live')
  <2>1. IsFiniteSet(live) /\ live' \subseteq live
    BY DEF ChannelTypeOK
  <2>2. QED
    BY <2>1, FS_Subset
<1>14. QED
  BY <1>7, <1>9, <1>10, <1>11, <1>12, <1>13 DEF CountInv

\* A send goes on: the counts stay what they were.
LEMMA RestateKeeps ==
    ASSUME ChannelTypeOK, SendInv, NEW s \in sends, NEW a \in {"due", "sending", "failed"},
           sends' = (sends \ {s}) \cup {[s EXCEPT !.at = a]}
    PROVE  /\ sends' \subseteq SendRows /\ IsFiniteSet(sends')
           /\ \A c : Cardinality(OutIn(sends', c)) = Cardinality(OutIn(sends, c))
                     /\ (OutIn(sends, c) = {} <=> OutIn(sends', c) = {})
           /\ SizesOf(sends') = SizesOf(sends)
           /\ \A x, y \in sends' : x.n = y.n /\ x.to = y.to => x = y
           /\ \A x \in sends' : \E y \in sends : x.n = y.n
<1>1. s \in SendRows /\ IsFiniteSet(sends) /\ sends \subseteq SendRows /\ \A t \in sends : t.size \in Nat
  BY DEF ChannelTypeOK, SendRows
<1>2. PICK t \in SendRows : /\ t = [s EXCEPT !.at = a]
                            /\ t.n = s.n /\ t.to = s.to /\ t.size = s.size
  <2>1. [s EXCEPT !.at = a] \in SendRows
    BY <1>1 DEF SendRows
  <2>2. [s EXCEPT !.at = a].n = s.n /\ [s EXCEPT !.at = a].to = s.to /\ [s EXCEPT !.at = a].size = s.size
    BY <1>1 DEF SendRows
  <2>3. QED
    BY <2>1, <2>2
<1>3. t \notin sends \ {s}
  BY <1>2 DEF SendInv
<1>4. IsFiniteSet(sends \ {s}) /\ sends' = (sends \ {s}) \cup {t} /\ t.size \in Nat
  BY <1>1, <1>2, FS_RemoveElement
<1>5. sends' \subseteq SendRows /\ IsFiniteSet(sends')
  BY <1>1, <1>4, FS_AddElement
<1>6. ASSUME NEW c
      PROVE  Cardinality(OutIn(sends', c)) = Cardinality(OutIn(sends, c))
             /\ (OutIn(sends, c) = {} <=> OutIn(sends', c) = {})
  <2>1. CASE c = s.to
    <3>1. /\ Cardinality(OutIn(sends, c)) \in Nat
          /\ Cardinality(OutIn(sends \ {s}, c)) = Cardinality(OutIn(sends, c)) - 1
      BY <1>1, <2>1, OneLess
    <3>2. Cardinality(OutIn((sends \ {s}) \cup {t}, c)) = Cardinality(OutIn(sends \ {s}, c)) + 1
      <4>1. c = t.to /\ IsFiniteSet(sends \ {s})
        BY <1>2, <1>4, <2>1
      <4>2. QED
        BY <1>3, <4>1, OneMore
    <3>3. s \in OutIn(sends, c) /\ t \in OutIn(sends', c)
      BY <1>2, <1>4, <2>1 DEF OutIn
    <3>4. Cardinality(OutIn(sends', c)) = Cardinality(OutIn(sends \ {s}, c)) + 1
      BY <1>4, <3>2
    <3>5. Cardinality(OutIn(sends', c)) = Cardinality(OutIn(sends, c))
      BY <3>1, <3>4
    <3>6. OutIn(sends, c) # {} /\ OutIn(sends', c) # {}
      BY <3>3
    <3>7. QED
      BY <3>5, <3>6
  <2>2. CASE c # s.to
    <3>1. OutIn(sends \ {s}, c) = OutIn(sends, c)
      BY <1>1, <2>2, OneLess
    <3>2. OutIn((sends \ {s}) \cup {t}, c) = OutIn(sends \ {s}, c)
      <4>1. c # t.to /\ IsFiniteSet(sends \ {s})
        BY <1>2, <1>4, <2>2
      <4>2. QED
        BY <1>3, <4>1, OneMore
    <3>3. OutIn(sends', c) = OutIn(sends, c)
      BY <1>4, <3>1, <3>2
    <3>4. QED
      BY <3>3
  <2>3. QED
    BY <2>1, <2>2
<1>7. SizesOf(sends') = SizesOf(sends)
  <2>1. SizesOf(sends) = SizesOf(sends \ {s}) + s.size
    BY <1>1, SizesStep
  <2>2. SizesOf(sends') = SizesOf(sends \ {s}) + t.size
    BY <1>1, <1>3, <1>4, SizesAdd
  <2>3. QED
    BY <1>2, <2>1, <2>2
<1>8. \A x, y \in sends' : x.n = y.n /\ x.to = y.to => x = y
  <2>1. ASSUME NEW x \in sends', NEW y \in sends', x.n = y.n, x.to = y.to PROVE x = y
    <3>1. (x \in sends \ {s} \/ x = t) /\ (y \in sends \ {s} \/ y = t)
      BY <1>4
    <3>2. \A z \in sends : z.n = s.n /\ z.to = s.to => z = s
      BY DEF SendInv
    <3>3. QED
      BY <1>2, <2>1, <3>1, <3>2 DEF SendInv
  <2>2. QED
    BY <2>1
<1>9. \A x \in sends' : \E y \in sends : x.n = y.n
  BY <1>2, <1>4
<1>10. QED
  BY <1>5, <1>6, <1>7, <1>8, <1>9

\* A push puts its frame on sockets with room, within the byte budget.
LEMMA ReserveKeeps ==
    ASSUME ChannelAssumption, ChannelTypeOK, SendInv, CountInv, ByteInv, PushReserves
    PROVE  /\ DOMAIN pending' \subseteq Sockets /\ pending' \in [DOMAIN pending' -> Nat]
           /\ sends' \subseteq SendRows /\ IsFiniteSet(sends') /\ bytes' \in Nat /\ push' \in PushRows
           /\ SendInv' /\ CountInv' /\ ByteInv'
<1>1. /\ push \in PushRows /\ push.at = "allowed" /\ NoPush \in PushRows /\ NoPush.at = "idle"
      /\ [push EXCEPT !.at = "scheduling"] \in PushRows /\ [push EXCEPT !.at = "scheduling"].at = "scheduling"
      /\ UNCHANGED <<live, pushes>>
  BY DEF ChannelTypeOK, PushReserves, NoPush, PushRows
<1>2. CASE ~eventLoop
  <2>1. push' = NoPush /\ UNCHANGED <<pending, bytes, sends>>
    BY <1>2 DEF PushReserves
  <2>2. SendInv' /\ CountInv' /\ ByteInv'
    BY <1>1, <2>1 DEF SendInv, CountInv, Counted, OutIn, ByteInv
  <2>3. QED
    BY <1>1, <2>1, <2>2 DEF ChannelTypeOK
<1>3. CASE eventLoop
  <2> DEFINE frame(c) == [n |-> pushes, to |-> c, size |-> push.size, at |-> "due"]
  <2>1. PICK to \in SUBSET {c \in OfHost(push.host) : HasRoom(c)} :
            /\ Fits(Cardinality(to))
            /\ pending' = [c \in DOMAIN pending |-> pending[c] + (IF c \in to THEN 1 ELSE 0)]
            /\ bytes' = bytes + Cardinality(to) * push.size
            /\ sends' = sends \cup {frame(c) : c \in to}
            /\ push' = IF to = {} THEN NoPush ELSE [push EXCEPT !.at = "scheduling"]
    BY <1>3 DEF PushReserves
  <2>2. /\ to \subseteq live /\ IsFiniteSet(to) /\ to \subseteq Sockets
        /\ \A c \in to : pending[c] < MaxPending
    <3>1. to \subseteq live /\ \A c \in to : pending[c] < MaxPending
      BY DEF OfHost, HasRoom
    <3>2. QED
      BY <3>1, FS_Subset DEF ChannelTypeOK
  <2>3. /\ IsFiniteSet(sends) /\ sends \subseteq SendRows /\ \A s \in sends : s.size \in Nat
        /\ push.size \in Nat /\ pushes \in Nat /\ bytes \in Nat
        /\ DOMAIN pending \subseteq Sockets /\ \A c \in DOMAIN pending : pending[c] \in Nat
    BY DEF ChannelTypeOK, SendRows, PushRows
  <2>4. \A c : frame(c).n = pushes /\ frame(c).to = c /\ frame(c).size = push.size
    OBVIOUS
  <2>5. \A s \in sends : s.n < pushes /\ s.n \in Nat
    BY <1>1, <2>3 DEF SendInv, SendRows
  <2>6. \A c : frame(c) \notin sends
    BY <2>3, <2>4, <2>5
  <2>7. \A c \in to : frame(c) \in SendRows
    BY <2>2, <2>3 DEF SendRows
  <2>8. SizesOf(sends') = SizesOf(sends) + Cardinality(to) * push.size /\ IsFiniteSet(sends')
    <3>1. PICK f : /\ \A c \in to : f[c] = frame(c)
                   /\ \A c \in to : f[c] \notin sends /\ f[c].size = push.size /\ f[c].to = c
      <4>1. \A c \in to : [d \in to |-> frame(d)][c] = frame(c)
        OBVIOUS
      <4>2. QED
        BY <2>4, <2>6, <4>1
    <3> HIDE DEF frame
    <3>2. sends' = sends \cup {f[c] : c \in to}
      BY <2>1, <3>1
    <3>3. \A s : s \in sends' <=> s \in sends \/ \E c \in to : s = f[c]
      BY <3>2
    <3>4. PICK z \in Nat : z = push.size
      BY <2>3
    <3>5. PICK k : k = to
      OBVIOUS
    <3>6. /\ IsFiniteSet(sends) /\ (\A s \in sends : s.size \in Nat) /\ IsFiniteSet(k)
          /\ \A c \in k : f[c] \notin sends /\ f[c].size = z /\ f[c].to = c
          /\ \A s : s \in sends' <=> s \in sends \/ \E c \in k : s = f[c]
      BY <2>2, <2>3, <3>1, <3>3, <3>4, <3>5
    <3>7. SizesOf(sends') = SizesOf(sends) + Cardinality(k) * z
      BY <3>6, SizesOfFrame
    <3>8. IsFiniteSet(sends')
      <4> DEFINE W == {f[c] : c \in k}
                 g == [c \in k |-> f[c]]
      <4>1. g \in Surjection(k, W)
        BY DEF Surjection
      <4>2. IsFiniteSet(W)
        BY <3>6, <4>1, FS_Surjection DEF ExistsSurjection
      <4>3. sends' = sends \cup W
        BY <3>6
      <4>4. QED
        BY <3>6, <4>2, <4>3, FS_Union
    <3>9. QED
      BY <3>4, <3>5, <3>7, <3>8
  <2> HIDE DEF frame
  <2>9. sends' \subseteq SendRows
    BY <2>1, <2>3, <2>7
  <2>10. SendInv'
    <3>1. push'.at \notin {"connected", "allowed"}
      BY <1>1, <2>1
    <3>2. ASSUME NEW s \in sends', NEW t \in sends', s.n = t.n, s.to = t.to PROVE s = t
      <4>1. s \in sends \/ s = frame(s.to)
        BY <2>1, <2>4
      <4>2. t \in sends \/ t = frame(t.to)
        BY <2>1, <2>4
      <4>3. QED
        BY <2>3, <2>4, <2>5, <3>2, <4>1, <4>2 DEF SendInv
    <3>3. \A s \in sends' : s.n <= pushes
      BY <2>1, <2>3, <2>4, <2>5
    <3>4. QED
      BY <1>1, <3>1, <3>2, <3>3 DEF SendInv
  <2>11. ByteInv' /\ bytes' \in Nat
    <3>1. Cardinality(to) \in Nat
      BY <2>2, FS_CardinalityType
    <3>2. PICK z \in Nat : z = Cardinality(to) * push.size
      <4>1. ASSUME NEW a \in Nat, NEW b \in Nat PROVE a * b \in Nat
        OBVIOUS
      <4>2. QED
        BY <2>3, <3>1, <4>1
    <3>3. bytes' = bytes + z /\ bytes + z <= MaxPendingBytes /\ SizesOf(sends') = SizesOf(sends) + z
      BY <2>1, <2>8, <3>2 DEF Fits
    <3>4. QED
      BY <2>3, <3>3 DEF ByteInv
  <2>12. /\ DOMAIN pending' = DOMAIN pending
         /\ \A c \in DOMAIN pending : /\ c \in to => pending'[c] = pending[c] + 1
                                      /\ c \notin to => pending'[c] = pending[c]
    BY <2>1, <2>3
  <2>13. pending' \in [DOMAIN pending' -> Nat]
    <3>1. \A c \in DOMAIN pending : pending'[c] \in Nat
      BY <2>3, <2>12
    <3>2. pending' = [c \in DOMAIN pending' |-> pending'[c]]
      BY <2>1
    <3>3. QED
      BY <2>12, <3>1, <3>2
  <2>14. ASSUME NEW c \in Sockets PROVE Counted(c)'
    <3>1. Counted(c)
      BY DEF CountInv
    <3>2. CASE c \in to
      <4>1. OutIn(sends, c)' = OutIn(sends \cup {frame(c)}, c)
        BY <2>1, <2>4, <3>2 DEF OutIn
      <4>2. Cardinality(OutIn(sends \cup {frame(c)}, c)) = Cardinality(OutIn(sends, c)) + 1
        BY <2>3, <2>4, <2>6, OneMore
      <4>3. c \in live /\ c \in DOMAIN pending
        BY <2>2, <3>1, <3>2 DEF Counted
      <4>4. pending'[c] = pending[c] + 1 /\ pending[c] < MaxPending /\ pending[c] \in Nat /\ MaxPending \in Nat
        BY <2>2, <2>3, <2>12, <3>2, <4>3, ChannelAssumption DEF ChannelAssumption
      <4>5. /\ pending'[c] = Cardinality(OutIn(sends, c)') /\ pending'[c] <= MaxPending
            /\ c \in DOMAIN pending' /\ c \in live'
        BY <1>1, <2>12, <3>1, <4>1, <4>2, <4>3, <4>4 DEF Counted
      <4>6. QED
        BY <4>5 DEF Counted
    <3>3. CASE c \notin to
      <4>1. OutIn(sends, c)' = OutIn(sends, c)
        BY <2>1, <2>4, <3>3 DEF OutIn
      <4>2. QED
        BY <1>1, <2>12, <3>1, <3>3, <4>1 DEF Counted
    <3>4. QED
      BY <3>2, <3>3
  <2>15. push' \in PushRows
    BY <1>1, <2>1
  <2>16. QED
    BY <2>3, <2>8, <2>9, <2>10, <2>11, <2>12, <2>13, <2>14, <2>15 DEF CountInv
<1>4. QED
  BY <1>2, <1>3

\* A socket is registered: it had nothing out, and has no entry yet.
LEMMA BindKeeps ==
    ASSUME ChannelAssumption, ChannelTypeOK, CountInv, NEW c \in Sockets, Bind(c)
    PROVE  /\ live' \subseteq Sockets /\ IsFiniteSet(live')
           /\ DOMAIN pending' \subseteq Sockets /\ pending' \in [DOMAIN pending' -> Nat]
           /\ CountInv'
<1>1. /\ live \subseteq Sockets /\ IsFiniteSet(live) /\ DOMAIN pending \subseteq Sockets
      /\ \A x \in DOMAIN pending : pending[x] \in Nat
      /\ sends' = sends
  BY DEF ChannelTypeOK, Bind
<1>2. CASE ~CanRegister(c)
  <2>1. UNCHANGED <<live, pending, sends>>
    BY <1>2 DEF Bind
  <2>2. QED
    BY <1>1, <2>1 DEF ChannelTypeOK, CountInv, Counted, OutIn
<1>3. CASE CanRegister(c)
  <2>1. /\ live' = live \cup {c} /\ c \notin DOMAIN pending
        /\ pending' = [x \in DOMAIN pending \cup {c} |-> IF x = c THEN 0 ELSE pending[x]]
    BY <1>3 DEF Bind, CanRegister
  <2>2. /\ DOMAIN pending' = DOMAIN pending \cup {c} /\ pending'[c] = 0
        /\ \A x \in DOMAIN pending : pending'[x] = pending[x]
    BY <2>1
  <2>3. live' \subseteq Sockets /\ IsFiniteSet(live')
    BY <1>1, <2>1, FS_AddElement
  <2>4. DOMAIN pending' \subseteq Sockets /\ pending' \in [DOMAIN pending' -> Nat]
    BY <1>1, <2>1, <2>2
  <2>5. ASSUME NEW x \in Sockets PROVE Counted(x)'
    <3>1. Counted(x) /\ OutIn(sends, x)' = OutIn(sends, x)
      BY <1>1 DEF CountInv, OutIn
    <3>2. CASE x = c
      <4>1. OutIn(sends, x) = {} /\ Cardinality(OutIn(sends, x)) = 0 /\ MaxPending \in Nat
        BY <2>1, <3>1, <3>2, FS_EmptySet, ChannelAssumption DEF Counted, ChannelAssumption
      <4>2. QED
        BY <2>1, <2>2, <3>1, <3>2, <4>1 DEF Counted
    <3>3. CASE x # c
      BY <2>1, <2>2, <3>1, <3>3 DEF Counted
    <3>4. QED
      BY <3>2, <3>3
  <2>6. QED
    BY <2>3, <2>4, <2>5 DEF CountInv
<1>4. QED
  BY <1>2, <1>3

\* A handler holds its place until it is through, whoever waits for it
\* (IngressDispatcher.run).
LEMMA PoolKeeps ==
    ASSUME ChannelTypeOK, PoolInv, NEW r \in Calls,
           LeaveCall(r) \/ Execute(r) \/ \E h \in Hosts : Run(r, h)
    PROVE  call' \in [Calls -> CallRows] /\ active' \in [Hosts -> Nat] /\ PoolInv'
<1>1. /\ call \in [Calls -> CallRows] /\ active \in [Hosts -> Nat]
      /\ \A q \in Calls : call[q] \in CallRows
      /\ \A h \in Hosts : active[h] \in Nat /\ IsFiniteSet(Running(h)) /\ active[h] = Cardinality(Running(h))
      /\ \A q \in Calls : call[q].at \in {"running", "left"} => call[q].host \in Hosts
  BY DEF ChannelTypeOK, PoolInv
<1>2. CASE LeaveCall(r)
  <2>1. /\ call[r].at = "running" /\ active' = active
        /\ call' = [call EXCEPT ![r] = [call[r] EXCEPT !.at = "left"]]
    BY <1>2 DEF LeaveCall
  <2>2. PICK row \in CallRows : /\ row = [call[r] EXCEPT !.at = "left"]
                                /\ row.at = "left" /\ row.host = call[r].host
    <3>1. call[r] \in CallRows
      BY <1>1
    <3>2. /\ [call[r] EXCEPT !.at = "left"] \in CallRows
          /\ [call[r] EXCEPT !.at = "left"].at = "left"
          /\ [call[r] EXCEPT !.at = "left"].host = call[r].host
      BY <3>1 DEF CallRows
    <3>3. QED
      BY <3>2
  <2>3. /\ call' \in [Calls -> CallRows] /\ call'[r] = row
        /\ \A q \in Calls : q # r => call'[q] = call[q]
    BY <1>1, <2>1, <2>2
  <2>4. ASSUME NEW h \in Hosts PROVE Running(h)' = Running(h)
    BY <1>1, <2>1, <2>2, <2>3 DEF Running
  <2>5. \A q \in Calls : call'[q].at \in {"running", "left"} => call'[q].host \in Hosts
    BY <1>1, <2>1, <2>2, <2>3
  <2>6. QED
    BY <1>1, <2>1, <2>3, <2>4, <2>5 DEF PoolInv
<1>3. CASE Execute(r)
  <2>0. PICK k \in Hosts : k = call[r].host
    BY <1>1, <1>3 DEF Execute
  <2>1. /\ call[r].at \in {"running", "left"} /\ k = call[r].host
        /\ call' = [call EXCEPT ![r] = [call[r] EXCEPT !.at = "done"]]
        /\ active' = [active EXCEPT ![k] = active[k] - 1]
    BY <1>1, <1>3, <2>0 DEF Execute
  <2>2. PICK row \in CallRows : row = [call[r] EXCEPT !.at = "done"] /\ row.at = "done"
    <3>1. call[r] \in CallRows
      BY <1>1
    <3>2. /\ [call[r] EXCEPT !.at = "done"] \in CallRows
          /\ [call[r] EXCEPT !.at = "done"].at = "done"
      BY <3>1 DEF CallRows
    <3>3. QED
      BY <3>2
  <2>3. /\ call' \in [Calls -> CallRows] /\ call'[r] = row
        /\ \A q \in Calls : q # r => call'[q] = call[q]
    BY <1>1, <2>1, <2>2
  <2>4. r \in Running(k) /\ Running(k)' = Running(k) \ {r}
    BY <1>1, <2>1, <2>2, <2>3 DEF Running
  <2>5. \A h \in Hosts : h # k => Running(h)' = Running(h)
    BY <1>1, <2>1, <2>2, <2>3 DEF Running
  <2>6. /\ IsFiniteSet(Running(k)') /\ Cardinality(Running(k)') = Cardinality(Running(k)) - 1
        /\ Cardinality(Running(k)') \in Nat
    <3>1. IsFiniteSet(Running(k))
      BY <1>1, <2>1
    <3>2. QED
      BY <2>4, <3>1, FS_RemoveElement, FS_CardinalityType
  <2>7. active' \in [Hosts -> Nat] /\ active'[k] = Cardinality(Running(k)')
        /\ \A h \in Hosts : h # k => active'[h] = active[h]
    BY <1>1, <2>1, <2>6
  <2>8. \A q \in Calls : call'[q].at \in {"running", "left"} => call'[q].host \in Hosts
    BY <1>1, <2>2, <2>3
  <2>9. ASSUME NEW h \in Hosts
        PROVE  IsFiniteSet(Running(h)') /\ active'[h] = Cardinality(Running(h)')
    <3>1. CASE h = k
      <4>1. IsFiniteSet(Running(k)') /\ active'[k] = Cardinality(Running(k)')
        BY <2>6, <2>7
      <4>2. QED
        BY <3>1, <4>1, Zenon
    <3>2. CASE h # k
      BY <1>1, <2>5, <2>7, <3>2
    <3>3. QED
      BY <3>1, <3>2
  <2>10. QED
    BY <2>3, <2>7, <2>8, <2>9 DEF PoolInv
<1>4. ASSUME NEW k \in Hosts, Run(r, k)
      PROVE  call' \in [Calls -> CallRows] /\ active' \in [Hosts -> Nat] /\ PoolInv'
  <2> DEFINE row == [at |-> "running", host |-> k]
  <2>1. /\ call[r].at = "none" /\ call' = [call EXCEPT ![r] = row]
        /\ active' = [active EXCEPT ![k] = active[k] + 1]
    BY <1>4 DEF Run
  <2>2. row \in CallRows /\ row.at = "running" /\ row.host = k
    BY DEF CallRows
  <2> HIDE DEF row
  <2>3. /\ call' \in [Calls -> CallRows] /\ call'[r] = row
        /\ \A q \in Calls : q # r => call'[q] = call[q]
    BY <1>1, <2>1, <2>2
  <2>4. r \notin Running(k) /\ Running(k)' = Running(k) \cup {r}
    BY <1>1, <2>1, <2>2, <2>3 DEF Running
  <2>5. \A h \in Hosts : h # k => Running(h)' = Running(h)
    BY <1>1, <2>1, <2>2, <2>3 DEF Running
  <2>6. /\ IsFiniteSet(Running(k)') /\ Cardinality(Running(k)') = Cardinality(Running(k)) + 1
        /\ Cardinality(Running(k)) \in Nat
    <3>1. IsFiniteSet(Running(k))
      BY <1>1
    <3>2. QED
      BY <2>4, <3>1, FS_AddElement, FS_CardinalityType
  <2>7. active' \in [Hosts -> Nat] /\ active'[k] = Cardinality(Running(k)')
        /\ \A h \in Hosts : h # k => active'[h] = active[h]
    BY <1>1, <2>1, <2>6
  <2>8. \A q \in Calls : call'[q].at \in {"running", "left"} => call'[q].host \in Hosts
    BY <1>1, <2>2, <2>3
  <2>9. ASSUME NEW h \in Hosts
        PROVE  IsFiniteSet(Running(h)') /\ active'[h] = Cardinality(Running(h)')
    <3>1. CASE h = k
      <4>1. IsFiniteSet(Running(k)') /\ active'[k] = Cardinality(Running(k)')
        BY <2>6, <2>7
      <4>2. QED
        BY <3>1, <4>1, Zenon
    <3>2. CASE h # k
      BY <1>1, <2>5, <2>7, <3>2
    <3>3. QED
      BY <3>1, <3>2
  <2>10. QED
    BY <2>3, <2>7, <2>8, <2>9 DEF PoolInv
<1>5. QED
  BY <1>2, <1>3, <1>4

LEMMA ChannelInitially == ASSUME ChannelAssumption, ChannelInit PROVE ChannelInv
<1>1. /\ socket = [c \in Sockets |-> "new"] /\ live = {} /\ pending = [c \in {} |-> 0] /\ bytes = 0
      /\ sends = {} /\ push = NoPush /\ pushes = 0 /\ revoked = {} /\ eventLoop = TRUE
      /\ call = [r \in Calls |-> [at |-> "none", host |-> "none"]] /\ active = [h \in Hosts |-> 0]
  BY DEF ChannelInit
<1>2. IsFiniteSet({}) /\ Cardinality({}) = 0
  BY FS_EmptySet
<1>3. SizesOf({}) = 0
  BY <1>2, SizesStep
<1>4. NoPush \in PushRows /\ [at |-> "none", host |-> "none"] \in CallRows
  BY DEF NoPush, PushRows, CallRows
<1>5. DOMAIN pending = {}
  BY <1>1
<1>6. pending \in [DOMAIN pending -> Nat]
  BY <1>1
<1>7. ChannelTypeOK
  BY <1>1, <1>2, <1>4, <1>5, <1>6 DEF ChannelTypeOK
<1>8. SendInv
  BY <1>1 DEF SendInv
<1>9. CountInv
  BY <1>1, <1>5 DEF CountInv, Counted, OutIn
<1>10. MaxPendingBytes \in Nat
  BY DEF ChannelAssumption
<1>11. ByteInv
  BY <1>1, <1>3, <1>10 DEF ByteInv
<1>12. PoolInv
  <2>1. \A r \in Calls : call[r].at = "none"
    BY <1>1
  <2>2. \A h \in Hosts : Running(h) = {}
    BY <2>1 DEF Running
  <2>3. QED
    BY <1>1, <1>2, <2>1, <2>2 DEF PoolInv
<1>13. QED
  BY <1>7, <1>8, <1>9, <1>11, <1>12 DEF ChannelInv

\* What the registry keeps follows from these parts.
RegistryKept ==
    /\ live' \subseteq Sockets /\ IsFiniteSet(live')
    /\ DOMAIN pending' \subseteq Sockets /\ pending' \in [DOMAIN pending' -> Nat]
    /\ sends' \subseteq SendRows /\ IsFiniteSet(sends') /\ bytes' \in Nat
    /\ SendInv' /\ CountInv' /\ ByteInv'

LEMMA RegistryStays ==
    ASSUME ChannelTypeOK, SendInv, CountInv, ByteInv, UNCHANGED registry, pushes' = pushes,
           push' = push \/ push'.at \in {"idle", "scheduling"} \/ (push.at = "connected" /\ push'.at = "allowed")
    PROVE  RegistryKept
<1>1. UNCHANGED <<live, pending, bytes, sends>>
  BY DEF registry
<1>2. SendInv'
  BY <1>1 DEF SendInv
<1>3. CountInv' /\ ByteInv'
  BY <1>1 DEF CountInv, Counted, OutIn, ByteInv
<1>4. QED
  BY <1>1, <1>2, <1>3 DEF RegistryKept, ChannelTypeOK

LEMMA UnregisterStep ==
    ASSUME ChannelTypeOK, SendInv, CountInv, ByteInv, NEW S, UnregisterAll(S),
           UNCHANGED <<sends, bytes, pushes>>, push' = push \/ push'.at \in {"idle", "scheduling"}
    PROVE  RegistryKept
<1>1. /\ live' \subseteq Sockets /\ IsFiniteSet(live')
      /\ DOMAIN pending' \subseteq Sockets /\ pending' \in [DOMAIN pending' -> Nat]
      /\ CountInv'
  BY UnregisterKeeps
<1>2. SendInv' /\ ByteInv'
  BY DEF SendInv, ByteInv
<1>3. QED
  BY <1>1, <1>2 DEF RegistryKept, ChannelTypeOK

\* A send goes on, or fails and unregisters its socket, which still counts it.
LEMMA RestateStep ==
    ASSUME ChannelTypeOK, SendInv, CountInv, ByteInv, NEW s \in sends,
           NEW a \in {"due", "sending", "failed"},
           sends' = (sends \ {s}) \cup {[s EXCEPT !.at = a]},
           UNCHANGED <<live, pending>> \/ UnregisterAll({s.to}),
           UNCHANGED <<bytes, pushes, push>>
    PROVE  RegistryKept
<1>1. /\ sends' \subseteq SendRows /\ IsFiniteSet(sends')
      /\ \A c : Cardinality(OutIn(sends', c)) = Cardinality(OutIn(sends, c))
                /\ (OutIn(sends, c) = {} <=> OutIn(sends', c) = {})
      /\ SizesOf(sends') = SizesOf(sends)
      /\ \A x, y \in sends' : x.n = y.n /\ x.to = y.to => x = y
      /\ \A x \in sends' : \E y \in sends : x.n = y.n
  BY RestateKeeps
<1>2. SendInv' /\ ByteInv'
  BY <1>1 DEF SendInv, ByteInv
<1>3. /\ live \subseteq Sockets /\ IsFiniteSet(live)
      /\ DOMAIN pending \subseteq Sockets /\ \A c \in DOMAIN pending : pending[c] \in Nat
      /\ pending = [c \in DOMAIN pending |-> pending[c]]
  BY DEF ChannelTypeOK
<1>4. /\ live' \subseteq live /\ DOMAIN pending' = DOMAIN pending
      /\ \A c \in DOMAIN pending : /\ pending'[c] = pending[c]
                                   /\ c \in live /\ pending[c] = 0 => c \in live'
      /\ pending' = [c \in DOMAIN pending |-> pending[c]]
  <2>1. CASE UNCHANGED <<live, pending>>
    BY <1>3, <2>1
  <2>2. CASE UnregisterAll({s.to})
    <3>1. s.to \in DOMAIN pending /\ pending[s.to] # 0
      <4>1. pending[s.to] \in Nat /\ pending[s.to] >= 1 /\ s.to \in DOMAIN pending
        BY SendCounted
      <4>2. QED
        BY <4>1
    <3>2. {c \in (live \cap {s.to}) \cap DOMAIN pending : pending[c] = 0} = {}
      BY <3>1
    <3>3. pending' = [c \in DOMAIN pending \ {} |-> pending[c]] /\ live' = live \ {s.to}
      BY <2>2, <3>2 DEF UnregisterAll, AfterDrop, Without
    <3>4. QED
      BY <1>3, <3>1, <3>3
  <2>3. QED
    BY <2>1, <2>2
<1>5. ASSUME NEW c \in Sockets PROVE Counted(c)'
  <2>1. Counted(c) /\ OutIn(sends, c)' = OutIn(sends', c)
    BY DEF CountInv, OutIn
  <2>2. CASE c \in DOMAIN pending
    <3>1. /\ pending'[c] = Cardinality(OutIn(sends', c)) /\ pending'[c] <= MaxPending
          /\ pending'[c] = 0 => c \in live'
      BY <1>1, <1>4, <2>1, <2>2 DEF Counted
    <3>2. QED
      BY <1>4, <2>1, <2>2, <3>1 DEF Counted
  <2>3. CASE c \notin DOMAIN pending
    BY <1>1, <1>4, <2>1, <2>3 DEF Counted
  <2>4. QED
    BY <2>2, <2>3
<1>6. DOMAIN pending' \subseteq Sockets /\ pending' \in [DOMAIN pending' -> Nat]
  BY <1>3, <1>4
<1>7. live' \subseteq Sockets /\ IsFiniteSet(live')
  BY <1>3, <1>4, FS_Subset
<1>8. bytes' \in Nat
  BY DEF ChannelTypeOK
<1>9. QED
  BY <1>1, <1>2, <1>5, <1>6, <1>7, <1>8 DEF RegistryKept, CountInv

LEMMA ReleaseStep ==
    ASSUME ChannelAssumption, ChannelTypeOK, SendInv, CountInv, ByteInv, NEW s \in sends,
           NEW left, live' = left, left = live \/ left = live \ {s.to},
           ReleaseSend(s, left, pending), UNCHANGED <<push, pushes>>
    PROVE  RegistryKept
BY ReleaseKeeps, Zenon DEF RegistryKept

\* Sockets: none of this is about a send, but for what a binding registers and
\* an end unregisters.
LEMMA SocketStep ==
    ASSUME ChannelAssumption, ChannelInv, NEW c \in Sockets,
           AcceptSocket(c) \/ Bind(c) \/ EndSocket(c) \/ CloseSocket(c)
    PROVE  ChannelInv'
<1>1. ChannelTypeOK /\ SendInv /\ CountInv /\ ByteInv /\ PoolInv
  BY DEF ChannelInv
<1>2. UNCHANGED <<bytes, sends, push, pushes, revoked, call, active, eventLoop>>
  BY DEF AcceptSocket, Bind, EndSocket, CloseSocket, registry, ingress
<1>3. socket' \in [Sockets -> {"new", "open", "bound", "ending", "gone"}]
  <2>1. socket \in [Sockets -> {"new", "open", "bound", "ending", "gone"}]
    BY <1>1 DEF ChannelTypeOK
  <2>2. \E x \in {"open", "bound", "ending", "gone"} : socket' = [socket EXCEPT ![c] = x]
    BY DEF AcceptSocket, Bind, EndSocket, CloseSocket
  <2>3. QED
    BY <2>1, <2>2
<1>4. RegistryKept
  <2>1. CASE AcceptSocket(c) \/ CloseSocket(c)
    <3>1. UNCHANGED registry
      BY <2>1 DEF AcceptSocket, CloseSocket
    <3>2. QED
      BY <1>1, <1>2, <3>1, RegistryStays
  <2>2. CASE Bind(c)
    <3>1. /\ live' \subseteq Sockets /\ IsFiniteSet(live')
          /\ DOMAIN pending' \subseteq Sockets /\ pending' \in [DOMAIN pending' -> Nat]
          /\ CountInv'
      BY <1>1, <2>2, BindKeeps
    <3>2. SendInv' /\ ByteInv'
      BY <1>1, <1>2 DEF SendInv, ByteInv
    <3>3. QED
      BY <1>1, <1>2, <3>1, <3>2 DEF RegistryKept, ChannelTypeOK
  <2>3. CASE EndSocket(c)
    <3>1. UnregisterAll({c})
      BY <2>3 DEF EndSocket
    <3>2. QED
      BY <1>1, <1>2, <3>1, UnregisterStep
  <2>4. QED
    BY <2>1, <2>2, <2>3
<1>5. PoolInv'
  BY <1>1, <1>2 DEF PoolInv, Running
<1>6. ChannelTypeOK'
  BY <1>1, <1>2, <1>3, <1>4 DEF ChannelTypeOK, RegistryKept
<1>7. QED
  BY <1>4, <1>5, <1>6 DEF ChannelInv, RegistryKept

\* The pushing thread.
LEMMA PushStep ==
    ASSUME ChannelAssumption, ChannelInv,
           \/ \E h \in Hosts, size \in Sizes : PushBegins(h, size)
           \/ PushAuthorizes \/ PushReserves \/ PushSchedules
    PROVE  RegistryKept /\ push' \in PushRows /\ pushes' \in Nat
           /\ UNCHANGED <<socket, revoked, call, active, eventLoop>>
<1>1. ChannelTypeOK /\ SendInv /\ CountInv /\ ByteInv
  BY DEF ChannelInv
<1>2. /\ push \in PushRows /\ pushes \in Nat /\ NoPush \in PushRows /\ NoPush.at = "idle"
      /\ [push EXCEPT !.at = "allowed"] \in PushRows /\ [push EXCEPT !.at = "allowed"].at = "allowed"
  BY <1>1 DEF ChannelTypeOK, NoPush, PushRows
<1>3. UNCHANGED <<socket, revoked, call, active, eventLoop>>
  BY DEF PushBegins, PushAuthorizes, PushReserves, PushSchedules, ingress
<1>4. CASE \E h \in Hosts, size \in Sizes : PushBegins(h, size)
  <2>1. PICK h \in Hosts, size \in Sizes : PushBegins(h, size)
    BY <1>4
  <2>2. size \in Nat
    BY DEF ChannelAssumption
  <2>3. push' = [at |-> "connected", host |-> h, size |-> size] /\ pushes' = pushes + 1
        /\ UNCHANGED <<live, pending, bytes, sends>>
    BY <2>1 DEF PushBegins, registry
  <2>4. push' \in PushRows /\ pushes' \in Nat
    BY <1>2, <2>2, <2>3 DEF PushRows
  <2>5. SendInv'
    <3>1. \A s \in sends : s.n \in Nat
      BY <1>1 DEF ChannelTypeOK, SendRows
    <3>2. \A s \in sends : s.n <= pushes' /\ s.n < pushes'
      BY <1>1, <1>2, <2>3, <3>1 DEF SendInv
    <3>3. QED
      BY <1>1, <2>3, <3>2 DEF SendInv
  <2>6. CountInv' /\ ByteInv'
    BY <1>1, <2>3 DEF CountInv, Counted, OutIn, ByteInv
  <2>7. RegistryKept
    BY <1>1, <2>3, <2>5, <2>6 DEF RegistryKept, ChannelTypeOK
  <2>8. QED
    BY <1>3, <2>4, <2>7
<1>5. CASE PushAuthorizes
  <2>1. pushes' = pushes /\ bytes' = bytes /\ sends' = sends
    BY <1>5 DEF PushAuthorizes
  <2>2. CASE push.host \in revoked
    <3>1. UnregisterAll(OfHost(push.host)) /\ push' = NoPush
      BY <1>5, <2>2 DEF PushAuthorizes
    <3>2. RegistryKept
      BY <1>1, <1>2, <2>1, <3>1, UnregisterStep
    <3>3. QED
      BY <1>2, <1>3, <2>1, <3>1, <3>2
  <2>3. CASE push.host \notin revoked
    <3>1. /\ push.at = "connected" /\ push' = [push EXCEPT !.at = "allowed"]
          /\ UNCHANGED registry
      BY <1>5, <2>1, <2>3 DEF PushAuthorizes, registry
    <3>2. RegistryKept
      BY <1>1, <1>2, <2>1, <3>1, RegistryStays
    <3>3. QED
      BY <1>2, <1>3, <2>1, <3>1, <3>2
  <2>4. QED
    BY <2>2, <2>3
<1>6. CASE PushReserves
  <2>1. /\ DOMAIN pending' \subseteq Sockets /\ pending' \in [DOMAIN pending' -> Nat]
        /\ sends' \subseteq SendRows /\ IsFiniteSet(sends') /\ bytes' \in Nat /\ push' \in PushRows
        /\ SendInv' /\ CountInv' /\ ByteInv'
    BY <1>1, <1>6, ReserveKeeps
  <2>2. live' = live /\ pushes' = pushes
    BY <1>6 DEF PushReserves
  <2>3. RegistryKept
    BY <1>1, <2>1, <2>2 DEF RegistryKept, ChannelTypeOK
  <2>4. QED
    BY <1>2, <1>3, <2>1, <2>2, <2>3
<1>7. CASE PushSchedules
  <2>1. pushes' = pushes
    BY <1>7 DEF PushSchedules
  <2>2. CASE Due = {}
    <3>1. push' = NoPush /\ UNCHANGED registry
      BY <1>7, <2>2 DEF PushSchedules
    <3>2. RegistryKept
      BY <1>1, <1>2, <2>1, <3>1, RegistryStays
    <3>3. QED
      BY <1>2, <1>3, <2>1, <3>1, <3>2
  <2>3. CASE Due # {}
    <3>1. PICK s \in Due :
              /\ UNCHANGED push
              /\ IF eventLoop
                 THEN /\ sends' = (sends \ {s}) \cup {[s EXCEPT !.at = "sending"]}
                      /\ UNCHANGED <<live, pending, bytes>>
                 ELSE /\ live' = live \ {s.to}
                      /\ ReleaseSend(s, live \ {s.to}, AfterDrop(pending, {s.to}))
      BY <1>7, <2>3 DEF PushSchedules
    <3>2. s \in sends
      BY <3>1 DEF Due
    <3>3. CASE eventLoop
      <4>1. sends' = (sends \ {s}) \cup {[s EXCEPT !.at = "sending"]}
            /\ UNCHANGED <<live, pending, bytes, push, pushes>>
        BY <2>1, <3>1, <3>3
      <4>2. RegistryKept
        BY <1>1, <3>2, <4>1, RestateStep
      <4>3. QED
        BY <1>2, <1>3, <4>1, <4>2
    <3>4. CASE ~eventLoop
      <4>1. s.to \in DOMAIN pending /\ pending[s.to] # 0
        <5>1. pending[s.to] \in Nat /\ pending[s.to] >= 1 /\ s.to \in DOMAIN pending
          BY <1>1, <3>2, SendCounted
        <5>2. QED
          BY <5>1
      <4>2. AfterDrop(pending, {s.to}) = pending
        <5>1. {c \in {s.to} \cap DOMAIN pending : pending[c] = 0} = {}
          BY <4>1
        <5>2. AfterDrop(pending, {s.to}) = [c \in DOMAIN pending \ {} |-> pending[c]]
          BY <5>1 DEF AfterDrop, Without
        <5>3. pending = [c \in DOMAIN pending |-> pending[c]]
          BY <1>1 DEF ChannelTypeOK
        <5>4. QED
          BY <5>2, <5>3
      <4>3. live' = live \ {s.to} /\ ReleaseSend(s, live \ {s.to}, pending) /\ UNCHANGED <<push, pushes>>
        BY <2>1, <3>1, <3>4, <4>2
      <4>4. RegistryKept
        BY <1>1, <3>2, <4>3, ReleaseStep, Zenon
      <4>5. QED
        BY <1>2, <1>3, <4>3, <4>4
    <3>5. QED
      BY <1>1, <3>3, <3>4 DEF ChannelTypeOK
  <2>4. QED
    BY <2>2, <2>3
<1>8. QED
  BY <1>4, <1>5, <1>6, <1>7

LEMMA SendStep ==
    ASSUME ChannelAssumption, ChannelInv,
           \/ \E s \in sends : SendEnds(s) \/ SendFails(s) \/ FailedSendEnds(s)
           \/ \E h \in Hosts : RevokeHost(h)
    PROVE  RegistryKept /\ revoked' \subseteq Hosts
           /\ UNCHANGED <<socket, push, pushes, call, active, eventLoop>>
<1>1. ChannelTypeOK /\ SendInv /\ CountInv /\ ByteInv
  BY DEF ChannelInv
<1>2. UNCHANGED <<socket, push, pushes, call, active, eventLoop>>
  BY DEF SendEnds, SendFails, FailedSendEnds, RevokeHost, ingress
<1>3. CASE \E s \in sends : SendEnds(s) \/ FailedSendEnds(s)
  <2>1. PICK s \in sends : SendEnds(s) \/ FailedSendEnds(s)
    BY <1>3
  <2>2. live' = live /\ revoked' = revoked /\ ReleaseSend(s, live, pending)
    BY <2>1 DEF SendEnds, FailedSendEnds
  <2>3. RegistryKept
    BY <1>1, <1>2, <2>2, ReleaseStep
  <2>4. QED
    BY <1>1, <1>2, <2>2, <2>3 DEF ChannelTypeOK
<1>4. CASE \E s \in sends : SendFails(s)
  <2>1. PICK s \in sends : SendFails(s)
    BY <1>4
  <2>2. /\ UnregisterAll({s.to}) /\ sends' = (sends \ {s}) \cup {[s EXCEPT !.at = "failed"]}
        /\ bytes' = bytes /\ revoked' = revoked
    BY <2>1 DEF SendFails
  <2>3. RegistryKept
    BY <1>1, <1>2, <2>2, RestateStep
  <2>4. QED
    BY <1>1, <1>2, <2>2, <2>3 DEF ChannelTypeOK
<1>5. CASE \E h \in Hosts : RevokeHost(h)
  <2>1. PICK h \in Hosts : RevokeHost(h)
    BY <1>5
  <2>2. UnregisterAll(OfHost(h)) /\ revoked' = revoked \cup {h} /\ UNCHANGED <<bytes, sends>>
    BY <2>1 DEF RevokeHost
  <2>3. RegistryKept
    BY <1>1, <1>2, <2>2, UnregisterStep
  <2>4. QED
    BY <1>1, <1>2, <2>2, <2>3 DEF ChannelTypeOK
<1>6. QED
  BY <1>3, <1>4, <1>5

LEMMA ChannelStep ==
    ASSUME ChannelAssumption, ChannelInv, [ChannelNext]_channelVars
    PROVE  ChannelInv'
<1>1. ChannelTypeOK /\ SendInv /\ CountInv /\ ByteInv /\ PoolInv
  BY DEF ChannelInv
<1>2. CASE \E c \in Sockets : AcceptSocket(c) \/ Bind(c) \/ EndSocket(c) \/ CloseSocket(c)
  BY <1>2, SocketStep
<1>3. CASE \/ \E h \in Hosts, size \in Sizes : PushBegins(h, size)
           \/ PushAuthorizes \/ PushReserves \/ PushSchedules
  <2>1. RegistryKept /\ push' \in PushRows /\ pushes' \in Nat
        /\ UNCHANGED <<socket, revoked, call, active, eventLoop>>
    BY <1>3, PushStep
  <2>2. ChannelTypeOK' /\ PoolInv'
    BY <1>1, <2>1 DEF ChannelTypeOK, RegistryKept, PoolInv, Running
  <2>3. QED
    BY <2>1, <2>2 DEF ChannelInv, RegistryKept
<1>4. CASE \/ \E s \in sends : SendEnds(s) \/ SendFails(s) \/ FailedSendEnds(s)
           \/ \E h \in Hosts : RevokeHost(h)
  <2>1. RegistryKept /\ revoked' \subseteq Hosts
        /\ UNCHANGED <<socket, push, pushes, call, active, eventLoop>>
    BY <1>4, SendStep
  <2>2. ChannelTypeOK' /\ PoolInv'
    BY <1>1, <2>1 DEF ChannelTypeOK, RegistryKept, PoolInv, Running
  <2>3. QED
    BY <2>1, <2>2 DEF ChannelInv, RegistryKept
<1>5. CASE \E r \in Calls : LeaveCall(r) \/ Execute(r) \/ \E h \in Hosts : Run(r, h)
  <2>1. PICK r \in Calls : LeaveCall(r) \/ Execute(r) \/ \E h \in Hosts : Run(r, h)
    BY <1>5
  <2>2. UNCHANGED <<socket, registry, push, pushes, revoked, eventLoop>>
    BY <2>1 DEF LeaveCall, Execute, Run
  <2>3. RegistryKept
    BY <1>1, <2>2, RegistryStays
  <2>4. call' \in [Calls -> CallRows] /\ active' \in [Hosts -> Nat] /\ PoolInv'
    BY <1>1, <2>1, PoolKeeps
  <2>5. ChannelTypeOK'
    BY <1>1, <2>2, <2>3, <2>4 DEF ChannelTypeOK, RegistryKept
  <2>6. QED
    BY <2>3, <2>4, <2>5 DEF ChannelInv, RegistryKept
<1>6. CASE CloseLoop \/ UNCHANGED channelVars
  <2>1. UNCHANGED <<socket, registry, push, pushes, revoked, call, active>> /\ eventLoop' \in BOOLEAN
    BY <1>1, <1>6 DEF CloseLoop, ingress, channelVars, registry, ChannelTypeOK
  <2>2. RegistryKept
    BY <1>1, <2>1, RegistryStays
  <2>3. ChannelTypeOK' /\ PoolInv'
    BY <1>1, <2>1, <2>2 DEF ChannelTypeOK, RegistryKept, PoolInv, Running
  <2>4. QED
    BY <2>2, <2>3 DEF ChannelInv, RegistryKept
<1>7. QED
  BY <1>2, <1>3, <1>4, <1>5, <1>6 DEF ChannelNext

LEMMA ChannelInduction == ChannelSpec => []ChannelInv
<1>1. ChannelAssumption
  BY ChannelAssumption
<1>2. ChannelInit => ChannelInv
  BY <1>1, ChannelInitially
<1>3. ChannelInv /\ [ChannelNext]_channelVars => ChannelInv'
  BY <1>1, ChannelStep
<1>4. QED
  BY <1>2, <1>3, PTL DEF ChannelSpec

\* The registry, its sends, the pushing thread and the pool keep their types.
THEOREM ChannelTypeCorrect == ChannelSpec => []ChannelTypeOK
<1>1. ChannelInv => ChannelTypeOK
  BY DEF ChannelInv
<1>2. QED
  BY <1>1, ChannelInduction, PTL

\* The budgets of the registry are what is out and within their bounds, and a
\* place in the pool is held for as long as its handler runs: for any number
\* of sockets, peers, pushes and calls, any bounds and any sizes of frames
\* (ConnectionRegistry.push, unregister, _release; IngressDispatcher.run).
THEOREM BudgetsExact == ChannelSpec => []BudgetIsExact
<1>1. ASSUME ChannelInv PROVE BudgetIsExact
  <2>1. CountInv /\ ByteInv /\ PoolInv
    BY <1>1 DEF ChannelInv
  <2>2. ASSUME NEW c \in Sockets
        PROVE  LET out == Cardinality({s \in sends : s.to = c})
               IN IF c \in DOMAIN pending
                  THEN pending[c] = out /\ out <= MaxPending /\ (out = 0 => c \in live)
                  ELSE out = 0 /\ c \notin live
    BY <2>1, FS_EmptySet DEF CountInv, Counted, OutIn
  <2>3. bytes = MapThenSumSet(LAMBDA s : s.size, sends) /\ bytes <= MaxPendingBytes
    BY <2>1, Zenon DEF ByteInv, SizesOf
  <2>4. \A h \in Hosts : active[h] = Cardinality({r \in Calls : call[r].host = h
                                                     /\ call[r].at \in {"running", "left"}})
    BY <2>1 DEF PoolInv, Running
  <2>5. QED
    BY <2>2, <2>3, <2>4, Zenon DEF BudgetIsExact
<1>2. QED
  BY <1>1, ChannelInduction, PTL
=============================================================================
