-------------------------------- MODULE PeerLink --------------------------------
(***************************************************************************)
(* The persistent channel of the TypeScript bridges                        *)
(* (FaspClient.openChannel, bridge_core/fasp.ts): one websocket that is    *)
(* dialled again when it drops, a bounded queue in memory for what is sent *)
(* meanwhile, and a caller who may close it at any moment.                 *)
(*                                                                         *)
(* A callback runs to its end, so it is one action; what is awaited (the   *)
(* profile, the socket, the answer to the heartbeat) lies between actions. *)
(* A letter has a weight in bytes, and a frame that was written leaves the *)
(* socket's buffer whole.  Message schemas and callbacks to the caller are *)
(* left out: they change nothing here.                                     *)
(***************************************************************************)
EXTENDS Naturals, Sequences, SequencesExt, FiniteSetsExt

CONSTANTS Posts,          \* envelopes, each sent once
          Live,           \* the ones with delivery "volatile"
          Weight,         \* their bytes
          MaxQueued, MaxPendingBytes, MaxSocketBytes,
          MaxDrops        \* bound: sockets and attempts that fail

ASSUME LinkAssumption ==
    /\ Live \subseteq Posts /\ Weight \in [Posts -> Nat \ {0}]
    /\ MaxQueued \in Nat /\ MaxPendingBytes \in Nat /\ MaxSocketBytes \in Nat /\ MaxDrops \in Nat

VARIABLES
    dial,       \* connectOnce: "none", "profile", "dialing", "greeting"
    timer,      \* reconnectTimer is set
    opened,     \* openChannel has returned the channel
    socket,     \* socket.readyState: "none", "open", "closing", "closed"
    ready, closedByCaller,
    pending, pendingBytes,
    buffered,   \* the frames of socket.bufferedAmount
    flushTimer,
    gone,       \* posts whose expires_at has passed
    taken,      \* history: what send() took, in order
    written,    \* history: what was written to a socket, in order
    drops

linkVars == <<dial, timer, opened, socket, ready, closedByCaller, pending, pendingBytes,
              buffered, flushTimer, gone, taken, written, drops>>
queues == <<pending, pendingBytes, buffered, flushTimer, taken, written>>

Bytes(q) == FoldLeft(LAMBDA sum, p : sum + Weight[p], 0, q)
MayDrop == drops < MaxDrops /\ drops' = drops + 1

-----------------------------------------------------------------------------
(* flushPending *)

\* Oldest first: the expired are dropped, and the first that finds no room in
\* the socket's buffer goes back to the front.
FlushOne(s, p) ==
    IF s.rest # <<>> \/ (p \notin gone /\ Bytes(s.buf) + Weight[p] > MaxSocketBytes)
    THEN [s EXCEPT !.rest = Append(@, p)]
    ELSE IF p \in gone THEN s
    ELSE [s EXCEPT !.out = Append(@, p), !.buf = Append(@, p)]
\* What is written, what waits and what the socket holds once the queue was seen.
Flushed(buf) ==
    LET flush[n \in 0..Len(pending)] ==
            IF n = 0 THEN [out |-> <<>>, rest |-> <<>>, buf |-> buf]
            ELSE FlushOne(flush[n - 1], pending[n])
    IN flush[Len(pending)]
FlushInto(buf) ==
    LET s == Flushed(buf)
    IN /\ pending' = s.rest /\ pendingBytes' = Bytes(s.rest)
       /\ buffered' = s.buf /\ written' = written \o s.out
       /\ flushTimer' = (s.rest # <<>>)
FlushFires ==
    /\ flushTimer
    /\ IF ready /\ socket = "open" THEN FlushInto(buffered)
       ELSE flushTimer' = (pending # <<>> /\ ready /\ ~closedByCaller)
            /\ UNCHANGED <<pending, pendingBytes, buffered, written>>
    /\ UNCHANGED <<dial, timer, opened, socket, ready, closedByCaller, gone, taken, drops>>

-----------------------------------------------------------------------------
(* connectOnce and scheduleReconnect *)

\* A failed attempt: the first one rejects openChannel, a later one is
\* scheduled again unless the caller has closed the channel.
AttemptFails ==
    /\ dial' = "none" /\ timer' = (opened /\ ~closedByCaller)
    /\ UNCHANGED <<opened, socket, ready, closedByCaller, queues, gone>>
\* channel.closed, raised after the profile, ends the same way.
Profile ==
    /\ dial = "profile"
    /\ IF closedByCaller THEN AttemptFails ELSE
          /\ dial' = "dialing"
          /\ UNCHANGED <<timer, opened, socket, ready, closedByCaller, queues, gone>>
    /\ UNCHANGED drops
Discard == pending' = <<>> /\ pendingBytes' = 0
\* The profile is another system's, or does not verify: the channel is over.
OtherIdentity ==
    /\ dial = "profile" /\ MayDrop /\ dial' = "none"
    /\ IF ~opened THEN UNCHANGED <<ready, closedByCaller, pending, pendingBytes>>
       ELSE closedByCaller' = TRUE /\ ready' = FALSE /\ Discard
    /\ UNCHANGED <<timer, opened, socket, buffered, flushTimer, gone, taken, written>>
\* A fetch, a dial or a registration fails, or times out.
Unreachable == dial # "none" /\ MayDrop /\ AttemptFails
SocketOpens ==
    /\ dial = "dialing"
    /\ IF closedByCaller THEN AttemptFails ELSE
          /\ dial' = "greeting"
          /\ UNCHANGED <<timer, opened, socket, ready, closedByCaller, queues, gone>>
    /\ UNCHANGED drops
\* The heartbeat is answered, and the continuation runs before other events.
Registered ==
    /\ dial = "greeting" /\ dial' = "none"
    /\ IF closedByCaller
       THEN UNCHANGED <<opened, socket, ready, queues>>
       ELSE /\ socket' = "open" /\ ready' = TRUE /\ opened' = TRUE
            /\ FlushInto(<<>>) /\ UNCHANGED taken
    /\ UNCHANGED <<timer, closedByCaller, gone, drops>>
TimerFires ==
    /\ timer /\ timer' = FALSE /\ dial' = "profile"
    /\ UNCHANGED <<opened, socket, ready, closedByCaller, queues, gone, drops>>

\* The connection is lost: readyState changes before the close event is seen.
SocketDrops ==
    /\ socket = "open" /\ MayDrop /\ socket' = "closing" /\ buffered' = <<>>
    /\ UNCHANGED <<dial, timer, opened, ready, closedByCaller, pending, pendingBytes, flushTimer,
                   gone, taken, written>>
CloseEvent ==
    /\ socket = "closing" /\ socket' = "closed" /\ ready' = FALSE
    /\ timer' = ~closedByCaller
    /\ UNCHANGED <<dial, opened, closedByCaller, queues, gone, drops>>

-----------------------------------------------------------------------------
(* The caller: send and close *)

\* What send() takes while the socket is not writable; volatile is refused.
QueueWhole(p) ==
    /\ p \notin Live
    /\ Len(pending) < MaxQueued /\ pendingBytes + Weight[p] <= MaxPendingBytes
    /\ pending' = Append(pending, p) /\ pendingBytes' = pendingBytes + Weight[p]
    /\ taken' = Append(taken, p)
    /\ UNCHANGED <<buffered, flushTimer, written>>
\* On an open socket the queue goes first; send() writes only behind it.
WritesIfRoom(p, s) == Bytes(s.buf) + Weight[p] <= MaxSocketBytes    \* fault: the queue is not asked
WritesBehind(p, s) == s.rest = <<>> /\ Bytes(s.buf) + Weight[p] <= MaxSocketBytes
WriteThrough(p) ==
    LET s == Flushed(buffered)
        does == WritesBehind(p, s)
    IN /\ pending' = s.rest /\ pendingBytes' = Bytes(s.rest) /\ flushTimer' = (s.rest # <<>>)
       /\ buffered' = IF does THEN Append(s.buf, p) ELSE s.buf
       /\ written' = written \o s.out \o (IF does THEN <<p>> ELSE <<>>)
       /\ taken' = IF does THEN Append(taken, p) ELSE taken
Send(p) ==
    /\ opened /\ ~closedByCaller /\ p \notin gone /\ p \notin ToSet(taken)
    /\ IF ready /\ socket = "open" THEN WriteThrough(p) ELSE QueueWhole(p)
    /\ UNCHANGED <<dial, timer, opened, socket, ready, closedByCaller, gone, drops>>
Close ==
    /\ opened /\ ~closedByCaller /\ closedByCaller' = TRUE /\ ready' = FALSE
    /\ timer' = FALSE /\ flushTimer' = FALSE /\ Discard
    /\ socket' = IF socket = "open" THEN "closing" ELSE socket
    /\ UNCHANGED <<dial, opened, buffered, gone, taken, written, drops>>

-----------------------------------------------------------------------------
Drain ==
    /\ buffered # <<>> /\ buffered' = Tail(buffered)
    /\ UNCHANGED <<dial, timer, opened, socket, ready, closedByCaller, pending, pendingBytes,
                   flushTimer, gone, taken, written, drops>>
Expire(p) ==
    /\ p \notin gone /\ gone' = gone \cup {p}
    /\ UNCHANGED <<dial, timer, opened, socket, ready, closedByCaller, queues, drops>>

LinkInit ==
    /\ dial = "profile" /\ timer = FALSE /\ opened = FALSE /\ socket = "none"
    /\ ready = FALSE /\ closedByCaller = FALSE /\ pending = <<>> /\ pendingBytes = 0
    /\ buffered = <<>> /\ flushTimer = FALSE /\ gone = {} /\ taken = <<>> /\ written = <<>>
    /\ drops = 0
LinkNext ==
    \/ Profile \/ OtherIdentity \/ Unreachable \/ SocketOpens \/ Registered \/ TimerFires
    \/ SocketDrops \/ CloseEvent \/ FlushFires \/ Close \/ Drain
    \/ \E p \in Posts : Send(p) \/ Expire(p)
LinkSpec == LinkInit /\ [][LinkNext]_linkVars

-----------------------------------------------------------------------------
(* Properties *)

\* What was written is among what send() took, in that order and once each ...
InOrder(s, base) ==
    /\ ToSet(s) \subseteq ToSet(base)
    /\ \A i, j \in DOMAIN s, a, b \in DOMAIN base :
          i < j /\ s[i] = base[a] /\ s[j] = base[b] => a < b
WrittenInOrder == InOrder(written, taken)
\* ... what send() took and did not write waits, has expired or was discarded
\* when the channel was closed ...
NothingVanishes ==
    \A p \in ToSet(taken) \ ToSet(written) :
        p \in ToSet(pending) \/ p \in gone \/ closedByCaller
\* ... no observation waits to be sent when it is stale ...
NothingLiveWaits == ToSet(pending) \cap Live = {}
\* ... and a channel that was closed while it was being dialled leaves no
\* socket behind and no attempt to come.
ClosedIsQuiet == closedByCaller => socket # "open" /\ ~timer /\ pending = <<>>
\* A queue that waits on a live socket has a timer that will write it.
QueueIsServed == pending # <<>> /\ ready /\ socket = "open" => flushTimer
\* A channel that is not closed is up, or on its way to be.
LinkComesBack == opened /\ ~closedByCaller => socket \in {"open", "closing"} \/ timer \/ dial # "none"

\* The channel is a queue across reconnections (openChannel): what is
\* accepted is written once and in order, or accounted for, and neither a
\* dropped socket nor a close at any await leaves it half open.
LinkKeepsOrder ==
    /\ WrittenInOrder /\ NothingVanishes /\ NothingLiveWaits
    /\ ClosedIsQuiet /\ QueueIsServed /\ LinkComesBack
=============================================================================
