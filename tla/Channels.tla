--------------------------------- MODULE Channels ---------------------------------
(***************************************************************************)
(* Push channels and ingress (channels.py, transport/runtime.py, and the   *)
(* channel endpoint and lifespan of transport/http_app.py): websockets     *)
(* that authenticate, threads that push to them, the coroutines that send, *)
(* and the bounded pool that runs handlers.                                *)
(*                                                                         *)
(* Every section under ConnectionRegistry._lock or IngressDispatcher._lock *)
(* is a step.  A frame's content is its size.                              *)
(***************************************************************************)
EXTENDS Integers, FiniteSets, FiniteSetsExt

CONSTANTS Sockets,        \* websockets
          Hosts,          \* the peers behind them
          HostOf(_),      \* whose socket it is
          Calls,          \* envelopes handled by the pool
          MaxConnections, MaxPerPeer, MaxPending, MaxPendingBytes,
          Workers, PerPeer,   \* a lane's workers, and a peer's share of them
          Sizes,          \* sizes of frames
          MaxPushes       \* bound: pushes explored

ASSUME ChannelAssumption ==
    /\ {MaxConnections, MaxPerPeer, MaxPending, MaxPendingBytes, Workers, PerPeer, MaxPushes}
           \subseteq Nat
    /\ Sizes \subseteq Nat \ {0} /\ \A c \in Sockets : HostOf(c) \in Hosts

VARIABLES
    socket,     \* the endpoint of each socket: "new", "open", "bound", "ending", "gone"
    live,       \* _connections, over all peers
    pending,    \* _pending: a partial function to the number of sends
    bytes,      \* pending_bytes
    sends,      \* the coroutines: [n, to, size, at]
    push,       \* the pushing thread: [at, host, size]
    pushes,
    revoked,    \* peers _peer() refuses
    eventLoop,       \* the event loop accepts coroutines
    call,       \* handlers: "none", "running", "left" by a caller that went away, "done"
    active      \* IngressDispatcher._active and _peers: one count for each peer

channelVars == <<socket, live, pending, bytes, sends, push, pushes, revoked, eventLoop, call, active>>
ingress == <<call, active>>
registry == <<live, pending, bytes, sends>>
NoPush == [at |-> "idle", host |-> "none", size |-> 0]

-----------------------------------------------------------------------------
(* ConnectionRegistry: register, unregister, _release *)

Without(f, S) == [x \in DOMAIN f \ S |-> f[x]]
OfHost(h) == {c \in live : HostOf(c) = h}

CanRegister(c) ==
    /\ c \notin DOMAIN pending      \* sends of an earlier life are still out
    /\ Cardinality(DOMAIN pending) < MaxConnections
    /\ Cardinality(OfHost(HostOf(c))) < MaxPerPeer

\* The entries of sockets whose sends are out stay until those are released.
AfterDropEager(p, S) == Without(p, S)                        \* fault: dropped at once
AfterDrop(p, S) == Without(p, {c \in S \cap DOMAIN p : p[c] = 0})
UnregisterAll(S) ==
    /\ live' = live \ S /\ pending' = AfterDrop(pending, live \cap S)

ReleaseSend(s, left, counts) ==
    LET fewer == [counts EXCEPT ![s.to] = @ - 1]
    IN /\ pending' = IF fewer[s.to] = 0 /\ s.to \notin left THEN Without(fewer, {s.to}) ELSE fewer
       /\ bytes' = bytes - s.size
       /\ sends' = sends \ {s}

-----------------------------------------------------------------------------
(* channel_endpoint *)

Occupied == Cardinality({c \in Sockets : socket[c] \in {"open", "bound", "ending"}})

AcceptSocket(c) ==
    /\ socket[c] = "new" /\ eventLoop
    /\ socket' = [socket EXCEPT ![c] = IF Occupied < MaxConnections THEN "open" ELSE "gone"]
    /\ UNCHANGED <<registry, push, pushes, revoked, ingress, eventLoop>>

\* The first accepted envelope binds the socket.  Its sender was verified when
\* the handler began, and may have been revoked since.
Bind(c) ==
    /\ socket[c] = "open" /\ eventLoop
    /\ IF CanRegister(c)
       THEN /\ live' = live \cup {c} /\ pending' = [x \in DOMAIN pending \cup {c} |->
                                                       IF x = c THEN 0 ELSE pending[x]]
            /\ socket' = [socket EXCEPT ![c] = "bound"]
       ELSE socket' = [socket EXCEPT ![c] = "ending"] /\ UNCHANGED <<live, pending>>
    /\ UNCHANGED <<bytes, sends, push, pushes, revoked, ingress, eventLoop>>

\* The peer disconnects, sends a bad frame, or times out: the finally block
\* unregisters, and the socket counts until its close is through.
EndSocket(c) ==
    /\ socket[c] \in {"open", "bound"}
    /\ UnregisterAll({c})
    /\ socket' = [socket EXCEPT ![c] = "ending"]
    /\ UNCHANGED <<bytes, sends, push, pushes, revoked, ingress, eventLoop>>
CloseSocket(c) ==
    /\ socket[c] = "ending" /\ socket' = [socket EXCEPT ![c] = "gone"]
    /\ UNCHANGED <<registry, push, pushes, revoked, ingress, eventLoop>>

-----------------------------------------------------------------------------
(* push(), from any thread *)

PushBegins(h, size) ==
    /\ push.at = "idle" /\ pushes < MaxPushes /\ OfHost(h) # {}     \* is_connected
    /\ push' = [at |-> "connected", host |-> h, size |-> size] /\ pushes' = pushes + 1
    /\ UNCHANGED <<socket, registry, revoked, ingress, eventLoop>>

\* authorize_peer; a refusal disconnects the peer.
PushAuthorizes ==
    /\ push.at = "connected"
    /\ IF push.host \in revoked
       THEN UnregisterAll(OfHost(push.host)) /\ push' = NoPush
       ELSE push' = [push EXCEPT !.at = "allowed"] /\ UNCHANGED <<live, pending>>
    /\ UNCHANGED <<socket, bytes, sends, pushes, revoked, ingress, eventLoop>>

\* Under the lock: every socket of the peer with room gets the frame, in no
\* order, until the next one would pass the byte budget.
HasRoom(c) == pending[c] < MaxPending
Fits(n) == bytes + n * push.size <= MaxPendingBytes
PushReserves ==
    /\ push.at = "allowed"
    /\ IF ~eventLoop THEN push' = NoPush /\ UNCHANGED <<pending, bytes, sends>>
       ELSE LET roomy == {c \in OfHost(push.host) : HasRoom(c)}
            IN \E to \in SUBSET roomy :
               /\ Fits(Cardinality(to)) /\ (to = roomy \/ ~Fits(Cardinality(to) + 1))
               /\ pending' = [c \in DOMAIN pending |-> pending[c] + (IF c \in to THEN 1 ELSE 0)]
               /\ bytes' = bytes + Cardinality(to) * push.size
               /\ sends' = sends \cup {[n |-> pushes, to |-> c, size |-> push.size, at |-> "due"] :
                                          c \in to}
               /\ push' = IF to = {} THEN NoPush ELSE [push EXCEPT !.at = "scheduling"]
    /\ UNCHANGED <<socket, live, pushes, revoked, ingress, eventLoop>>

Due == {s \in sends : s.at = "due"}
\* run_coroutine_threadsafe, which fails once the loop is closed.
PushSchedules ==
    /\ push.at = "scheduling"
    /\ IF Due = {} THEN push' = NoPush /\ UNCHANGED <<registry>>
       ELSE \E s \in Due :
          /\ UNCHANGED push
          /\ IF eventLoop THEN /\ sends' = (sends \ {s}) \cup {[s EXCEPT !.at = "sending"]}
                          /\ UNCHANGED <<live, pending, bytes>>
             ELSE /\ live' = live \ {s.to}
                  /\ ReleaseSend(s, live \ {s.to}, AfterDrop(pending, {s.to}))
    /\ UNCHANGED <<socket, pushes, revoked, ingress, eventLoop>>

\* _send: sent, skipped because the socket is no longer registered, or failed
\* or timed out, which unregisters it; the finally block releases.
SendEnds(s) ==
    /\ s.at = "sending" /\ eventLoop
    /\ ReleaseSend(s, live, pending)
    /\ UNCHANGED <<socket, live, push, pushes, revoked, ingress, eventLoop>>
SendFails(s) ==
    /\ s.at = "sending" /\ s.to \in live /\ eventLoop
    /\ UnregisterAll({s.to})
    /\ sends' = (sends \ {s}) \cup {[s EXCEPT !.at = "failed"]}
    /\ UNCHANGED <<socket, bytes, push, pushes, revoked, ingress, eventLoop>>
FailedSendEnds(s) ==
    /\ s.at = "failed" /\ eventLoop
    /\ ReleaseSend(s, live, pending)
    /\ UNCHANGED <<socket, live, push, pushes, revoked, ingress, eventLoop>>

\* revoke_peer commits, then disconnects what is registered.
RevokeHost(h) ==
    /\ h \notin revoked /\ revoked' = revoked \cup {h}
    /\ UnregisterAll(OfHost(h))
    /\ UNCHANGED <<socket, bytes, sends, push, pushes, ingress, eventLoop>>

-----------------------------------------------------------------------------
(* IngressDispatcher *)

ActiveAll == FoldSet(LAMBDA h, n : n + active[h], 0, Hosts)
Run(r, h) ==
    /\ call[r] = [at |-> "none", host |-> "none"] /\ eventLoop
    /\ ActiveAll < Workers /\ active[h] < PerPeer
    /\ call' = [call EXCEPT ![r] = [at |-> "running", host |-> h]]
    /\ active' = [active EXCEPT ![h] = @ + 1]
    /\ UNCHANGED <<socket, registry, push, pushes, revoked, eventLoop>>
\* The caller is cancelled; shield() leaves the handler and its place alone.
LeaveCall(r) ==
    /\ call[r].at = "running" /\ call' = [call EXCEPT ![r].at = "left"]
    /\ UNCHANGED <<socket, registry, push, pushes, revoked, active, eventLoop>>
Execute(r) ==
    /\ call[r].at \in {"running", "left"}
    /\ call' = [call EXCEPT ![r].at = "done"]
    /\ active' = [active EXCEPT ![call[r].host] = @ - 1]
    /\ UNCHANGED <<socket, registry, push, pushes, revoked, eventLoop>>

\* lifespan ends: the server's loop goes away once the handlers are through.
CloseLoop ==
    /\ eventLoop /\ \A r \in Calls : call[r].at \notin {"running", "left"}
    /\ eventLoop' = FALSE
    /\ UNCHANGED <<socket, registry, push, pushes, revoked, ingress>>

ChannelInit ==
    /\ socket = [c \in Sockets |-> "new"] /\ live = {} /\ pending = [c \in {} |-> 0] /\ bytes = 0
    /\ sends = {} /\ push = NoPush /\ pushes = 0 /\ revoked = {} /\ eventLoop = TRUE
    /\ call = [r \in Calls |-> [at |-> "none", host |-> "none"]] /\ active = [h \in Hosts |-> 0]
ChannelNext ==
    \/ \E c \in Sockets : AcceptSocket(c) \/ Bind(c) \/ EndSocket(c) \/ CloseSocket(c)
    \/ \E h \in Hosts : RevokeHost(h) \/ \E size \in Sizes : PushBegins(h, size)
    \/ PushAuthorizes \/ PushReserves \/ PushSchedules
    \/ \E s \in sends : SendEnds(s) \/ SendFails(s) \/ FailedSendEnds(s)
    \/ \E r \in Calls : LeaveCall(r) \/ Execute(r) \/ \E h \in Hosts : Run(r, h)
    \/ CloseLoop
ChannelSpec == ChannelInit /\ [][ChannelNext]_channelVars

-----------------------------------------------------------------------------
(* Properties *)

\* "Reconnect churn cannot release the budget while old coroutines still
\* retain their frames" (channels.py): the counts are exactly the sends that
\* are out, no entry is lost while one is, none outlives its socket's last
\* send, and neither the sends of one socket nor the bytes of all of them pass
\* their bound, whatever disconnects, fails or is revoked meanwhile; and a place
\* in the pool is held for as long as a handler runs.  (The limits on connections
\* and on the pool are guards of one section each and are not asserted.)
BudgetIsExact ==
    /\ \A c \in Sockets :
          LET out == Cardinality({s \in sends : s.to = c})
          IN IF c \in DOMAIN pending
             THEN pending[c] = out /\ out <= MaxPending /\ (out = 0 => c \in live)
             ELSE out = 0 /\ c \notin live
    /\ bytes = MapThenSumSet(LAMBDA s : s.size, sends) /\ bytes <= MaxPendingBytes
    /\ \A h \in Hosts : active[h] = Cardinality({r \in Calls : call[r].host = h
                                                      /\ call[r].at \in {"running", "left"}})
=============================================================================
