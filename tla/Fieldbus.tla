--------------------------------- MODULE Fieldbus ---------------------------------
(***************************************************************************)
(* The Modbus/TCP path to a safety controller (industrial/modbus.py): two  *)
(* threads share one client, whose lock covers a request and its reply,    *)
(* the in-process server serves what reaches it, and the plant changes its *)
(* bits at any time.                                                       *)
(*                                                                         *)
(* A step is what happens between two points where another thread can run: *)
(* sending under the lock, the server's handling of one frame, the reply's *)
(* arrival or its failure.  A frame is its transaction id, its function    *)
(* and, for a read, the block of bits it carries.                          *)
(***************************************************************************)
EXTENDS Integers, Sequences, FiniteSets

CONSTANTS Signals,            \* the declared signals
          SpaceOf(_),         \* "coil" or "discrete_input"
          ActiveLow(_), SafetyRelevant(_),
          ReadOnlyCoils,      \* signals whose coil the server will not write
          Threads,            \* callers of the client
          TransactionIds,     \* 65536 in the code
          MaxRequests,        \* bound: requests sent
          MaxChanges          \* bound: changes of the plant by itself

ASSUME FieldbusAssumption ==
    /\ TransactionIds \in Nat \ {0} /\ {MaxRequests, MaxChanges} \subseteq Nat
    /\ \A s \in Signals : {ActiveLow(s), SafetyRelevant(s)} \subseteq BOOLEAN

VARIABLES
    plant,      \* ModbusDataStore: the bit of each signal
    wire,       \* the client's socket: [open, requests, replies], FIFO both ways
    orphans,    \* requests on sockets the client has closed
    transaction,\* _transaction
    requests, changes,  \* so far
    holder,     \* who holds the client's _lock: at most one thread
    caller      \* each thread: [at, todo, got, seen, asks]

fieldVars == <<plant, wire, orphans, transaction, requests, changes, holder, caller>>
Spaces == {SpaceOf(s) : s \in Signals}
InSpace(p) == {s \in Signals : SpaceOf(s) = p}
NoWire == [open |-> FALSE, requests |-> <<>>, replies |-> <<>>]
NoAsk == [op |-> "none", signal |-> "none", value |-> FALSE]
IdleCaller == [at |-> "idle", todo |-> {}, got |-> [s \in {} |-> FALSE], seen |-> {}, asks |-> NoAsk]

-----------------------------------------------------------------------------
(* SafetyRegisterMap and the client's calls *)

\* SignalMapping.evaluate: a broken wire of an active-low signal reads unsafe.
Evaluate(s, raw) == IF ActiveLow(s) THEN ~raw ELSE raw

\* read(): one contiguous block for each address space.
ReadSignals(t) ==
    /\ caller[t].at = "idle"
    /\ caller' = [caller EXCEPT ![t] =
                     [IdleCaller EXCEPT !.at = "ready", !.todo = Spaces, !.seen = {plant}]]
    /\ UNCHANGED <<plant, wire, orphans, transaction, requests, changes, holder>>

\* write_coil on a signal that writable_signal() hands out.
WriteSignal(t, s, v) ==
    /\ caller[t].at = "idle" /\ SpaceOf(s) = "coil" /\ ~SafetyRelevant(s)
    /\ caller' = [caller EXCEPT ![t] =
                     [IdleCaller EXCEPT !.at = "ready",
                                        !.asks = [op |-> "write", signal |-> s, value |-> v]]]
    /\ UNCHANGED <<plant, wire, orphans, transaction, requests, changes, holder>>

\* _transact, to the end of sendall.  _connect_locked opens a socket if there
\* is none; a refused connection raises with nothing sent.
Frame(n, ask, p) == [id |-> n, op |-> ask.op, signal |-> ask.signal, value |-> ask.value, space |-> p]
Transact(t) ==
    /\ caller[t].at = "ready" /\ holder = {} /\ requests < MaxRequests
    /\ \E p \in IF caller[t].asks.op = "write" THEN {"coil"} ELSE caller[t].todo :
         LET n == (transaction + 1) % TransactionIds
             ask == IF caller[t].asks.op = "write" THEN caller[t].asks ELSE [NoAsk EXCEPT !.op = "read"]
         IN /\ wire' = [wire EXCEPT !.open = TRUE, !.requests = Append(@, Frame(n, ask, p))]
            /\ transaction' = n /\ requests' = requests + 1
    /\ holder' = {t}
    /\ caller' = [caller EXCEPT ![t].at = "waiting"]
    /\ UNCHANGED <<plant, orphans, changes>>
Raise(t) == caller' = [caller EXCEPT ![t] = [IdleCaller EXCEPT !.at = "failed"]]
Unreachable(t) ==
    /\ caller[t].at = "ready" /\ holder = {} /\ ~wire.open
    /\ Raise(t)
    /\ UNCHANGED <<plant, wire, orphans, transaction, requests, changes, holder>>

\* The reply is in.  The transaction and function tests come after the lock
\* is released and leave the socket as it is.
Received(t) ==
    /\ caller[t].at = "waiting" /\ wire.replies # <<>>
    /\ wire' = [wire EXCEPT !.replies = Tail(@)] /\ holder' = {}
    /\ LET r == Head(wire.replies)
           got == [s \in DOMAIN caller[t].got \cup InSpace(r.space) |->
                      IF s \in InSpace(r.space) THEN Evaluate(s, r.block[s]) ELSE caller[t].got[s]]
           left == caller[t].todo \ {r.space}
       IN IF r.id # transaction \/ r.op \in {"exception"} THEN Raise(t)
          ELSE IF r.op = "write" THEN caller' = [caller EXCEPT ![t].at = "done"]
          ELSE caller' = [caller EXCEPT ![t].got = got, ![t].todo = left,
                                        ![t].at = IF left = {} THEN "done" ELSE "ready"]
    /\ UNCHANGED <<plant, orphans, transaction, requests, changes>>

\* _drop_locked: the socket is closed; what was sent on it may still be served.
DropLockedKeeps == UNCHANGED <<wire, orphans>>               \* fault: the socket is kept
DropLocked ==
    /\ wire' = NoWire
    /\ orphans' = orphans \cup {wire.requests[i] : i \in DOMAIN wire.requests}

\* No reply in time, a closed connection, a truncated or malformed reply.
RequestFails(t) ==
    /\ caller[t].at = "waiting"
    /\ DropLocked /\ holder' = {} /\ Raise(t)
    /\ UNCHANGED <<plant, transaction, requests, changes>>

\* close(), from any thread, waits for the lock.
CloseClient ==
    /\ holder = {} /\ wire.open
    /\ wire' = NoWire /\ orphans' = orphans \cup {wire.requests[i] : i \in DOMAIN wire.requests}
    /\ UNCHANGED <<plant, transaction, requests, changes, holder, caller>>
Return(t) ==
    /\ caller[t].at \in {"done", "failed"}
    /\ caller' = [caller EXCEPT ![t] = IdleCaller]
    /\ UNCHANGED <<plant, wire, orphans, transaction, requests, changes, holder>>

-----------------------------------------------------------------------------
(* The server and the plant *)

Sees(new) == [t \in Threads |-> IF caller[t].seen = {} THEN caller[t]
                                ELSE [caller[t] EXCEPT !.seen = @ \cup {new}]]
\* _serve_pdu: the store after a request, and the reply to it.
Stored(f) == IF f.op = "write" /\ f.signal \notin ReadOnlyCoils
             THEN [plant EXCEPT ![f.signal] = f.value] ELSE plant
ReplyTo(f) ==
    LET op == IF f.op = "write" /\ f.signal \in ReadOnlyCoils THEN "exception" ELSE f.op
    IN [id |-> f.id, op |-> op, space |-> f.space,
        block |-> [s \in IF op = "read" THEN InSpace(f.space) ELSE {} |-> plant[s]]]

Serve ==
    /\ wire.requests # <<>>
    /\ LET f == Head(wire.requests)
       IN /\ plant' = Stored(f) /\ caller' = Sees(Stored(f))
          /\ wire' = [wire EXCEPT !.requests = Tail(@), !.replies = Append(@, ReplyTo(f))]
    /\ UNCHANGED <<orphans, transaction, requests, changes, holder>>
\* The handler of a closed connection reaches a frame it had received.
ServeOrphan ==
    /\ \E f \in orphans : /\ plant' = Stored(f) /\ caller' = Sees(Stored(f))
                          /\ orphans' = orphans \ {f}
    /\ UNCHANGED <<wire, transaction, requests, changes, holder>>
PlantChanges(s) ==
    /\ changes < MaxChanges /\ changes' = changes + 1
    /\ plant' = [plant EXCEPT ![s] = ~@] /\ caller' = Sees(plant')
    /\ UNCHANGED <<wire, orphans, transaction, requests, holder>>

FieldbusInit ==
    /\ plant = [s \in Signals |-> FALSE] /\ wire = NoWire /\ orphans = {} /\ transaction = 0
    /\ requests = 0 /\ changes = 0 /\ holder = {} /\ caller = [t \in Threads |-> IdleCaller]
FieldbusNext ==
    \/ \E t \in Threads : \/ ReadSignals(t) \/ Transact(t) \/ Unreachable(t)
                          \/ Received(t) \/ RequestFails(t) \/ Return(t)
    \/ \E t \in Threads, s \in Signals, v \in BOOLEAN : WriteSignal(t, s, v)
    \/ CloseClient \/ Serve \/ ServeOrphan \/ \E s \in Signals : PlantChanges(s)
FieldbusSpec == FieldbusInit /\ [][FieldbusNext]_fieldVars

-----------------------------------------------------------------------------
(* Properties *)

Bits == [Signals -> BOOLEAN]
Readings == UNION {[D -> BOOLEAN] : D \in SUBSET Signals}
RequestFrames == [id : Nat, op : {"read", "write"}, signal : Signals \cup {"none"},
                  value : BOOLEAN, space : Spaces \cup {"coil"}]
ReplyFrames == [id : Nat, op : {"read", "write", "exception"}, space : Spaces \cup {"coil"},
                block : Readings]
Callers == [at : {"idle", "ready", "waiting", "done", "failed"}, todo : SUBSET Spaces,
            got : Readings, seen : SUBSET Bits,
            asks : [op : {"none", "write"}, signal : Signals \cup {"none"}, value : BOOLEAN]]

\* Types of the client, its callers and what is on the way (_transact()).
FieldbusTypeOK ==
    /\ plant \in Bits
    /\ wire \in [open : BOOLEAN, requests : Seq(RequestFrames), replies : Seq(ReplyFrames)]
    /\ orphans \subseteq RequestFrames
    /\ {transaction, requests, changes} \subseteq Nat
    /\ holder \subseteq Threads
    /\ caller \in [Threads -> Callers]

\* What read() returns of one address space is what the controller showed at
\* one instant of the call, with every signal's polarity applied, and a
\* socket that is kept for the next call carries nothing of an earlier one:
\* whatever timed out, was closed or was written meanwhile.
SampleIsFresh ==
    /\ holder = {} /\ wire.open => wire.requests = <<>> /\ wire.replies = <<>>
    /\ \A t \in Threads, p \in Spaces :
          InSpace(p) \subseteq DOMAIN caller[t].got =>
             \E bits \in caller[t].seen :
                \A s \in InSpace(p) : caller[t].got[s] = (bits[s] # ActiveLow(s))
=============================================================================
