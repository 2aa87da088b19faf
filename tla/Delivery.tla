------------------------------- MODULE Delivery -------------------------------
(***************************************************************************)
(* Store-and-forward delivery of signed envelopes: the durable outbox of a *)
(* sending node (edge/outbox.py), the CLI processes that drain it under a  *)
(* lock (agent_cli.py _deliver), the direct HTTP path, and the relay: the  *)
(* hub's mailboxes (transport/relay_hub.py), the waiting sender and the    *)
(* receiver's relay worker (transport/relay_client.py).                    *)
(*                                                                         *)
(* One step is one transaction, one hub request or one end of a remote     *)
(* call.  What accept() does at the receiver is IntentHarness's subject;   *)
(* here it answers, records the answer or not, and may be under way when   *)
(* a second copy of the message arrives.                                   *)
(***************************************************************************)
EXTENDS Naturals, FiniteSets, Sequences, SequencesExt

CONSTANTS MaxRow,       \* bound: messages, named by the row_id they are given
          Destinations,
          To,           \* the destination of a message
          Self,         \* the sending node's relay account
          Wrapped,      \* messages of RECEIPT_WRAPPED_KINDS
          Senders,      \* processes that drain the outbox
          Capacity,     \* of the outbox
          MaxAttempts,
          MaxMailbox,
          PollLimit,    \* frames a poll returns
          MaxLate,      \* bound: HTTP copies that nobody waits for at one time
          None

Messages == 1..MaxRow

ASSUME RowAssumption == MaxRow \in Nat
ASSUME RouteAssumption == To \in [Messages -> Destinations] /\ Self \notin Destinations
ASSUME LimitAssumption == /\ Capacity \in Nat /\ MaxAttempts \in Nat \ {0}
                          /\ MaxMailbox \in Nat /\ PollLimit \in Nat \ {0}
                          /\ MaxLate \in Nat
ASSUME SenderAssumption == None \notin Senders \cup Messages /\ Wrapped \subseteq Messages

VARIABLES
    out,      \* durable: outbox rows
    lock,     \* holder of .fasp-delivery.lock
    pc,       \* where each sender is
    batch,    \* the messages a sender claimed and has not dealt with
    expired,  \* messages whose signed expiry has passed
    stray,    \* HTTP requests on their way that nobody waits for
    running,  \* accept() calls under way that nobody waits for
    mail,     \* durable: the hub's mailboxes
    worker,   \* what each relay worker does, for which message and receipt
    inbox     \* durable at the receiver: no answer yet, or the recorded one

deliveryVars == <<out, lock, pc, batch, expired, stray, running, mail, worker, inbox>>
senderVars == <<lock, pc, batch>>

Rows == [state : {"absent", "pending", "inflight", "sent", "dead"},
         attempts : Nat]
\* A receipt carries the answer, an error or, while in dispatch, nothing.
Contents == {"ok", "error", "none"}
Content(o) == IF o \in {"ok", "none"} THEN o ELSE "error"
Frames == [kind : {"request", "response"}, msg : Messages, content : Contents]
Request(m) == [kind |-> "request", msg |-> m, content |-> "none"]
Receipt(m, c) == [kind |-> "response", msg |-> m, content |-> c]
Idle == [at |-> "idle", msg |-> None, content |-> "none"]
Accounts == Destinations \cup {Self}

Undelivered == {m \in Messages : out[m].state \in {"pending", "inflight"}}

\* A row not tried before, or one whose attempts nothing reads any more.
Row(state) == [state |-> state, attempts |-> 0]

\* The message a sender works on: a batch is sent in row order.
Cur(s) == Min(batch[s])

-----------------------------------------------------------------------------
(* The outbox *)

\* The next row; a message that has one already keeps it.
Enqueue(m) ==
    /\ out[m].state = "absent" /\ \A n \in 1..(m - 1) : out[n].state # "absent"
    /\ Cardinality(Undelivered) < Capacity
    /\ out' = [out EXCEPT ![m] = Row("pending")]
    /\ UNCHANGED <<senderVars, expired, stray, running, mail, worker, inbox>>

\* recover_inflight: an uncertain send is pending again.
Kept(r) == r                                       \* fault: rows stay in flight
Recovered(r) == IF r.state = "inflight" THEN [r EXCEPT !.state = "pending"] ELSE r
RecoverInflight == [m \in Messages |-> Recovered(out[m])]

\* claim_ready: expired rows die; then the head of each destination is
\* claimed, unless it is backing off.
Expiring(rows) == {m \in expired : rows[m].state = "pending"}
AnyPending(m, alive) == m \in alive                \* fault: order not kept
IsHead(m, alive) ==
    m \in alive /\ \A n \in alive : To[n] = To[m] => m <= n
Claimed(rows, backoff) ==
    LET alive == {m \in Messages : rows[m].state \in {"pending", "inflight"}} \ Expiring(rows)
    IN  {m \in alive \ backoff : rows[m].state = "pending" /\ IsHead(m, alive)}
ClaimReady(rows, claimed) ==
    out' = [m \in Messages |->
              IF m \in claimed THEN [rows[m] EXCEPT !.state = "inflight"]
              ELSE IF m \in Expiring(rows) THEN Row("dead")
              ELSE rows[m]]

\* mark_sent, mark_dead, mark_failed: by row_id, whatever the row's state is.
Marked(r, v) ==
    IF v # "retry" THEN Row(v)
    ELSE IF r.attempts + 1 >= MaxAttempts THEN Row("dead")
    ELSE [state |-> "pending", attempts |-> r.attempts + 1]

\* A coordinator that starts on this database recovers rows without the lock.
NodeStart ==
    /\ \E m \in Messages : out[m].state = "inflight"
    /\ out' = RecoverInflight
    /\ UNCHANGED <<senderVars, expired, stray, running, mail, worker, inbox>>

-----------------------------------------------------------------------------
(* accept() at the receiver *)

\* The messages some connection or relay worker has claimed for dispatch.
InDispatch ==
    running \cup {Cur(s) : s \in {z \in Senders : pc[z] = "served"}}
            \cup {worker[d].msg : d \in {e \in Destinations : worker[e].at = "accept"}}

\* Answers without a dispatch: verification ("refused": identity, expiry) and
\* the rate limit ("busy") come first; a recorded answer is replayed, and a
\* message in dispatch has none yet.
AtOnce(m) ==
    {"refused", "busy"} \cup
    IF m \notin expired /\ (inbox[m] # "none" \/ m \in InDispatch) THEN {inbox[m]} ELSE {}
MayDispatch(m) == m \notin expired /\ inbox[m] = "none" /\ m \notin InDispatch

\* How a dispatch ends; AdmissionRejected ("busy") is not recorded.
Dispatched == {"ok", "reject", "busy"}
Record(m, o) == inbox' = IF o = "busy" THEN inbox ELSE [inbox EXCEPT ![m] = o]

\* The rows an HTTP status leads to: 429 and 5xx are tried again, and a
\* recorded rejection may be either (resource.exhausted is a 429).
HttpVerdicts(o) == CASE o = "ok" -> {"sent"}
                     [] o = "refused" -> {"dead"}
                     [] o = "reject" -> {"dead", "retry"}
                     [] o \in {"busy", "none"} -> {"retry"}

-----------------------------------------------------------------------------
(* _deliver: one round of a draining process *)

Locked == lock # None

\* A row that failed before may be backing off.  Recovery and claim are two
\* transactions: what may come between them (an enqueue, an expiry) may as
\* well come first, and a crash between them is NodeStart.
BackedOff == {m \in Messages : out[m].state = "pending" /\ out[m].attempts > 0}

\* The lock is not waited for: whoever finds it taken gives up the round.
Round(s) ==
    /\ pc[s] = "idle" /\ ~Locked
    /\ \E backoff \in SUBSET BackedOff :
          LET claimed == Claimed(RecoverInflight, backoff)
          IN  /\ ClaimReady(RecoverInflight, claimed)
              /\ batch' = [batch EXCEPT ![s] = claimed]
              /\ IF claimed = {} THEN UNCHANGED <<lock, pc>>
                 ELSE lock' = s /\ pc' = [pc EXCEPT ![s] = "send"]
    /\ UNCHANGED <<expired, stray, running, mail, worker, inbox>>

Unlock(s) == lock' = IF lock = s THEN None ELSE lock

\* The next stage of an attempt; "sent", "retry" and "dead" end it.
Goto(s, label) == pc' = [pc EXCEPT ![s] = label] /\ UNCHANGED <<lock, batch>>

\* The endpoint or the hub is unreachable or refuses, its identity has
\* changed, there is no route, or no reply came in time.
SendFails(s) ==
    /\ pc[s] \in {"send", "post", "await"}
    /\ \E v \in {"retry", "dead"} : Goto(s, v)
    /\ UNCHANGED <<out, expired, stray, running, mail, worker, inbox>>

\* The request reaches the receiver, which answers at once or dispatches.
HttpBegin(s) ==
    /\ pc[s] = "send"
    /\ \/ \E o \in AtOnce(Cur(s)) : \E v \in HttpVerdicts(o) : Goto(s, v)
       \/ MayDispatch(Cur(s)) /\ Goto(s, "served")
    /\ UNCHANGED <<out, expired, stray, running, mail, worker, inbox>>

HttpEnd(s) ==
    /\ pc[s] = "served"
    /\ \E o \in Dispatched : /\ Record(Cur(s), o)
                             /\ \E v \in HttpVerdicts(o) : Goto(s, v)
    /\ UNCHANGED <<out, expired, stray, running, mail, worker>>

\* The caller gives up: the request is lost, still on its way, or in dispatch.
\* Transport "auto" falls back to the relay.
MoreLate == Cardinality(stray) + Cardinality(running) < MaxLate
Detached(s) == pc[s] = "served" /\ MoreLate /\ running' = running \cup {Cur(s)}
HttpTimeout(s) ==
    /\ \/ pc[s] = "send" /\ UNCHANGED <<stray, running>>
       \/ pc[s] = "send" /\ MoreLate /\ stray' = stray \cup {Cur(s)} /\ UNCHANGED running
       \/ Detached(s) /\ UNCHANGED stray
    /\ \E label \in {"retry", "post"} : Goto(s, label)
    /\ UNCHANGED <<out, expired, mail, worker, inbox>>

StrayBegin(m) ==
    /\ m \in stray
    /\ stray' = stray \ {m}
    /\ \/ MayDispatch(m) /\ running' = running \cup {m}
       \/ UNCHANGED running
    /\ UNCHANGED <<out, senderVars, expired, mail, worker, inbox>>

StrayEnd(m) ==
    /\ m \in running
    /\ running' = running \ {m}
    /\ \E o \in Dispatched : Record(m, o)
    /\ UNCHANGED <<out, senderVars, expired, stray, mail, worker>>

Mark(s) ==
    /\ pc[s] \in {"sent", "retry", "dead"}
    /\ out' = [out EXCEPT ![Cur(s)] = Marked(@, pc[s])]
    /\ batch' = [batch EXCEPT ![s] = @ \ {Cur(s)}]
    /\ IF batch'[s] = {}
       THEN pc' = [pc EXCEPT ![s] = "idle"] /\ Unlock(s)
       ELSE pc' = [pc EXCEPT ![s] = "send"] /\ UNCHANGED lock
    /\ UNCHANGED <<expired, stray, running, mail, worker, inbox>>

-----------------------------------------------------------------------------
(* The relay: hub mailboxes, the waiting sender, the receiver's worker *)

Holds(a, kind, m) == \E i \in DOMAIN mail[a] : mail[a][i].kind = kind /\ mail[a][i].msg = m
HasRoom(a) == Len(mail[a]) < MaxMailbox
\* A frame of a message and kind that is already there is kept, not replaced.
Takes(a, f) == Holds(a, f.kind, f.msg) \/ HasRoom(a)
Stored(a, f) == IF Holds(a, f.kind, f.msg) THEN mail ELSE [mail EXCEPT ![a] = Append(@, f)]
Visible(a) == {mail[a][i] : i \in 1..Min({Len(mail[a]), PollLimit})}
Place(a, kind, m) == CHOOSE i \in DOMAIN mail[a] : mail[a][i].kind = kind /\ mail[a][i].msg = m
Without(a, kind, m) ==
    IF Holds(a, kind, m) THEN [mail EXCEPT ![a] = RemoveAt(@, Place(a, kind, m))] ELSE mail

RelayPost(s) ==
    /\ pc[s] \in {"send", "post"}
    /\ LET f == Request(Cur(s))
           d == To[Cur(s)]
       IN  \/ Cur(s) \in expired /\ Goto(s, "dead") /\ UNCHANGED mail
           \/ Cur(s) \notin expired /\ Takes(d, f) /\ mail' = Stored(d, f) /\ Goto(s, "await")
           \/ Cur(s) \notin expired /\ ~Takes(d, f) /\ Goto(s, "retry") /\ UNCHANGED mail
    /\ UNCHANGED <<out, expired, stray, running, worker, inbox>>

\* The process dies: its lock is free, what it claimed stays in flight.
Die(s) ==
    /\ pc' = [pc EXCEPT ![s] = "idle"]
    /\ batch' = [batch EXCEPT ![s] = {}]
    /\ Unlock(s)

\* An error in the receipt is a rejection (400) for the wrapped kinds, and a
\* response like any other for the rest.
RelayVerdict(m, c) == IF c = "ok" \/ m \notin Wrapped THEN "sent" ELSE "dead"

\* The first visible response to this message is taken and acknowledged; a
\* receipt without a response ends the process with an exception.
AnyReceipt(m, f) == f.kind = "response"            \* fault: not this message's
IsReceipt(m, f) == f.kind = "response" /\ f.msg = m
RelayReply(s) ==
    /\ pc[s] = "await"
    /\ \E f \in Visible(Self) :
          /\ IsReceipt(Cur(s), f)
          /\ mail' = Without(Self, "response", f.msg)
          /\ IF f.content = "none" THEN Die(s) ELSE Goto(s, RelayVerdict(Cur(s), f.content))
    /\ UNCHANGED <<out, expired, stray, running, worker, inbox>>

\* process_once takes frames in order.  A frame it cannot open is dropped;
\* the envelope of any other is answered at once or dispatched.
WorkerTake(d) ==
    /\ worker[d] = Idle /\ mail[d] # <<>>
    /\ LET m == Head(mail[d]).msg
           Serve(at, c) ==
             worker' = [worker EXCEPT ![d] = [at |-> at, msg |-> m, content |-> c]]
       IN  \/ Serve("ack", "none")
           \/ \E o \in AtOnce(m) : Serve("post", Content(o))
           \/ MayDispatch(m) /\ Serve("accept", "none")
    /\ UNCHANGED <<out, senderVars, expired, stray, running, mail, inbox>>

WorkerAccept(d) ==
    /\ worker[d].at = "accept"
    /\ \E o \in Dispatched :
          /\ Record(worker[d].msg, o)
          /\ worker' = [worker EXCEPT ![d].at = "post", ![d].content = Content(o)]
    /\ UNCHANGED <<out, senderVars, expired, stray, running, mail>>

WorkerPost(d) ==
    /\ worker[d].at = "post"
    /\ LET f == Receipt(worker[d].msg, worker[d].content)
       IN  Takes(Self, f) /\ mail' = Stored(Self, f)
    /\ worker' = [worker EXCEPT ![d].at = "ack", ![d].content = "none"]
    /\ UNCHANGED <<out, senderVars, expired, stray, running, inbox>>

WorkerAck(d) ==
    /\ worker[d].at = "ack"
    /\ mail' = Without(d, "request", worker[d].msg)
    /\ worker' = [worker EXCEPT ![d] = Idle]
    /\ UNCHANGED <<out, senderVars, expired, stray, running, inbox>>

\* The hub refused or could not be reached, or the receiver restarted: the
\* frame stays and is served again.
WorkerFails(d) ==
    /\ worker[d] # Idle
    /\ worker' = [worker EXCEPT ![d] = Idle]
    /\ UNCHANGED <<out, senderVars, expired, stray, running, mail, inbox>>

-----------------------------------------------------------------------------
(* Time and crashes *)

\* A signed envelope expires, and its relay frame with it.  (What expiry does
\* to the copies of a message already sent or dead, a refusal or a dropped
\* frame, can happen to them anyway.)
Expire(m) ==
    /\ m \in Undelivered \ expired
    /\ expired' = expired \cup {m}
    /\ mail' = Without(To[m], "request", m)
    /\ UNCHANGED <<out, senderVars, stray, running, worker, inbox>>

\* A response frame lives ninety seconds.
ResponseExpires(m) ==
    /\ Holds(Self, "response", m)
    /\ mail' = Without(Self, "response", m)
    /\ UNCHANGED <<out, senderVars, expired, stray, running, worker, inbox>>

Crash(s) ==
    /\ \/ Detached(s)
       \/ pc[s] \notin {"idle", "served"} /\ UNCHANGED running
    /\ Die(s)
    /\ UNCHANGED <<out, expired, stray, mail, worker, inbox>>

DeliveryInit ==
    /\ out = [m \in Messages |-> Row("absent")]
    /\ lock = None
    /\ pc = [s \in Senders |-> "idle"]
    /\ batch = [s \in Senders |-> {}]
    /\ expired = {} /\ stray = {} /\ running = {}
    /\ mail = [a \in Accounts |-> <<>>]
    /\ worker = [d \in Destinations |-> Idle]
    /\ inbox = [m \in Messages |-> "none"]

SenderStep(s) ==
    \/ SendFails(s) \/ HttpBegin(s) \/ HttpEnd(s) \/ HttpTimeout(s)
    \/ RelayPost(s) \/ RelayReply(s) \/ Mark(s)
MessageStep(m) ==
    Enqueue(m) \/ StrayBegin(m) \/ StrayEnd(m) \/ Expire(m) \/ ResponseExpires(m)
WorkerStep(d) ==
    WorkerTake(d) \/ WorkerAccept(d) \/ WorkerPost(d) \/ WorkerAck(d) \/ WorkerFails(d)

DeliveryNext ==
    \/ \E s \in Senders : Round(s) \/ SenderStep(s) \/ Crash(s)
    \/ \E m \in Messages : MessageStep(m)
    \/ \E d \in Destinations : WorkerStep(d)
    \/ NodeStart

DeliverySpec == DeliveryInit /\ [][DeliveryNext]_deliveryVars

-----------------------------------------------------------------------------
(* Properties *)

\* One type invariant for the rows, the senders, the mailboxes and workers.
DeliveryTypeOK ==
    /\ out \in [Messages -> Rows]
    /\ lock \in Senders \cup {None}
    /\ pc \in [Senders -> {"idle", "send", "served", "post", "await",
                           "sent", "retry", "dead"}]
    /\ batch \in [Senders -> SUBSET Messages]
    /\ expired \subseteq Messages /\ stray \subseteq Messages /\ running \subseteq Messages
    /\ mail \in [Accounts -> Seq(Frames)]
    /\ worker \in [Destinations -> [at : {"idle", "accept", "post", "ack"},
                                   msg : Messages \cup {None}, content : Contents]]
    /\ inbox \in [Messages -> {"none", "ok", "reject"}]

\* A message of a wrapped kind that the outbox records as sent was accepted
\* by its receiver, whatever was lost, repeated, left in a mailbox or served
\* late ("0 delivered/accepted", AGENT_CLI.md).
SentIsAccepted ==
    \A m \in Wrapped : out[m].state = "sent" => inbox[m] = "ok"

\* Messages to one destination take effect in the order they were enqueued,
\* unless the earlier one was given up ("a cancel cannot overtake the order
\* it cancels", outbox.py).
OvertakenOnlyIfDead ==
    [][\A m \in Wrapped : inbox[m] # "ok" /\ inbox'[m] = "ok" =>
          \/ out[m].state = "dead"
          \/ \A n \in Messages : To[n] = To[m] /\ n > m => inbox[n] # "ok"
      ]_deliveryVars

\* Drain rounds are started whenever none is under way, the calls of a round
\* end (with an answer or by their timeout), and signed envelopes expire.
\* Nothing is assumed of the network, the hub or the receiver.
DeliveryFairness ==
    /\ WF_deliveryVars(\E s \in Senders : Round(s) \/ SenderStep(s))
    /\ WF_deliveryVars(\E m \in Messages : Expire(m))
FairDeliverySpec == DeliverySpec /\ DeliveryFairness

\* The finitely many messages all end, sent or dead, and stay so: no crash,
\* lost receipt or busy receiver leaves one in flight for ever, blocking its
\* destination.
QueueDrains == <>[](Undelivered = {})
=============================================================================
