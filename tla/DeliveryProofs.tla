---------------------------- MODULE DeliveryProofs ----------------------------
(***************************************************************************)
(* Machine-checked facts about Delivery, for any number of messages,       *)
(* destinations, draining processes and copies.  Two sets only grow: Due,  *)
(* the messages whose turn has come at their destination, and Accepted;    *)
(* the inductive invariant says that every copy of a message, wherever it  *)
(* is, is of a due one, and every good receipt of an accepted one.         *)
(***************************************************************************)
EXTENDS Delivery, SequenceTheorems, WellFoundedInduction, TLAPS

Final == {"sent", "dead"}

\* The messages whose predecessors to the same destination are settled.
Due == {n \in Messages :
          /\ out[n].state # "absent"
          /\ \A m \in Messages : m < n /\ To[m] = To[n] => out[m].state \in Final}
Accepted == {m \in Messages : inbox[m] = "ok"}

\* A process that works on a batch holds the lock, and its rows are open.
LockInv ==
    \A s \in Senders :
        /\ pc[s] # "idle" => lock = s
        /\ batch[s] # {} <=> pc[s] # "idle"
        /\ \A m \in batch[s] : out[m].state \in {"pending", "inflight"}

RowsInOrder ==
    \A m, n \in Messages : m < n /\ out[n].state # "absent" => out[m].state # "absent"

\* Wherever a message has gone, its turn had come.
DueFrames == {f \in Frames : f.msg \in Due}
TurnInv ==
    /\ \A s \in Senders : batch[s] \subseteq Due
    /\ stray \subseteq Due /\ running \subseteq Due
    /\ \A d \in Destinations : /\ worker[d].msg \in Due \cup {None}
                               /\ worker[d].at # "idle" => worker[d].msg \in Due
                               /\ mail[d] \in Seq(DueFrames)
    /\ \A m \in Messages : inbox[m] # "none" => m \in Due

\* A message in dispatch has no answer yet, and is in dispatch once.
Serves(s, m) == pc[s] = "served" /\ Cur(s) = m
Accepts(d, m) == worker[d].at = "accept" /\ worker[d].msg = m
DispatchInv ==
    /\ \A m \in running : inbox[m] = "none"
    /\ \A s \in Senders, m \in Messages : Serves(s, m) => inbox[m] = "none" /\ m \notin running
    /\ \A d \in Destinations, m \in Messages : Accepts(d, m) =>
          /\ inbox[m] = "none" /\ m \notin running
          /\ \A s \in Senders : ~Serves(s, m)
          /\ \A e \in Destinations : e # d => ~Accepts(e, m)

\* Good news is true: in a row, with a sender, a worker or in a mailbox.
TrueReceipts == {f \in Frames : f.content = "ok" => f.msg \in Accepted}
ReceiptInv ==
    /\ SentIsAccepted
    /\ \A s \in Senders : pc[s] = "sent" /\ Cur(s) \in Wrapped => Cur(s) \in Accepted
    /\ \A d \in Destinations : worker[d].content = "ok" => worker[d].msg \in Accepted
    /\ mail[Self] \in Seq(TrueReceipts)

DeliveryInv ==
    DeliveryTypeOK /\ LockInv /\ RowsInOrder /\ TurnInv /\ DispatchInv /\ ReceiptInv

-----------------------------------------------------------------------------
(* Operators *)

\* A set of row numbers has a smallest one.
LEMMA SmallestIn ==
    ASSUME NEW S \in SUBSET Messages, S # {}
    PROVE  Min(S) \in S /\ \A x \in S : Min(S) <= x
  <1> DEFINE Less == {p \in Nat \X Nat : p[1] < p[2]}
  <1>1. S \subseteq Nat BY RowAssumption DEF Messages
  <1>2. IsWellFoundedOn(Less, Nat)
    BY NatLessThanWellFounded DEF OpToRel
  <1>3. PICK x \in S : \A y \in S : <<y, x>> \notin Less
    <2> HIDE DEF Less
    <2> QED BY <1>1, <1>2, WFMin
  <1>4. \A y \in S : x <= y
    <2> TAKE y \in S
    <2>1. <<y, x>> \in Nat \X Nat BY <1>1
    <2>2. ~(<<y, x>>[1] < <<y, x>>[2]) BY <1>3, <2>1
    <2> QED BY <1>1, <2>2
  <1> QED BY <1>4 DEF Min

LEMMA CurIn ==
    ASSUME DeliveryTypeOK, NEW s \in Senders, batch[s] # {}
    PROVE  Cur(s) \in batch[s] /\ Cur(s) \in Messages
  BY SmallestIn DEF DeliveryTypeOK, Cur

LEMMA SeqGrows ==
    ASSUME NEW F, NEW G, NEW q \in Seq(F), F \subseteq G
    PROVE  q \in Seq(G)
  OBVIOUS

\* What posting, acknowledging and reading do to the frames of a mailbox.
LEMMA StoredMail ==
    ASSUME mail \in [Accounts -> Seq(Frames)], NEW a \in Accounts, NEW f \in Frames,
           NEW G, mail[a] \in Seq(G), f \in G
    PROVE  /\ Stored(a, f) \in [Accounts -> Seq(Frames)]
           /\ Stored(a, f)[a] \in Seq(G)
           /\ \A b \in Accounts : b # a => Stored(a, f)[b] = mail[b]
  BY DEF Stored

LEMMA WithoutMail ==
    ASSUME mail \in [Accounts -> Seq(Frames)], NEW a \in Accounts, NEW kind, NEW m,
           NEW G, mail[a] \in Seq(G)
    PROVE  /\ Without(a, kind, m) \in [Accounts -> Seq(Frames)]
           /\ Without(a, kind, m)[a] \in Seq(G)
           /\ \A b \in Accounts : b # a => Without(a, kind, m)[b] = mail[b]
  <1>1. CASE Holds(a, kind, m)
    <2>1. Place(a, kind, m) \in 1..Len(mail[a])
      BY <1>1 DEF Holds, Place
    <2>2. RemoveAt(mail[a], Place(a, kind, m)) \in Seq(G)
      BY <2>1 DEF RemoveAt
    <2>3. RemoveAt(mail[a], Place(a, kind, m)) \in Seq(Frames)
      BY <2>1 DEF RemoveAt
    <2> QED BY <1>1, <2>2, <2>3 DEF Without
  <1>2. CASE ~Holds(a, kind, m) BY <1>2 DEF Without
  <1> QED BY <1>1, <1>2

LEMMA WithoutOthers ==
    ASSUME mail \in [Accounts -> Seq(Frames)], NEW a \in Accounts, NEW kind, NEW m
    PROVE  /\ Without(a, kind, m) \in [Accounts -> Seq(Frames)]
           /\ \A b \in Accounts : b # a => Without(a, kind, m)[b] = mail[b]
  <1>1. mail[a] \in Seq(Frames) OBVIOUS
  <1>2. Without(a, kind, m) \in [Accounts -> Seq(Frames)] BY <1>1, WithoutMail
  <1> QED BY <1>2 DEF Without

LEMMA VisibleFrames ==
    ASSUME NEW a \in Accounts, NEW G, mail[a] \in Seq(G), NEW f \in Visible(a)
    PROVE  f \in G
  <1>1. Min({Len(mail[a]), PollLimit}) <= Len(mail[a])
        /\ Min({Len(mail[a]), PollLimit}) \in Nat
    <2>1. Len(mail[a]) \in Nat /\ PollLimit \in Nat BY LimitAssumption
    <2>2. \E x \in {Len(mail[a]), PollLimit} : \A y \in {Len(mail[a]), PollLimit} : x <= y
      BY <2>1
    <2> QED BY <2>1, <2>2 DEF Min
  <1> QED BY <1>1 DEF Visible

LEMMA Answers ==
    ASSUME DeliveryTypeOK, NEW m \in Messages, NEW o
    PROVE  /\ o \in AtOnce(m) => o \in {"refused", "busy", "none", "ok", "reject"}
           /\ o \in AtOnce(m) /\ o = "ok" => m \in Accepted
           /\ o \in {"refused", "busy", "none", "ok", "reject"} =>
                 /\ HttpVerdicts(o) \subseteq {"sent", "dead", "retry"}
                 /\ "sent" \in HttpVerdicts(o) => o = "ok"
                 /\ Content(o) \in Contents
                 /\ Content(o) = "ok" => o = "ok"
           /\ o \in Dispatched => o \in {"refused", "busy", "none", "ok", "reject"}
  <1>1. o \in AtOnce(m) => o \in {"refused", "busy", "none", "ok", "reject"}
                           /\ (o = "ok" => m \in Accepted)
    BY DEF DeliveryTypeOK, AtOnce, Accepted
  <1>2. o \in {"refused", "busy", "none", "ok", "reject"} =>
                 /\ HttpVerdicts(o) \subseteq {"sent", "dead", "retry"}
                 /\ "sent" \in HttpVerdicts(o) => o = "ok"
    BY DEF HttpVerdicts
  <1>3. o \in {"refused", "busy", "none", "ok", "reject"} => 
                 Content(o) \in Contents /\ (Content(o) = "ok" => o = "ok")
    BY DEF Content, Contents
  <1> QED BY <1>1, <1>2, <1>3 DEF Dispatched

LEMMA MarkedRow ==
    ASSUME NEW r \in Rows, NEW v \in {"sent", "retry", "dead"}
    PROVE  /\ Marked(r, v) \in Rows /\ Marked(r, v).state \in {"sent", "dead", "pending"}
           /\ Marked(r, v).state = "sent" => v = "sent"
  BY LimitAssumption DEF Rows, Marked, Row

-----------------------------------------------------------------------------
(* Rows: the outbox settles every row once, and claims in order *)

LEMMA RecoveredRows ==
    ASSUME DeliveryTypeOK, NEW m \in Messages
    PROVE  /\ RecoverInflight[m] \in Rows
           /\ out[m].state \notin {"pending", "inflight"} => RecoverInflight[m] = out[m]
           /\ out[m].state \in {"pending", "inflight"} => RecoverInflight[m].state = "pending"
  BY DEF DeliveryTypeOK, RecoverInflight, Recovered, Rows

\* claim_ready kills what expired and claims nothing before its turn.
LEMMA ClaimStep ==
    ASSUME DeliveryTypeOK, RowsInOrder, NEW backoff, NEW claimed,
           claimed = Claimed(RecoverInflight, backoff), ClaimReady(RecoverInflight, claimed)
    PROVE  /\ out' \in [Messages -> Rows] /\ claimed \subseteq Messages
           /\ \A m \in Messages :
                /\ out[m].state \notin {"pending", "inflight"} => out'[m] = out[m]
                /\ out[m].state \in {"pending", "inflight"} => out'[m].state \in {"pending", "inflight", "dead"}
                /\ m \in claimed => out'[m].state = "inflight"
           /\ claimed \subseteq Due'
  <1> DEFINE rows == RecoverInflight
             open == {m \in Messages : rows[m].state \in {"pending", "inflight"}} \ Expiring(rows)
  <1>1. /\ claimed \subseteq open
        /\ \A m \in claimed : rows[m].state = "pending"
                              /\ \A n \in open : To[n] = To[m] => m <= n
    BY DEF Claimed, IsHead
  <1>2. \A m \in Messages :
           out'[m] = IF m \in claimed THEN [rows[m] EXCEPT !.state = "inflight"]
                     ELSE IF m \in Expiring(rows) THEN Row("dead") ELSE rows[m]
    BY DEF ClaimReady
  <1>3. \A m \in Messages : /\ rows[m] \in Rows
                            /\ out[m].state \notin {"pending", "inflight"} => rows[m] = out[m]
                            /\ out[m].state \in {"pending", "inflight"} => rows[m].state = "pending"
    BY RecoveredRows
  <1>4. \A m \in Expiring(rows) : rows[m].state = "pending" /\ m \in Messages
    BY DEF Expiring, DeliveryTypeOK
  <1>5a. Row("dead") \in Rows /\ Row("dead").state = "dead" BY DEF Row, Rows
  <1>5. DOMAIN out' = Messages /\ \E f : out' = [m \in Messages |-> f[m]]
    <2>1. out' = [m \in Messages |-> out'[m]] BY DEF ClaimReady
    <2> QED BY <2>1
  <1> HIDE DEF rows
  <1>6. \A m \in Messages :
           /\ out'[m] \in Rows
           /\ out[m].state \notin {"pending", "inflight"} => out'[m] = out[m]
           /\ out[m].state \in {"pending", "inflight"} => out'[m].state \in {"pending", "inflight", "dead"}
           /\ m \in claimed => out'[m].state = "inflight"
    <2> TAKE m \in Messages
    <2>1. m \in claimed \/ m \in Expiring(rows) => out[m].state \in {"pending", "inflight"}
      BY <1>1, <1>3, <1>4
    <2>2. CASE m \in claimed BY <1>2, <1>3, <2>1, <2>2 DEF Rows
    <2>3. CASE m \notin claimed /\ m \in Expiring(rows) BY <1>2, <1>5a, <2>1, <2>3
    <2>4. CASE m \notin claimed /\ m \notin Expiring(rows) BY <1>2, <1>3, <2>1, <2>4 DEF Rows
    <2> QED BY <2>2, <2>3, <2>4
  <1>7. claimed \subseteq Due'
    <2> SUFFICES ASSUME NEW n \in claimed PROVE n \in Due' OBVIOUS
    <2>1. n \in Messages /\ out'[n].state = "inflight" /\ out[n].state # "absent"
      BY <1>1, <1>3, <1>6
    <2>2. ASSUME NEW m \in Messages, m < n, To[m] = To[n]
          PROVE  out'[m].state \in Final
      <3>1. out[m].state # "absent" BY <2>1, <2>2 DEF RowsInOrder
      <3>2. m \notin open
        <4>1. m \in Nat /\ n \in Nat BY <2>1, RowAssumption DEF Messages
        <4> QED BY <1>1, <2>2, <4>1
      <3>3. CASE out[m].state \in {"pending", "inflight"}
        <4>1. m \in Expiring(rows) /\ m \notin claimed BY <1>1, <1>3, <3>2, <3>3
        <4> QED BY <1>2, <1>5a, <4>1 DEF Final
      <3>4. CASE out[m].state \in Final
        BY <1>6, <3>4 DEF Final
      <3> QED BY <3>1, <3>3, <3>4 DEF DeliveryTypeOK, Rows, Final
    <2> QED BY <2>1, <2>2 DEF Due
  <1>8. out' \in [Messages -> Rows] BY <1>5, <1>6
  <1> QED BY <1>1, <1>6, <1>7, <1>8

\* What a step may do to the rows: a settled row stays as it is, none is
\* forgotten, and only the answer a sender has makes one sent.
LEMMA OutStep ==
    ASSUME DeliveryInv, [DeliveryNext]_deliveryVars
    PROVE  /\ out' \in [Messages -> Rows]
           /\ RowsInOrder'
           /\ \A m \in Messages :
                /\ out[m].state \in Final => out'[m].state = out[m].state
                /\ out[m].state # "absent" => out'[m].state # "absent"
                /\ out'[m].state = "sent" => \/ out[m].state = "sent"
                                             \/ \E s \in Senders : pc[s] = "sent" /\ m = Cur(s)
  <1> DEFINE Effect ==
           /\ out' \in [Messages -> Rows]
           /\ RowsInOrder'
           /\ \A m \in Messages :
                /\ out[m].state \in Final => out'[m].state = out[m].state
                /\ out[m].state # "absent" => out'[m].state # "absent"
                /\ out'[m].state = "sent" => \/ out[m].state = "sent"
                                             \/ \E s \in Senders : pc[s] = "sent" /\ m = Cur(s)
  <1>0. DeliveryTypeOK /\ RowsInOrder /\ out \in [Messages -> Rows] /\ LockInv
    BY DEF DeliveryInv, DeliveryTypeOK
  <1>1. CASE out' = out
    BY <1>0, <1>1 DEF RowsInOrder
  <1>2. ASSUME NEW m \in Messages, Enqueue(m) PROVE Effect
    <2>1. /\ out' = [out EXCEPT ![m] = Row("pending")] /\ out[m].state = "absent"
          /\ \A n \in 1..(m - 1) : out[n].state # "absent"
      BY <1>2 DEF Enqueue
    <2>2. Row("pending") \in Rows BY DEF Row, Rows
    <2>3. RowsInOrder'
      <3> SUFFICES ASSUME NEW x \in Messages, NEW n \in Messages, x < n, out'[n].state # "absent"
                   PROVE  out'[x].state # "absent"
        BY DEF RowsInOrder
      <3>1. CASE n = m
        <4>1. x \in 1..(m - 1) BY <3>1, RowAssumption DEF Messages
        <4> QED BY <1>0, <2>1, <4>1 DEF Row
      <3>2. CASE n # m BY <1>0, <2>1, <3>2 DEF RowsInOrder, Row
      <3> QED BY <3>1, <3>2
    <2> QED BY <1>0, <2>1, <2>2, <2>3 DEF Row, Final
  <1>3. CASE NodeStart
    <2>1. out' = RecoverInflight BY <1>3 DEF NodeStart
    <2>2. out' \in [Messages -> Rows] BY <1>0, <2>1, RecoveredRows DEF RecoverInflight
    <2>3. \A m \in Messages :
            /\ out[m].state \notin {"pending", "inflight"} => out'[m] = out[m]
            /\ out[m].state \in {"pending", "inflight"} => out'[m].state = "pending"
      BY <1>0, <2>1, RecoveredRows
    <2> QED BY <1>0, <2>2, <2>3 DEF Final, RowsInOrder, Rows
  <1>4. ASSUME NEW s \in Senders, Round(s) PROVE Effect
    <2>1. PICK backoff : ClaimReady(RecoverInflight, Claimed(RecoverInflight, backoff))
      BY <1>4 DEF Round
    <2>2. /\ out' \in [Messages -> Rows]
          /\ \A m \in Messages :
                /\ out[m].state \notin {"pending", "inflight"} => out'[m] = out[m]
                /\ out[m].state \in {"pending", "inflight"} => out'[m].state \in {"pending", "inflight", "dead"}
      BY <1>0, <2>1, ClaimStep
    <2> QED BY <1>0, <2>2 DEF Final, RowsInOrder, Rows
  <1>5. ASSUME NEW s \in Senders, Mark(s) PROVE Effect
    <2>1. /\ pc[s] \in {"sent", "retry", "dead"}
          /\ out' = [out EXCEPT ![Cur(s)] = Marked(out[Cur(s)], pc[s])]
      BY <1>5 DEF Mark
    <2>2. Cur(s) \in batch[s] /\ Cur(s) \in Messages
      BY <1>0, <2>1, CurIn DEF LockInv
    <2>3. out[Cur(s)].state \in {"pending", "inflight"} BY <1>0, <2>2 DEF LockInv
    <2>4. /\ Marked(out[Cur(s)], pc[s]) \in Rows
          /\ Marked(out[Cur(s)], pc[s]).state \in {"sent", "dead", "pending"}
          /\ Marked(out[Cur(s)], pc[s]).state = "sent" => pc[s] = "sent"
      BY <1>0, <2>1, <2>2, MarkedRow
    <2>5. PICK c \in Messages : c = Cur(s) BY <2>2
    <2>6. PICK r \in Rows : r = Marked(out[Cur(s)], pc[s]) BY <2>4
    <2>7. out' = [out EXCEPT ![c] = r] /\ r.state \in {"sent", "dead", "pending"}
          /\ (r.state = "sent" => pc[s] = "sent" /\ c = Cur(s))
          /\ out[c].state \in {"pending", "inflight"}
      BY <2>1, <2>3, <2>4, <2>5, <2>6
    <2> QED BY <1>0, <2>7 DEF Final, RowsInOrder, Rows
  <1>6. ASSUME NEW s \in Senders,
               SendFails(s) \/ HttpBegin(s) \/ HttpEnd(s) \/ HttpTimeout(s) \/ RelayPost(s) \/ RelayReply(s) \/ Crash(s)
        PROVE  out' = out
    BY <1>6 DEF SendFails, HttpBegin, HttpEnd, HttpTimeout, RelayPost, RelayReply, Crash
  <1>7. ASSUME NEW m \in Messages, StrayBegin(m) \/ StrayEnd(m) \/ Expire(m) \/ ResponseExpires(m)
        PROVE  out' = out
    BY <1>7 DEF StrayBegin, StrayEnd, Expire, ResponseExpires
  <1>8. ASSUME NEW d \in Destinations, WorkerStep(d) PROVE out' = out
    BY <1>8 DEF WorkerStep, WorkerTake, WorkerAccept, WorkerPost, WorkerAck, WorkerFails
  <1>9. UNCHANGED deliveryVars => out' = out BY DEF deliveryVars
  <1> HIDE DEF Effect
  <1>10. Effect
    <2>1. CASE out' = out BY <1>1, <2>1 DEF Effect
    <2>2. ASSUME NEW s \in Senders, Round(s) \/ SenderStep(s) \/ Crash(s) PROVE Effect
      BY <1>4, <1>5, <1>6, <2>1, <2>2 DEF SenderStep
    <2>3. ASSUME NEW m \in Messages, MessageStep(m) PROVE Effect
      BY <1>2, <1>7, <2>1, <2>3 DEF MessageStep
    <2>4. CASE NodeStart BY <1>3, <2>4 DEF Effect
    <2> QED BY <1>8, <1>9, <2>1, <2>2, <2>3, <2>4 DEF DeliveryNext
  <1> QED BY <1>10 DEF Effect

\* So the messages whose turn has come only become more.
LEMMA DueGrows ==
    ASSUME DeliveryInv, [DeliveryNext]_deliveryVars
    PROVE  Due \subseteq Due'
  BY OutStep DEF Due

-----------------------------------------------------------------------------
(* Senders: one batch at a time, of due and open rows *)

SenderLabels == {"idle", "send", "served", "post", "await", "sent", "retry", "dead"}
SendersOk == /\ lock \in Senders \cup {None}
             /\ pc \in [Senders -> SenderLabels]
             /\ batch \in [Senders -> SUBSET Messages]

\* A sender at work goes on with the same batch, or dies with it.
GoesOn(s) == \E label \in SenderLabels \ {"idle"} : Goto(s, label)

LEMMA GoesOnStep ==
    ASSUME DeliveryInv, NEW s \in Senders, pc[s] # "idle", out' = out, GoesOn(s) \/ Die(s)
    PROVE  SendersOk' /\ LockInv' /\ \A x \in Senders : batch'[x] \subseteq batch[x]
  <1>1. SendersOk /\ LockInv /\ lock = s
    BY DEF DeliveryInv, DeliveryTypeOK, SendersOk, LockInv, SenderLabels
  <1>2. CASE Die(s)
    <2>1. /\ pc' = [pc EXCEPT ![s] = "idle"] /\ batch' = [batch EXCEPT ![s] = {}] /\ lock' = None
      BY <1>1, <1>2 DEF Die, Unlock
    <2>2. SendersOk' BY <1>1, <2>1 DEF SendersOk, SenderLabels
    <2>3. \A x \in Senders : batch'[x] \subseteq batch[x] BY <1>1, <2>1 DEF SendersOk
    <2>4. LockInv' BY <1>1, <2>1 DEF LockInv, SendersOk
    <2> QED BY <2>2, <2>3, <2>4
  <1>3. CASE GoesOn(s)
    <2>1. PICK label \in SenderLabels \ {"idle"} : pc' = [pc EXCEPT ![s] = label] /\ UNCHANGED <<lock, batch>>
      BY <1>3 DEF GoesOn, Goto
    <2>2. SendersOk' BY <1>1, <2>1 DEF SendersOk
    <2>3. LockInv' BY <1>1, <2>1 DEF LockInv, SendersOk
    <2> QED BY <2>1, <2>2, <2>3
  <1> QED BY <1>2, <1>3

\* Which these steps are, and what they leave alone.
LEMMA AttemptSteps ==
    ASSUME DeliveryInv, NEW s \in Senders,
           SendFails(s) \/ HttpBegin(s) \/ HttpEnd(s) \/ HttpTimeout(s) \/ RelayPost(s) \/ RelayReply(s) \/ Crash(s)
    PROVE  pc[s] # "idle" /\ out' = out /\ (GoesOn(s) \/ Die(s))
  <1>0. DeliveryTypeOK /\ LockInv BY DEF DeliveryInv
  <1>1. pc[s] # "idle" /\ out' = out
    BY DEF SendFails, HttpBegin, HttpEnd, HttpTimeout, RelayPost, RelayReply, Crash, Detached
  <1>2. Cur(s) \in Messages BY <1>0, <1>1, CurIn DEF LockInv
  <1>3. CASE SendFails(s) \/ HttpTimeout(s) \/ RelayPost(s)
    BY <1>1, <1>3 DEF SendFails, HttpTimeout, RelayPost, GoesOn, SenderLabels
  <1>4. CASE HttpBegin(s)
    <2>1. CASE Goto(s, "served") BY <1>1, <2>1 DEF GoesOn, SenderLabels
    <2>2. CASE \E o \in AtOnce(Cur(s)) : \E v \in HttpVerdicts(o) : Goto(s, v)
      <3>1. PICK o \in AtOnce(Cur(s)) : \E v \in HttpVerdicts(o) : Goto(s, v) BY <2>2
      <3>2. HttpVerdicts(o) \subseteq {"sent", "dead", "retry"} BY <1>0, <1>2, Answers
      <3> QED BY <1>1, <3>1, <3>2 DEF GoesOn, SenderLabels
    <2> QED BY <1>4, <2>1, <2>2 DEF HttpBegin
  <1>5. CASE HttpEnd(s)
    <2>1. PICK o \in Dispatched : \E v \in HttpVerdicts(o) : Goto(s, v) BY <1>5 DEF HttpEnd
    <2>2. HttpVerdicts(o) \subseteq {"sent", "dead", "retry"} BY <1>0, <1>2, Answers
    <2> QED BY <1>1, <2>1, <2>2 DEF GoesOn, SenderLabels
  <1>6. CASE RelayReply(s)
    <2>1. PICK f : IF f.content = "none" THEN Die(s) ELSE Goto(s, RelayVerdict(Cur(s), f.content))
      BY <1>6 DEF RelayReply
    <2>2. RelayVerdict(Cur(s), f.content) \in SenderLabels \ {"idle"}
      BY DEF RelayVerdict, SenderLabels
    <2> QED BY <1>1, <2>1, <2>2 DEF GoesOn
  <1>7. CASE Crash(s) BY <1>1, <1>7 DEF Crash
  <1> QED BY <1>1, <1>3, <1>4, <1>5, <1>6, <1>7

LEMMA RoundInd ==
    ASSUME DeliveryInv, NEW s \in Senders, Round(s)
    PROVE  SendersOk' /\ LockInv' /\ \A x \in Senders : batch'[x] \subseteq Due'
  <1>0. /\ DeliveryTypeOK /\ RowsInOrder /\ SendersOk /\ LockInv /\ lock = None /\ pc[s] = "idle"
    BY DEF DeliveryInv, DeliveryTypeOK, SendersOk, SenderLabels, Round, Locked
  <1>1. PICK backoff : /\ ClaimReady(RecoverInflight, Claimed(RecoverInflight, backoff))
                       /\ batch' = [batch EXCEPT ![s] = Claimed(RecoverInflight, backoff)]
                       /\ IF Claimed(RecoverInflight, backoff) = {} THEN UNCHANGED <<lock, pc>>
                          ELSE lock' = s /\ pc' = [pc EXCEPT ![s] = "send"]
    BY DEF Round
  <1>2. PICK claimed : claimed = Claimed(RecoverInflight, backoff) OBVIOUS
  <1>3. /\ claimed \subseteq Messages /\ claimed \subseteq Due'
        /\ \A m \in claimed : out'[m].state = "inflight"
    BY <1>0, <1>1, <1>2, ClaimStep
  <1>4. \A x \in Senders : batch[x] = {} /\ pc[x] = "idle"
    BY <1>0, SenderAssumption DEF LockInv
  <1>5. SendersOk' BY <1>0, <1>1, <1>2, <1>3 DEF SendersOk, SenderLabels
  <1>6. \A x \in Senders : batch'[x] = IF x = s THEN claimed ELSE {}
    BY <1>0, <1>1, <1>2, <1>4 DEF SendersOk
  <1>7. LockInv' BY <1>0, <1>1, <1>2, <1>3, <1>4, <1>6 DEF LockInv, SendersOk
  <1> QED BY <1>3, <1>5, <1>6, <1>7

LEMMA MarkInd ==
    ASSUME DeliveryInv, NEW s \in Senders, Mark(s)
    PROVE  SendersOk' /\ LockInv' /\ \A x \in Senders : batch'[x] \subseteq batch[x]
  <1>0. /\ DeliveryTypeOK /\ SendersOk /\ LockInv /\ out \in [Messages -> Rows]
        /\ pc[s] \in {"sent", "retry", "dead"} /\ lock = s
    BY DEF DeliveryInv, DeliveryTypeOK, SendersOk, SenderLabels, Mark, LockInv
  <1>1. PICK c : c = Cur(s) OBVIOUS
  <1>2. c \in batch[s] /\ c \in Messages BY <1>0, <1>1, CurIn DEF LockInv
  <1>3. /\ batch' = [batch EXCEPT ![s] = @ \ {c}]
        /\ \A m \in Messages : m # c => out'[m] = out[m]
        /\ IF batch'[s] = {} THEN pc' = [pc EXCEPT ![s] = "idle"] /\ lock' = None
           ELSE pc' = [pc EXCEPT ![s] = "send"] /\ UNCHANGED lock
    BY <1>0, <1>1 DEF Mark, Unlock
  <1>4. SendersOk' BY <1>0, <1>3 DEF SendersOk, SenderLabels
  <1>5. \A x \in Senders : x # s => batch'[x] = batch[x] /\ pc'[x] = pc[x] /\ batch[x] = {} /\ pc[x] = "idle"
    BY <1>0, <1>3 DEF SendersOk, LockInv
  <1>6. batch'[s] = batch[s] \ {c} BY <1>0, <1>3 DEF SendersOk
  <1>7. \A m \in batch'[s] : out'[m].state \in {"pending", "inflight"}
    BY <1>0, <1>3, <1>6 DEF LockInv, SendersOk
  <1>8. pc'[s] # "idle" <=> batch'[s] # {}
    BY <1>0, <1>3 DEF SendersOk
  <1>9. pc'[s] # "idle" => lock' = s
    BY <1>0, <1>3 DEF SendersOk
  <1>10. LockInv' BY <1>5, <1>7, <1>8, <1>9 DEF LockInv
  <1> QED BY <1>4, <1>5, <1>6, <1>10

LEMMA SendersStep ==
    ASSUME DeliveryInv, [DeliveryNext]_deliveryVars
    PROVE  SendersOk' /\ LockInv' /\ \A x \in Senders : batch'[x] \subseteq Due'
  <1>0. /\ \A x \in Senders : batch[x] \subseteq Due'
        /\ SendersOk /\ LockInv /\ DeliveryTypeOK
    BY DueGrows DEF DeliveryInv, TurnInv, DeliveryTypeOK, SendersOk, SenderLabels
  <1>1. ASSUME NEW s \in Senders, Round(s) \/ SenderStep(s) \/ Crash(s)
        PROVE  SendersOk' /\ LockInv' /\ \A x \in Senders : batch'[x] \subseteq Due'
    <2>1. CASE Round(s) BY <2>1, RoundInd
    <2>2. CASE Mark(s) BY <1>0, <2>2, MarkInd
    <2>3. CASE SendFails(s) \/ HttpBegin(s) \/ HttpEnd(s) \/ HttpTimeout(s) \/ RelayPost(s) \/ RelayReply(s) \/ Crash(s)
      BY <1>0, <2>3, AttemptSteps, GoesOnStep
    <2> QED BY <1>1, <2>1, <2>2, <2>3 DEF SenderStep
  <1>2. CASE /\ UNCHANGED senderVars
             /\ \A m \in Messages : out[m].state \in {"pending", "inflight"} => out'[m].state \in {"pending", "inflight"}
    <2>1. UNCHANGED <<lock, pc, batch>> BY <1>2 DEF senderVars
    <2>2. LockInv' BY <1>0, <1>2, <2>1 DEF LockInv, SendersOk
    <2> QED BY <1>0, <2>1, <2>2 DEF SendersOk
  <1>3. ASSUME NEW m \in Messages, MessageStep(m)
        PROVE  UNCHANGED senderVars /\ (out' = out \/ (out[m].state = "absent" /\ out' = [out EXCEPT ![m] = Row("pending")]))
    BY <1>3 DEF MessageStep, Enqueue, StrayBegin, StrayEnd, Expire, ResponseExpires
  <1>4. ASSUME NEW m \in Messages, MessageStep(m)
        PROVE  UNCHANGED senderVars
               /\ \A x \in Messages : out[x].state \in {"pending", "inflight"} => out'[x].state \in {"pending", "inflight"}
    BY <1>0, <1>3, <1>4 DEF DeliveryTypeOK
  <1>5. ASSUME NEW d \in Destinations, WorkerStep(d) PROVE UNCHANGED <<out, senderVars>>
    BY <1>5 DEF WorkerStep, WorkerTake, WorkerAccept, WorkerPost, WorkerAck, WorkerFails
  <1>6. CASE NodeStart
    <2>1. UNCHANGED senderVars /\ out' = RecoverInflight BY <1>6 DEF NodeStart
    <2> QED BY <1>0, <1>2, <2>1, RecoveredRows
  <1>7. UNCHANGED deliveryVars => UNCHANGED <<out, senderVars>> BY DEF deliveryVars, senderVars
  <1> QED BY <1>1, <1>2, <1>4, <1>5, <1>6, <1>7 DEF DeliveryNext

-----------------------------------------------------------------------------
(* Copies: a message is only ever carried where a due one was *)

WorkerSet(D) == [at : {"idle", "accept", "post", "ack"}, msg : D \cup {None}, content : Contents]
FramesOf(D) == {f \in Frames : f.msg \in D}

\* Every copy is of a message in D.
CopiesOf(D) ==
    /\ expired \subseteq Messages /\ stray \subseteq D /\ running \subseteq D
    /\ worker \in [Destinations -> WorkerSet(D)]
    /\ \A d \in Destinations : worker[d].at # "idle" => worker[d].msg \in D
    /\ mail \in [Accounts -> Seq(Frames)]
    /\ \A d \in Destinations : mail[d] \in Seq(FramesOf(D))
    /\ inbox \in [Messages -> {"none", "ok", "reject"}]
    /\ \A m \in Messages : inbox[m] # "none" => m \in D

LEMMA CopiesAreDue == DeliveryInv => CopiesOf(Due)
  <1> SUFFICES ASSUME DeliveryInv PROVE CopiesOf(Due) OBVIOUS
  <1>1. worker \in [Destinations -> WorkerSet(Due)]
    BY DEF DeliveryInv, DeliveryTypeOK, TurnInv, WorkerSet
  <1> QED BY <1>1 DEF DeliveryInv, DeliveryTypeOK, TurnInv, CopiesOf, DueFrames, FramesOf

LEMMA CopiesGrow ==
    ASSUME NEW D, NEW E, CopiesOf(D)', D \subseteq E
    PROVE  CopiesOf(E)'
  <1>1. FramesOf(D) \subseteq FramesOf(E) /\ WorkerSet(D) \subseteq WorkerSet(E)
    BY DEF FramesOf, WorkerSet
  <1>2. \A d \in Destinations : mail'[d] \in Seq(FramesOf(E))
    <2> TAKE d \in Destinations
    <2>1. mail'[d] \in Seq(FramesOf(D)) BY DEF CopiesOf
    <2> QED BY <1>1, <2>1, SeqGrows
  <1>3. worker' \in [Destinations -> WorkerSet(E)]
    <2>1. worker' \in [Destinations -> WorkerSet(D)] BY DEF CopiesOf
    <2> QED BY <1>1, <2>1
  <1> QED BY <1>1, <1>2, <1>3 DEF CopiesOf

\* record: the answer of a due message.
LEMMA RecordCopies ==
    ASSUME NEW D \in SUBSET Messages, CopiesOf(D), NEW m \in D, NEW o \in Dispatched, Record(m, o)
    PROVE  /\ inbox' \in [Messages -> {"none", "ok", "reject"}]
           /\ \A x \in Messages : inbox'[x] # "none" => x \in D
           /\ \A x \in Messages : x # m => inbox'[x] = inbox[x]
           /\ o = "ok" => inbox'[m] = "ok"
  BY DEF Record, Dispatched, CopiesOf

LEMMA WorkerMoves ==
    ASSUME NEW D \in SUBSET Messages, CopiesOf(D), NEW d \in Destinations,
           NEW w \in WorkerSet(D), w.at # "idle" => w.msg \in D, worker' = [worker EXCEPT ![d] = w]
    PROVE  /\ worker' \in [Destinations -> WorkerSet(D)]
           /\ \A e \in Destinations : worker'[e].at # "idle" => worker'[e].msg \in D
           /\ worker'[d] = w /\ \A e \in Destinations : e # d => worker'[e] = worker[e]
  <1>1. worker \in [Destinations -> WorkerSet(D)] BY DEF CopiesOf
  <1>2. worker'[d] = w /\ \A e \in Destinations : e # d => worker'[e] = worker[e]
    BY <1>1
  <1>3. worker' \in [Destinations -> WorkerSet(D)] BY <1>1
  <1> QED BY <1>2, <1>3 DEF CopiesOf

\* The workers' steps, as what each leaves the worker at.
LEMMA WorkerShape ==
    ASSUME NEW D \in SUBSET Messages, CopiesOf(D), NEW d \in Destinations, WorkerStep(d)
    PROVE  \E w \in WorkerSet(D) :
              /\ worker' = [worker EXCEPT ![d] = w]
              /\ w.at # "idle" => w.msg \in D
  <1>0. worker[d] \in WorkerSet(D) /\ Idle \in WorkerSet(D) /\ Idle.at = "idle"
    BY DEF CopiesOf, WorkerSet, Idle, Contents
  <1>1. CASE WorkerTake(d)
    <2>1. mail[d] \in Seq(FramesOf(D)) /\ mail[d] # <<>> BY <1>1 DEF CopiesOf, WorkerTake
    <2>2. PICK m : m = Head(mail[d]).msg OBVIOUS
    <2>3. m \in D
      <3>1. Head(mail[d]) \in FramesOf(D) BY <2>1
      <3> QED BY <2>2, <3>1 DEF FramesOf
    <2>3a. "none" \in Contents /\ \A o : Content(o) \in Contents BY DEF Content, Contents
    <2>4. \E at \in {"ack", "post", "accept"}, c \in Contents :
             /\ worker' = [worker EXCEPT ![d] = [at |-> at, msg |-> m, content |-> c]]
             /\ c = "none" \/ \E o \in AtOnce(m) : c = Content(o)
      BY <1>1, <2>2, <2>3a DEF WorkerTake
    <2>5. PICK at \in {"ack", "post", "accept"}, c \in Contents :
             /\ worker' = [worker EXCEPT ![d] = [at |-> at, msg |-> m, content |-> c]]
             /\ c = "none" \/ \E o \in AtOnce(m) : c = Content(o)
      BY <2>4
    <2>7. [at |-> at, msg |-> m, content |-> c] \in WorkerSet(D) BY <2>3, <2>5 DEF WorkerSet
    <2> QED BY <2>3, <2>5, <2>7
  <1>2. CASE WorkerAccept(d)
    <2>1. PICK o \in Dispatched : worker' = [worker EXCEPT ![d].at = "post", ![d].content = Content(o)]
      BY <1>2 DEF WorkerAccept
    <2>2. Content(o) \in Contents BY DEF Content, Contents
    <2>3. worker' = [worker EXCEPT ![d] = [worker[d] EXCEPT !.at = "post", !.content = Content(o)]]
      BY <2>1 DEF CopiesOf
    <2>4. worker[d].msg \in D BY <1>2 DEF WorkerAccept, CopiesOf
    <2>5. PICK w : w = [worker[d] EXCEPT !.at = "post", !.content = Content(o)] OBVIOUS
    <2>6. w \in WorkerSet(D) /\ w.msg \in D BY <1>0, <2>2, <2>4, <2>5 DEF WorkerSet
    <2> QED BY <2>3, <2>5, <2>6
  <1>3. CASE WorkerPost(d)
    <2>1. worker' = [worker EXCEPT ![d] = [worker[d] EXCEPT !.at = "ack", !.content = "none"]]
      BY <1>3 DEF WorkerPost, CopiesOf
    <2>2. worker[d].msg \in D BY <1>3 DEF WorkerPost, CopiesOf
    <2>3. PICK w : w = [worker[d] EXCEPT !.at = "ack", !.content = "none"] OBVIOUS
    <2>4. w \in WorkerSet(D) /\ w.msg \in D BY <1>0, <2>2, <2>3 DEF WorkerSet, Contents
    <2> QED BY <2>1, <2>3, <2>4
  <1>4. CASE WorkerAck(d) \/ WorkerFails(d)
    <2>1. worker' = [worker EXCEPT ![d] = Idle] BY <1>4 DEF WorkerAck, WorkerFails
    <2> QED BY <1>0, <2>1
  <1> QED BY <1>1, <1>2, <1>3, <1>4 DEF WorkerStep

LEMMA MailCopies ==
    ASSUME NEW D \in SUBSET Messages, CopiesOf(D), NEW m \in D,
           \/ mail' = mail
           \/ \E d \in Destinations : mail' = Stored(d, Request(m))
           \/ \E c \in Contents : mail' = Stored(Self, Receipt(m, c))
           \/ \E a \in Accounts : \E kind, x : mail' = Without(a, kind, x)
    PROVE  mail' \in [Accounts -> Seq(Frames)] /\ \A d \in Destinations : mail'[d] \in Seq(FramesOf(D))
  <1>0. /\ mail \in [Accounts -> Seq(Frames)] /\ Destinations \subseteq Accounts /\ Self \in Accounts
        /\ \A d \in Destinations : d # Self /\ mail[d] \in Seq(FramesOf(D))
    BY RouteAssumption DEF CopiesOf, Accounts
  <1>1. CASE mail' = mail BY <1>0, <1>1
  <1>2. ASSUME NEW d \in Destinations, mail' = Stored(d, Request(m))
        PROVE  mail' \in [Accounts -> Seq(Frames)] /\ \A e \in Destinations : mail'[e] \in Seq(FramesOf(D))
    <2>1. Request(m) \in Frames /\ Request(m) \in FramesOf(D)
      BY DEF Request, Frames, FramesOf, Contents
    <2>2. /\ mail' \in [Accounts -> Seq(Frames)] /\ mail'[d] \in Seq(FramesOf(D))
          /\ \A b \in Accounts : b # d => mail'[b] = mail[b]
      BY <1>0, <1>2, <2>1, StoredMail
    <2> QED BY <1>0, <2>2
  <1>3. ASSUME NEW c \in Contents, mail' = Stored(Self, Receipt(m, c))
        PROVE  mail' \in [Accounts -> Seq(Frames)] /\ \A e \in Destinations : mail'[e] \in Seq(FramesOf(D))
    <2>1. Receipt(m, c) \in Frames BY DEF Receipt, Frames
    <2>2. /\ mail' \in [Accounts -> Seq(Frames)]
          /\ \A b \in Accounts : b # Self => mail'[b] = mail[b]
      BY <1>0, <1>3, <2>1, StoredMail
    <2> QED BY <1>0, <2>2
  <1>4. ASSUME NEW a \in Accounts, NEW kind, NEW x, mail' = Without(a, kind, x)
        PROVE  mail' \in [Accounts -> Seq(Frames)] /\ \A e \in Destinations : mail'[e] \in Seq(FramesOf(D))
    <2>1. /\ mail' \in [Accounts -> Seq(Frames)]
          /\ mail[a] \in Seq(FramesOf(D)) => mail'[a] \in Seq(FramesOf(D))
          /\ \A b \in Accounts : b # a => mail'[b] = mail[b]
      <3>1. ASSUME mail[a] \in Seq(FramesOf(D)) PROVE mail'[a] \in Seq(FramesOf(D))
        BY <1>0, <1>4, <3>1, WithoutMail
      <3> QED BY <1>0, <1>4, <3>1, WithoutOthers
    <2> QED BY <1>0, <2>1
  <1> QED BY <1>1, <1>2, <1>3, <1>4

LEMMA SenderCopies ==
    ASSUME NEW D \in SUBSET Messages, CopiesOf(D), DeliveryTypeOK, LockInv,
           NEW s \in Senders, batch[s] \subseteq D, Round(s) \/ SenderStep(s) \/ Crash(s)
    PROVE  CopiesOf(D)'
  <1>1. CASE Round(s) \/ Mark(s) \/ SendFails(s) \/ HttpBegin(s)
    BY <1>1 DEF Round, Mark, SendFails, HttpBegin, CopiesOf
  <1>2. CASE HttpEnd(s) \/ HttpTimeout(s) \/ RelayPost(s) \/ RelayReply(s) \/ Crash(s)
    <2>0. pc[s] # "idle"
      BY <1>2 DEF HttpEnd, HttpTimeout, RelayPost, RelayReply, Crash, Detached
    <2>1. PICK c \in D : c = Cur(s)
      BY <2>0, CurIn DEF LockInv
    <2>2. CASE HttpEnd(s)
      <3>1. PICK o \in Dispatched : Record(c, o) BY <2>1, <2>2 DEF HttpEnd
      <3>2. UNCHANGED <<expired, stray, running, mail, worker>> BY <2>2 DEF HttpEnd
      <3> QED BY <3>1, <3>2, RecordCopies DEF CopiesOf
    <2>3. CASE HttpTimeout(s) \/ Crash(s)
      <3>1. /\ UNCHANGED <<expired, mail, worker, inbox>>
            /\ stray' \subseteq stray \cup {c} /\ running' \subseteq running \cup {c}
        BY <2>1, <2>3 DEF HttpTimeout, Crash, Detached
      <3> QED BY <3>1 DEF CopiesOf
    <2>4. CASE RelayPost(s) \/ RelayReply(s)
      <3>1. UNCHANGED <<expired, stray, running, worker, inbox>> BY <2>4 DEF RelayPost, RelayReply
      <3>2. \/ mail' = mail
            \/ \E d \in Destinations : mail' = Stored(d, Request(c))
            \/ \E a \in Accounts : \E kind, x : mail' = Without(a, kind, x)
        <4>1. To[c] \in Destinations /\ Self \in Accounts BY RouteAssumption DEF Accounts
        <4>2. CASE RelayPost(s) BY <2>1, <4>1, <4>2 DEF RelayPost
        <4>3. CASE RelayReply(s) BY <4>1, <4>3 DEF RelayReply
        <4> QED BY <2>4, <4>2, <4>3
      <3> QED BY <3>1, <3>2, MailCopies DEF CopiesOf
    <2> QED BY <1>2, <2>2, <2>3, <2>4
  <1> QED BY <1>1, <1>2 DEF SenderStep

LEMMA MessageCopies ==
    ASSUME NEW D \in SUBSET Messages, CopiesOf(D), NEW m \in Messages, MessageStep(m)
    PROVE  CopiesOf(D)'
  <1>1. CASE Enqueue(m) BY <1>1 DEF Enqueue, CopiesOf
  <1>2. CASE StrayBegin(m)
    <2>1. /\ UNCHANGED <<expired, mail, worker, inbox>> /\ m \in D
          /\ stray' \subseteq stray /\ running' \subseteq running \cup {m}
      BY <1>2 DEF StrayBegin, CopiesOf
    <2> QED BY <2>1 DEF CopiesOf
  <1>3. CASE StrayEnd(m)
    <2>1. /\ UNCHANGED <<expired, stray, mail, worker>> /\ m \in D /\ running' \subseteq running
          /\ \E o \in Dispatched : Record(m, o)
      BY <1>3 DEF StrayEnd, CopiesOf
    <2> QED BY <2>1, RecordCopies DEF CopiesOf
  <1>4. CASE Expire(m) \/ ResponseExpires(m)
    <2>0. To[m] \in Accounts /\ Self \in Accounts BY RouteAssumption DEF Accounts
    <2>1. PICK a \in Accounts, kind \in {"request", "response"} : mail' = Without(a, kind, m)
      BY <1>4, <2>0 DEF Expire, ResponseExpires
    <2>2. UNCHANGED <<stray, running, worker, inbox>> /\ expired' \subseteq Messages
      BY <1>4 DEF Expire, ResponseExpires, CopiesOf
    <2>3. mail \in [Accounts -> Seq(Frames)] BY DEF CopiesOf
    <2>4. mail' \in [Accounts -> Seq(Frames)] BY <2>1, <2>3, WithoutOthers
    <2>5. ASSUME NEW d \in Destinations PROVE mail'[d] \in Seq(FramesOf(D))
      <3>1. mail[d] \in Seq(FramesOf(D)) /\ d \in Accounts BY DEF CopiesOf, Accounts
      <3>2. CASE d = a BY <2>1, <2>3, <3>1, <3>2, WithoutMail
      <3>3. CASE d # a BY <2>1, <2>3, <3>1, <3>3, WithoutOthers
      <3> QED BY <3>2, <3>3
    <2> QED BY <2>2, <2>4, <2>5 DEF CopiesOf
  <1> QED BY <1>1, <1>2, <1>3, <1>4 DEF MessageStep

LEMMA WorkerCopies ==
    ASSUME NEW D \in SUBSET Messages, CopiesOf(D), NEW d \in Destinations, WorkerStep(d)
    PROVE  CopiesOf(D)'
  <1>1. PICK w \in WorkerSet(D) :
           worker' = [worker EXCEPT ![d] = w] /\ (w.at # "idle" => w.msg \in D)
    BY WorkerShape
  <1>2. /\ worker' \in [Destinations -> WorkerSet(D)]
        /\ \A e \in Destinations : worker'[e].at # "idle" => worker'[e].msg \in D
    BY <1>1, WorkerMoves
  <1>3. UNCHANGED <<expired, stray, running>>
    BY DEF WorkerStep, WorkerTake, WorkerAccept, WorkerPost, WorkerAck, WorkerFails
  <1>4. CASE WorkerTake(d) \/ WorkerFails(d)
    BY <1>2, <1>3, <1>4 DEF WorkerTake, WorkerFails, CopiesOf
  <1>5. CASE ~(WorkerTake(d) \/ WorkerFails(d))
    <2>1. PICK m \in D : m = worker[d].msg
      BY <1>5 DEF WorkerStep, WorkerAccept, WorkerPost, WorkerAck, CopiesOf
    <2>2. CASE WorkerAccept(d)
      <3>1. mail' = mail /\ \E o \in Dispatched : Record(m, o) BY <2>1, <2>2 DEF WorkerAccept
      <3> QED BY <1>2, <1>3, <3>1, RecordCopies DEF CopiesOf
    <2>3. CASE WorkerPost(d) \/ WorkerAck(d)
      <3>1. inbox' = inbox BY <2>3 DEF WorkerPost, WorkerAck
      <3>2. worker[d].content \in Contents /\ d \in Accounts BY DEF CopiesOf, WorkerSet, Accounts
      <3>3. \/ \E c \in Contents : mail' = Stored(Self, Receipt(m, c))
            \/ \E a \in Accounts : \E kind, x : mail' = Without(a, kind, x)
        BY <2>1, <2>3, <3>2 DEF WorkerPost, WorkerAck
      <3> QED BY <1>2, <1>3, <3>1, <3>3, MailCopies DEF CopiesOf
    <2> QED BY <1>5, <2>2, <2>3 DEF WorkerStep
  <1> QED BY <1>4, <1>5

LEMMA CopiesStep ==
    ASSUME DeliveryInv, [DeliveryNext]_deliveryVars
    PROVE  CopiesOf(Due)'
  <1>1. PICK D \in SUBSET Messages : D = Due BY DEF Due
  <1>2. CopiesOf(D) /\ D \subseteq Due' /\ DeliveryTypeOK /\ LockInv
    BY <1>1, CopiesAreDue, DueGrows DEF DeliveryInv
  <1>3. CopiesOf(D)'
    <2>1. ASSUME NEW s \in Senders, Round(s) \/ SenderStep(s) \/ Crash(s) PROVE CopiesOf(D)'
      <3>1. batch[s] \subseteq D BY <1>1 DEF DeliveryInv, TurnInv
      <3> QED BY <1>2, <2>1, <3>1, SenderCopies
    <2>2. ASSUME NEW m \in Messages, MessageStep(m) PROVE CopiesOf(D)'
      BY <1>2, <2>2, MessageCopies
    <2>3. ASSUME NEW d \in Destinations, WorkerStep(d) PROVE CopiesOf(D)'
      BY <1>2, <2>3, WorkerCopies
    <2>4. CASE NodeStart BY <1>2, <2>4 DEF NodeStart, CopiesOf
    <2>5. CASE UNCHANGED deliveryVars BY <1>2, <2>5 DEF deliveryVars, CopiesOf
    <2> QED BY <2>1, <2>2, <2>3, <2>4, <2>5 DEF DeliveryNext
  <1>4. PICK E : E = Due' OBVIOUS
  <1>5. CopiesOf(E)' BY <1>2, <1>3, <1>4, CopiesGrow
  <1> QED BY <1>4, <1>5 DEF CopiesOf

-----------------------------------------------------------------------------
(* Dispatch: a message is in dispatch once, and has no answer until it ends *)

\* Who is served, or has a good answer, after a step.
LEMMA PcStep ==
    ASSUME DeliveryInv, [DeliveryNext]_deliveryVars, NEW s \in Senders, pc'[s] \in {"served", "sent"}
    PROVE  /\ batch'[s] = batch[s] /\ Cur(s)' = Cur(s)
           /\ pc'[s] = pc[s] \/ HttpBegin(s) \/ HttpEnd(s) \/ RelayReply(s)
           /\ pc'[s] = "served" => pc[s] = "served" \/ HttpBegin(s)
  <1>0. SendersOk /\ LockInv BY DEF DeliveryInv, DeliveryTypeOK, SendersOk, SenderLabels
  <1> SUFFICES /\ batch'[s] = batch[s]
               /\ pc'[s] = pc[s] \/ HttpBegin(s) \/ HttpEnd(s) \/ RelayReply(s)
               /\ pc'[s] = "served" => pc[s] = "served" \/ HttpBegin(s)
    BY DEF Cur
  <1>1. ASSUME NEW x \in Senders, x # s, Round(x) \/ SenderStep(x) \/ Crash(x)
        PROVE  batch'[s] = batch[s] /\ pc'[s] = pc[s]
    BY <1>0, <1>1 DEF SendersOk, SenderStep, Round, SendFails, HttpBegin, HttpEnd, HttpTimeout,
       RelayPost, RelayReply, Mark, Crash, Goto, Die
  <1>2. ASSUME Round(s) \/ Mark(s) \/ SendFails(s) \/ HttpTimeout(s) \/ RelayPost(s) \/ Crash(s)
        PROVE  batch'[s] = batch[s] /\ pc'[s] = pc[s]
    <2>1. CASE Round(s) \/ Mark(s) \/ Crash(s)
      BY <1>0, <2>1 DEF SendersOk, Round, Mark, Crash, Die
    <2>2. CASE SendFails(s) \/ HttpTimeout(s) \/ RelayPost(s)
      BY <1>0, <2>2 DEF SendersOk, SendFails, HttpTimeout, RelayPost, Goto
    <2> QED BY <1>2, <2>1, <2>2
  <1>3. CASE HttpBegin(s) \/ HttpEnd(s)
    <2>0. DeliveryTypeOK /\ Cur(s) \in Messages
      BY <1>0, <1>3, CurIn DEF LockInv, DeliveryInv, HttpBegin, HttpEnd
    <2>1. batch' = batch BY <1>3 DEF HttpBegin, HttpEnd, Goto
    <2>2. CASE HttpEnd(s)
      <3>1. PICK o \in Dispatched : \E v \in HttpVerdicts(o) : Goto(s, v) BY <2>2 DEF HttpEnd
      <3>2. "served" \notin HttpVerdicts(o) BY <2>0, Answers
      <3>3. pc'[s] # "served" BY <1>0, <3>1, <3>2 DEF SendersOk, Goto
      <3> QED BY <2>1, <2>2, <3>3
    <2> QED BY <1>3, <2>1, <2>2
  <1>4. CASE RelayReply(s)
    <2>1. PICK f : IF f.content = "none" THEN Die(s) ELSE Goto(s, RelayVerdict(Cur(s), f.content))
      BY <1>4 DEF RelayReply
    <2>2. RelayVerdict(Cur(s), f.content) \in {"sent", "dead"} BY DEF RelayVerdict
    <2>3. batch'[s] = batch[s] /\ pc'[s] # "served"
      BY <1>0, <2>1, <2>2 DEF SendersOk, Die, Goto
    <2> QED BY <1>4, <2>3
  <1>5. CASE UNCHANGED senderVars BY <1>5 DEF senderVars
  <1>6. ASSUME NEW m \in Messages, MessageStep(m) PROVE UNCHANGED senderVars
    BY <1>6 DEF MessageStep, Enqueue, StrayBegin, StrayEnd, Expire, ResponseExpires
  <1>7. ASSUME NEW d \in Destinations, WorkerStep(d) PROVE UNCHANGED senderVars
    BY <1>7 DEF WorkerStep, WorkerTake, WorkerAccept, WorkerPost, WorkerAck, WorkerFails
  <1>8. NodeStart \/ UNCHANGED deliveryVars => UNCHANGED senderVars
    BY DEF NodeStart, deliveryVars, senderVars
  <1>9. ASSUME NEW x \in Senders, Round(x) \/ SenderStep(x) \/ Crash(x)
        PROVE  /\ batch'[s] = batch[s]
               /\ pc'[s] = pc[s] \/ HttpBegin(s) \/ HttpEnd(s) \/ RelayReply(s)
               /\ pc'[s] = "served" => pc[s] = "served" \/ HttpBegin(s)
    <2>1. CASE x # s BY <1>1, <1>9, <2>1
    <2>2. CASE x = s BY <1>2, <1>3, <1>4, <1>9, <2>2 DEF SenderStep
    <2> QED BY <2>1, <2>2
  <1> QED BY <1>5, <1>6, <1>7, <1>8, <1>9 DEF DeliveryNext

LEMMA NotInDispatch ==
    ASSUME NEW m, m \notin InDispatch
    PROVE  /\ m \notin running
           /\ \A s \in Senders : ~Serves(s, m)
           /\ \A d \in Destinations : ~Accepts(d, m)
  BY DEF InDispatch, Serves, Accepts

\* One sender is served at a time: it holds the lock.
LEMMA ServedAlone ==
    ASSUME LockInv, NEW s \in Senders, NEW x \in Senders, pc[s] # "idle", pc[x] # "idle"
    PROVE  x = s
  BY DEF LockInv

\* Nothing enters dispatch and nothing is recorded.
LEMMA DispatchKept ==
    ASSUME DeliveryInv, [DeliveryNext]_deliveryVars, UNCHANGED <<running, inbox>>,
           \A s \in Senders, m \in Messages : Serves(s, m)' => Serves(s, m),
           \A d \in Destinations, m \in Messages : Accepts(d, m)' => Accepts(d, m)
    PROVE  DispatchInv' /\ Accepted \subseteq Accepted'
  <1>1. DispatchInv' BY DEF DeliveryInv, DispatchInv
  <1> QED BY <1>1 DEF Accepted

\* A message enters dispatch that was not in it and has no answer.
LEMMA DispatchBegins ==
    ASSUME DeliveryInv, [DeliveryNext]_deliveryVars, UNCHANGED inbox, NEW m \in Messages, MayDispatch(m),
           \/ /\ UNCHANGED <<running, worker>>
              /\ \E s \in Senders : /\ Serves(s, m)'
                                    /\ \A x \in Senders, y \in Messages : Serves(x, y)' => Serves(x, y) \/ (x = s /\ y = m)
           \/ /\ UNCHANGED <<worker, senderVars>> /\ running' = running \cup {m}
           \/ /\ UNCHANGED <<running, senderVars>>
              /\ \E d \in Destinations : \A e \in Destinations, y \in Messages :
                    Accepts(e, y)' => Accepts(e, y) \/ (e = d /\ y = m)
    PROVE  DispatchInv' /\ Accepted \subseteq Accepted'
  <1>0. Accepted \subseteq Accepted' BY DEF Accepted
  <1>1. /\ inbox[m] = "none" /\ m \notin running
        /\ \A s \in Senders : ~Serves(s, m)
        /\ \A d \in Destinations : ~Accepts(d, m)
    BY NotInDispatch DEF MayDispatch
  <1>2. DispatchInv BY DEF DeliveryInv
  <1>3. CASE /\ UNCHANGED <<running, worker>>
             /\ \E s \in Senders : /\ Serves(s, m)'
                                   /\ \A x \in Senders, y \in Messages : Serves(x, y)' => Serves(x, y) \/ (x = s /\ y = m)
    <2>1. \A d \in Destinations, y \in Messages : Accepts(d, y)' = Accepts(d, y) BY <1>3 DEF Accepts
    <2> QED BY <1>0, <1>1, <1>2, <1>3, <2>1 DEF DispatchInv
  <1>4. CASE UNCHANGED <<worker, senderVars>> /\ running' = running \cup {m}
    <2>1. /\ \A d \in Destinations, y \in Messages : Accepts(d, y)' = Accepts(d, y)
          /\ \A s \in Senders, y \in Messages : Serves(s, y)' = Serves(s, y)
      BY <1>4 DEF Accepts, Serves, senderVars, Cur
    <2> QED BY <1>0, <1>1, <1>2, <1>4, <2>1 DEF DispatchInv
  <1>5. CASE /\ UNCHANGED <<running, senderVars>>
             /\ \E d \in Destinations : \A e \in Destinations, y \in Messages :
                    Accepts(e, y)' => Accepts(e, y) \/ (e = d /\ y = m)
    <2>1. \A s \in Senders, y \in Messages : Serves(s, y)' = Serves(s, y)
      BY <1>5 DEF Serves, senderVars, Cur
    <2> QED BY <1>0, <1>1, <1>2, <1>5, <2>1 DEF DispatchInv
  <1> QED BY <1>3, <1>4, <1>5

\* A dispatch ends, with or without an answer to record.
LEMMA DispatchEnds ==
    ASSUME DeliveryInv, [DeliveryNext]_deliveryVars, NEW m \in Messages, inbox[m] = "none",
           \A y \in Messages : y # m => inbox'[y] = inbox[y],
           running' \subseteq running \ {m},
           \A s \in Senders, y \in Messages : Serves(s, y)' => Serves(s, y) /\ y # m,
           \A d \in Destinations, y \in Messages : Accepts(d, y)' => Accepts(d, y) /\ y # m
    PROVE  DispatchInv' /\ Accepted \subseteq Accepted'
  <1>0. running \subseteq Messages /\ DispatchInv
    BY DEF DeliveryInv, DeliveryTypeOK
  <1>1. DispatchInv' BY <1>0 DEF DispatchInv
  <1> QED BY <1>1 DEF Accepted

\* The sender that is served gives up, or its call ends: nobody is served.
LEMMA ServedLeaves ==
    ASSUME DeliveryInv, [DeliveryNext]_deliveryVars, NEW s \in Senders, pc[s] # "idle", ~HttpBegin(s),
           pc'[s] # "served", \A x \in Senders : x # s => pc'[x] = pc[x]
    PROVE  \A x \in Senders, y \in Messages : ~Serves(x, y)'
  BY ServedAlone DEF DeliveryInv, Serves

LEMMA SenderDispatch ==
    ASSUME DeliveryInv, [DeliveryNext]_deliveryVars, NEW s \in Senders, Round(s) \/ SenderStep(s) \/ Crash(s)
    PROVE  DispatchInv' /\ Accepted \subseteq Accepted'
  <1>0. SendersOk /\ LockInv /\ DeliveryTypeOK /\ DispatchInv
    BY DEF DeliveryInv, DeliveryTypeOK, SendersOk, SenderLabels
  <1>1. \A x \in Senders, m \in Messages : Serves(x, m)' => /\ Serves(x, m) \/ HttpBegin(x)
                                               /\ Cur(x)' = m /\ Cur(x) = m
    BY PcStep DEF Serves
  <1>2. CASE Round(s) \/ Mark(s) \/ SendFails(s) \/ RelayPost(s) \/ RelayReply(s)
             \/ (~Detached(s) /\ (HttpTimeout(s) \/ Crash(s)))
    <2>1. UNCHANGED <<running, inbox, worker>>
      BY <1>2 DEF Round, Mark, SendFails, RelayPost, RelayReply, HttpTimeout, Crash
    <2>2. \A x \in Senders : x # s => pc'[x] = pc[x]
      BY <1>0, <1>2 DEF Round, Mark, SendFails, RelayPost, RelayReply, HttpTimeout, Crash, Goto, Die, SendersOk
    <2>3. pc'[s] # "served"
      <3> SUFFICES ASSUME pc'[s] = "served" PROVE FALSE OBVIOUS
      <3>1. pc[s] = "served" \/ HttpBegin(s) BY PcStep
      <3>2. ASSUME HttpBegin(s) PROVE pc[s] = "send" BY <3>2 DEF HttpBegin
      <3> QED BY <1>0, <1>2, <3>1, <3>2
              DEF Round, Mark, SendFails, RelayPost, RelayReply, HttpTimeout, Crash, Goto, Die, SendersOk, RelayVerdict
    <2>4. \A x \in Senders, m \in Messages : Serves(x, m)' => Serves(x, m)
      <3> TAKE x \in Senders, m \in Messages
      <3>1. CASE x = s BY <2>3, <3>1 DEF Serves
      <3>2. CASE x # s
        BY <1>1, <2>2, <3>2 DEF Serves
      <3> QED BY <3>1, <3>2
    <2> QED BY <2>1, <2>4, DispatchKept DEF Accepts
  <1>3. ASSUME pc[s] # "idle" PROVE Cur(s) \in Messages
    BY <1>0, <1>3, CurIn DEF LockInv
  <1>4. CASE HttpBegin(s)
    <2>1. UNCHANGED <<running, inbox, worker>> /\ pc[s] = "send" /\ Cur(s) \in Messages
      BY <1>3, <1>4 DEF HttpBegin
    <2>2. \A x \in Senders : x # s => pc'[x] = pc[x]
      BY <1>0, <1>4 DEF HttpBegin, Goto, SendersOk
    <2>3. \A x \in Senders, y \in Messages : Serves(x, y)' => Serves(x, y) \/ (x = s /\ y = Cur(s))
      BY <1>1, <2>2 DEF Serves
    <2>4. CASE pc'[s] = "served"
      <3>1. MayDispatch(Cur(s))
        <4>1. ASSUME NEW o \in AtOnce(Cur(s)), NEW v \in HttpVerdicts(o), Goto(s, v) PROVE FALSE
          <5>1. v # "served" BY <1>0, <2>1, Answers
          <5> QED BY <1>0, <2>4, <4>1, <5>1 DEF SendersOk, Goto
        <4> QED BY <1>4, <4>1 DEF HttpBegin
      <3>2. Cur(s)' = Cur(s) BY <2>4, PcStep
      <3>3. Serves(s, Cur(s))' BY <2>4, <3>2 DEF Serves
      <3>4. PICK c \in Messages : c = Cur(s) BY <2>1
      <3>5. Serves(s, c)' BY <2>4, <3>2, <3>4 DEF Serves
      <3> QED BY <2>1, <2>3, <3>1, <3>4, <3>5, DispatchBegins
    <2>5. CASE pc'[s] # "served"
      <3>1. \A x \in Senders, y \in Messages : Serves(x, y)' => Serves(x, y)
        BY <2>3, <2>5 DEF Serves
      <3> QED BY <2>1, <3>1, DispatchKept DEF Accepts
    <2> QED BY <2>4, <2>5
  <1>5. CASE HttpEnd(s) \/ (Detached(s) /\ (HttpTimeout(s) \/ Crash(s)))
    <2>1. pc[s] = "served" /\ worker' = worker
      BY <1>5 DEF HttpEnd, Detached, HttpTimeout, Crash
    <2>2. PICK c \in Messages : c = Cur(s) BY <1>3, <2>1
    <2>3. /\ Serves(s, c) /\ inbox[c] = "none" /\ c \notin running
          /\ \A d \in Destinations : ~Accepts(d, c)
      BY <1>0, <2>1, <2>2 DEF DispatchInv, Serves
    <2>4. \A x \in Senders : x # s => pc'[x] = pc[x]
      BY <1>0, <1>5 DEF HttpEnd, HttpTimeout, Crash, Goto, Die, SendersOk
    <2>5. pc'[s] # "served"
      <3>1. CASE HttpEnd(s)
        <4>1. PICK o \in Dispatched : \E v \in HttpVerdicts(o) : Goto(s, v) BY <3>1 DEF HttpEnd
        <4>2. "served" \notin HttpVerdicts(o) BY <1>0, <2>2, Answers
        <4> QED BY <1>0, <4>1, <4>2 DEF SendersOk, Goto
      <3>2. CASE HttpTimeout(s) \/ Crash(s)
        BY <1>0, <3>2 DEF HttpTimeout, Crash, Goto, Die, SendersOk
      <3> QED BY <1>5, <3>1, <3>2
    <2>6. \A x \in Senders, y \in Messages : ~Serves(x, y)'
      <3>1. ~HttpBegin(s) BY <2>1 DEF HttpBegin
      <3> QED BY <2>1, <2>4, <2>5, <3>1, ServedLeaves
    <2>7. \A d \in Destinations, y \in Messages : Accepts(d, y)' = Accepts(d, y)
      BY <2>1 DEF Accepts
    <2>8. CASE HttpEnd(s)
      <3>1. PICK o \in Dispatched : Record(c, o) BY <2>2, <2>8 DEF HttpEnd
      <3>2. \A y \in Messages : y # c => inbox'[y] = inbox[y]
        BY <1>0, <3>1 DEF Record, DeliveryTypeOK
      <3>3. running' = running BY <2>8 DEF HttpEnd
      <3> QED BY <2>3, <2>6, <2>7, <3>2, <3>3, DispatchEnds
    <2>9. CASE Detached(s) /\ (HttpTimeout(s) \/ Crash(s))
      <3>1. running' = running \cup {c} BY <2>2, <2>9 DEF Detached
      <3>2. inbox' = inbox BY <2>9 DEF HttpTimeout, Crash
      <3>3. DispatchInv' BY <1>0, <2>3, <2>6, <2>7, <3>1, <3>2 DEF DispatchInv
      <3> QED BY <3>2, <3>3 DEF Accepted
    <2> QED BY <1>5, <2>8, <2>9
  <1> QED BY <1>2, <1>4, <1>5 DEF SenderStep

LEMMA OtherDispatch ==
    ASSUME DeliveryInv, [DeliveryNext]_deliveryVars,
           \/ \E m \in Messages : MessageStep(m)
           \/ \E d \in Destinations : WorkerStep(d)
           \/ NodeStart \/ UNCHANGED deliveryVars
    PROVE  DispatchInv' /\ Accepted \subseteq Accepted'
  <1>0. DeliveryTypeOK /\ DispatchInv /\ CopiesOf(Due) /\ Due \in SUBSET Messages
    BY CopiesAreDue DEF DeliveryInv, Due
  <1>1. UNCHANGED senderVars
    BY DEF MessageStep, Enqueue, StrayBegin, StrayEnd, Expire, ResponseExpires, WorkerStep, WorkerTake,
       WorkerAccept, WorkerPost, WorkerAck, WorkerFails, NodeStart, deliveryVars, senderVars
  <1>2. \A s \in Senders, y \in Messages : Serves(s, y)' = Serves(s, y)
    BY <1>1 DEF Serves, senderVars, Cur
  <1>3. ASSUME NEW m \in Messages, MessageStep(m)
        PROVE  DispatchInv' /\ Accepted \subseteq Accepted'
    <2>0. worker' = worker
      BY <1>3 DEF MessageStep, Enqueue, StrayBegin, StrayEnd, Expire, ResponseExpires
    <2>1. \A d \in Destinations, y \in Messages : Accepts(d, y)' = Accepts(d, y)
      BY <2>0 DEF Accepts
    <2>2. CASE UNCHANGED <<running, inbox>>
      BY <1>2, <2>1, <2>2, DispatchKept
    <2>3. CASE StrayBegin(m)
      <3>1. inbox' = inbox /\ (running' = running \/ (MayDispatch(m) /\ running' = running \cup {m}))
        BY <2>3 DEF StrayBegin
      <3> QED BY <1>1, <2>0, <2>2, <3>1, DispatchBegins
    <2>4. CASE StrayEnd(m)
      <3>1. m \in running /\ running' = running \ {m} /\ \E o \in Dispatched : Record(m, o)
        BY <2>4 DEF StrayEnd
      <3>2. \A y \in Messages : y # m => inbox'[y] = inbox[y]
        BY <1>0, <3>1 DEF Record, DeliveryTypeOK
      <3>3. /\ inbox[m] = "none" /\ \A s \in Senders : ~Serves(s, m)
            /\ \A d \in Destinations : ~Accepts(d, m)
        BY <1>0, <3>1 DEF DispatchInv
      <3> QED BY <1>2, <2>1, <3>1, <3>2, <3>3, DispatchEnds
    <2>5. Enqueue(m) \/ Expire(m) \/ ResponseExpires(m) => UNCHANGED <<running, inbox>>
      BY DEF Enqueue, Expire, ResponseExpires
    <2> QED BY <1>3, <2>2, <2>3, <2>4, <2>5 DEF MessageStep
  <1>4. ASSUME NEW d \in Destinations, WorkerStep(d)
        PROVE  DispatchInv' /\ Accepted \subseteq Accepted'
    <2>0. running' = running
      BY <1>4 DEF WorkerStep, WorkerTake, WorkerAccept, WorkerPost, WorkerAck, WorkerFails
    <2>1. PICK w : worker' = [worker EXCEPT ![d] = w]
      BY <1>0, <1>4, WorkerShape
    <2>2. worker'[d] = w /\ \A e \in Destinations : e # d => worker'[e] = worker[e]
      BY <1>0, <2>1 DEF DeliveryTypeOK
    <2>3. \A e \in Destinations, y \in Messages : e # d => Accepts(e, y)' = Accepts(e, y)
      BY <2>2 DEF Accepts
    <2>4. CASE WorkerTake(d)
      <3>1. inbox' = inbox BY <2>4 DEF WorkerTake
      <3>2. CASE w.at = "accept"
        <4>1. MayDispatch(Head(mail[d]).msg) /\ worker' = [worker EXCEPT ![d] =
                  [at |-> "accept", msg |-> Head(mail[d]).msg, content |-> "none"]]
          BY <1>0, <2>2, <2>4, <3>2 DEF WorkerTake, DeliveryTypeOK
        <4>2. PICK m : m = Head(mail[d]).msg OBVIOUS
        <4>3. worker'[d].msg = m /\ MayDispatch(m) BY <1>0, <4>1, <4>2 DEF DeliveryTypeOK
        <4>4. m \in Messages
          <5>1. mail[d] \in Seq(FramesOf(Due)) /\ mail[d] # <<>> BY <1>0, <2>4 DEF CopiesOf, WorkerTake
          <5>2. Head(mail[d]) \in FramesOf(Due) BY <5>1
          <5> QED BY <1>0, <4>2, <5>2 DEF FramesOf
        <4>5. \A e \in Destinations, y \in Messages : Accepts(e, y)' => Accepts(e, y) \/ (e = d /\ y = m)
          BY <2>3, <4>3 DEF Accepts
        <4> QED BY <1>1, <2>0, <3>1, <4>3, <4>4, <4>5, DispatchBegins
      <3>3. CASE w.at # "accept"
        <4>1. \A e \in Destinations, y \in Messages : Accepts(e, y)' => Accepts(e, y)
          BY <2>2, <2>3, <3>3 DEF Accepts
        <4> QED BY <1>2, <2>0, <3>1, <4>1, DispatchKept
      <3> QED BY <3>2, <3>3
    <2>5. CASE WorkerAccept(d)
      <3>1. PICK o \in Dispatched :
              Record(worker[d].msg, o) /\ worker' = [worker EXCEPT ![d].at = "post", ![d].content = Content(o)]
        BY <2>5 DEF WorkerAccept
      <3>2. worker'[d].at = "post" BY <1>0, <3>1 DEF DeliveryTypeOK
      <3>3. PICK m \in Messages : m = worker[d].msg
        BY <1>0, <2>5 DEF WorkerAccept, CopiesOf
      <3>4. Accepts(d, m) BY <2>5, <3>3 DEF WorkerAccept, Accepts
      <3>5. /\ inbox[m] = "none" /\ m \notin running
            /\ \A s \in Senders : ~Serves(s, m)
            /\ \A e \in Destinations : e # d => ~Accepts(e, m)
        BY <1>0, <3>4 DEF DispatchInv
      <3>6. \A y \in Messages : y # m => inbox'[y] = inbox[y]
        BY <1>0, <3>1, <3>3 DEF Record, DeliveryTypeOK
      <3>7. \A e \in Destinations, y \in Messages : Accepts(e, y)' => Accepts(e, y) /\ y # m
        <4> TAKE e \in Destinations, y \in Messages
        <4>1. CASE e = d BY <3>2, <4>1 DEF Accepts
        <4>2. CASE e # d BY <2>3, <3>5, <4>2
        <4> QED BY <4>1, <4>2
      <3> QED BY <1>2, <2>0, <3>5, <3>6, <3>7, DispatchEnds
    <2>6. CASE WorkerPost(d) \/ WorkerAck(d) \/ WorkerFails(d)
      <3>1. inbox' = inbox BY <2>6 DEF WorkerPost, WorkerAck, WorkerFails
      <3>2. worker'[d].at # "accept"
        BY <1>0, <2>6 DEF WorkerPost, WorkerAck, WorkerFails, Idle, DeliveryTypeOK
      <3>3. \A e \in Destinations, y \in Messages : Accepts(e, y)' => Accepts(e, y)
        BY <2>3, <3>2 DEF Accepts
      <3> QED BY <1>2, <2>0, <3>1, <3>3, DispatchKept
    <2> QED BY <1>4, <2>4, <2>5, <2>6 DEF WorkerStep
  <1>5. CASE NodeStart \/ UNCHANGED deliveryVars
    <2>1. UNCHANGED <<running, inbox, worker>> BY <1>5 DEF NodeStart, deliveryVars
    <2> QED BY <1>2, <2>1, DispatchKept DEF Accepts
  <1> QED BY <1>3, <1>4, <1>5

LEMMA DispatchStep ==
    ASSUME DeliveryInv, [DeliveryNext]_deliveryVars
    PROVE  DispatchInv' /\ Accepted \subseteq Accepted'
  BY SenderDispatch, OtherDispatch DEF DeliveryNext

-----------------------------------------------------------------------------
(* Receipts: what is reported as accepted was accepted *)

\* Good news a sender, a worker or a mailbox gets in a step is true after it.
LEMMA SenderNews ==
    ASSUME DeliveryInv, [DeliveryNext]_deliveryVars, NEW s \in Senders, pc'[s] = "sent", Cur(s) \in Wrapped
    PROVE  Cur(s)' = Cur(s) /\ Cur(s) \in Accepted'
  <1>0. DeliveryTypeOK /\ LockInv /\ SendersOk /\ ReceiptInv /\ Accepted \subseteq Accepted'
    BY DispatchStep DEF DeliveryInv, DeliveryTypeOK, SendersOk, SenderLabels
  <1>1. Cur(s)' = Cur(s) /\ (pc[s] = "sent" \/ HttpBegin(s) \/ HttpEnd(s) \/ RelayReply(s))
    BY PcStep
  <1>2. CASE pc[s] = "sent" BY <1>0, <1>1, <1>2 DEF ReceiptInv
  <1>3. CASE HttpBegin(s) \/ HttpEnd(s) \/ RelayReply(s)
    <2>0. PICK c \in Messages : c = Cur(s)
      BY <1>0, <1>3, CurIn DEF LockInv, HttpBegin, HttpEnd, RelayReply
    <2>1. CASE HttpBegin(s)
      <3>1. PICK o \in AtOnce(c) : \E v \in HttpVerdicts(o) : Goto(s, v)
        BY <1>0, <2>0, <2>1 DEF HttpBegin, Goto, SendersOk
      <3>2. "sent" \in HttpVerdicts(o) BY <1>0, <3>1 DEF Goto, SendersOk
      <3>3. o \in {"refused", "busy", "none", "ok", "reject"} BY <1>0, Answers
      <3>4. c \in Accepted BY <1>0, <3>2, <3>3, Answers
      <3> QED BY <1>0, <1>1, <2>0, <3>4
    <2>2. CASE HttpEnd(s)
      <3>1. PICK o \in Dispatched : Record(c, o) /\ \E v \in HttpVerdicts(o) : Goto(s, v)
        BY <2>0, <2>2 DEF HttpEnd
      <3>2. "sent" \in HttpVerdicts(o) BY <1>0, <3>1 DEF Goto, SendersOk
      <3>3. o \in {"refused", "busy", "none", "ok", "reject"} BY <1>0, Answers
      <3>4. o = "ok" BY <1>0, <3>2, <3>3, Answers
      <3>5. inbox'[c] = "ok" BY <1>0, <3>1, <3>4 DEF Record, DeliveryTypeOK
      <3> QED BY <1>1, <2>0, <3>5 DEF Accepted
    <2>3. CASE RelayReply(s)
      <3>1. PICK f \in Visible(Self) :
              /\ IsReceipt(c, f)
              /\ IF f.content = "none" THEN Die(s) ELSE Goto(s, RelayVerdict(c, f.content))
        BY <2>0, <2>3 DEF RelayReply
      <3>2. f \in TrueReceipts BY <1>0, VisibleFrames DEF ReceiptInv, Accounts
      <3>3. f.content = "ok" /\ f.msg = c
        BY <1>0, <2>0, <3>1 DEF Goto, Die, SendersOk, RelayVerdict, IsReceipt
      <3>4. c \in Accepted BY <3>2, <3>3 DEF TrueReceipts
      <3> QED BY <1>0, <1>1, <2>0, <3>4
    <2> QED BY <1>3, <2>1, <2>2, <2>3
  <1> QED BY <1>1, <1>2, <1>3

LEMMA WorkerNews ==
    ASSUME DeliveryInv, [DeliveryNext]_deliveryVars, NEW d \in Destinations, worker'[d].content = "ok"
    PROVE  worker'[d].msg \in Accepted'
  <1>0. /\ DeliveryTypeOK /\ ReceiptInv /\ Accepted \subseteq Accepted' /\ CopiesOf(Due)
        /\ Due \in SUBSET Messages
    BY DispatchStep, CopiesAreDue DEF DeliveryInv, Due
  <1>1. CASE worker'[d] = worker[d] BY <1>0, <1>1 DEF ReceiptInv
  <1>2. CASE WorkerTake(d)
    <2>1. PICK m : m = Head(mail[d]).msg OBVIOUS
    <2>2. m \in Messages
      <3>1. mail[d] \in Seq(FramesOf(Due)) /\ mail[d] # <<>> BY <1>0, <1>2 DEF CopiesOf, WorkerTake
      <3>2. Head(mail[d]) \in FramesOf(Due) BY <3>1
      <3> QED BY <1>0, <2>1, <3>2 DEF FramesOf
    <2>3. PICK o \in AtOnce(m) : worker' = [worker EXCEPT ![d] = [at |-> "post", msg |-> m, content |-> Content(o)]]
      BY <1>0, <1>2, <2>1 DEF WorkerTake, DeliveryTypeOK
    <2>4. worker'[d].msg = m /\ Content(o) = "ok" BY <1>0, <2>3 DEF DeliveryTypeOK
    <2>5. o \in {"refused", "busy", "none", "ok", "reject"} BY <1>0, <2>2, Answers
    <2>6. m \in Accepted BY <1>0, <2>2, <2>4, <2>5, Answers
    <2> QED BY <1>0, <2>4, <2>6
  <1>3. CASE WorkerAccept(d)
    <2>1. PICK m \in Messages : m = worker[d].msg BY <1>0, <1>3 DEF WorkerAccept, CopiesOf
    <2>2. PICK o \in Dispatched : Record(m, o)
                 /\ worker' = [worker EXCEPT ![d].at = "post", ![d].content = Content(o)]
      BY <1>3, <2>1 DEF WorkerAccept
    <2>3. worker'[d].msg = m /\ Content(o) = "ok" BY <1>0, <2>1, <2>2 DEF DeliveryTypeOK
    <2>4. o = "ok" BY <2>3 DEF Content
    <2>5. inbox'[m] = "ok" BY <1>0, <2>2, <2>4 DEF Record, DeliveryTypeOK
    <2> QED BY <2>3, <2>5 DEF Accepted
  <1>4. CASE WorkerPost(d) \/ WorkerAck(d) \/ WorkerFails(d)
    BY <1>0, <1>4 DEF WorkerPost, WorkerAck, WorkerFails, Idle, DeliveryTypeOK
  <1>5. ASSUME NEW e \in Destinations, e # d, WorkerStep(e) PROVE worker'[d] = worker[d]
    <2>1. PICK w : worker' = [worker EXCEPT ![e] = w] BY <1>0, <1>5, WorkerShape
    <2> QED BY <1>0, <1>5, <2>1 DEF DeliveryTypeOK
  <1>6. CASE worker' = worker BY <1>1, <1>6
  <1>7. ASSUME NEW s \in Senders, Round(s) \/ SenderStep(s) \/ Crash(s) PROVE worker' = worker
    BY <1>7 DEF SenderStep, Round, SendFails, HttpBegin, HttpEnd, HttpTimeout, RelayPost, RelayReply, Mark, Crash
  <1>8. ASSUME NEW m \in Messages, MessageStep(m) PROVE worker' = worker
    BY <1>8 DEF MessageStep, Enqueue, StrayBegin, StrayEnd, Expire, ResponseExpires
  <1>9. ASSUME NEW e \in Destinations, WorkerStep(e) PROVE worker'[d].msg \in Accepted'
    BY <1>1, <1>2, <1>3, <1>4, <1>5, <1>9 DEF WorkerStep
  <1>10. NodeStart \/ UNCHANGED deliveryVars => worker' = worker BY DEF NodeStart, deliveryVars
  <1> QED BY <1>6, <1>7, <1>8, <1>9, <1>10 DEF DeliveryNext

LEMMA MailNews ==
    ASSUME DeliveryInv, [DeliveryNext]_deliveryVars
    PROVE  mail'[Self] \in Seq(TrueReceipts')
  <1>0. /\ DeliveryTypeOK /\ ReceiptInv /\ Accepted \subseteq Accepted' /\ CopiesOf(Due) /\ LockInv
        /\ Self \in Accounts /\ Self \notin Destinations /\ Destinations \subseteq Accounts
    BY DispatchStep, CopiesAreDue, RouteAssumption DEF DeliveryInv, Accounts
  <1>1. PICK G : G = TrueReceipts' OBVIOUS
  <1>2. mail[Self] \in Seq(G) /\ mail \in [Accounts -> Seq(Frames)]
    <2>1. TrueReceipts \subseteq G BY <1>0, <1>1 DEF TrueReceipts
    <2>2. mail[Self] \in Seq(TrueReceipts) BY <1>0 DEF ReceiptInv
    <2> QED BY <1>0, <2>1, <2>2, SeqGrows DEF DeliveryTypeOK
  <1>3. CASE mail' = mail BY <1>1, <1>2, <1>3
  <1>4. ASSUME NEW a \in Accounts, NEW kind, NEW m, mail' = Without(a, kind, m)
        PROVE  mail'[Self] \in Seq(G)
    <2>1. CASE a = Self BY <1>2, <1>4, <2>1, WithoutMail
    <2>2. CASE a # Self BY <1>0, <1>2, <1>4, <2>2, WithoutOthers
    <2> QED BY <2>1, <2>2
  <1>5. ASSUME NEW s \in Senders, RelayPost(s) PROVE mail'[Self] \in Seq(G)
    <2>1. Cur(s) \in Messages BY <1>0, <1>5, CurIn DEF LockInv, RelayPost
    <2>2. To[Cur(s)] \in Destinations /\ Request(Cur(s)) \in Frames
      BY <2>1, RouteAssumption DEF Request, Frames, Contents
    <2>3. mail' = mail \/ mail' = Stored(To[Cur(s)], Request(Cur(s))) BY <1>5 DEF RelayPost
    <2>4. CASE mail' = Stored(To[Cur(s)], Request(Cur(s)))
      <3>1. PICK a \in Accounts, f \in Frames : a = To[Cur(s)] /\ f = Request(Cur(s))
        BY <1>0, <2>2
      <3>2. mail[a] \in Seq(Frames) /\ a # Self BY <1>0, <1>2, <2>2, <3>1
      <3>3. Stored(a, f)[Self] = mail[Self] BY <1>0, <1>2, <3>2, StoredMail
      <3> QED BY <1>2, <2>4, <3>1, <3>3
    <2> QED BY <1>2, <2>3, <2>4
  <1>6. ASSUME NEW d \in Destinations, WorkerPost(d) PROVE mail'[Self] \in Seq(G)
    <2>1. PICK m, c : m = worker[d].msg /\ c = worker[d].content OBVIOUS
    <2>2. m \in Messages /\ c \in Contents
      BY <1>0, <1>6, <2>1 DEF WorkerPost, CopiesOf, WorkerSet, Due
    <2>3. mail' = Stored(Self, Receipt(m, c)) BY <1>6, <2>1 DEF WorkerPost
    <2>4. Receipt(m, c) \in Frames BY <2>2 DEF Receipt, Frames
    <2>5. c = "ok" => m \in Accepted' BY <1>0, <2>1 DEF ReceiptInv
    <2>6. Receipt(m, c) \in G BY <1>1, <2>4, <2>5 DEF TrueReceipts, Receipt
    <2> QED BY <1>0, <1>2, <2>3, <2>4, <2>6, StoredMail
  <1>7. ASSUME NEW s \in Senders, Round(s) \/ SenderStep(s) \/ Crash(s) PROVE mail'[Self] \in Seq(G)
    <2>1. CASE RelayReply(s) BY <1>0, <1>4, <2>1 DEF RelayReply
    <2>2. CASE RelayPost(s) BY <1>5, <2>2
    <2>3. CASE ~RelayReply(s) /\ ~RelayPost(s)
      BY <1>2, <1>7, <2>3 DEF SenderStep, Round, SendFails, HttpBegin, HttpEnd, HttpTimeout, Mark, Crash
    <2> QED BY <2>1, <2>2, <2>3
  <1>8. ASSUME NEW m \in Messages, MessageStep(m) PROVE mail'[Self] \in Seq(G)
    <2>0. To[m] \in Accounts BY RouteAssumption DEF Accounts
    <2>1. CASE Expire(m) BY <1>4, <2>0, <2>1 DEF Expire
    <2>2. CASE ResponseExpires(m) BY <1>0, <1>4, <2>2 DEF ResponseExpires
    <2>3. CASE Enqueue(m) \/ StrayBegin(m) \/ StrayEnd(m)
      BY <1>2, <2>3 DEF Enqueue, StrayBegin, StrayEnd
    <2> QED BY <1>8, <2>1, <2>2, <2>3 DEF MessageStep
  <1>9. ASSUME NEW d \in Destinations, WorkerStep(d) PROVE mail'[Self] \in Seq(G)
    <2>1. CASE WorkerAck(d) BY <1>0, <1>4, <2>1 DEF WorkerAck
    <2>2. CASE WorkerPost(d) BY <1>6, <2>2
    <2>3. CASE WorkerTake(d) \/ WorkerAccept(d) \/ WorkerFails(d)
      BY <1>2, <2>3 DEF WorkerTake, WorkerAccept, WorkerFails
    <2> QED BY <1>9, <2>1, <2>2, <2>3 DEF WorkerStep
  <1>10. NodeStart \/ UNCHANGED deliveryVars => mail' = mail BY DEF NodeStart, deliveryVars
  <1> QED BY <1>1, <1>3, <1>7, <1>8, <1>9, <1>10 DEF DeliveryNext

-----------------------------------------------------------------------------
(* The invariant and its theorems *)

LEMMA DeliveryInitInd == DeliveryInit => DeliveryInv
  <1> SUFFICES ASSUME DeliveryInit PROVE DeliveryInv OBVIOUS
  <1>1. Row("absent") \in Rows /\ Row("absent").state = "absent"
    BY DEF Row, Rows
  <1>2. \A m \in Messages : out[m].state = "absent" /\ inbox[m] = "none"
    BY <1>1 DEF DeliveryInit
  <1>3. \A d \in Destinations : worker[d] = Idle /\ mail[d] = <<>>
    BY DEF DeliveryInit, Accounts
  <1>4. DeliveryTypeOK
    BY <1>1 DEF DeliveryInit, DeliveryTypeOK, Idle, Contents
  <1>5. LockInv /\ RowsInOrder
    BY <1>2 DEF DeliveryInit, LockInv, RowsInOrder
  <1>6. TurnInv
    <2>1. Idle.msg = None /\ Idle.at = "idle" BY DEF Idle
    <2>2. <<>> \in Seq(DueFrames) OBVIOUS
    <2>3. \A d \in Destinations : /\ worker[d].msg = None /\ worker[d].at = "idle"
                                  /\ mail[d] \in Seq(DueFrames)
      BY <1>3, <2>1, <2>2
    <2> QED BY <1>2, <2>3 DEF DeliveryInit, TurnInv
  <1>7. DispatchInv
    BY <1>3 DEF DeliveryInit, DispatchInv, Serves, Accepts, Idle
  <1>8. ReceiptInv
    BY <1>2, <1>3, SenderAssumption DEF DeliveryInit, ReceiptInv, SentIsAccepted, Idle, Accounts
  <1> QED BY <1>4, <1>5, <1>6, <1>7, <1>8 DEF DeliveryInv

LEMMA DeliveryNextInd ==
    ASSUME DeliveryInv, [DeliveryNext]_deliveryVars
    PROVE  DeliveryInv'
  <1>1. /\ out' \in [Messages -> Rows] /\ RowsInOrder' /\ SendersOk' /\ LockInv'
        /\ CopiesOf(Due)' /\ DispatchInv' /\ Accepted \subseteq Accepted'
        /\ \A s \in Senders : batch'[s] \subseteq Due'
    BY OutStep, SendersStep, CopiesStep, DispatchStep
  <1>2. Due' \subseteq Messages BY DEF Due
  <1>3. worker' \in [Destinations -> [at : {"idle", "accept", "post", "ack"},
                                      msg : Messages \cup {None}, content : Contents]]
    BY <1>1, <1>2 DEF CopiesOf, WorkerSet
  <1>4. DeliveryTypeOK'
    BY <1>1, <1>2, <1>3 DEF DeliveryTypeOK, SendersOk, SenderLabels, CopiesOf
  <1>5. TurnInv'
    BY <1>1 DEF TurnInv, CopiesOf, WorkerSet, DueFrames, FramesOf
  <1>6. SentIsAccepted'
    <2> SUFFICES ASSUME NEW m \in Wrapped, out'[m].state = "sent" PROVE m \in Accepted'
      BY DEF SentIsAccepted, Accepted
    <2>1. m \in Messages BY SenderAssumption
    <2>2. m \in Accepted
      BY <2>1, OutStep DEF DeliveryInv, ReceiptInv, SentIsAccepted, Accepted
    <2> QED BY <1>1, <2>2
  <1>7. ReceiptInv'
    <2>1. \A s \in Senders : pc'[s] = "sent" /\ Cur(s)' \in Wrapped => Cur(s)' \in Accepted'
      BY PcStep, SenderNews
    <2>2. \A d \in Destinations : worker'[d].content = "ok" => worker'[d].msg \in Accepted'
      BY WorkerNews
    <2> QED BY <1>6, <2>1, <2>2, MailNews DEF ReceiptInv
  <1> QED BY <1>1, <1>4, <1>5, <1>7 DEF DeliveryInv

LEMMA DeliveryInvariant == DeliverySpec => []DeliveryInv
  <1>1. DeliveryInv /\ [DeliveryNext]_deliveryVars => DeliveryInv'
    BY DeliveryNextInd
  <1> QED BY <1>1, DeliveryInitInd, PTL DEF DeliverySpec

\* Every row, mailbox, batch and worker stays in its type.
THEOREM DeliveryTypeCorrect == DeliverySpec => []DeliveryTypeOK
  BY DeliveryInvariant, PTL DEF DeliveryInv

\* What mark_sent records of a wrapped message is true: its receiver accepted
\* it, whichever of the HTTP and relay copies the answer belongs to.
THEOREM SentAccepted == DeliverySpec => []SentIsAccepted
  <1>1. DeliveryInv => SentIsAccepted BY DEF DeliveryInv, ReceiptInv
  <1> QED BY <1>1, DeliveryInvariant, PTL

\* A cancel does not overtake the order it cancels: claim_ready hands out the
\* head of a destination only, and every copy of a message was claimed first.
THEOREM OrderKept == DeliverySpec => OvertakenOnlyIfDead
  <1> DEFINE InOrder == \A m \in Wrapped : inbox[m] # "ok" /\ inbox'[m] = "ok" =>
                        \/ out[m].state = "dead"
                        \/ \A n \in Messages : To[n] = To[m] /\ n > m => inbox[n] # "ok"
  <1>1. DeliveryInv => InOrder
    <2> SUFFICES ASSUME DeliveryInv, NEW m \in Wrapped, inbox[m] # "ok",
                        NEW n \in Messages, To[n] = To[m], n > m, inbox[n] = "ok"
                 PROVE  out[m].state = "dead"
      OBVIOUS
    <2>1. m \in Messages /\ m \in Nat /\ n \in Nat
      BY SenderAssumption, RowAssumption DEF Messages
    <2>2. n \in Due BY DEF DeliveryInv, TurnInv
    <2>3. out[m].state \in Final BY <2>1, <2>2 DEF Due
    <2>4. out[m].state # "sent" BY DEF DeliveryInv, ReceiptInv, SentIsAccepted
    <2> QED BY <2>3, <2>4 DEF Final
  <1>2. DeliveryInv => [InOrder]_deliveryVars BY <1>1
  <1> QED BY <1>2, DeliveryInvariant, PTL DEF OvertakenOnlyIfDead
=============================================================================
