----------------------- MODULE DeliveryProgressProofs -----------------------
(***************************************************************************)
(* Proofs about TaskDelivery: no queued task is forgotten while the hub    *)
(* holds an open connection, and a task that the policy does not replay    *)
(* stays with the agent that has acknowledged it.                          *)
(***************************************************************************)
EXTENDS TaskDeliveryProofs

-----------------------------------------------------------------------------
(* The chain of store operations: which of them will deliver a task, and   *)
(* which put tasks back into the queue without delivering them.            *)

\* The handshake's operations that end with the delivery of all queued tasks.
Refills(o) == o.op \in {"online", "pending"}
\* What sets tasks to "queued" and leaves their delivery to others.
GivesBack(o) == o.op \in {"revert", "requeue"}

\* The operation leads to a delivery of t if it is queued.
Brings(o, t) ==
  \/ Refills(o)
  \/ o.op \in {"snapshot", "reserve"} /\ t \in o.tasks
  \/ o.op \in {"reserve", "revert"} /\ t \in o.rest

Covers(s, t) == \E i \in DOMAIN s : Brings(s[i], t)
FollowedUp(s) ==
  \A i \in DOMAIN s : GivesBack(s[i]) => \E j \in DOMAIN s : i < j /\ Refills(s[j])
Keeps(s) == \A i \in DOMAIN s : ~GivesBack(s[i])

\* A sequence of operations brings what its first one or the rest brings.
LEMMA CoversHead ==
  ASSUME NEW s \in Seq(Op), s # <<>>, NEW t
  PROVE  Covers(s, t) <=> Brings(Head(s), t) \/ Covers(Tail(s), t)
<1>1. /\ Len(s) \in Nat \ {0} /\ DOMAIN s = 1..Len(s) /\ Head(s) = s[1]
      /\ DOMAIN Tail(s) = 1..(Len(s) - 1)
      /\ \A i \in 1..(Len(s) - 1) : Tail(s)[i] = s[i + 1]
  OBVIOUS
<1>2. \A i \in 1..Len(s) : i = 1 \/ (i - 1 \in 1..(Len(s) - 1) /\ (i - 1) + 1 = i)
  BY <1>1
<1>3. ASSUME Covers(s, t) PROVE Brings(Head(s), t) \/ Covers(Tail(s), t)
  <2>1. PICK i \in 1..Len(s) : Brings(s[i], t)
    BY <1>1, <1>3 DEF Covers
  <2>2. CASE i = 1
    BY <1>1, <2>1, <2>2
  <2>3. CASE i # 1
    <3>1. i - 1 \in DOMAIN Tail(s) /\ Tail(s)[i - 1] = s[i]
      BY <1>1, <1>2, <2>3
    <3> QED BY <2>1, <3>1 DEF Covers
  <2> QED BY <2>2, <2>3
<1>4. ASSUME Brings(Head(s), t) PROVE Covers(s, t)
  <2>1. 1 \in DOMAIN s /\ Brings(s[1], t)
    BY <1>1, <1>4
  <2> QED BY <2>1 DEF Covers
<1>5. ASSUME Covers(Tail(s), t) PROVE Covers(s, t)
  <2>1. PICK i \in DOMAIN Tail(s) : Brings(Tail(s)[i], t)
    BY <1>5 DEF Covers
  <2>2. i + 1 \in DOMAIN s /\ s[i + 1] = Tail(s)[i]
    BY <1>1
  <2> QED BY <2>1, <2>2 DEF Covers
<1> QED BY <1>3, <1>4, <1>5

LEMMA CoversConcat ==
  ASSUME NEW p \in Seq(Op), NEW q \in Seq(Op), NEW t
  PROVE  Covers(p \o q, t) <=> Covers(p, t) \/ Covers(q, t)
<1>1. /\ Len(p) \in Nat /\ Len(q) \in Nat /\ DOMAIN p = 1..Len(p) /\ DOMAIN q = 1..Len(q)
      /\ DOMAIN (p \o q) = 1..(Len(p) + Len(q))
      /\ \A i \in 1..Len(p) : (p \o q)[i] = p[i]
      /\ \A i \in 1..Len(q) : (p \o q)[Len(p) + i] = q[i]
  OBVIOUS
<1>2. \A i \in 1..(Len(p) + Len(q)) :
        i \in 1..Len(p) \/ (i - Len(p) \in 1..Len(q) /\ Len(p) + (i - Len(p)) = i)
  BY <1>1
<1>3. /\ \A i \in 1..Len(p) : i \in 1..(Len(p) + Len(q))
      /\ \A i \in 1..Len(q) : Len(p) + i \in 1..(Len(p) + Len(q))
  BY <1>1
<1> QED BY <1>1, <1>2, <1>3 DEF Covers

LEMMA CoversOne == \A o, t : Covers(<<o>>, t) <=> Brings(o, t)
  BY DEF Covers

LEMMA CoversNone == \A t : ~Covers(<<>>, t)
  BY DEF Covers

LEMMA FollowedUpTail ==
  ASSUME NEW s \in Seq(Op), s # <<>>, FollowedUp(s)
  PROVE  /\ FollowedUp(Tail(s))
         /\ GivesBack(Head(s)) => \A t : Covers(Tail(s), t)
<1>1. /\ Len(s) \in Nat \ {0} /\ DOMAIN s = 1..Len(s) /\ Head(s) = s[1]
      /\ DOMAIN Tail(s) = 1..(Len(s) - 1)
      /\ \A i \in 1..(Len(s) - 1) : Tail(s)[i] = s[i + 1]
  OBVIOUS
<1>2. \A j \in 1..Len(s) : 1 < j => j - 1 \in 1..(Len(s) - 1) /\ Tail(s)[j - 1] = s[j]
  BY <1>1
<1>3. ASSUME NEW i \in DOMAIN Tail(s), GivesBack(Tail(s)[i])
      PROVE  \E j \in DOMAIN Tail(s) : i < j /\ Refills(Tail(s)[j])
  <2>1. i + 1 \in DOMAIN s /\ GivesBack(s[i + 1])
    BY <1>1, <1>3
  <2>2. PICK j \in DOMAIN s : i + 1 < j /\ Refills(s[j])
    BY <2>1 DEF FollowedUp
  <2>3. j - 1 \in DOMAIN Tail(s) /\ i < j - 1 /\ Refills(Tail(s)[j - 1])
    BY <1>1, <1>2, <2>2
  <2> QED BY <2>3
<1>4. ASSUME GivesBack(Head(s)), NEW t PROVE Covers(Tail(s), t)
  <2>1. PICK j \in DOMAIN s : 1 < j /\ Refills(s[j])
    BY <1>1, <1>4 DEF FollowedUp
  <2> QED BY <1>1, <1>2, <2>1 DEF Covers, Brings
<1> QED BY <1>3, <1>4 DEF FollowedUp

LEMMA FollowedUpConcat ==
  ASSUME NEW p \in Seq(Op), NEW q \in Seq(Op)
  PROVE  /\ FollowedUp(p) /\ Keeps(q) => FollowedUp(p \o q)
         /\ Keeps(p) /\ FollowedUp(q) => FollowedUp(p \o q)
<1>1. /\ Len(p) \in Nat /\ Len(q) \in Nat /\ DOMAIN p = 1..Len(p) /\ DOMAIN q = 1..Len(q)
      /\ DOMAIN (p \o q) = 1..(Len(p) + Len(q))
      /\ \A i \in 1..Len(p) : (p \o q)[i] = p[i]
      /\ \A i \in 1..Len(q) : (p \o q)[Len(p) + i] = q[i]
  OBVIOUS
<1>2. \A i \in DOMAIN (p \o q) :
        \/ i \in DOMAIN p /\ (p \o q)[i] = p[i]
        \/ i - Len(p) \in DOMAIN q /\ (p \o q)[i] = q[i - Len(p)]
  <2> TAKE i \in DOMAIN (p \o q)
  <2>1. i \in 1..Len(p) \/ (i - Len(p) \in 1..Len(q) /\ Len(p) + (i - Len(p)) = i)
    BY <1>1
  <2> QED BY <1>1, <2>1
<1>3. ASSUME FollowedUp(p), Keeps(q), NEW i \in DOMAIN (p \o q), GivesBack((p \o q)[i])
      PROVE  \E j \in DOMAIN (p \o q) : i < j /\ Refills((p \o q)[j])
  <2>1. i \in DOMAIN p /\ GivesBack(p[i])
    BY <1>2, <1>3 DEF Keeps
  <2>2. PICK j \in DOMAIN p : i < j /\ Refills(p[j])
    BY <1>3, <2>1 DEF FollowedUp
  <2>3. j \in DOMAIN (p \o q) /\ (p \o q)[j] = p[j]
    BY <1>1
  <2> QED BY <2>2, <2>3
<1>4. ASSUME Keeps(p), FollowedUp(q), NEW i \in DOMAIN (p \o q), GivesBack((p \o q)[i])
      PROVE  \E j \in DOMAIN (p \o q) : i < j /\ Refills((p \o q)[j])
  <2>1. i - Len(p) \in DOMAIN q /\ GivesBack(q[i - Len(p)])
    BY <1>2, <1>4 DEF Keeps
  <2>2. PICK j \in DOMAIN q : i - Len(p) < j /\ Refills(q[j])
    BY <1>4, <2>1 DEF FollowedUp
  <2>3. /\ Len(p) + j \in DOMAIN (p \o q) /\ (p \o q)[Len(p) + j] = q[j]
        /\ i < Len(p) + j
    BY <1>1, <2>2
  <2> QED BY <2>2, <2>3
<1> QED BY <1>3, <1>4 DEF FollowedUp

\* After an operation that delivers everything, nothing is left behind.
LEMMA FollowedUpByLast ==
  ASSUME NEW s \in Seq(Op), NEW o \in Op, Refills(o)
  PROVE  FollowedUp(Append(s, o)) /\ \A t : Covers(Append(s, o), t)
<1>1. /\ Len(s) \in Nat /\ DOMAIN s = 1..Len(s) /\ DOMAIN Append(s, o) = 1..(Len(s) + 1)
      /\ Append(s, o)[Len(s) + 1] = o
  OBVIOUS
<1>2. ~GivesBack(o)
  BY DEF Refills, GivesBack
<1>3. \A i \in 1..(Len(s) + 1) : i = Len(s) + 1 \/ i < Len(s) + 1
  BY <1>1
<1> QED BY <1>1, <1>2, <1>3 DEF FollowedUp, Covers, Brings

LEMMA OneAppended ==
  ASSUME NEW s \in Seq(Op), NEW o \in Op
  PROVE  Append(s, o) = s \o <<o>> /\ <<o>> \in Seq(Op)
  OBVIOUS

\* The head of the chain is done; p goes before the rest, q after it.
LEMMA HeadReplaced ==
  ASSUME NEW s \in Seq(Op), s # <<>>, FollowedUp(s), NEW p \in Seq(Op), NEW q \in Seq(Op),
         Keeps(p), Keeps(q)
  PROVE  /\ FollowedUp((p \o Tail(s)) \o q)
         /\ \A t : Covers((p \o Tail(s)) \o q, t) <=>
                     Covers(p, t) \/ Covers(Tail(s), t) \/ Covers(q, t)
<1>1. Tail(s) \in Seq(Op) /\ FollowedUp(Tail(s))
  BY FollowedUpTail
<1>2. p \o Tail(s) \in Seq(Op) /\ FollowedUp(p \o Tail(s))
  BY <1>1, FollowedUpConcat, ConcatTyped
<1>3. FollowedUp((p \o Tail(s)) \o q)
  BY <1>2, FollowedUpConcat
<1>4. ASSUME NEW t
      PROVE  Covers((p \o Tail(s)) \o q, t) <=> Covers(p, t) \/ Covers(Tail(s), t) \/ Covers(q, t)
  <2>1. Covers((p \o Tail(s)) \o q, t) <=> Covers(p \o Tail(s), t) \/ Covers(q, t)
    BY <1>2, CoversConcat
  <2>2. Covers(p \o Tail(s), t) <=> Covers(p, t) \/ Covers(Tail(s), t)
    BY <1>1, CoversConcat
  <2> QED BY <2>1, <2>2
<1> QED BY <1>3, <1>4

\* The same when nothing goes before the rest.
LEMMA HeadFollowed ==
  ASSUME NEW s \in Seq(Op), s # <<>>, FollowedUp(s), NEW q \in Seq(Op), Keeps(q)
  PROVE  /\ FollowedUp(Tail(s) \o q)
         /\ \A t : Covers(Tail(s) \o q, t) <=> Covers(Tail(s), t) \/ Covers(q, t)
<1>1. Tail(s) \in Seq(Op) /\ FollowedUp(Tail(s))
  BY FollowedUpTail
<1> QED BY <1>1, FollowedUpConcat, CoversConcat

\* An operation that gives nothing back is put behind the others.
LEMMA QuietlyAppended ==
  ASSUME NEW s \in Seq(Op), FollowedUp(s), NEW o \in Op, ~GivesBack(o)
  PROVE  FollowedUp(Append(s, o)) /\ \A t : Covers(s, t) => Covers(Append(s, o), t)
<1>1. Append(s, o) = s \o <<o>> /\ <<o>> \in Seq(Op) /\ Keeps(<<o>>)
  BY OneAppended DEF Keeps
<1>2. FollowedUp(s \o <<o>>)
  BY <1>1, FollowedUpConcat
<1>3. \A t : Covers(s, t) => Covers(s \o <<o>>, t)
  BY <1>1, CoversConcat
<1> QED BY <1>1, <1>2, <1>3

\* Deliveries that are started bring their tasks and give nothing back.
LEMMA StartBrings ==
  ASSUME NEW S \in SUBSET Tasks, NEW rest \in SUBSET Tasks, NEW c \in Conns \cup {NoConn}
  PROVE  /\ Start("snapshot", S, rest, c) \in Seq(Op) /\ Start("reserve", S, rest, c) \in Seq(Op)
         /\ Keeps(Start("snapshot", S, rest, c)) /\ Keeps(Start("reserve", S, rest, c))
         /\ \A t \in S : /\ Covers(Start("snapshot", S, rest, c), t)
                         /\ Covers(Start("reserve", S, rest, c), t)
         /\ S # {} => \A t \in rest : Covers(Start("reserve", S, rest, c), t)
<1>1. CASE S = {}
  BY <1>1 DEF Start, Keeps
<1>2. CASE S # {}
  <2> DEFINE n == Deliver("snapshot", S, rest, c)
             r == Deliver("reserve", S, rest, c)
  <2>1. n \in Op /\ r \in Op
    BY PlainBuilt DEF PlainOps
  <2>2. ~GivesBack(n) /\ ~GivesBack(r)
    BY DEF GivesBack, Deliver
  <2>3. /\ \A t \in S : Brings(n, t) /\ Brings(r, t)
        /\ \A t \in rest : Brings(r, t)
    BY DEF Brings, Deliver
  <2>4. Start("snapshot", S, rest, c) = <<n>> /\ Start("reserve", S, rest, c) = <<r>>
    BY <1>2 DEF Start
  <2> HIDE DEF n, r
  <2>5. <<n>> \in Seq(Op) /\ <<r>> \in Seq(Op) /\ Keeps(<<n>>) /\ Keeps(<<r>>)
    BY <2>1, <2>2 DEF Keeps
  <2> QED BY <2>3, <2>4, <2>5, CoversOne
<1> QED BY <1>1, <1>2

LEMMA ReturnedBrings ==
  ASSUME NEW rest \in SUBSET Tasks
  PROVE  /\ Returned(rest) \in Seq(Op) /\ Keeps(Returned(rest))
         /\ \A t \in rest : Covers(Returned(rest), t)
  BY StartBrings DEF Returned

\* Which transitions of the policy queue a task.
LEMMA QueuedBy ==
  ASSUME NEW x \in Task, NEW ok \in BOOLEAN
  PROVE  /\ Reserved(x).status # "queued" /\ Reported(x).status # "queued"
         /\ FailedOnce(x).status # "queued"
         /\ WithResult(x, ok).status = "queued" => x.status = "queued"
<1>1. Reserved(x).status # "queued" /\ Reported(x).status # "queued"
  BY DEF Task, Reserved, Reported
<1>2. FailedOnce(x).status # "queued"
  BY DEF Task, FailedOnce
<1>3. WithResult(x, ok).status = "queued" => x.status = "queued"
  BY <1>2 DEF Task, WithResult
<1> QED BY <1>1, <1>2, <1>3

-----------------------------------------------------------------------------
(* The hub's connection was opened once and does not open again.           *)

OpenedOps == {o \in Op : o.op = "authenticate" => o.by <= lastConn}
LinkInv ==
  /\ \A c \in Conns : srv[c] = "unused" <=> lastConn < c
  /\ hub <= lastConn
  /\ chain \in Seq(OpenedOps)

LEMMA LinkStep ==
  ASSUME TypeOK, LinkInv, [Next]_vars
  PROVE  LinkInv'
<1> USE DEF AtHead
<1>0. /\ Conns \subseteq Nat /\ NoConn = 0 /\ lastConn \in Nat /\ MaxConns \in Nat
      /\ Conns = 1..MaxConns /\ srv = [c \in Conns |-> srv[c]]
      /\ hub \in Conns \cup {0}
  BY DeliveryAssumption DEF TypeOK, Conns, NoConn
<1>1. CASE Connect
  <2>1. lastConn + 1 \in Conns /\ lastConn' = lastConn + 1
        /\ srv' = [srv EXCEPT ![lastConn + 1] = "open"] /\ hub' = hub /\ chain' = chain
    BY <1>0, <1>1 DEF Connect
  <2>2. hub' <= lastConn'
    BY <1>0, <2>1 DEF LinkInv
  <2>3. \A c \in Conns : srv'[c] = "unused" <=> lastConn' < c
    BY <1>0, <2>1 DEF LinkInv
  <2>4. OpenedOps \subseteq OpenedOps'
    <3>1. ASSUME NEW o \in Op, o.op = "authenticate", o.by <= lastConn PROVE o.by <= lastConn + 1
      <4>1. o.by \in Nat
        BY <1>0, <3>1, OpFields
      <4> QED BY <1>0, <3>1, <4>1
    <3> QED BY <2>1, <3>1 DEF OpenedOps
  <2>5. chain' \in Seq(OpenedOps')
    BY <2>1, <2>4, SeqMonotonic DEF LinkInv
  <2> QED BY <2>2, <2>3, <2>5 DEF LinkInv
<1>2. CASE ~Connect
  <2>1. lastConn' = lastConn
    BY <1>2 DEF Next, Commit, CommitDelivery, CommitSession, Run, Submit, CommitCreate,
       CommitSnapshotOfPending, CommitSnapshotOfNext, CommitReserve, CommitRevert,
       CommitAuthenticate, CommitOnline, CommitPending, CommitReport, CommitResult,
       CommitRequeue, CommitTick, StartTick, ApiRestart, ReceiveMessage, ReceiveHeartbeat,
       SocketClose, AgentDrop, AnswerFromJournal, StartTask, ExecuteFails, Execute,
       RecordAndReport, AgentCrash, vars, linkVars
  <2>2. OpenedOps' = OpenedOps
    BY <2>1 DEF OpenedOps
  <2>3. chain' \in Seq(OpenedOps)
    <3>1. QuietOps \subseteq OpenedOps
      BY DEF QuietOps, OpenedOps
    <3>2. \A c \in Conns : srv[c] # "unused" => Handshake("authenticate", c) \in OpenedOps
      <4> SUFFICES ASSUME NEW c \in Conns, srv[c] # "unused"
                   PROVE  Handshake("authenticate", c) \in OpenedOps
        OBVIOUS
      <4>1. c <= lastConn
        BY <1>0 DEF LinkInv
      <4> QED BY <4>1, OpBuilt DEF OpenedOps, Handshake
    <3>3. \A t \in Tasks, ok \in BOOLEAN : Result(t, ok) \in OpenedOps
      BY OpBuilt DEF OpenedOps, Result
    <3> QED BY <3>1, <3>2, <3>3, ChainStep DEF LinkInv
  <2>4. hub' <= lastConn
    <3>1. CASE CommitAuthenticate
      <4>1. Head(chain) \in OpenedOps /\ Head(chain).op = "authenticate" /\ hub' = Head(chain).by
        BY <3>1 DEF CommitAuthenticate, LinkInv
      <4> QED BY <4>1 DEF OpenedOps
    <3>2. CASE hub' = NoConn
      BY <1>0, <3>2
    <3>3. CASE hub' = hub
      BY <3>3 DEF LinkInv
    <3> QED
      BY <3>1, <3>2, <3>3
      DEF Next, Commit, CommitDelivery, CommitSession, Run, Submit, CommitCreate,
        CommitSnapshotOfPending, CommitSnapshotOfNext, CommitReserve, CommitRevert,
        CommitOnline, CommitPending, CommitReport, CommitResult, Connect,
        CommitRequeue, CommitTick, StartTick, ApiRestart, ReceiveMessage, ReceiveHeartbeat,
        SocketClose, AgentDrop, AnswerFromJournal, StartTask, ExecuteFails, Execute,
        RecordAndReport, AgentCrash, vars, panelVars
  <2>5. \A c \in Conns : srv'[c] = "unused" <=> srv[c] = "unused"
    <3>1. CASE CommitAuthenticate
      BY <1>0, <3>1 DEF CommitAuthenticate
    <3>2. CASE \E c \in Conns : ReceiveMessage(c) \/ ReceiveHeartbeat(c) \/ SocketClose(c)
      BY <1>0, <3>2 DEF ReceiveMessage, ReceiveHeartbeat, SocketClose
    <3>3. CASE ApiRestart
      BY <3>3 DEF ApiRestart
    <3>4. CASE srv' = srv
      BY <3>4
    <3> QED
      BY <1>2, <3>1, <3>2, <3>3, <3>4
      DEF Next, Commit, CommitDelivery, CommitSession, Run, Submit, CommitCreate,
        CommitSnapshotOfPending, CommitSnapshotOfNext, CommitReserve, CommitRevert,
        CommitOnline, CommitPending, CommitReport, CommitResult,
        CommitRequeue, CommitTick, StartTick, AgentDrop, AnswerFromJournal, StartTask,
        ExecuteFails, Execute, RecordAndReport, AgentCrash, vars, panelVars
  <2> QED BY <2>1, <2>2, <2>3, <2>4, <2>5 DEF LinkInv
<1> QED BY <1>1, <1>2

\* Only an authenticated connection makes the hub able to send.
LEMMA SendableBefore ==
  ASSUME TypeOK, LinkInv, [Next]_vars, Sendable', ~CommitAuthenticate
  PROVE  Sendable
<1>0. /\ Conns \subseteq Nat /\ NoConn = 0 /\ lastConn \in Nat
      /\ srv = [c \in Conns |-> srv[c]] /\ hub \in Conns \cup {0}
  BY DeliveryAssumption DEF TypeOK, Conns, NoConn
<1>1. CASE Connect
  <2>1. hub' = hub /\ hub # lastConn + 1 /\ srv'[hub] = srv[hub]
    BY <1>0, <1>1 DEF Connect, LinkInv, Sendable
  <2> QED BY <2>1 DEF Sendable
<1>2. CASE \E c \in Conns : ReceiveMessage(c) \/ ReceiveHeartbeat(c)
  <2>1. hub' = hub /\ \A c \in Conns : srv'[c] \in {srv[c], "rejected"}
    BY <1>0, <1>2 DEF ReceiveMessage, ReceiveHeartbeat
  <2> QED BY <1>0, <2>1 DEF Sendable
<1>3. CASE \E c \in Conns : SocketClose(c)
  <2>1. hub' \in {hub, NoConn} /\ \A c \in Conns : srv'[c] \in {srv[c], "closed"}
    BY <1>0, <1>3 DEF SocketClose
  <2> QED BY <1>0, <2>1 DEF Sendable
<1>4. CASE ApiRestart
  BY <1>4 DEF ApiRestart, Sendable
<1>5. CASE UNCHANGED <<hub, srv>>
  BY <1>5 DEF Sendable
<1> QED
  BY <1>1, <1>2, <1>3, <1>4, <1>5
  DEF Next, Commit, CommitDelivery, CommitSession, Run, Submit, CommitCreate,
    CommitSnapshotOfPending, CommitSnapshotOfNext, CommitReserve, CommitRevert,
    CommitOnline, CommitPending, CommitReport, CommitResult,
    CommitRequeue, CommitTick, StartTick, AgentDrop, AnswerFromJournal, StartTask,
    ExecuteFails, Execute, RecordAndReport, AgentCrash, vars, panelVars

-----------------------------------------------------------------------------
(* While the hub can send, some operation under way brings each queued     *)
(* task, and what gives tasks back is followed by a handshake's delivery.  *)

StrandInv ==
  Sendable => /\ FollowedUp(chain)
              /\ \A t \in Tasks : task[t].status = "queued" => Covers(chain, t)

\* The steps of the task deliveries.
LEMMA DeliveryStrand ==
  ASSUME TypeOK, StrandInv, Sendable, CommitDelivery
  PROVE  /\ FollowedUp(chain')
         /\ \A t \in Tasks : task'[t].status = "queued" => Covers(chain', t)
<1> USE DEF AtHead
<1> DEFINE o == Head(chain)
<1>0. /\ chain \in Seq(Op) /\ chain # <<>> /\ o \in Op /\ Tail(chain) \in Seq(Op)
      /\ FollowedUp(chain) /\ task \in [Tasks -> Task]
      /\ GivesBack(o) => \A t : Covers(Tail(chain), t)
      /\ \A t \in Tasks : task[t].status = "queued" => Brings(o, t) \/ Covers(Tail(chain), t)
  <2>1. chain \in Seq(Op) /\ chain # <<>> /\ FollowedUp(chain) /\ task \in [Tasks -> Task]
    BY DEF TypeOK, StrandInv, CommitDelivery, CommitCreate, CommitSnapshotOfPending,
       CommitSnapshotOfNext, CommitReserve, CommitRevert
  <2>2. GivesBack(o) => \A t : Covers(Tail(chain), t)
    BY <2>1, FollowedUpTail
  <2>3. \A t \in Tasks : task[t].status = "queued" => Brings(o, t) \/ Covers(Tail(chain), t)
    BY <2>1, CoversHead DEF StrandInv
  <2> QED BY <2>1, <2>2, <2>3
<1>1. CASE CommitCreate
  <2> DEFINE next == Start("snapshot", {o.task}, {}, NoConn)
  <2>1. /\ chain' = Tail(chain) \o next /\ o.op = "create" /\ o.task \in Tasks
        /\ task' = [task EXCEPT ![o.task] = Created(@)]
    BY <1>0, <1>1, OpFields DEF CommitCreate
  <2>2. next \in Seq(Op) /\ Keeps(next) /\ Covers(next, o.task)
    <3>1. {o.task} \in SUBSET Tasks /\ {} \in SUBSET Tasks /\ o.task \in {o.task}
      BY <2>1
    <3> HIDE DEF o
    <3> QED BY <3>1, StartBrings
  <2>3. ~\E t \in Tasks : Brings(o, t)
    BY <2>1 DEF Brings, Refills
  <2> HIDE DEF next, o
  <2>4. FollowedUp(chain') /\ \A t : Covers(chain', t) <=> Covers(Tail(chain), t) \/ Covers(next, t)
    BY <1>0, <2>1, <2>2, HeadFollowed
  <2>5. \A t \in Tasks : t # o.task => task'[t] = task[t]
    BY <1>0, <2>1
  <2> QED BY <1>0, <2>2, <2>3, <2>4, <2>5
<1>2. CASE CommitSnapshotOfPending
  <2> DEFINE queued == {t \in o.tasks : task[t].status = "queued"}
             next == Start("reserve", queued, {}, o.by)
  <2>1. /\ chain' = Tail(chain) \o next /\ o.op = "snapshot" /\ o.tasks \in SUBSET Tasks
        /\ o.by \in Conns \cup {NoConn} /\ queued \in SUBSET Tasks /\ task' = task
    BY <1>0, <1>2, OpFields DEF CommitSnapshotOfPending
  <2>2. next \in Seq(Op) /\ Keeps(next) /\ \A t \in queued : Covers(next, t)
    <3> HIDE DEF queued
    <3> QED BY <2>1, StartBrings
  <2>3. \A t \in Tasks : task[t].status = "queued" => t \in queued \/ ~Brings(o, t)
    BY <2>1 DEF Brings, Refills
  <2> HIDE DEF next, o, queued
  <2>4. FollowedUp(chain') /\ \A t : Covers(chain', t) <=> Covers(Tail(chain), t) \/ Covers(next, t)
    BY <1>0, <2>1, <2>2, HeadFollowed
  <2> QED BY <1>0, <2>1, <2>2, <2>3, <2>4
<1>3. CASE CommitSnapshotOfNext
  <2>1. PICK t \in o.tasks :
          LET rest == o.tasks \ {t} IN
          chain' = Tail(chain) \o IF task[t].status = "queued"
                                  THEN Start("reserve", {t}, rest, NoConn)
                                  ELSE Returned(rest)
    BY <1>3 DEF CommitSnapshotOfNext
  <2> DEFINE rest == o.tasks \ {t}
             next == IF task[t].status = "queued"
                     THEN Start("reserve", {t}, rest, NoConn) ELSE Returned(rest)
  <2>2. /\ chain' = Tail(chain) \o next /\ o.op = "snapshot" /\ o.tasks \in SUBSET Tasks
        /\ t \in Tasks /\ rest \in SUBSET Tasks /\ task' = task
    BY <1>0, <1>3, <2>1, OpFields DEF CommitSnapshotOfNext
  <2>3. /\ next \in Seq(Op) /\ Keeps(next) /\ \A u \in rest : Covers(next, u)
        /\ task[t].status = "queued" => Covers(next, t)
    <3> HIDE DEF rest
    <3>1. {t} \in SUBSET Tasks /\ {t} # {} /\ t \in {t}
      BY <2>2
    <3>2. CASE task[t].status = "queued"
      BY <2>2, <3>1, <3>2, StartBrings
    <3>3. CASE task[t].status # "queued"
      BY <2>2, <3>3, ReturnedBrings
    <3> QED BY <3>2, <3>3
  <2>4. \A u \in Tasks : Brings(o, u) => u = t \/ u \in rest
    BY <2>2 DEF Brings, Refills
  <2> HIDE DEF next, o, rest
  <2>5. FollowedUp(chain') /\ \A u : Covers(chain', u) <=> Covers(Tail(chain), u) \/ Covers(next, u)
    BY <1>0, <2>2, <2>3, HeadFollowed
  <2> QED BY <1>0, <2>2, <2>3, <2>4, <2>5
<1>4. CASE CommitReserve
  <2>1. PICK t \in o.tasks :
          LET queue == Start("reserve", o.tasks \ {t}, o.rest, o.by) \o Tail(chain) IN
          /\ task' = IF task[t].status = "queued" THEN [task EXCEPT ![t] = Reserved(@)]
                     ELSE task
          /\ chain' = queue \o Returned(o.rest)
    BY <1>4 DEF CommitReserve
  <2> DEFINE others == o.tasks \ {t}
             first == Start("reserve", others, o.rest, o.by)
             last == Returned(o.rest)
  <2>2. /\ chain' = (first \o Tail(chain)) \o last /\ o.op = "reserve"
        /\ t \in Tasks /\ others \in SUBSET Tasks /\ o.rest \in SUBSET Tasks
        /\ o.by \in Conns \cup {NoConn}
    BY <1>0, <1>4, <2>1, OpFields DEF CommitReserve
  <2>3. /\ first \in Seq(Op) /\ Keeps(first) /\ last \in Seq(Op) /\ Keeps(last)
        /\ \A u \in others : Covers(first, u)
        /\ \A u \in o.rest : Covers(last, u)
    <3> HIDE DEF others, o
    <3> QED BY <2>2, StartBrings, ReturnedBrings
  <2>4. \A u \in Tasks : Brings(o, u) => u = t \/ u \in others \/ u \in o.rest
    BY <2>2 DEF Brings, Refills
  <2>5. /\ task'[t].status # "queued"
        /\ \A u \in Tasks : u # t => task'[u] = task[u]
    BY <1>0, <2>1, <2>2, QueuedBy
  <2> HIDE DEF others, first, last, o
  <2>6. /\ FollowedUp(chain')
        /\ \A u : Covers(chain', u) <=>
                    Covers(first, u) \/ Covers(Tail(chain), u) \/ Covers(last, u)
    BY <1>0, <2>2, <2>3, HeadReplaced
  <2> QED BY <1>0, <2>3, <2>4, <2>5, <2>6
<1>5. CASE CommitRevert
  <2>1. /\ chain' = Tail(chain) \o Returned(o.rest) /\ o.op = "revert"
        /\ o.rest \in SUBSET Tasks
    BY <1>0, <1>5, OpFields DEF CommitRevert
  <2>2. Returned(o.rest) \in Seq(Op) /\ Keeps(Returned(o.rest)) /\ GivesBack(o)
    BY <2>1, ReturnedBrings DEF GivesBack
  <2> HIDE DEF o
  <2> QED BY <1>0, <2>1, <2>2, HeadFollowed
<1> QED BY <1>1, <1>2, <1>3, <1>4, <1>5 DEF CommitDelivery

\* The other operations of the store.
LEMMA SessionStrand ==
  ASSUME TypeOK, StrandInv, Sendable \/ CommitAuthenticate, CommitSession \/ CommitTick
  PROVE  /\ FollowedUp(chain')
         /\ \A t \in Tasks : task'[t].status = "queued" => Covers(chain', t)
<1> USE DEF AtHead
<1> DEFINE o == Head(chain)
<1>0. /\ chain \in Seq(Op) /\ chain # <<>> /\ o \in Op /\ Tail(chain) \in Seq(Op)
      /\ task \in [Tasks -> Task]
  <2>1. chain # <<>>
    BY DEF CommitSession, CommitAuthenticate, CommitOnline, CommitPending,
       CommitReport, CommitResult, CommitRequeue, CommitTick
  <2>2. chain \in Seq(Op) /\ task \in [Tasks -> Task]
    BY DEF TypeOK
  <2> QED BY <2>1, <2>2
<1>1. ASSUME Sendable
      PROVE  /\ FollowedUp(chain) /\ FollowedUp(Tail(chain))
             /\ GivesBack(o) => \A t : Covers(Tail(chain), t)
             /\ \A t \in Tasks :
                  task[t].status = "queued" => Brings(o, t) \/ Covers(Tail(chain), t)
  BY <1>0, <1>1, FollowedUpTail, CoversHead DEF StrandInv
<1>2. CASE CommitAuthenticate \/ CommitOnline
  <2>1. \E step \in {"online", "pending"} :
          o.by \in Conns /\ chain' = Append(Tail(chain), Handshake(step, o.by))
    BY <1>0, <1>2, OpFields DEF CommitAuthenticate, CommitOnline
  <2>2. \A c \in Conns, step \in {"online", "pending"} :
          Handshake(step, c) \in Op /\ Refills(Handshake(step, c))
    BY PlainBuilt DEF PlainOps, Refills, Handshake
  <2> QED BY <1>0, <2>1, <2>2, FollowedUpByLast
<1>3. CASE CommitPending
  <2> DEFINE queued == {t \in Tasks : task[t].status = "queued"}
             next == Start("snapshot", queued, {}, o.by)
  <2>1. /\ chain' = Tail(chain) \o next /\ o.by \in Conns \cup {NoConn}
        /\ queued \in SUBSET Tasks /\ task' = task /\ Sendable
    BY <1>0, <1>3, OpFields DEF CommitPending, CommitAuthenticate
  <2>2. next \in Seq(Op) /\ Keeps(next) /\ \A t \in queued : Covers(next, t)
    <3> HIDE DEF queued
    <3> QED BY <2>1, StartBrings
  <2> HIDE DEF next, o
  <2>3. FollowedUp(chain') /\ \A t : Covers(chain', t) <=> Covers(Tail(chain), t) \/ Covers(next, t)
    BY <1>0, <1>1, <2>1, <2>2, HeadFollowed
  <2> QED BY <2>1, <2>2, <2>3
<1>4. CASE CommitReport \/ CommitResult
  <2>1. /\ o.op \in {"report", "result"} /\ o.task \in Tasks /\ chain' = Tail(chain) /\ Sendable
        /\ \/ task' = [task EXCEPT ![o.task] = Reported(@)]
           \/ o.ok \in BOOLEAN /\ task' = [task EXCEPT ![o.task] = WithResult(@, o.ok)]
    BY <1>0, <1>4, OpFields DEF CommitReport, CommitResult, CommitAuthenticate
  <2>2. ~\E t \in Tasks : Brings(o, t)
    BY <2>1 DEF Brings, Refills
  <2>3. \A t \in Tasks : task'[t].status = "queued" => task[t].status = "queued"
    BY <1>0, <2>1, QueuedBy
  <2> QED BY <1>1, <2>1, <2>2, <2>3
<1>5. CASE CommitRequeue
  <2>1. chain' = Tail(chain) /\ GivesBack(o) /\ Sendable
    BY <1>5 DEF CommitRequeue, CommitAuthenticate, GivesBack
  <2> QED BY <1>1, <2>1
<1>6. CASE CommitTick
  <2>1. PICK due \in SUBSET Tasks, stale \in SUBSET Tasks :
          /\ task' = [t \in Tasks |-> IF t \in due THEN RetryDue(task[t])
                                      ELSE IF t \in stale THEN FailedOnce(task[t])
                                      ELSE task[t]]
          /\ chain' = Tail(chain) \o Returned(due)
    <3>1. PICK due \in SUBSET {t \in Tasks : task[t].status = "retrying"},
               stale \in SUBSET {t \in Tasks : task[t].status \in {"running", "delivered"}} :
            /\ task' = [t \in Tasks |-> IF t \in due THEN RetryDue(task[t])
                                        ELSE IF t \in stale THEN FailedOnce(task[t])
                                        ELSE task[t]]
            /\ chain' = Tail(chain) \o Returned(due)
      BY <1>6 DEF CommitTick
    <3>2. due \in SUBSET Tasks /\ stale \in SUBSET Tasks
      OBVIOUS
    <3> QED BY <3>1, <3>2
  <2>2. Returned(due) \in Seq(Op) /\ Keeps(Returned(due)) /\ \A t \in due : Covers(Returned(due), t)
    BY ReturnedBrings
  <2>3. o.op = "tick" /\ Sendable
    BY <1>6 DEF CommitTick, CommitAuthenticate
  <2>4. ~\E t \in Tasks : Brings(o, t)
    BY <2>3 DEF Brings, Refills
  <2>5. \A t \in Tasks : task'[t].status = "queued" => t \in due \/ task[t].status = "queued"
    BY <1>0, <2>1, QueuedBy
  <2>6. /\ FollowedUp(chain')
        /\ \A t : Covers(chain', t) <=> Covers(Tail(chain), t) \/ Covers(Returned(due), t)
    BY <1>0, <1>1, <2>1, <2>2, <2>3, HeadFollowed
  <2> QED BY <1>1, <2>2, <2>3, <2>4, <2>5, <2>6
<1> QED BY <1>2, <1>3, <1>4, <1>5, <1>6 DEF CommitSession

\* Every step keeps it; the tasks change with the operations of the store only.
LEMMA StrandStep ==
  ASSUME TypeOK, LinkInv, StrandInv, [Next]_vars
  PROVE  StrandInv'
<1> SUFFICES ASSUME Sendable'
             PROVE  /\ FollowedUp(chain')
                    /\ \A t \in Tasks : task'[t].status = "queued" => Covers(chain', t)
  BY DEF StrandInv
<1>1. Sendable \/ CommitAuthenticate
  BY SendableBefore
<1>2. CASE Commit
  BY <1>1, <1>2, DeliveryStrand, SessionStrand
  DEF Commit, CommitDelivery, CommitSession, CommitCreate, CommitSnapshotOfPending,
      CommitSnapshotOfNext, CommitReserve, CommitRevert, CommitAuthenticate, AtHead
<1>3. CASE ~Commit
  <2>1. Sendable /\ task' = task /\ chain \in Seq(Op) /\ FollowedUp(chain)
    <3>1. Sendable /\ FollowedUp(chain) /\ chain \in Seq(Op)
      BY <1>1, <1>3 DEF Commit, CommitSession, StrandInv, TypeOK
    <3>2. task' = task
      BY <1>3, TaskChangers DEF Commit, CommitDelivery, CommitSession
    <3> QED BY <3>1, <3>2
  <2>2. \/ chain' = chain
        \/ \E o \in Op : ~GivesBack(o) /\ chain' = Append(chain, o)
    <3>1. CASE Submit
      <4>1. submitted + 1 \in Tasks
        BY <3>1, ConstantFacts DEF Submit, Tasks, TypeOK
      <4>2. Create(submitted + 1) \in Op /\ ~GivesBack(Create(submitted + 1))
        BY <4>1, OpBuilt DEF QuietOps, GivesBack, Create
      <4> QED BY <3>1, <4>2 DEF Submit
    <3>2. CASE StartTick
      <4>1. Tick \in Op /\ ~GivesBack(Tick)
        BY PlainBuilt DEF PlainOps, GivesBack, Tick
      <4> QED BY <3>2, <4>1 DEF StartTick
    <3>3. ASSUME NEW c \in Conns, ReceiveMessage(c)
          PROVE  chain' = chain \/ \E o \in Op : ~GivesBack(o) /\ chain' = Append(chain, o)
      <4> DEFINE m == Head(wire[c])
      <4>1. m \in Message
        BY <3>3 DEF ReceiveMessage, TypeOK
      <4>2. \/ chain' = chain \/ chain' = Append(chain, Handshake("authenticate", c))
            \/ m.type = "task.ack" /\ chain' = Append(chain, Report(m.task))
            \/ m.type = "task.result" /\ chain' = Append(chain, Result(m.task, m.ok))
        BY <3>3 DEF ReceiveMessage
      <4>3. Handshake("authenticate", c) \in Op /\ ~GivesBack(Handshake("authenticate", c))
        BY OpBuilt DEF GivesBack, Handshake
      <4>4. m.type = "task.ack" => Report(m.task) \in Op /\ ~GivesBack(Report(m.task))
        BY <4>1, MessageFields, OpBuilt DEF QuietOps, GivesBack, Report
      <4>5. m.type = "task.result" =>
              Result(m.task, m.ok) \in Op /\ ~GivesBack(Result(m.task, m.ok))
        BY <4>1, MessageFields, OpBuilt DEF GivesBack, Result
      <4> HIDE DEF m
      <4> QED BY <4>2, <4>3, <4>4, <4>5
    <3>4. ASSUME NEW c \in Conns, SocketClose(c) PROVE chain' = chain
      BY <3>4 DEF SocketClose, Sendable
    <3>5. CASE ApiRestart
      BY <3>5 DEF ApiRestart, Sendable
    <3> QED
      BY <1>3, <3>1, <3>2, <3>3, <3>4, <3>5
      DEF Next, ReceiveHeartbeat, AgentDrop, Connect, Run, AnswerFromJournal, StartTask,
          ExecuteFails, Execute, RecordAndReport, AgentCrash, vars, panelVars
  <2>3. FollowedUp(chain') /\ \A t : Covers(chain, t) => Covers(chain', t)
    BY <2>1, <2>2, QuietlyAppended
  <2> QED BY <2>1, <2>3 DEF StrandInv
<1> QED BY <1>2, <1>3

\* No task is forgotten: once the store is quiet, an open connection in the
\* hub has been sent every queued task, whatever the reconnections, the closes,
\* the given-back attempts and the restarts before it (attachAgent,
\* deliverTask, the close handler, the scheduler's tick).
THEOREM NothingStranded == Spec => []NoTaskStranded
<1>1. Init => LinkInv /\ StrandInv
  <2>1. Init => \A c \in Conns : srv[c] = "unused" /\ lastConn < c
    BY DeliveryAssumption DEF Init, Conns
  <2>2. Init => hub = 0 /\ lastConn = 0 /\ chain = <<>>
    BY DEF Init, NoConn
  <2> QED BY <2>1, <2>2 DEF LinkInv, StrandInv, Sendable, NoConn
<1>2. TypeOK /\ LinkInv /\ StrandInv /\ [Next]_vars => LinkInv' /\ StrandInv'
  BY LinkStep, StrandStep
<1>3. StrandInv => NoTaskStranded
  <2> SUFFICES ASSUME StrandInv, chain = <<>>, Sendable, NEW t \in Tasks
               PROVE  task[t].status # "queued"
    BY DEF NoTaskStranded
  <2> QED BY CoversNone DEF StrandInv
<1> QED BY <1>1, <1>2, <1>3, TypeCorrect, PTL DEF Spec

-----------------------------------------------------------------------------
(* Which operations a chain holds, and that it creates a task only once.   *)

Holds(s, o) == \E i \in DOMAIN s : s[i] = o
CreatesOnce(s) == \A i, j \in DOMAIN s : s[i].op = "create" /\ s[i] = s[j] => i = j

LEMMA HoldsTail ==
  ASSUME NEW s \in Seq(Op), s # <<>>
  PROVE  /\ Holds(s, Head(s))
         /\ \A o : Holds(Tail(s), o) => Holds(s, o)
         /\ CreatesOnce(s) => /\ CreatesOnce(Tail(s))
                              /\ Head(s).op = "create" => ~Holds(Tail(s), Head(s))
<1>1. /\ Len(s) \in Nat \ {0} /\ DOMAIN s = 1..Len(s) /\ Head(s) = s[1]
      /\ DOMAIN Tail(s) = 1..(Len(s) - 1)
      /\ \A i \in 1..(Len(s) - 1) : Tail(s)[i] = s[i + 1]
  OBVIOUS
<1>2. 1 \in DOMAIN s /\ \A i \in DOMAIN Tail(s) : i + 1 \in DOMAIN s /\ Tail(s)[i] = s[i + 1]
                                                  /\ i + 1 # 1
  BY <1>1
<1>3. \A i, j \in DOMAIN Tail(s) : i + 1 = j + 1 => i = j
  BY <1>1
<1>4. Holds(s, Head(s)) /\ \A o : Holds(Tail(s), o) => Holds(s, o)
  BY <1>1, <1>2 DEF Holds
<1>5. CreatesOnce(s) => CreatesOnce(Tail(s))
  BY <1>2, <1>3 DEF CreatesOnce
<1>6. CreatesOnce(s) /\ Head(s).op = "create" => ~Holds(Tail(s), Head(s))
  BY <1>1, <1>2 DEF CreatesOnce, Holds
<1> QED BY <1>4, <1>5, <1>6

LEMMA HoldsAppend ==
  ASSUME NEW s \in Seq(Op), NEW x \in Op
  PROVE  /\ \A o : Holds(Append(s, x), o) => Holds(s, o) \/ o = x
         /\ CreatesOnce(s) /\ (x.op = "create" => ~Holds(s, x)) => CreatesOnce(Append(s, x))
<1> DEFINE u == Append(s, x)
<1>1. /\ Len(s) \in Nat /\ DOMAIN s = 1..Len(s) /\ DOMAIN u = 1..(Len(s) + 1)
      /\ u[Len(s) + 1] = x /\ \A i \in 1..Len(s) : u[i] = s[i]
  OBVIOUS
<1>2. \A i \in DOMAIN u : (i = Len(s) + 1 /\ u[i] = x) \/ (i \in DOMAIN s /\ u[i] = s[i])
  BY <1>1
<1> HIDE DEF u
<1>3. \A o : Holds(u, o) => Holds(s, o) \/ o = x
  BY <1>2 DEF Holds
<1>4. ASSUME CreatesOnce(s), x.op = "create" => ~Holds(s, x) PROVE CreatesOnce(u)
  <2> SUFFICES ASSUME NEW i \in DOMAIN u, NEW j \in DOMAIN u, u[i].op = "create", u[i] = u[j]
               PROVE  i = j
    BY DEF CreatesOnce
  <2> QED BY <1>2, <1>4 DEF CreatesOnce, Holds
<1> QED BY <1>3, <1>4 DEF u

\* Operations that are neither requests nor reports may stand around others.
LEMMA HoldsAround ==
  ASSUME NEW s \in Seq(Op), NEW p \in Seq(PlainOps), NEW q \in Seq(PlainOps)
  PROVE  /\ \A o : o.op \in {"create", "report"} /\ Holds((p \o s) \o q, o) => Holds(s, o)
         /\ CreatesOnce(s) => CreatesOnce((p \o s) \o q)
<1> DEFINE u == (p \o s) \o q
<1>1. /\ Len(p) \in Nat /\ Len(q) \in Nat /\ Len(s) \in Nat
      /\ DOMAIN p = 1..Len(p) /\ DOMAIN q = 1..Len(q) /\ DOMAIN s = 1..Len(s)
  OBVIOUS
<1>2. PlainOps \subseteq Op /\ \A o \in PlainOps : o.op \notin {"create", "report"}
  BY DEF PlainOps
<1>3. p \in Seq(Op) /\ q \in Seq(Op) /\ p \o s \in Seq(Op)
  <2>1. p \in Seq(Op) /\ q \in Seq(Op)
    BY <1>2, SeqMonotonic
  <2> QED BY <2>1, ConcatTyped
<1>4. /\ DOMAIN u = 1..(Len(p) + Len(s) + Len(q))
      /\ \A i \in 1..(Len(p) + Len(s)) :
           (p \o s)[i] = IF i <= Len(p) THEN p[i] ELSE s[i - Len(p)]
      /\ \A i \in 1..(Len(p) + Len(s) + Len(q)) :
           u[i] = IF i <= Len(p) + Len(s) THEN (p \o s)[i] ELSE q[i - (Len(p) + Len(s))]
  <2>1. /\ Len(p \o s) = Len(p) + Len(s)
        /\ \A i \in 1..(Len(p) + Len(s)) :
             (p \o s)[i] = IF i <= Len(p) THEN p[i] ELSE s[i - Len(p)]
    BY <1>3, ConcatProperties
  <2>2. /\ u \in Seq(Op) /\ Len(u) = Len(p \o s) + Len(q)
        /\ \A i \in 1..(Len(p \o s) + Len(q)) :
             u[i] = IF i <= Len(p \o s) THEN (p \o s)[i] ELSE q[i - Len(p \o s)]
    BY <1>3, ConcatProperties
  <2>3. DOMAIN u = 1..Len(u)
    BY <2>2
  <2> HIDE DEF u
  <2> QED BY <2>1, <2>2, <2>3
<1>5. ASSUME NEW i \in DOMAIN u, u[i].op \in {"create", "report"}
      PROVE  i - Len(p) \in DOMAIN s /\ u[i] = s[i - Len(p)]
  <2>1. i \in 1..(Len(p) + Len(s) + Len(q))
    BY <1>4
  <2>2. CASE i <= Len(p)
    <3>1. i \in 1..(Len(p) + Len(s)) /\ i \in 1..Len(p)
      BY <1>1, <2>1, <2>2
    <3>2. u[i] = p[i] /\ p[i] \in PlainOps
      BY <1>1, <1>4, <2>1, <2>2, <3>1
    <3> QED BY <1>2, <1>5, <3>2
  <2>3. CASE Len(p) < i /\ i <= Len(p) + Len(s)
    BY <1>1, <1>4, <2>1, <2>3
  <2>4. CASE Len(p) + Len(s) < i
    <3>1. i - (Len(p) + Len(s)) \in 1..Len(q)
      BY <1>1, <2>1, <2>4
    <3>2. u[i] = q[i - (Len(p) + Len(s))] /\ q[i - (Len(p) + Len(s))] \in PlainOps
      BY <1>1, <1>4, <2>1, <2>4, <3>1
    <3> QED BY <1>2, <1>5, <3>2
  <2> QED BY <1>1, <2>1, <2>2, <2>3, <2>4
<1>6. \A i, j \in DOMAIN u : i - Len(p) = j - Len(p) => i = j
  BY <1>1, <1>4
<1> HIDE DEF u
<1>7. ASSUME NEW o, o.op \in {"create", "report"}, Holds(u, o) PROVE Holds(s, o)
  BY <1>5, <1>7 DEF Holds
<1>8. ASSUME CreatesOnce(s) PROVE CreatesOnce(u)
  <2> SUFFICES ASSUME NEW i \in DOMAIN u, NEW j \in DOMAIN u, u[i].op = "create", u[i] = u[j]
               PROVE  i = j
    BY DEF CreatesOnce
  <2> QED BY <1>5, <1>6, <1>8 DEF CreatesOnce
<1> QED BY <1>7, <1>8 DEF u

-----------------------------------------------------------------------------
(* What is acknowledged is stored, and what is to be created is not.       *)

AcksOfStored == {m \in Message : m.type = "task.ack" => m.task \in StoredTasks}
AcceptInv ==
  /\ \A t \in Tasks : submitted < t => t \notin StoredTasks /\ ~Holds(chain, Create(t))
  /\ \A t \in Tasks : Holds(chain, Create(t)) => t \notin StoredTasks
  /\ \A t \in Tasks : Holds(chain, Report(t)) => t \in StoredTasks
  /\ CreatesOnce(chain)
  /\ wire \in [Conns -> Seq(AcksOfStored)]

LEMMA HeadOfChain ==
  ASSUME TypeOK, AcceptInv, chain # <<>>
  PROVE  /\ Head(chain).op = "create" =>
              /\ Head(chain).task \in Tasks \ StoredTasks
              /\ Head(chain) = Create(Head(chain).task)
         /\ Head(chain).op = "report" => Head(chain).task \in StoredTasks
<1>1. Head(chain) \in Op /\ Holds(chain, Head(chain))
  BY HoldsTail DEF TypeOK
<1>2. Head(chain).op = "create" => /\ Head(chain).task \in Tasks
                                   /\ Head(chain) = Create(Head(chain).task)
  BY <1>1 DEF Op, Create
<1>3. Head(chain).op = "report" => /\ Head(chain).task \in Tasks
                                   /\ Head(chain) = Report(Head(chain).task)
  BY <1>1 DEF Op, Report
<1> QED BY <1>1, <1>2, <1>3 DEF AcceptInv

\* Only the request's own transaction stores a task.
LEMMA StoredByCreate ==
  ASSUME TypeOK, AcceptInv, [Next]_vars, ~CommitCreate
  PROVE  StoredTasks' = StoredTasks
<1> USE DEF AtHead
<1>0. task \in [Tasks -> Task]
  BY DEF TypeOK
<1>1. \A t \in Tasks : task[t].status # "absent" => task'[t].status # "absent"
  BY TaskStep
<1>2. ASSUME NEW t \in Tasks, task[t].status = "absent" PROVE task'[t].status = "absent"
  <2>1. CASE CommitReserve
    <3>1. PICK u \in Head(chain).tasks :
            task' = IF task[u].status = "queued" THEN [task EXCEPT ![u] = Reserved(@)] ELSE task
      BY <2>1 DEF CommitReserve
    <3>2. task[u].status = "queued" => u # t
      BY <1>2
    <3>3. task'[t] = task[t]
      BY <1>0, <3>1, <3>2
    <3> QED BY <1>2, <3>3
  <2>2. CASE CommitRevert
    BY <1>2, <2>2 DEF CommitRevert, Unreserved
  <2>3. CASE CommitRequeue
    BY <1>2, <2>3 DEF CommitRequeue, Requeued
  <2>4. CASE CommitReport
    <3>1. Head(chain).task # t
      BY <1>2, <2>4, HeadOfChain DEF CommitReport, StoredTasks
    <3> QED BY <1>0, <1>2, <2>4, <3>1 DEF CommitReport
  <2>5. CASE CommitResult
    BY <1>0, <1>2, <2>5 DEF CommitResult, WithResult
  <2>6. CASE CommitTick
    BY <1>2, <2>6 DEF CommitTick
  <2>7. CASE UNCHANGED task
    BY <1>2, <2>7
  <2> QED BY <2>1, <2>2, <2>3, <2>4, <2>5, <2>6, <2>7, TaskChangers
<1> QED BY <1>1, <1>2 DEF StoredTasks

LEMMA AcceptStep ==
  ASSUME TypeOK, ReceivedIsStored, AcceptInv, [Next]_vars
  PROVE  AcceptInv'
<1>0. chain \in Seq(Op) /\ submitted \in Nat /\ Tasks \subseteq Nat
  BY ConstantFacts DEF TypeOK, Tasks
<1>1. StoredTasks \subseteq StoredTasks'
  BY TaskStep DEF StoredTasks
<1>2. wire' \in [Conns -> Seq(AcksOfStored')]
  <2>1. Hello \in AcksOfStored /\ \A t \in Tasks, ok \in BOOLEAN : TaskResult(t, ok) \in AcksOfStored
    BY MessageBuilt DEF AcksOfStored, Hello, TaskResult
  <2>2. agentQueue # <<>> => Ack(Head(agentQueue)) \in AcksOfStored
    <3>1. agentQueue # <<>> => Head(agentQueue) \in StoredTasks
      BY DEF ReceivedIsStored
    <3> QED BY <3>1, MessageBuilt DEF AcksOfStored, Ack, StoredTasks
  <2>3. wire' \in [Conns -> Seq(AcksOfStored)]
    BY <2>1, <2>2, WireStep DEF AcceptInv
  <2>4. Seq(AcksOfStored) \subseteq Seq(AcksOfStored')
    <3>1. AcksOfStored \subseteq AcksOfStored'
      BY <1>1 DEF AcksOfStored
    <3> QED BY <3>1, SeqMonotonic
  <2> QED BY <2>3, <2>4
<1>3. \/ submitted' = submitted /\ ~Submit
      \/ submitted' = submitted + 1 /\ Submit
  BY <1>0 DEF Next, Commit, CommitDelivery, CommitSession, CommitCreate, CommitSnapshotOfPending,
     CommitSnapshotOfNext, CommitReserve, CommitRevert, CommitAuthenticate, CommitOnline,
     CommitPending, CommitReport, CommitResult, CommitRequeue, CommitTick, Run, Submit,
     StartTick, ApiRestart, ReceiveMessage, ReceiveHeartbeat, SocketClose, AgentDrop, Connect,
     AnswerFromJournal, StartTask, ExecuteFails, Execute, RecordAndReport, AgentCrash, vars, envVars
<1>4. CASE CommitCreate
  <2> DEFINE t == Head(chain).task
             next == Start("snapshot", {t}, {}, NoConn)
  <2>1. /\ chain # <<>> /\ Head(chain).op = "create" /\ chain' = Tail(chain) \o next
        /\ submitted' = submitted /\ task' = [task EXCEPT ![t] = Created(@)]
    BY <1>4 DEF CommitCreate, AtHead, envVars
  <2>2. t \in Tasks \ StoredTasks /\ Head(chain) = Create(t)
    BY <2>1, HeadOfChain
  <2>3. next \in Seq(PlainOps) /\ <<>> \in Seq(PlainOps) /\ Tail(chain) \in Seq(Op)
    <3>1. next \in Seq(PlainOps)
      BY <2>2, StartTyped
    <3>2. <<>> \in Seq(PlainOps) /\ Tail(chain) \in Seq(Op)
      BY <1>0, <2>1
    <3> QED BY <3>1, <3>2
  <2>4. StoredTasks' = StoredTasks \cup {t}
    <3>1. task \in [Tasks -> Task]
      BY DEF TypeOK
    <3>2. task'[t].status # "absent" /\ \A u \in Tasks : u # t => task'[u] = task[u]
      <4>1. task[t] \in Task
        BY <2>2, <3>1
      <4> QED BY <2>1, <2>2, <3>1, <4>1, PolicyStored
    <3> QED BY <2>2, <3>2 DEF StoredTasks
  <2>5. \A u \in Tasks : Create(u).op = "create" /\ Report(u).op = "report"
    BY DEF Create, Report
  <2> HIDE DEF next, t
  <2>6. <<>> \o Tail(chain) = Tail(chain)
    BY <2>3
  <2>7. /\ \A u \in Tasks : Holds(chain', Create(u)) => Holds(Tail(chain), Create(u))
        /\ \A u \in Tasks : Holds(chain', Report(u)) => Holds(Tail(chain), Report(u))
        /\ CreatesOnce(Tail(chain)) => CreatesOnce(chain')
    BY <2>1, <2>3, <2>5, <2>6, HoldsAround
  <2>8. /\ CreatesOnce(Tail(chain)) /\ ~Holds(Tail(chain), Create(t))
        /\ \A u : Holds(Tail(chain), u) => Holds(chain, u)
    BY <1>0, <2>1, <2>2, HoldsTail DEF AcceptInv
  <2>9. ~(submitted < t)
    BY <1>0, <2>1, <2>2, HoldsTail DEF AcceptInv
  <2> QED BY <1>2, <2>1, <2>4, <2>7, <2>8, <2>9 DEF AcceptInv
<1>5. CASE ~CommitCreate
  <2>1. StoredTasks' = StoredTasks
    BY <1>5, StoredByCreate
  <2>2. /\ \A u \in Tasks : Holds(chain', Create(u)) =>
                              Holds(chain, Create(u)) \/ (Submit /\ u = submitted + 1)
        /\ \A u \in Tasks : Holds(chain', Report(u)) => u \in StoredTasks
        /\ CreatesOnce(chain')
    <3> DEFINE Kept ==
                 /\ \A u \in Tasks : Holds(chain', Create(u)) =>
                                       Holds(chain, Create(u)) \/ (Submit /\ u = submitted + 1)
                 /\ \A u \in Tasks : Holds(chain', Report(u)) => u \in StoredTasks
                 /\ CreatesOnce(chain')
    <3> SUFFICES Kept
      OBVIOUS
    <3>0. \A u \in Tasks : /\ Create(u).op = "create" /\ Create(u).task = u
                           /\ Report(u).op = "report" /\ Report(u).task = u
                           /\ Create(u) \in Op /\ Report(u) \in Op
      BY OpBuilt DEF QuietOps, Create, Report
    <3>1. CASE chain' \in {chain, <<>>}
      BY <3>1 DEF AcceptInv, Holds, CreatesOnce
    <3>2. ASSUME NEW o \in Op, chain' = Append(chain, o),
                 o.op = "create" => /\ ~Holds(chain, o)
                                    /\ Submit /\ o = Create(submitted + 1),
                 o.op = "report" => o.task \in StoredTasks
          PROVE  Kept
      <4>1. /\ \A x : Holds(chain', x) => Holds(chain, x) \/ x = o
            /\ CreatesOnce(chain')
        BY <1>0, <3>2, HoldsAppend DEF AcceptInv
      <4>2. Create(submitted + 1).task = submitted + 1
        BY DEF Create
      <4>3. \A u \in Tasks : Holds(chain', Create(u)) =>
                               Holds(chain, Create(u)) \/ (Submit /\ u = submitted + 1)
        BY <3>0, <3>2, <4>1, <4>2
      <4>4. \A u \in Tasks : Holds(chain', Report(u)) => u \in StoredTasks
        BY <3>0, <3>2, <4>1 DEF AcceptInv
      <4> QED BY <4>1, <4>3, <4>4
    <3>3. ASSUME NEW o \in PlainOps, chain' = Append(chain, o) PROVE Kept
      BY <3>2, <3>3 DEF PlainOps
    <3>4. ASSUME Submit, submitted + 1 \in Tasks, chain' = Append(chain, Create(submitted + 1))
          PROVE  Kept
      <4>1. ~Holds(chain, Create(submitted + 1))
        BY <1>0, <3>4 DEF AcceptInv
      <4> QED BY <3>0, <3>2, <3>4, <4>1
    <3>5. ASSUME NEW c \in Conns, chain' = Append(chain, Handshake("authenticate", c)) PROVE Kept
      BY <3>2, <3>5, OpBuilt DEF Handshake
    <3>6. ASSUME NEW c \in Conns, NEW u \in Tasks, wire[c] # <<>>, Head(wire[c]) = Ack(u),
                 chain' = Append(chain, Report(u))
          PROVE  Kept
      <4>1. Head(wire[c]) \in AcksOfStored
        BY <3>6 DEF AcceptInv
      <4>2. u \in StoredTasks
        BY <3>6, <4>1 DEF AcksOfStored, Ack
      <4> QED BY <3>0, <3>2, <3>6, <4>2
    <3>7. ASSUME NEW u \in Tasks, NEW ok \in BOOLEAN, chain' = Append(chain, Result(u, ok))
          PROVE  Kept
      BY <3>2, <3>7, OpBuilt DEF Result
    <3>8. ASSUME NEW p \in Seq(PlainOps), NEW q \in Seq(PlainOps), HeadDone(p, q) PROVE Kept
      <4>1. chain # <<>> /\ chain' = (p \o Tail(chain)) \o q /\ Tail(chain) \in Seq(Op)
        BY <1>0, <3>8 DEF HeadDone
      <4>2. /\ \A u \in Tasks : Holds(chain', Create(u)) => Holds(Tail(chain), Create(u))
            /\ \A u \in Tasks : Holds(chain', Report(u)) => Holds(Tail(chain), Report(u))
            /\ CreatesOnce(Tail(chain)) => CreatesOnce(chain')
        BY <3>0, <4>1, HoldsAround
      <4>3. CreatesOnce(Tail(chain)) /\ \A x : Holds(Tail(chain), x) => Holds(chain, x)
        BY <1>0, <4>1, HoldsTail DEF AcceptInv
      <4> QED BY <4>2, <4>3 DEF AcceptInv
    <3> HIDE DEF Kept
    <3>9. CASE \E o \in PlainOps : chain' = Append(chain, o)
      BY <3>3, <3>9
    <3>10. ASSUME NEW c \in Conns, wire[c] # <<>>,
                  \/ chain' = Append(chain, Handshake("authenticate", c))
                  \/ \E u \in Tasks : Head(wire[c]) = Ack(u) /\ chain' = Append(chain, Report(u))
                  \/ \E u \in Tasks, ok \in BOOLEAN :
                       Head(wire[c]) = TaskResult(u, ok) /\ chain' = Append(chain, Result(u, ok))
           PROVE  Kept
      BY <3>5, <3>6, <3>7, <3>10
    <3>11. CASE \E p, q \in Seq(PlainOps) : HeadDone(p, q)
      BY <3>8, <3>11
    <3> QED BY <3>1, <3>4, <3>9, <3>10, <3>11, ChainShape
  <2> QED BY <1>0, <1>2, <1>3, <2>1, <2>2 DEF AcceptInv
<1> QED BY <1>4, <1>5

-----------------------------------------------------------------------------
(* What an accepted task can become.                                       *)

LEMMA AcceptedStays ==
  ASSUME TypeOK, AcceptInv, [Next]_vars, NEW t \in Tasks,
         task[t].status \in {"running", "succeeded", "failed"}, ~isAutomaticRetryableTask(task[t])
  PROVE  task'[t].status \in {"running", "succeeded", "failed"}
<1> USE DEF AtHead
<1>0. task \in [Tasks -> Task] /\ task[t] \in Task
  BY DEF TypeOK
<1>1. CASE CommitCreate
  <2>1. Head(chain).task # t
    BY <1>1, HeadOfChain DEF CommitCreate, StoredTasks
  <2> QED BY <1>0, <1>1, <2>1 DEF CommitCreate
<1>2. CASE CommitReserve
  <2>1. PICK u \in Head(chain).tasks :
          task' = IF task[u].status = "queued" THEN [task EXCEPT ![u] = Reserved(@)] ELSE task
    BY <1>2 DEF CommitReserve
  <2>2. task'[t] = task[t]
    BY <1>0, <2>1
  <2> QED BY <2>2
<1>3. CASE CommitRevert
  BY <1>3 DEF CommitRevert, Unreserved
<1>4. CASE CommitRequeue
  BY <1>4 DEF CommitRequeue, Requeued
<1>5. Reported(task[t]).status = "running" /\ FailedOnce(task[t]).status = "failed"
  BY <1>0 DEF Task, Reported, FailedOnce, MayRetry
<1>6. CASE CommitReport
  BY <1>0, <1>5, <1>6 DEF CommitReport
<1>7. \A ok : WithResult(task[t], ok).status \in {"running", "succeeded", "failed"}
  BY <1>0, <1>5 DEF WithResult, Task
<1>8. CASE CommitResult
  BY <1>0, <1>7, <1>8 DEF CommitResult
<1>9. CASE CommitTick
  BY <1>5, <1>9 DEF CommitTick
<1>10. CASE UNCHANGED task
  BY <1>10
<1> QED BY <1>1, <1>2, <1>3, <1>4, <1>6, <1>8, <1>9, <1>10, TaskChangers

\* A task the policy does not replay is not queued again once the panel has read
\* its acknowledgement: not by the close of the connection, a time-out, a late
\* or repeated message, a redelivery or a restart.
THEOREM AcceptedStaysAccepted == Spec => AcceptedNotReplayed
<1>1. Init => AcceptInv
  <2>1. Init => StoredTasks = {} /\ chain = <<>> /\ wire \in [Conns -> Seq(AcksOfStored)]
    BY DEF Init, StoredTasks
  <2> QED BY <2>1 DEF AcceptInv, Holds, CreatesOnce
<1>2. DeliveryInv /\ AcceptInv /\ [Next]_vars => AcceptInv'
  BY AcceptStep DEF DeliveryInv
<1>3. DeliveryInv /\ AcceptInv /\ [Next]_vars =>
        [\A t \in Tasks :
           /\ task[t].status \in {"running", "succeeded", "failed"}
           /\ ~isAutomaticRetryableTask(task[t])
           => task'[t].status \in {"running", "succeeded", "failed"}]_vars
  BY AcceptedStays DEF DeliveryInv
<1> QED BY <1>1, <1>2, <1>3, DeliveryInvariant, PTL DEF Spec, AcceptedNotReplayed
=============================================================================
