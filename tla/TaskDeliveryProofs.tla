------------------------- MODULE TaskDeliveryProofs -------------------------
(***************************************************************************)
(* Proofs about TaskDelivery, for any requests and any bounds.             *)
(***************************************************************************)
EXTENDS TaskDelivery, SequenceTheorems, TLAPS

\* The constants: ranks are numbers, and every request has a type.
LEMMA ConstantFacts ==
  /\ Len(Requests) \in Nat
  /\ \A t \in Tasks : Requests[t] \in TASK_TYPES
  /\ NoConn \notin Conns /\ NoTask \notin Tasks
  BY DeliveryAssumption DEF Tasks, Conns, NoConn, NoTask

\* Every transition of the policy yields a task record.
LEMMA PolicyTyped ==
  ASSUME NEW x \in Task, NEW ok \in BOOLEAN
  PROVE  /\ Created(x) \in Task /\ Reserved(x) \in Task /\ Unreserved(x) \in Task
         /\ Requeued(x) \in Task /\ Reported(x) \in Task /\ FailedOnce(x) \in Task
         /\ WithResult(x, ok) \in Task /\ RetryDue(x) \in Task
<1>1. Created(x) \in Task /\ Reserved(x) \in Task
  <2>1. Created(x) \in Task
    BY DEF Task, TASK_STATUSES, Created
  <2>2. x.attempt + 1 \in Nat
    BY DEF Task
  <2>3. Reserved(x) \in Task
    BY <2>2 DEF Task, TASK_STATUSES, Reserved
  <2> QED BY <2>1, <2>3
<1>2. Unreserved(x) \in Task
  <2>1. GivenBack(x.attempt) \in Nat
    BY DEF Task, GivenBack
  <2> QED BY <2>1 DEF Task, TASK_STATUSES, Unreserved
<1>3. Requeued(x) \in Task /\ Reported(x) \in Task /\ RetryDue(x) \in Task
  BY DEF Task, TASK_STATUSES, Requeued, Reported, RetryDue
<1>4. FailedOnce(x) \in Task
  BY DEF Task, TASK_STATUSES, FailedOnce
<1>5. WithResult(x, ok) \in Task
  BY <1>4 DEF Task, TASK_STATUSES, WithResult
<1> QED BY <1>1, <1>2, <1>3, <1>4, <1>5

\* No transition takes a stored task back to "absent".
LEMMA PolicyStored ==
  ASSUME NEW x \in Task, NEW ok \in BOOLEAN
  PROVE  /\ Created(x).status # "absent" /\ Reserved(x).status # "absent"
         /\ Reported(x).status # "absent" /\ FailedOnce(x).status # "absent"
         /\ RetryDue(x).status # "absent"
         /\ x.status # "absent" => /\ Unreserved(x).status # "absent"
                                   /\ Requeued(x).status # "absent"
                                   /\ WithResult(x, ok).status # "absent"
<1>1. FailedOnce(x).status \in {"retrying", "failed"}
  BY DEF Task, FailedOnce
<1>2. x.status # "absent" => WithResult(x, ok).status # "absent"
  BY <1>1 DEF Task, WithResult
<1>3. Created(x).status = "queued" /\ Reserved(x).status = "delivered"
  BY DEF Task, Created, Reserved
<1>4. Reported(x).status = "running" /\ RetryDue(x).status = "queued"
  BY DEF Task, Reported, RetryDue
<1>5. x.status # "absent" =>
        Unreserved(x).status # "absent" /\ Requeued(x).status # "absent"
  BY DEF Task, Unreserved, Requeued
<1> QED BY <1>1, <1>2, <1>3, <1>4, <1>5

\* What the fields of a store operation are.
LEMMA OpFields ==
  ASSUME NEW o \in Op
  PROVE  /\ o.op \in {"authenticate", "online", "pending"} => o.by \in Conns
         /\ o.op \in {"create", "report", "result"} => o.task \in Tasks
         /\ o.op = "result" => o.ok \in BOOLEAN /\ o = Result(o.task, o.ok)
         /\ o.op \in {"snapshot", "reserve", "revert"} =>
              /\ o.tasks \in SUBSET Tasks /\ o.rest \in SUBSET Tasks
              /\ o.by \in Conns \cup {NoConn}
  BY DEF Op, Result

\* All that is put on the chain other than the result of a task or a handshake's start.
QuietOps == {o \in Op : o.op \notin {"result", "authenticate"}}

LEMMA OpBuilt ==
  /\ \A c \in Conns : /\ Handshake("authenticate", c) \in Op
                      /\ Handshake("online", c) \in QuietOps
                      /\ Handshake("pending", c) \in QuietOps
  /\ \A t \in Tasks : Create(t) \in QuietOps /\ Report(t) \in QuietOps
  /\ \A t \in Tasks, ok \in BOOLEAN : Result(t, ok) \in Op
  BY DEF Op, QuietOps, Handshake, Create, Report, Result

LEMMA MessageFields ==
  ASSUME NEW m \in Message
  PROVE  /\ m.type = "task.ack" => m.task \in Tasks /\ m = Ack(m.task)
         /\ m.type = "task.result" => m.task \in Tasks /\ m.ok \in BOOLEAN
                                       /\ m = TaskResult(m.task, m.ok)
  BY DEF Message, Ack, TaskResult

LEMMA MessageBuilt ==
  /\ Hello \in Message
  /\ \A t \in Tasks : Ack(t) \in Message
  /\ \A t \in Tasks : TaskResult(t, TRUE) \in Message /\ TaskResult(t, FALSE) \in Message
  BY DEF Message, Hello, Ack, TaskResult

LEMMA AppendTyped ==
  ASSUME NEW S, NEW p \in Seq(S), NEW x \in S
  PROVE  Append(p, x) \in Seq(S)
  OBVIOUS

LEMMA ConcatTyped ==
  ASSUME NEW S, NEW p \in Seq(S), NEW q \in Seq(S)
  PROVE  p \o q \in Seq(S)
  OBVIOUS

LEMMA OneTyped == ASSUME NEW S, NEW x \in S PROVE <<x>> \in Seq(S)
  OBVIOUS

LEMMA TwoTyped == ASSUME NEW S, NEW x \in S, NEW y \in S PROVE <<x, y>> \in Seq(S)
  OBVIOUS

-----------------------------------------------------------------------------
(* Type correctness.                                                       *)

LEMMA InitTyped == Init => TypeOK
  BY ConstantFacts, DeliveryAssumption
  DEF Init, TypeOK, Task, TASK_STATUSES, Tasks, Conns, NoConn, NoTask

\* What stands on the chain besides the requests, what a message brought, and
\* the handshake that it started.
PlainOps == {o \in Op : o.op \notin {"create", "report", "result", "authenticate"}}

LEMMA PlainBuilt ==
  /\ \A c \in Conns : Handshake("online", c) \in PlainOps /\ Handshake("pending", c) \in PlainOps
  /\ Requeue \in PlainOps /\ Tick \in PlainOps
  /\ \A S \in SUBSET Tasks, rest \in SUBSET Tasks, c \in Conns \cup {NoConn} :
       /\ Deliver("snapshot", S, rest, c) \in PlainOps
       /\ Deliver("reserve", S, rest, c) \in PlainOps
       /\ Deliver("revert", S, rest, c) \in PlainOps
  BY DEF Op, PlainOps, Handshake, Requeue, Tick, Deliver

LEMMA StartTyped ==
  ASSUME NEW S \in SUBSET Tasks, NEW rest \in SUBSET Tasks, NEW c \in Conns \cup {NoConn}
  PROVE  /\ Start("snapshot", S, rest, c) \in Seq(PlainOps)
         /\ Start("reserve", S, rest, c) \in Seq(PlainOps)
  BY PlainBuilt DEF Start

LEMMA ReturnedTyped ==
  ASSUME NEW rest \in SUBSET Tasks
  PROVE  Returned(rest) \in Seq(PlainOps)
  BY StartTyped DEF Returned

\* What a step leaves in place of the head of the chain.
HeadDone(first, last) == chain # <<>> /\ chain' = (first \o Tail(chain)) \o last

LEMMA HeadDoneOnly ==
  ASSUME chain \in Seq(Op), chain # <<>>
  PROVE  /\ chain' = Tail(chain) => HeadDone(<<>>, <<>>)
         /\ \A q \in Seq(PlainOps) : chain' = Tail(chain) \o q => HeadDone(<<>>, q)
         /\ \A o \in PlainOps : chain' = Append(Tail(chain), o) => HeadDone(<<>>, <<o>>)
         /\ \A p \in Seq(PlainOps), o \in PlainOps :
              chain' = Append(p \o Tail(chain), o) => HeadDone(p, <<o>>)
<1>1. Tail(chain) \in Seq(Op) /\ Seq(PlainOps) \subseteq Seq(Op) /\ PlainOps \subseteq Op
  <2>1. PlainOps \subseteq Op
    BY DEF PlainOps
  <2> QED BY <2>1, SeqMonotonic
<1>2. <<>> \o Tail(chain) = Tail(chain) /\ Tail(chain) \o <<>> = Tail(chain)
  BY <1>1
<1>3. \A s \in Seq(Op), o \in Op : Append(s, o) = s \o <<o>>
  OBVIOUS
<1>4. \A p \in Seq(PlainOps) : p \o Tail(chain) \in Seq(Op)
  BY <1>1, ConcatTyped
<1> QED BY <1>1, <1>2, <1>3, <1>4 DEF HeadDone

\* How the chain changes: its head is done, or something is put behind it.
LEMMA ChainShape ==
  ASSUME TypeOK, [Next]_vars
  PROVE  \/ chain' \in {chain, <<>>}
         \/ \E o \in PlainOps : chain' = Append(chain, o)
         \/ Submit /\ submitted + 1 \in Tasks /\ chain' = Append(chain, Create(submitted + 1))
         \/ \E c \in Conns :
              /\ wire[c] # <<>> /\ srv[c] # "unused"
              /\ \/ chain' = Append(chain, Handshake("authenticate", c))
                 \/ \E t \in Tasks : Head(wire[c]) = Ack(t) /\ chain' = Append(chain, Report(t))
                 \/ \E t \in Tasks, ok \in BOOLEAN :
                      Head(wire[c]) = TaskResult(t, ok) /\ chain' = Append(chain, Result(t, ok))
         \/ \E p, q \in Seq(PlainOps) : HeadDone(p, q)
<1> USE DEF AtHead
<1>0. chain \in Seq(Op) /\ (chain # <<>> => Head(chain) \in Op) /\ <<>> \in Seq(PlainOps)
  BY DEF TypeOK
<1>1. CASE Submit
  <2>1. submitted + 1 \in Tasks
    BY <1>1, ConstantFacts DEF Submit, Tasks, TypeOK
  <2> QED BY <1>1, <2>1 DEF Submit
<1>2. CASE CommitCreate
  <2> DEFINE next == Start("snapshot", {Head(chain).task}, {}, NoConn)
  <2>1. next \in Seq(PlainOps)
    BY <1>0, <1>2, OpFields, StartTyped DEF CommitCreate
  <2>2. chain # <<>> /\ chain' = Tail(chain) \o next
    BY <1>2 DEF CommitCreate
  <2> HIDE DEF next
  <2> QED BY <1>0, <2>1, <2>2, HeadDoneOnly
<1>3. CASE CommitSnapshotOfPending
  <2> DEFINE o == Head(chain)
             queued == {t \in o.tasks : task[t].status = "queued"}
             next == Start("reserve", queued, {}, o.by)
  <2>1. queued \in SUBSET Tasks /\ o.by \in Conns \cup {NoConn}
    BY <1>0, <1>3, OpFields DEF CommitSnapshotOfPending
  <2>2. chain # <<>> /\ chain' = Tail(chain) \o next
    BY <1>3 DEF CommitSnapshotOfPending
  <2>3. next \in Seq(PlainOps)
    <3> HIDE DEF queued, o
    <3> QED BY <2>1, StartTyped
  <2> HIDE DEF next
  <2> QED BY <1>0, <2>2, <2>3, HeadDoneOnly
<1>4. CASE CommitSnapshotOfNext
  <2>1. PICK t \in Head(chain).tasks :
          LET rest == Head(chain).tasks \ {t} IN
          chain' = Tail(chain) \o IF task[t].status = "queued"
                                  THEN Start("reserve", {t}, rest, NoConn)
                                  ELSE Returned(rest)
    BY <1>4 DEF CommitSnapshotOfNext
  <2> DEFINE rest == Head(chain).tasks \ {t}
             next == IF task[t].status = "queued"
                     THEN Start("reserve", {t}, rest, NoConn) ELSE Returned(rest)
  <2>2. t \in Tasks /\ rest \in SUBSET Tasks /\ chain # <<>>
    BY <1>0, <1>4, OpFields DEF CommitSnapshotOfNext
  <2>3. next \in Seq(PlainOps)
    <3>1. Start("reserve", {t}, rest, NoConn) \in Seq(PlainOps) /\ Returned(rest) \in Seq(PlainOps)
      BY <2>2, StartTyped, ReturnedTyped
    <3> QED BY <3>1
  <2>4. chain' = Tail(chain) \o next
    BY <2>1
  <2> HIDE DEF next
  <2> QED BY <1>0, <2>2, <2>3, <2>4, HeadDoneOnly
<1>5. CASE CommitReserve
  <2> DEFINE o == Head(chain)
  <2>1. PICK t \in o.tasks :
          LET queue == Start("reserve", o.tasks \ {t}, o.rest, o.by) \o Tail(chain) IN
          \/ chain' = Append(queue, Deliver("revert", {t}, o.rest, o.by))
          \/ chain' = queue \o Returned(o.rest)
    BY <1>5 DEF CommitReserve
  <2> DEFINE others == o.tasks \ {t}
             first == Start("reserve", others, o.rest, o.by)
             back == Deliver("revert", {t}, o.rest, o.by)
  <2>2. /\ t \in Tasks /\ others \in SUBSET Tasks /\ o.rest \in SUBSET Tasks
        /\ o.by \in Conns \cup {NoConn} /\ chain # <<>>
    BY <1>0, <1>5, OpFields DEF CommitReserve
  <2>3. chain' = Append(first \o Tail(chain), back)
          \/ chain' = (first \o Tail(chain)) \o Returned(o.rest)
    BY <2>1
  <2> HIDE DEF o, others
  <2>4. first \in Seq(PlainOps) /\ back \in PlainOps /\ Returned(o.rest) \in Seq(PlainOps)
    BY <2>2, PlainBuilt, StartTyped, ReturnedTyped
  <2> HIDE DEF first, back
  <2>5. <<back>> \in Seq(PlainOps)
    BY <2>4
  <2> QED BY <1>0, <2>2, <2>3, <2>4, <2>5, HeadDoneOnly DEF HeadDone
<1>6. CASE CommitRevert
  <2>1. Returned(Head(chain).rest) \in Seq(PlainOps)
    BY <1>0, <1>6, OpFields, ReturnedTyped DEF CommitRevert
  <2>2. chain # <<>> /\ chain' = Tail(chain) \o Returned(Head(chain).rest)
    BY <1>6 DEF CommitRevert
  <2> QED BY <1>0, <2>1, <2>2, HeadDoneOnly
<1>7. CASE CommitAuthenticate \/ CommitOnline
  <2>1. chain # <<>> /\ Head(chain).by \in Conns
    BY <1>0, <1>7, OpFields DEF CommitAuthenticate, CommitOnline
  <2>2. \E step \in {"online", "pending"} :
          chain' = Append(Tail(chain), Handshake(step, Head(chain).by))
    BY <1>7 DEF CommitAuthenticate, CommitOnline
  <2>3. PICK o \in PlainOps : chain' = Append(Tail(chain), o)
    BY <2>1, <2>2, PlainBuilt
  <2>4. <<o>> \in Seq(PlainOps)
    OBVIOUS
  <2> QED BY <1>0, <2>1, <2>3, <2>4, HeadDoneOnly
<1>8. CASE CommitPending
  <2> DEFINE queued == {t \in Tasks : task[t].status = "queued"}
             next == Start("snapshot", queued, {}, Head(chain).by)
  <2>1. next \in Seq(PlainOps)
    <3>1. Head(chain).by \in Conns /\ queued \in SUBSET Tasks
      BY <1>0, <1>8, OpFields DEF CommitPending
    <3> HIDE DEF queued
    <3> QED BY <3>1, StartTyped
  <2>2. chain # <<>> /\ chain' = Tail(chain) \o next
    BY <1>8 DEF CommitPending
  <2> HIDE DEF next
  <2> QED BY <1>0, <2>1, <2>2, HeadDoneOnly
<1>9. CASE CommitReport \/ CommitResult \/ CommitRequeue
  <2>1. chain # <<>> /\ chain' = Tail(chain)
    BY <1>9 DEF CommitReport, CommitResult, CommitRequeue
  <2> QED BY <1>0, <2>1, HeadDoneOnly
<1>10. CASE CommitTick
  <2>1. PICK due \in SUBSET Tasks : chain' = Tail(chain) \o Returned(due)
    BY <1>10 DEF CommitTick
  <2>2. chain # <<>> /\ Returned(due) \in Seq(PlainOps)
    BY <1>10, ReturnedTyped DEF CommitTick
  <2> QED BY <1>0, <2>1, <2>2, HeadDoneOnly
<1>11. CASE StartTick
  BY <1>11, PlainBuilt DEF StartTick
<1>12. CASE ApiRestart
  BY <1>12 DEF ApiRestart
<1>13. ASSUME NEW c \in Conns, ReceiveMessage(c)
       PROVE  \/ chain' = chain
              \/ /\ wire[c] # <<>> /\ srv[c] # "unused"
                 /\ \/ chain' = Append(chain, Handshake("authenticate", c))
                    \/ \E t \in Tasks : Head(wire[c]) = Ack(t) /\ chain' = Append(chain, Report(t))
                    \/ \E t \in Tasks, ok \in BOOLEAN :
                         Head(wire[c]) = TaskResult(t, ok) /\ chain' = Append(chain, Result(t, ok))
  <2> DEFINE m == Head(wire[c])
  <2>1. m \in Message /\ wire[c] # <<>> /\ srv[c] # "unused"
    BY <1>13 DEF ReceiveMessage, TypeOK
  <2>2. \/ chain' = chain \/ chain' = Append(chain, Handshake("authenticate", c))
        \/ m.type = "task.ack" /\ chain' = Append(chain, Report(m.task))
        \/ m.type = "task.result" /\ chain' = Append(chain, Result(m.task, m.ok))
    BY <1>13 DEF ReceiveMessage
  <2> HIDE DEF m
  <2>3. m.type = "task.ack" => m.task \in Tasks /\ m = Ack(m.task)
    BY <2>1, MessageFields
  <2>4. m.type = "task.result" =>
          m.task \in Tasks /\ m.ok \in BOOLEAN /\ m = TaskResult(m.task, m.ok)
    BY <2>1, MessageFields
  <2> QED BY <2>1, <2>2, <2>3, <2>4 DEF m
<1>14. ASSUME NEW c \in Conns, SocketClose(c)
       PROVE  chain' = chain \/ \E o \in PlainOps : chain' = Append(chain, o)
  BY <1>14, PlainBuilt DEF SocketClose
<1>16. CASE \E c \in Conns : ReceiveHeartbeat(c)
  BY <1>16 DEF ReceiveHeartbeat
<1>15. CASE AgentDrop \/ Connect \/ Run \/ AgentCrash \/ UNCHANGED vars
  BY <1>15 DEF AgentDrop, Connect, Run, AnswerFromJournal, StartTask, ExecuteFails, Execute,
     RecordAndReport, AgentCrash, vars, panelVars
<1> QED
  BY <1>1, <1>2, <1>3, <1>4, <1>5, <1>6, <1>7, <1>8, <1>9, <1>10, <1>11, <1>12, <1>13, <1>14,
     <1>15, <1>16 DEF Next, Commit, CommitDelivery, CommitSession

\* The chain grows by the result a message brought, the handshake of a connection that
\* was opened, or other operations; so a set that holds these holds the whole chain.
LEMMA ChainStep ==
  ASSUME TypeOK, [Next]_vars, NEW S, QuietOps \subseteq S, chain \in Seq(S),
         \A c \in Conns : srv[c] # "unused" => Handshake("authenticate", c) \in S,
         \A c \in Conns, t \in Tasks, ok \in BOOLEAN :
           wire[c] # <<>> /\ Head(wire[c]) = TaskResult(t, ok) => Result(t, ok) \in S
  PROVE  chain' \in Seq(S)
<1>1. PlainOps \subseteq S /\ \A t \in Tasks : Create(t) \in S /\ Report(t) \in S
  BY OpBuilt DEF PlainOps, QuietOps
<1>2. \A x \in S : Append(chain, x) \in Seq(S)
  BY AppendTyped
<1>3. ASSUME NEW p \in Seq(PlainOps), NEW q \in Seq(PlainOps), HeadDone(p, q)
      PROVE  chain' \in Seq(S)
  <2>1. p \in Seq(S) /\ q \in Seq(S)
    BY <1>1, SeqMonotonic
  <2>2. Tail(chain) \in Seq(S) /\ chain' = (p \o Tail(chain)) \o q
    BY <1>3 DEF HeadDone
  <2>3. p \o Tail(chain) \in Seq(S)
    BY <2>1, <2>2, ConcatTyped
  <2> QED BY <2>1, <2>2, <2>3, ConcatTyped
<1>4. <<>> \in Seq(S)
  OBVIOUS
<1> QED BY <1>1, <1>2, <1>3, <1>4, ChainShape

\* The steps that write task records.
LEMMA TaskChangers ==
  ASSUME [Next]_vars
  PROVE  \/ CommitCreate \/ CommitReserve \/ CommitRevert \/ CommitRequeue \/ CommitReport
         \/ CommitResult \/ CommitTick \/ UNCHANGED task
  BY DEF Next, Commit, CommitDelivery, CommitSession, Run, Submit, CommitSnapshotOfPending,
     CommitSnapshotOfNext, CommitAuthenticate, CommitOnline, CommitPending, StartTick,
     ApiRestart, ReceiveMessage, ReceiveHeartbeat, SocketClose, AgentDrop,
     Connect, AnswerFromJournal, StartTask,
     ExecuteFails, Execute, RecordAndReport, AgentCrash, vars, panelVars

\* What one step can do to a task: nothing, a transition of the policy, or the
\* success that the store operation at the head of the chain carries.
LEMMA TaskTransition ==
  ASSUME TypeOK, [Next]_vars
  PROVE  /\ task' = [t \in Tasks |-> task'[t]]
         /\ \A t \in Tasks :
              \/ task'[t] \in {task[t], Created(task[t]), Reserved(task[t]), Unreserved(task[t]),
                               Requeued(task[t]), Reported(task[t]), FailedOnce(task[t]),
                               WithResult(task[t], FALSE), RetryDue(task[t])}
              \/ /\ chain # <<>> /\ Head(chain) = Result(t, TRUE)
                 /\ task'[t] = WithResult(task[t], TRUE)
<1> DEFINE Moved(t, new) ==
             \/ new \in {task[t], Created(task[t]), Reserved(task[t]), Unreserved(task[t]),
                        Requeued(task[t]), Reported(task[t]), FailedOnce(task[t]),
                        WithResult(task[t], FALSE), RetryDue(task[t])}
             \/ /\ chain # <<>> /\ Head(chain) = Result(t, TRUE)
                /\ new = WithResult(task[t], TRUE)
           Moves(new) == new = [t \in Tasks |-> new[t]] /\ \A t \in Tasks : Moved(t, new[t])
<1>0. /\ task \in [Tasks -> Task]
      /\ chain # <<>> => Head(chain) \in Op
  BY DEF TypeOK
<1>1. ASSUME NEW t \in Tasks, NEW x, task' = [task EXCEPT ![t] = x], Moved(t, x)
      PROVE  Moves(task')
  <2>1. \A u \in Tasks : u # t => task'[u] = task[u]
    BY <1>0, <1>1
  <2>2. task'[t] = x /\ task' = [u \in Tasks |-> task'[u]]
    BY <1>0, <1>1
  <2>3. \A u \in Tasks : Moved(u, task[u])
    OBVIOUS
  <2> HIDE DEF Moved
  <2> QED BY <1>1, <2>1, <2>2, <2>3
<1>2. CASE CommitCreate \/ CommitReport
  <2> DEFINE t == Head(chain).task
  <2>1. t \in Tasks
    BY <1>0, <1>2, OpFields DEF CommitCreate, CommitReport, AtHead
  <2>2. \/ task' = [task EXCEPT ![t] = Created(task[t])]
        \/ task' = [task EXCEPT ![t] = Reported(task[t])]
    BY <1>2 DEF CommitCreate, CommitReport
  <2>3. Moved(t, Created(task[t])) /\ Moved(t, Reported(task[t]))
    OBVIOUS
  <2>4. Moves(task')
    <3> HIDE DEF t, Moved, Moves
    <3> QED BY <1>1, <2>1, <2>2, <2>3
  <2> QED BY <2>4
<1>3. CASE CommitReserve
  <2>1. PICK t \in Tasks : task' = task \/ task' = [task EXCEPT ![t] = Reserved(task[t])]
    BY <1>0, <1>3, OpFields DEF CommitReserve, AtHead
  <2>2. CASE task' = task
    BY <1>0, <2>2
  <2>3. CASE task' = [task EXCEPT ![t] = Reserved(task[t])]
    <3>1. Moved(t, Reserved(task[t]))
      OBVIOUS
    <3>2. Moves(task')
      <4> HIDE DEF Moved, Moves
      <4> QED BY <1>1, <2>3, <3>1
    <3> QED BY <3>2
  <2> QED BY <2>1, <2>2, <2>3
<1>4. CASE CommitRevert \/ CommitRequeue
  BY <1>0, <1>4 DEF CommitRevert, CommitRequeue
<1>5. CASE CommitResult
  <2> DEFINE t == Head(chain).task  ok == Head(chain).ok
  <2>1. /\ t \in Tasks /\ ok \in BOOLEAN /\ Head(chain) = Result(t, ok) /\ chain # <<>>
        /\ task' = [task EXCEPT ![t] = WithResult(task[t], ok)]
    BY <1>0, <1>5, OpFields DEF CommitResult, AtHead
  <2>2. Moved(t, WithResult(task[t], ok))
    <3> HIDE DEF t, ok
    <3>1. CASE ok = TRUE
      BY <2>1, <3>1
    <3>2. CASE ok = FALSE
      BY <2>1, <3>2
    <3> QED BY <2>1, <3>1, <3>2
  <2>3. Moves(task')
    <3> HIDE DEF t, ok, Moved, Moves
    <3> QED BY <1>1, <2>1, <2>2
  <2> QED BY <2>3
<1>6. CASE CommitTick
  <2>1. PICK due \in SUBSET {t \in Tasks : task[t].status = "retrying"},
             stale \in SUBSET {t \in Tasks : task[t].status \in {"running", "delivered"}} :
          task' = [t \in Tasks |-> IF t \in due THEN RetryDue(task[t])
                                   ELSE IF t \in stale THEN FailedOnce(task[t]) ELSE task[t]]
    BY <1>6 DEF CommitTick
  <2> QED BY <2>1
<1>7. CASE UNCHANGED task
  BY <1>0, <1>7
<1> QED BY <1>2, <1>3, <1>4, <1>5, <1>6, <1>7, TaskChangers

\* Task records stay task records, and a stored task stays stored.
LEMMA TaskStep ==
  ASSUME TypeOK, [Next]_vars
  PROVE  /\ task' \in [Tasks -> Task]
         /\ \A t \in Tasks : task[t].status # "absent" => task'[t].status # "absent"
<1>1. ASSUME NEW t \in Tasks
      PROVE  /\ task'[t] \in Task
             /\ task[t].status # "absent" => task'[t].status # "absent"
  <2>1. task[t] \in Task
    BY DEF TypeOK
  <2> QED BY <2>1, TaskTransition, PolicyTyped, PolicyStored
<1> QED BY <1>1, TaskTransition

\* The agent acknowledges the task that it takes, and sends failures, and
\* successes of tasks it has in its journal or has just executed; a set of
\* messages that holds these holds everything under way.
LEMMA WireStep ==
  ASSUME TypeOK, [Next]_vars, NEW M, wire \in [Conns -> Seq(M)], Hello \in M,
         agentQueue # <<>> => Ack(Head(agentQueue)) \in M,
         \A t \in Tasks : TaskResult(t, FALSE) \in M,
         \A t \in Tasks : t \in journal \/ (phase = "executed" /\ current = t)
                           => TaskResult(t, TRUE) \in M
  PROVE  wire' \in [Conns -> Seq(M)]
<1>0. /\ agentQueue # <<>> => Head(agentQueue) \in Tasks
      /\ phase # "idle" => current \in Tasks
      /\ <<>> \in Seq(M)
  BY DEF TypeOK
<1>1. ASSUME NEW ms \in Seq(M), AgentSend(ms)
      PROVE  wire' \in [Conns -> Seq(M)]
  BY <1>1, ConcatTyped DEF AgentSend
<1>2. CASE AnswerFromJournal
  <2> DEFINE t == Head(agentQueue)
  <2>1. Ack(t) \in M /\ TaskResult(t, TRUE) \in M
    BY <1>0, <1>2 DEF AnswerFromJournal
  <2>2. <<Ack(t), TaskResult(t, TRUE)>> \in Seq(M)
    BY <2>1, TwoTyped
  <2> QED BY <1>1, <1>2, <2>2 DEF AnswerFromJournal
<1>3. CASE StartTask
  <2>1. <<Ack(Head(agentQueue))>> \in Seq(M)
    BY <1>0, <1>3, OneTyped DEF StartTask
  <2> QED BY <1>1, <1>3, <2>1 DEF StartTask
<1>4. CASE ExecuteFails
  <2>1. TaskResult(current, FALSE) \in M
    BY <1>0, <1>4 DEF ExecuteFails
  <2>2. <<TaskResult(current, FALSE)>> \in Seq(M)
    BY <2>1, OneTyped
  <2> QED BY <1>1, <1>4, <2>2 DEF ExecuteFails
<1>5. CASE RecordAndReport
  <2>1. TaskResult(current, TRUE) \in M
    BY <1>0, <1>5 DEF RecordAndReport
  <2>2. <<TaskResult(current, TRUE)>> \in Seq(M)
    BY <2>1, OneTyped
  <2> QED BY <1>1, <1>5, <2>2 DEF RecordAndReport
<1>6. CASE Connect
  <2>1. <<Hello>> \in Seq(M)
    BY OneTyped
  <2> QED BY <1>6, <2>1 DEF Connect
<1>7. CASE ApiRestart
  BY <1>0, <1>7 DEF ApiRestart
<1>8. ASSUME NEW c \in Conns, ReceiveMessage(c) \/ ReceiveHeartbeat(c) \/ SocketClose(c)
      PROVE  wire' \in [Conns -> Seq(M)]
  <2>1. wire[c] # <<>> => Tail(wire[c]) \in Seq(M)
    OBVIOUS
  <2>2. CASE ReceiveHeartbeat(c)
    BY <2>2 DEF ReceiveHeartbeat, linkVars
  <2>3. CASE ReceiveMessage(c) \/ SocketClose(c)
    BY <1>0, <2>1, <2>3 DEF ReceiveMessage, SocketClose
  <2> QED BY <1>8, <2>2, <2>3
<1>9. [Next]_vars =>
        \/ AnswerFromJournal \/ StartTask \/ ExecuteFails \/ RecordAndReport \/ Connect
        \/ ApiRestart \/ UNCHANGED wire
        \/ \E c \in Conns : ReceiveMessage(c) \/ ReceiveHeartbeat(c) \/ SocketClose(c)
  BY DEF Next, Commit, CommitDelivery, CommitSession, CommitCreate, CommitSnapshotOfPending,
     CommitSnapshotOfNext, CommitReserve, CommitRevert, CommitAuthenticate, CommitOnline,
     CommitPending, CommitReport, CommitResult, CommitRequeue, CommitTick, Run, Submit,
     StartTick, AgentDrop, Execute, AgentCrash, vars, linkVars
<1> QED BY <1>2, <1>3, <1>4, <1>5, <1>6, <1>7, <1>8, <1>9

\* Only stored tasks reach the agent; a set that holds them holds its queue.
LEMMA QueueStep ==
  ASSUME TypeOK, [Next]_vars, NEW T, agentQueue \in Seq(T),
         \A t \in Tasks : task[t].status # "absent" => t \in T
  PROVE  agentQueue' \in Seq(T)
<1>1. CASE CommitReserve
  <2>1. PICK t \in Head(chain).tasks :
          agentQueue' = agentQueue
            \/ (task[t].status = "queued" /\ agentQueue' = Append(agentQueue, t))
    BY <1>1 DEF CommitReserve, SendTask
  <2>2. t \in Tasks
    BY <1>1, OpFields DEF CommitReserve, AtHead, TypeOK
  <2>3. task[t].status = "queued" => Append(agentQueue, t) \in Seq(T)
    BY <2>2, AppendTyped
  <2> QED BY <2>1, <2>3
<1>2. CASE AnswerFromJournal \/ StartTask
  <2>1. agentQueue # <<>> => Tail(agentQueue) \in Seq(T)
    OBVIOUS
  <2> QED BY <1>2, <2>1 DEF AnswerFromJournal, StartTask
<1>3. CASE AgentCrash
  BY <1>3 DEF AgentCrash
<1>4. [Next]_vars =>
        CommitReserve \/ AnswerFromJournal \/ StartTask \/ AgentCrash \/ UNCHANGED agentQueue
  BY DEF Next, Commit, CommitDelivery, CommitSession, CommitCreate, CommitSnapshotOfPending,
     CommitSnapshotOfNext, CommitRevert, CommitAuthenticate, CommitOnline,
     CommitPending, CommitReport, CommitResult, CommitRequeue, CommitTick, Run, Submit,
     StartTick, ApiRestart, ReceiveMessage, ReceiveHeartbeat, SocketClose, AgentDrop, Connect, ExecuteFails,
     Execute, RecordAndReport, vars, agentVars
<1> QED BY <1>1, <1>2, <1>3, <1>4

\* Every step keeps the types.
LEMMA StepTyped ==
  ASSUME TypeOK, [Next]_vars
  PROVE  TypeOK'
<1>1. chain' \in Seq(Op)
  <2>1. /\ QuietOps \subseteq Op /\ \A c \in Conns : Handshake("authenticate", c) \in Op
        /\ \A t \in Tasks, ok \in BOOLEAN : Result(t, ok) \in Op
    BY OpBuilt DEF QuietOps
  <2> QED BY <2>1, ChainStep DEF TypeOK
<1>2. wire' \in [Conns -> Seq(Message)]
  <2>1. agentQueue # <<>> => Head(agentQueue) \in Tasks
    BY DEF TypeOK
  <2> QED BY <2>1, MessageBuilt, WireStep DEF TypeOK
<1>3. agentQueue' \in Seq(Tasks)
  BY QueueStep DEF TypeOK
<1>4. task' \in [Tasks -> Task]
  BY TaskStep
<1>5. /\ submitted' \in 0..Len(Requests) /\ crashes' \in Nat /\ restarts' \in Nat
      /\ lastConn' \in 0..MaxConns /\ agentSock' \in Conns \cup {NoConn}
  <2>1. lastConn < MaxConns => lastConn + 1 \in Conns /\ lastConn + 1 \in 0..MaxConns
    BY DeliveryAssumption DEF Conns, TypeOK
  <2>2. submitted < Len(Requests) => submitted + 1 \in 0..Len(Requests)
    BY ConstantFacts DEF TypeOK
  <2>3. \/ UNCHANGED <<submitted, crashes, restarts, lastConn, agentSock>>
        \/ Submit \/ ApiRestart \/ AgentDrop \/ Connect \/ AgentCrash
    BY DEF Next, Commit, CommitDelivery, CommitSession, CommitCreate, CommitSnapshotOfPending,
     CommitSnapshotOfNext, CommitReserve, CommitRevert, CommitAuthenticate, CommitOnline,
     CommitPending, CommitReport, CommitResult, CommitRequeue, CommitTick, Run,
     StartTick, ReceiveMessage, ReceiveHeartbeat, SocketClose, AnswerFromJournal, StartTask, ExecuteFails,
     Execute, RecordAndReport, vars, envVars, linkVars
  <2>4. CASE UNCHANGED <<submitted, crashes, restarts, lastConn, agentSock>>
    BY <2>4 DEF TypeOK
  <2>5. CASE Submit
    BY <2>2, <2>5 DEF TypeOK, Submit, linkVars
  <2>6. CASE ApiRestart \/ AgentDrop \/ AgentCrash
    BY <2>6 DEF TypeOK, ApiRestart, AgentDrop, AgentCrash, envVars
  <2>7. CASE Connect
    BY <2>1, <2>7 DEF TypeOK, Connect, envVars
  <2> QED BY <2>3, <2>4, <2>5, <2>6, <2>7
<1>6. /\ hub' \in Conns \cup {NoConn} /\ greeted' \in [Conns -> BOOLEAN]
      /\ srv' \in [Conns -> {"unused", "open", "superseded", "rejected", "closed"}]
  <2>1. ASSUME NEW c \in Conns, ReceiveMessage(c) \/ ReceiveHeartbeat(c) \/ SocketClose(c)
        PROVE  /\ hub' \in Conns \cup {NoConn} /\ greeted' \in [Conns -> BOOLEAN]
               /\ srv' \in [Conns -> {"unused", "open", "superseded", "rejected", "closed"}]
    BY <2>1 DEF ReceiveMessage, ReceiveHeartbeat, SocketClose, TypeOK
  <2>2. CASE CommitAuthenticate
    <3>1. Head(chain).by \in Conns
      BY <2>2, OpFields DEF CommitAuthenticate, AtHead, TypeOK
    <3> QED BY <2>2, <3>1 DEF CommitAuthenticate, TypeOK
  <2>3. CASE ApiRestart \/ Connect
    BY <2>3 DEF ApiRestart, Connect, TypeOK
  <2>4. \/ CommitAuthenticate \/ ApiRestart \/ Connect
        \/ \E c \in Conns : ReceiveMessage(c) \/ ReceiveHeartbeat(c) \/ SocketClose(c)
        \/ UNCHANGED <<hub, greeted, srv>>
    BY DEF Next, Commit, CommitDelivery, CommitSession, CommitCreate, CommitSnapshotOfPending,
     CommitSnapshotOfNext, CommitReserve, CommitRevert, CommitOnline,
     CommitPending, CommitReport, CommitResult, CommitRequeue, CommitTick, Run, Submit,
     StartTick, AgentDrop, AnswerFromJournal, StartTask, ExecuteFails,
     Execute, RecordAndReport, AgentCrash, vars, panelVars
  <2> QED BY <2>1, <2>2, <2>3, <2>4 DEF TypeOK
<1>7. /\ phase' \in {"idle", "executing", "executed"}
      /\ current' \in Tasks \cup {NoTask} /\ (phase' # "idle" => current' \in Tasks)
      /\ journal' \in SUBSET Tasks /\ journalDisk' \in SUBSET Tasks
      /\ executions' \in [Tasks -> Nat]
  <2>1. Run \/ AgentCrash \/ UNCHANGED <<phase, current, journal, journalDisk, executions>>
    BY DEF Next, Commit, CommitDelivery, CommitSession, CommitCreate, CommitSnapshotOfPending,
     CommitSnapshotOfNext, CommitReserve, CommitRevert, CommitAuthenticate, CommitOnline,
     CommitPending, CommitReport, CommitResult, CommitRequeue, CommitTick, Submit,
     StartTick, ApiRestart, ReceiveMessage, ReceiveHeartbeat, SocketClose, AgentDrop, Connect, vars, agentVars
  <2>2. CASE Execute
    BY <2>2 DEF Execute, TypeOK
  <2>3. CASE AnswerFromJournal \/ StartTask \/ ExecuteFails \/ RecordAndReport \/ AgentCrash
    BY <2>3 DEF AnswerFromJournal, StartTask, ExecuteFails, RecordAndReport, AgentCrash, TypeOK
  <2> QED BY <2>1, <2>2, <2>3 DEF Run, TypeOK
<1> QED BY <1>1, <1>2, <1>3, <1>4, <1>5, <1>6, <1>7 DEF TypeOK

\* Every reachable state is well typed: the panel's store chain, its sockets, the
\* messages under way and the agent's memory.
THEOREM TypeCorrect == Spec => []TypeOK
<1>1. Init => TypeOK
  BY InitTyped
<1>2. TypeOK /\ [Next]_vars => TypeOK'
  BY StepTyped
<1> QED BY <1>1, <1>2, PTL DEF Spec

-----------------------------------------------------------------------------
(* Executions: what the journal prevents and what a crash permits.         *)

\* Executions only grow, by the task the runtime has just completed.
LEMMA ExecutionsStep ==
  ASSUME TypeOK, ExecutionsAccounted, [Next]_vars
  PROVE  /\ ExecutionsAccounted'
         /\ \A t \in Tasks : executions[t] >= 1 => executions'[t] >= 1
<1> USE DEF TypeOK, ExecutionsAccounted
<1>1. CASE AnswerFromJournal
  BY <1>1 DEF AnswerFromJournal, envVars
<1>2. CASE StartTask
  BY <1>2 DEF StartTask, envVars
<1>3. CASE ExecuteFails
  BY <1>3 DEF ExecuteFails, envVars
<1>4. CASE Execute
  <2>1. current \in Tasks /\ current \notin journal /\ executions[current] \in Nat
    BY <1>4 DEF Execute
  <2>2. /\ executions' = [executions EXCEPT ![current] = executions[current] + 1]
        /\ phase = "executing" /\ phase' = "executed" /\ UNCHANGED <<current, journal, journalDisk, crashes>>
    BY <1>4 DEF Execute, envVars
  <2>3. executions[current] <= crashes
    BY <2>1, <2>2
  <2>4. executions'[current] = executions[current] + 1
    BY <2>1, <2>2
  <2>5. \A t \in Tasks : t # current => executions'[t] = executions[t]
    BY <2>1, <2>2
  <2>6. ASSUME NEW t \in Tasks
        PROVE  /\ executions'[t] <= crashes' + 1
               /\ executions'[t] = crashes' + 1 => t \in journal' \/ (phase' = "executed" /\ current' = t)
               /\ t \in journal' => executions'[t] >= 1
               /\ executions[t] >= 1 => executions'[t] >= 1
    <3>1. CASE t = current
      BY <2>1, <2>2, <2>3, <2>4, <3>1
    <3>2. CASE t # current
      BY <2>2, <2>5, <3>2
    <3> QED BY <3>1, <3>2
  <2>7. executions'[current'] >= 1
    BY <2>1, <2>2, <2>4
  <2> QED BY <2>2, <2>6, <2>7
<1>5. CASE RecordAndReport
  BY <1>5 DEF RecordAndReport, envVars
<1>6. CASE AgentCrash
  BY <1>6 DEF AgentCrash
<1>7. CASE UNCHANGED <<phase, current, journal, journalDisk, executions, crashes>>
  BY <1>7
<1>8. Run \/ AgentCrash \/ UNCHANGED <<phase, current, journal, journalDisk, executions, crashes>>
  BY DEF Next, Commit, CommitDelivery, CommitSession, CommitCreate, CommitSnapshotOfPending,
     CommitSnapshotOfNext, CommitReserve, CommitRevert, CommitAuthenticate, CommitOnline,
     CommitPending, CommitReport, CommitResult, CommitRequeue, CommitTick, Submit,
     StartTick, ApiRestart, ReceiveMessage, ReceiveHeartbeat, SocketClose, AgentDrop, Connect, vars, agentVars,
     envVars
<1> QED BY <1>1, <1>2, <1>3, <1>4, <1>5, <1>6, <1>7, <1>8 DEF Run

\* Only the transaction of a result turns a task into a success.
LEMMA SucceededStep ==
  ASSUME TypeOK, chain \in Seq(JustifiedOps), [Next]_vars,
         NEW t \in Tasks, task'[t].status = "succeeded"
  PROVE  task[t].status = "succeeded" \/ executions[t] >= 1
<1> DEFINE x == task[t]
<1>0. x \in Task
  BY DEF TypeOK
<1>1. FailedOnce(x).status \in {"retrying", "failed"}
  BY <1>0 DEF Task, FailedOnce
<1>2. Created(x).status = "queued" /\ Reserved(x).status = "delivered"
  BY <1>0 DEF Task, Created, Reserved
<1>3. Reported(x).status = "running" /\ RetryDue(x).status = "queued"
  BY <1>0 DEF Task, Reported, RetryDue
<1>4. /\ Unreserved(x).status = "succeeded" => x.status = "succeeded"
      /\ Requeued(x).status = "succeeded" => x.status = "succeeded"
  BY <1>0 DEF Task, Unreserved, Requeued
<1>5. WithResult(x, FALSE).status = "succeeded" => x.status = "succeeded"
  BY <1>1 DEF WithResult
<1>6. CASE chain # <<>> /\ Head(chain) = Result(t, TRUE)
  <2>1. Head(chain) \in JustifiedOps
    BY <1>6
  <2>2. Result(t, TRUE) \in JustifiedOps
    BY <1>6, <2>1
  <2> QED BY <2>2 DEF JustifiedOps, Result
<1> HIDE DEF x
<1>7. CASE ~(chain # <<>> /\ Head(chain) = Result(t, TRUE))
  BY <1>1, <1>2, <1>3, <1>4, <1>5, <1>7, TaskTransition DEF x
<1> QED BY <1>6, <1>7

\* A task shown as succeeded was executed; so was any whose success is reported
\* by a message or by a store operation under way.
LEMMA SuccessStep ==
  ASSUME TypeOK, ExecutionsAccounted, SuccessAccounted, [Next]_vars
  PROVE  SuccessAccounted'
<1>1. \A t \in Tasks : executions[t] >= 1 => executions'[t] >= 1
  BY ExecutionsStep
<1>2. JustifiedMessages \subseteq JustifiedMessages' /\ JustifiedOps \subseteq JustifiedOps'
  BY <1>1, MessageFields, OpFields DEF JustifiedMessages, JustifiedOps
<1>3. wire' \in [Conns -> Seq(JustifiedMessages)]
  <2>1. /\ Hello \in JustifiedMessages
        /\ \A t \in Tasks : Ack(t) \in JustifiedMessages /\ TaskResult(t, FALSE) \in JustifiedMessages
    BY MessageBuilt DEF JustifiedMessages, Hello, Ack, TaskResult
  <2>2. \A t \in Tasks : executions[t] >= 1 => TaskResult(t, TRUE) \in JustifiedMessages
    BY MessageBuilt DEF JustifiedMessages, TaskResult
  <2>3. \A t \in Tasks : t \in journal \/ (phase = "executed" /\ current = t) => executions[t] >= 1
    BY DEF ExecutionsAccounted
  <2>4. agentQueue # <<>> => Head(agentQueue) \in Tasks
    BY DEF TypeOK
  <2> QED BY <2>1, <2>2, <2>3, <2>4, WireStep DEF SuccessAccounted
<1>4. chain' \in Seq(JustifiedOps)
  <2>1. /\ QuietOps \subseteq JustifiedOps
        /\ \A c \in Conns : Handshake("authenticate", c) \in JustifiedOps
    BY OpBuilt DEF QuietOps, JustifiedOps, Handshake
  <2>2. ASSUME NEW c \in Conns, NEW t \in Tasks, NEW ok \in BOOLEAN,
               wire[c] # <<>>, Head(wire[c]) = TaskResult(t, ok)
        PROVE  Result(t, ok) \in JustifiedOps
    <3>1. TaskResult(t, ok) \in JustifiedMessages
      BY <2>2 DEF SuccessAccounted
    <3>2. ok => executions[t] >= 1
      BY <3>1 DEF JustifiedMessages, TaskResult
    <3> QED BY <3>2, OpBuilt DEF JustifiedOps, Result
  <2> QED BY <2>1, <2>2, ChainStep DEF SuccessAccounted
<1>5. ASSUME NEW t \in Tasks, task'[t].status = "succeeded"
      PROVE  task[t].status = "succeeded" \/ executions[t] >= 1
  BY <1>5, SucceededStep DEF SuccessAccounted
<1>6. SucceededWasExecuted'
  BY <1>1, <1>5 DEF SuccessAccounted, SucceededWasExecuted
<1>7. Seq(JustifiedOps) \subseteq Seq(JustifiedOps') /\ Seq(JustifiedMessages) \subseteq Seq(JustifiedMessages')
  BY <1>2, SeqMonotonic
<1> QED BY <1>3, <1>4, <1>6, <1>7 DEF SuccessAccounted

\* What has reached the agent is in the store.
LEMMA ReceivedStep ==
  ASSUME TypeOK, ReceivedIsStored, [Next]_vars
  PROVE  ReceivedIsStored'
<1>1. StoredTasks \subseteq StoredTasks'
  BY TaskStep DEF StoredTasks
<1>2. agentQueue' \in Seq(StoredTasks)
  BY QueueStep DEF StoredTasks, ReceivedIsStored
<1>3. Seq(StoredTasks) \subseteq Seq(StoredTasks')
  BY <1>1, SeqMonotonic
<1>4. phase' # "idle" => current' \in StoredTasks
  <2>1. CASE StartTask
    BY <2>1 DEF StartTask, ReceivedIsStored
  <2>2. CASE AnswerFromJournal \/ ExecuteFails \/ Execute \/ RecordAndReport \/ AgentCrash
    BY <2>2 DEF AnswerFromJournal, ExecuteFails, Execute, RecordAndReport, AgentCrash,
       ReceivedIsStored
  <2>3. Run \/ AgentCrash \/ UNCHANGED <<phase, current>>
    BY DEF Next, Commit, CommitDelivery, CommitSession, CommitCreate, CommitSnapshotOfPending,
     CommitSnapshotOfNext, CommitReserve, CommitRevert, CommitAuthenticate, CommitOnline,
     CommitPending, CommitReport, CommitResult, CommitRequeue, CommitTick, Submit,
     StartTick, ApiRestart, ReceiveMessage, ReceiveHeartbeat, SocketClose, AgentDrop, Connect, vars, agentVars
  <2> QED BY <2>1, <2>2, <2>3 DEF Run, ReceivedIsStored
<1> QED BY <1>1, <1>2, <1>3, <1>4 DEF ReceivedIsStored

LEMMA InitDelivery == Init => DeliveryInv
<1> SUFFICES ASSUME Init PROVE DeliveryInv
  OBVIOUS
<1>1. TypeOK
  BY InitTyped
<1>2. ExecutionsAccounted
  BY DEF Init, ExecutionsAccounted
<1>3. SuccessAccounted
  BY DEF Init, SuccessAccounted, SucceededWasExecuted
<1>4. ReceivedIsStored
  BY DEF Init, ReceivedIsStored
<1> QED BY <1>1, <1>2, <1>3, <1>4 DEF DeliveryInv

\* The inductive invariant of task delivery.
THEOREM DeliveryInvariant == Spec => []DeliveryInv
<1>1. DeliveryInv /\ [Next]_vars => DeliveryInv'
  BY StepTyped, ExecutionsStep, SuccessStep, ReceivedStep DEF DeliveryInv
<1> QED BY <1>1, InitDelivery, PTL DEF Spec

\* The panel never shows success for work no agent has done.
THEOREM SucceededOnlyIfExecuted == Spec => []SucceededWasExecuted
<1>1. DeliveryInv => SucceededWasExecuted
  BY DEF DeliveryInv, SuccessAccounted
<1> QED BY <1>1, DeliveryInvariant, PTL

\* A task is carried out at most once in each life of the agent process, however
\* often it is delivered: the journal is what a redelivery meets.
THEOREM ExecutedAtMostOncePerLife == Spec => []ExecutedOncePerLife
<1>1. DeliveryInv => ExecutedOncePerLife
  BY DEF DeliveryInv, TypeOK, ExecutionsAccounted, ExecutedOncePerLife
<1> QED BY <1>1, DeliveryInvariant, PTL

-----------------------------------------------------------------------------
(* The retry policy.                                                       *)

\* Whatever writes a task, it waits for another try only with a try left and
\* is given up only without one.
LEMMA RetryPolicyStep ==
  ASSUME TypeOK, RetryPolicy, [Next]_vars
  PROVE  RetryPolicy'
<1> SUFFICES ASSUME NEW t \in Tasks
             PROVE  /\ task'[t].status = "retrying" => MayRetry(task'[t])
                    /\ task'[t].status = "failed" => ~MayRetry(task'[t])
  BY DEF RetryPolicy
<1> DEFINE x == task[t]
           Policy(y) == /\ y.status = "retrying" => MayRetry(y)
                        /\ y.status = "failed" => ~MayRetry(y)
<1>1. x \in Task /\ Policy(x)
  BY DEF TypeOK, RetryPolicy
<1>2. /\ Created(x).status = "queued" /\ Reserved(x).status = "delivered"
      /\ Reported(x).status = "running" /\ RetryDue(x).status = "queued"
  BY <1>1 DEF Task, Created, Reserved, Reported, RetryDue
<1>3. Policy(Unreserved(x)) /\ Policy(Requeued(x))
  <2>1. x.status # "delivered" => Unreserved(x) = x /\ Requeued(x) = x
    BY DEF Unreserved, Requeued
  <2>2. x.status = "delivered" => Unreserved(x).status = "queued" /\ Requeued(x).status = "queued"
    BY <1>1 DEF Task, Unreserved, Requeued
  <2> HIDE DEF x
  <2> QED BY <1>1, <2>1, <2>2
<1>4. Policy(FailedOnce(x))
  <2>1. /\ FailedOnce(x).type = x.type /\ FailedOnce(x).attempt = x.attempt
        /\ FailedOnce(x).status = IF MayRetry(x) THEN "retrying" ELSE "failed"
    BY <1>1 DEF Task, FailedOnce
  <2>2. MayRetry(FailedOnce(x)) <=> MayRetry(x)
    BY <2>1 DEF MayRetry, isAutomaticRetryableTask
  <2> HIDE DEF x
  <2> QED BY <2>1, <2>2
<1>5. Policy(WithResult(x, FALSE))
  <2> HIDE DEF x
  <2> QED BY <1>1, <1>4 DEF WithResult
<1>6. Policy(WithResult(x, TRUE))
  <2>1. WithResult(x, TRUE) = x \/ WithResult(x, TRUE).status = "succeeded"
    BY <1>1 DEF Task, WithResult
  <2> HIDE DEF x
  <2> QED BY <1>1, <2>1
<1>7. Policy(Created(x)) /\ Policy(Reserved(x)) /\ Policy(Reported(x)) /\ Policy(RetryDue(x))
  <2> HIDE DEF x
  <2> QED BY <1>2
<1>8. task'[t] \in {x, Created(x), Reserved(x), Unreserved(x), Requeued(x), Reported(x),
                   FailedOnce(x), WithResult(x, FALSE), RetryDue(x), WithResult(x, TRUE)}
  BY TaskTransition
<1> HIDE DEF x
<1>9. Policy(task'[t])
  <2> HIDE DEF Policy
  <2> QED BY <1>1, <1>3, <1>4, <1>5, <1>6, <1>7, <1>8
<1> QED BY <1>9

\* The retry policy is kept in every order of deliveries, requeues, given-back
\* attempts, results and time-outs (markTaskForRetry).
THEOREM RetryPolicyKept == Spec => []RetryPolicy
<1>1. Init => RetryPolicy
  BY DEF Init, RetryPolicy
<1>2. TypeOK /\ RetryPolicy /\ [Next]_vars => RetryPolicy'
  BY RetryPolicyStep
<1> QED BY <1>1, <1>2, TypeCorrect, PTL DEF Spec

-----------------------------------------------------------------------------
(* The delivery implements the service.                                    *)

\* A step that writes one task, as the service sees it.
LEMMA OneTaskStep ==
  ASSUME TypeOK, NEW t \in Tasks, NEW x \in Task, task' = [task EXCEPT ![t] = x],
         UNCHANGED <<executions, crashes>>,
         \/ Outcome(x) \in {Outcome(task[t]), "open"}
         \/ Outcome(task[t]) = "open" /\ Outcome(x) = "failed"
         \/ Outcome(task[t]) = "open" /\ Outcome(x) = "succeeded" /\ executions[t] >= 1
  PROVE  [Service!Next]_(Service!vars)
<1>1. /\ Outcomes' = [Outcomes EXCEPT ![t] = Outcome(x)]
      /\ Outcomes[t] = Outcome(task[t]) /\ Outcomes \in [Tasks -> {"none", "open", "succeeded", "failed"}]
      /\ Outcome(x) \in {"none", "open", "succeeded", "failed"}
  <2>1. \A y \in Task : Outcome(y) \in {"none", "open", "succeeded", "failed"}
    BY DEF Outcome, Finished, Task
  <2> QED BY <2>1 DEF Outcomes, TypeOK
<1>2. CASE Outcome(x) = Outcome(task[t])
  <2>1. Outcomes' = Outcomes
    BY <1>1, <1>2
  <2> QED BY <2>1 DEF Service!vars
<1>3. CASE Outcome(x) = "open" /\ Outcome(task[t]) = "none"
  <2>1. Service!Accept(t)
    BY <1>1, <1>3 DEF Service!Accept
  <2> QED BY <2>1 DEF Service!Next
<1>4. CASE Outcome(x) = "open" /\ Outcome(task[t]) \in {"succeeded", "failed"}
  <2>1. Service!Reopen(t)
    BY <1>1, <1>4 DEF Service!Reopen
  <2> QED BY <2>1 DEF Service!Next
<1>5. CASE Outcome(task[t]) = "open" /\ Outcome(x) = "failed"
  <2>1. Outcomes' = [u \in Tasks |-> IF u \in {t} THEN "failed" ELSE Outcomes[u]]
    BY <1>1, <1>5
  <2>2. Service!GiveUp({t})
    BY <1>1, <1>5, <2>1 DEF Service!GiveUp
  <2> QED BY <2>2 DEF Service!Next
<1>6. CASE Outcome(task[t]) = "open" /\ Outcome(x) = "succeeded" /\ executions[t] >= 1
  <2>1. executions[t] > 0
    BY <1>6 DEF TypeOK
  <2>2. Service!Succeed(t)
    BY <1>1, <1>6, <2>1 DEF Service!Succeed
  <2> QED BY <2>2 DEF Service!Next
<1> QED BY <1>1, <1>2, <1>3, <1>4, <1>5, <1>6

\* What each transition of the policy does to the outcome.
LEMMA OutcomeOfTransitions ==
  ASSUME NEW x \in Task
  PROVE  /\ Outcome(Created(x)) = "open" /\ Outcome(Reserved(x)) = "open"
         /\ Outcome(Reported(x)) = "open"
         /\ x.status = "retrying" => Outcome(RetryDue(x)) = "open" /\ Outcome(x) = "open"
         /\ Outcome(Unreserved(x)) = Outcome(x) /\ Outcome(Requeued(x)) = Outcome(x)
         /\ Outcome(FailedOnce(x)) = IF MayRetry(x) THEN "open" ELSE "failed"
         /\ x.status \in {"delivered", "running"} => Outcome(x) = "open"
         /\ WithResult(x, TRUE) = x \/ (Outcome(x) = "open" /\ Outcome(WithResult(x, TRUE)) = "succeeded")
         /\ WithResult(x, FALSE) = x
              \/ (Outcome(x) = "open" /\ Outcome(WithResult(x, FALSE)) \in {"open", "failed"})
<1>1. /\ Created(x).status = "queued" /\ Reserved(x).status = "delivered"
      /\ Reported(x).status = "running" /\ RetryDue(x).status = "queued"
  BY DEF Task, Created, Reserved, Reported, RetryDue
<1>2. Outcome(Unreserved(x)) = Outcome(x) /\ Outcome(Requeued(x)) = Outcome(x)
  <2>1. x.status # "delivered" => Unreserved(x) = x /\ Requeued(x) = x
    BY DEF Unreserved, Requeued
  <2>2. x.status = "delivered" => Unreserved(x).status = "queued" /\ Requeued(x).status = "queued"
    BY DEF Task, Unreserved, Requeued
  <2> QED BY <2>1, <2>2 DEF Outcome, Finished
<1>3. FailedOnce(x).status = IF MayRetry(x) THEN "retrying" ELSE "failed"
  BY DEF Task, FailedOnce
<1>4. Outcome(FailedOnce(x)) = IF MayRetry(x) THEN "open" ELSE "failed"
  BY <1>3 DEF Outcome, Finished
<1>5. WithResult(x, TRUE) = x \/ (Outcome(x) = "open" /\ Outcome(WithResult(x, TRUE)) = "succeeded")
  <2>1. WithResult(x, TRUE) = x
          \/ (~Finished(x) /\ x.status # "absent" /\ WithResult(x, TRUE).status = "succeeded")
    BY DEF Task, WithResult
  <2> QED BY <2>1 DEF Outcome, Finished
<1>6. WithResult(x, FALSE) = x
        \/ (Outcome(x) = "open" /\ Outcome(WithResult(x, FALSE)) \in {"open", "failed"})
  BY <1>4 DEF Outcome, WithResult
<1> QED BY <1>1, <1>2, <1>4, <1>5, <1>6 DEF Outcome, Finished

LEMMA StepImplements ==
  ASSUME DeliveryInv, [Next]_vars
  PROVE  [Service!Next]_(Service!vars)
<1>0. /\ TypeOK /\ task \in [Tasks -> Task]
      /\ chain # <<>> => Head(chain) \in Op /\ Head(chain) \in JustifiedOps
  BY DEF DeliveryInv, TypeOK, SuccessAccounted
<1>1. CASE CommitCreate \/ CommitReport
  <2> DEFINE t == Head(chain).task
  <2>1. t \in Tasks /\ UNCHANGED <<executions, crashes>>
    BY <1>0, <1>1, OpFields DEF CommitCreate, CommitReport, AtHead, agentVars, envVars
  <2>2. \E x \in {Created(task[t]), Reported(task[t])} : task' = [task EXCEPT ![t] = x]
    BY <1>1 DEF CommitCreate, CommitReport
  <2> HIDE DEF t
  <2>3. PICK x \in {Created(task[t]), Reported(task[t])} : task' = [task EXCEPT ![t] = x]
    BY <2>2
  <2>4. x \in Task /\ Outcome(x) = "open"
    <3>1. task[t] \in Task
      BY <1>0, <2>1
    <3>2. Created(task[t]) \in Task /\ Reported(task[t]) \in Task
      BY <3>1, PolicyTyped
    <3>3. Outcome(Created(task[t])) = "open" /\ Outcome(Reported(task[t])) = "open"
      BY <3>1, OutcomeOfTransitions
    <3> QED BY <3>2, <3>3
  <2> QED BY <1>0, <2>1, <2>3, <2>4, OneTaskStep
<1>2. CASE CommitReserve
  <2>1. PICK t \in Tasks : task' = task \/ task' = [task EXCEPT ![t] = Reserved(task[t])]
    BY <1>0, <1>2, OpFields DEF CommitReserve, AtHead
  <2>2. UNCHANGED <<executions, crashes>>
    BY <1>2 DEF CommitReserve, envVars
  <2>3. CASE task' = task
    BY <2>2, <2>3 DEF Service!vars, Outcomes
  <2>4. CASE task' = [task EXCEPT ![t] = Reserved(task[t])]
    <3>1. Reserved(task[t]) \in Task /\ Outcome(Reserved(task[t])) = "open"
      BY <1>0, PolicyTyped, OutcomeOfTransitions
    <3> QED BY <1>0, <2>2, <2>4, <3>1, OneTaskStep
  <2> QED BY <2>1, <2>3, <2>4
<1>3. CASE CommitRevert \/ CommitRequeue
  <2>1. UNCHANGED <<executions, crashes>>
    BY <1>3 DEF CommitRevert, CommitRequeue, agentVars, envVars
  <2>2. \A t \in Tasks : Outcome(task'[t]) = Outcome(task[t])
    <3>1. ASSUME NEW t \in Tasks
          PROVE  task'[t] \in {task[t], Unreserved(task[t]), Requeued(task[t])}
      BY <1>3 DEF CommitRevert, CommitRequeue
    <3>2. ASSUME NEW t \in Tasks
          PROVE  /\ Outcome(Unreserved(task[t])) = Outcome(task[t])
                 /\ Outcome(Requeued(task[t])) = Outcome(task[t])
      BY <1>0, OutcomeOfTransitions
    <3> QED BY <3>1, <3>2
  <2> QED BY <2>1, <2>2 DEF Service!vars, Outcomes
<1>4. CASE CommitResult
  <2> DEFINE t == Head(chain).task  ok == Head(chain).ok
  <2>1. /\ t \in Tasks /\ ok \in BOOLEAN /\ (ok => executions[t] >= 1)
        /\ task' = [task EXCEPT ![t] = WithResult(task[t], ok)]
        /\ UNCHANGED <<executions, crashes>>
    BY <1>0, <1>4, OpFields DEF CommitResult, AtHead, JustifiedOps, agentVars, envVars
  <2> HIDE DEF t, ok
  <2>2. CASE ok = TRUE
    <3>1. task' = [task EXCEPT ![t] = WithResult(task[t], TRUE)] /\ executions[t] >= 1
      BY <2>1, <2>2
    <3>2. task[t] \in Task /\ WithResult(task[t], TRUE) \in Task
      BY <1>0, <2>1, PolicyTyped
    <3>3. \/ Outcome(WithResult(task[t], TRUE)) = Outcome(task[t])
          \/ Outcome(task[t]) = "open" /\ Outcome(WithResult(task[t], TRUE)) = "succeeded"
      BY <3>2, OutcomeOfTransitions
    <3> QED BY <1>0, <2>1, <3>1, <3>2, <3>3, OneTaskStep
  <2>3. CASE ok = FALSE
    <3>1. task' = [task EXCEPT ![t] = WithResult(task[t], FALSE)]
      BY <2>1, <2>3
    <3>2. task[t] \in Task /\ WithResult(task[t], FALSE) \in Task
      BY <1>0, <2>1, PolicyTyped
    <3>3. \/ Outcome(WithResult(task[t], FALSE)) \in {Outcome(task[t]), "open"}
          \/ Outcome(task[t]) = "open" /\ Outcome(WithResult(task[t], FALSE)) = "failed"
      BY <3>2, OutcomeOfTransitions
    <3> QED BY <1>0, <2>1, <3>1, <3>2, <3>3, OneTaskStep
  <2> QED BY <2>1, <2>2, <2>3
<1>5. CASE CommitTick
  <2>1. PICK due \in SUBSET {t \in Tasks : task[t].status = "retrying"},
             stale \in SUBSET {t \in Tasks : task[t].status \in {"running", "delivered"}} :
          task' = [t \in Tasks |-> IF t \in due THEN RetryDue(task[t])
                                   ELSE IF t \in stale THEN FailedOnce(task[t]) ELSE task[t]]
    BY <1>5 DEF CommitTick
  <2>2. UNCHANGED <<executions, crashes>>
    BY <1>5 DEF CommitTick, agentVars, envVars
  <2> DEFINE lost == {t \in stale : ~MayRetry(task[t])}
  <2>3. ASSUME NEW t \in Tasks
        PROVE  /\ Outcome(task'[t]) = IF t \in lost THEN "failed" ELSE Outcome(task[t])
               /\ t \in lost => Outcome(task[t]) = "open"
    <3>1. /\ t \in due => task[t].status = "retrying"
          /\ t \in stale => task[t].status \in {"running", "delivered"}
          /\ t \in lost <=> t \in stale /\ ~MayRetry(task[t])
      OBVIOUS
    <3>2. task'[t] = IF t \in due THEN RetryDue(task[t])
                     ELSE IF t \in stale THEN FailedOnce(task[t]) ELSE task[t]
      BY <2>1
    <3>3. /\ task[t].status = "retrying" =>
                Outcome(RetryDue(task[t])) = "open" /\ Outcome(task[t]) = "open"
          /\ Outcome(FailedOnce(task[t])) = IF MayRetry(task[t]) THEN "open" ELSE "failed"
          /\ task[t].status \in {"running", "delivered"} => Outcome(task[t]) = "open"
      <4>1. task[t] \in Task
        BY <1>0
      <4> QED BY <4>1, OutcomeOfTransitions
    <3> HIDE DEF lost
    <3> QED BY <3>1, <3>2, <3>3
  <2>4. Service!GiveUp(lost)
    <3>1. lost \in SUBSET Tasks
      BY <2>1
    <3> HIDE DEF lost
    <3> QED BY <2>2, <2>3, <3>1 DEF Service!GiveUp, Outcomes
  <2> QED BY <2>1, <2>4 DEF Service!Next
<1>6. CASE Execute
  <2>1. /\ current \in Tasks /\ task[current].status # "absent" /\ executions[current] \in Nat
        /\ current \notin journal /\ executions[current] <= crashes + 1
        /\ executions[current] # crashes + 1 /\ crashes \in Nat
    BY <1>0, <1>6 DEF Execute, DeliveryInv, TypeOK, ReceivedIsStored, StoredTasks,
       ExecutionsAccounted
  <2>2. Outcomes[current] # "none"
    BY <2>1 DEF Outcomes, Outcome, Finished
  <2>3. executions[current] <= crashes
    BY <2>1
  <2>4. Service!Perform(current)
    BY <1>6, <2>2, <2>3 DEF Service!Perform, Execute, Outcomes, panelVars, envVars
  <2> QED BY <2>1, <2>4 DEF Service!Next
<1>7. CASE AgentCrash
  <2>1. Service!EndLife
    BY <1>7 DEF Service!EndLife, AgentCrash, Outcomes, panelVars
  <2> QED BY <2>1 DEF Service!Next
<1>8. CASE UNCHANGED <<task, executions, crashes>>
  BY <1>8 DEF Service!vars, Outcomes
<1>9. \/ CommitCreate \/ CommitReserve \/ CommitRevert \/ CommitRequeue \/ CommitReport
      \/ CommitResult \/ CommitTick \/ Execute \/ AgentCrash
      \/ UNCHANGED <<task, executions, crashes>>
  BY DEF Next, Commit, CommitDelivery, CommitSession, Run, Submit, CommitSnapshotOfPending,
     CommitSnapshotOfNext, CommitAuthenticate, CommitOnline, CommitPending, StartTick,
     ApiRestart, ReceiveMessage, ReceiveHeartbeat, SocketClose, AgentDrop,
     Connect, AnswerFromJournal, StartTask,
     ExecuteFails, RecordAndReport, vars, panelVars, agentVars, envVars
<1> QED BY <1>1, <1>2, <1>3, <1>4, <1>5, <1>6, <1>7, <1>8, <1>9

\* Every behaviour of the panel and the agent is one of the task service: success
\* only for work done, work done at most once per life of the agent.
THEOREM DeliveryImplementsService == Spec => ImplementsTaskService
<1>1. Init => Service!Init
  <2>1. Init => \A t \in Tasks : task[t].status = "absent"
    BY DEF Init
  <2>2. Init => Outcomes = [t \in Tasks |-> "none"]
    <3>1. Init => \A t \in Tasks : Outcome(task[t]) = "none"
      BY <2>1 DEF Outcome, Finished
    <3> QED BY <3>1 DEF Outcomes
  <2> QED BY <2>2 DEF Init, Service!Init
<1>2. DeliveryInv /\ [Next]_vars => [Service!Next]_(Service!vars)
  BY StepImplements
<1> QED BY <1>1, <1>2, DeliveryInvariant, PTL DEF Spec, ImplementsTaskService, Service!Spec
=============================================================================
