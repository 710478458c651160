---------------------------- MODULE TaskDelivery ----------------------------
(***************************************************************************)
(* Delivery of tasks from the control plane (apps/api) to the agent of one *)
(* node (apps/agent), over WebSocket connections that break and are        *)
(* replaced, with crashes of either process.                               *)
(*                                                                         *)
(* `chain' is the promise chain of the state store: every transaction and  *)
(* every read waits for the operations queued before it, and the code that *)
(* awaits it runs, up to its next store operation, before any other event  *)
(* of the process.  An action whose name starts with Commit is therefore   *)
(* one operation at the head of the chain together with the code that      *)
(* awaited it.                                                             *)
(***************************************************************************)
EXTENDS Sequences, FiniteSets, TaskPolicy

CONSTANTS
  Requests,      \* the task types submitted, in the order of submission
  MaxConns,      \* bound: connections the agent opens
  MaxCrashes,    \* bound: crashes of the agent process
  MaxRestarts    \* bound: restarts of the control plane

ASSUME DeliveryAssumption ==
  /\ Requests \in Seq(TASK_TYPES)
  /\ MaxConns \in Nat /\ MaxCrashes \in Nat /\ MaxRestarts \in Nat

Tasks == 1..Len(Requests)      \* a task is named by its rank: newer is larger
Conns == 1..MaxConns
NoConn == 0
NoTask == 0

VARIABLES
  task,          \* state.tasks in the store
  submitted,     \* requests made so far
  chain,         \* store operations that wait or run
  hub,           \* hub.agents.get(nodeId)
  srv,           \* the panel's end of each connection
  greeted,       \* the panel has read the connection's authenticate message
  wire,          \* messages from the agent not yet read by the panel
  agentSock,     \* the agent's open connection
  lastConn,      \* connections opened so far
  agentQueue,    \* Agent.taskChain: tasks received and not started
  phase,         \* what Agent.runTask is doing ...
  current,       \* ... and the task it does it to
  journal,       \* task journal of the agent process
  journalDisk,   \* the same, as last renamed into place
  executions,    \* history: how often the runtime completed the task
  crashes, restarts

panelVars == <<task, chain, hub, srv, greeted>>
agentVars == <<agentQueue, phase, current, journal, journalDisk, executions>>
linkVars  == <<wire, agentSock, lastConn>>
envVars   == <<submitted, crashes, restarts>>
vars == <<panelVars, agentVars, linkVars, envVars>>

-----------------------------------------------------------------------------
(* Store operations.  `by' is the connection whose handshake awaits the    *)
(* operation (NoConn: none); `rest' the tasks the awaiting loop of the     *)
(* scheduler has still to deliver.                                         *)

Handshake(step, c) == [op |-> step, by |-> c]
Create(t)      == [op |-> "create", task |-> t, by |-> NoConn]
Report(t)      == [op |-> "report", task |-> t, by |-> NoConn]
Result(t, ok)  == [op |-> "result", task |-> t, ok |-> ok, by |-> NoConn]
Requeue        == [op |-> "requeue", by |-> NoConn]
Tick           == [op |-> "tick", by |-> NoConn]
Deliver(step, S, rest, c) == [op |-> step, tasks |-> S, rest |-> rest, by |-> c]

Op ==
  [op : {"authenticate", "online", "pending"}, by : Conns]
    \cup [op : {"create", "report"}, task : Tasks, by : {NoConn}]
    \cup [op : {"result"}, task : Tasks, ok : BOOLEAN, by : {NoConn}]
    \cup [op : {"requeue", "tick"}, by : {NoConn}]
    \cup [op : {"snapshot", "reserve", "revert"}, tasks : SUBSET Tasks,
          rest : SUBSET Tasks, by : Conns \cup {NoConn}]

\* Messages of the agent.
Hello == [type |-> "authenticate"]
Ack(t) == [type |-> "task.ack", task |-> t]
TaskResult(t, ok) == [type |-> "task.result", task |-> t, ok |-> ok]

Message ==
  [type : {"authenticate"}] \cup [type : {"task.ack"}, task : Tasks]
    \cup [type : {"task.result"}, task : Tasks, ok : BOOLEAN]

AtHead(step) == chain # <<>> /\ Head(chain).op = step

\* The connection's nodeId is set: its handshake has run to the end.
Bound(c) == greeted[c] /\ \A i \in DOMAIN chain : chain[i].by # c

IsNewest(t, S) == t \in S /\ \A u \in S : u <= t

Start(step, S, rest, c) == IF S = {} THEN <<>> ELSE <<Deliver(step, S, rest, c)>>

\* deliverTask returns: the scheduler's loop goes on with the rest.
Returned(rest) == Start("snapshot", rest, {}, NoConn)

\* RealtimeHub.sendAgent finds an open socket; the agent may have left it.
Sendable == hub # NoConn /\ srv[hub] = "open"
SendTask(t) ==
  agentQueue' = IF agentSock = hub THEN Append(agentQueue, t) ELSE agentQueue

Init ==
  /\ task = [t \in Tasks |-> [type |-> Requests[t], status |-> "absent", attempt |-> 0]]
  /\ submitted = 0
  /\ chain = <<>>
  /\ hub = NoConn
  /\ srv = [c \in Conns |-> "unused"]
  /\ greeted = [c \in Conns |-> FALSE]
  /\ wire = [c \in Conns |-> <<>>]
  /\ agentSock = NoConn
  /\ lastConn = 0
  /\ agentQueue = <<>>
  /\ phase = "idle"
  /\ current = NoTask
  /\ journal = {}
  /\ journalDisk = {}
  /\ executions = [t \in Tasks |-> 0]
  /\ crashes = 0
  /\ restarts = 0

-----------------------------------------------------------------------------
(* Control plane: creating and delivering tasks.                           *)

\* enqueue: createTask is the first thing its caller awaits.
Submit ==
  /\ submitted < Len(Requests)
  /\ submitted' = submitted + 1
  /\ chain' = Append(chain, Create(submitted + 1))
  /\ UNCHANGED <<task, hub, srv, greeted, agentVars, linkVars, crashes, restarts>>

CommitCreate ==
  /\ AtHead("create")
  /\ LET t == Head(chain).task IN
       /\ task' = [task EXCEPT ![t] = Created(@)]
       /\ chain' = Tail(chain) \o Start("snapshot", {t}, {}, NoConn)
  /\ UNCHANGED <<hub, srv, greeted, agentVars, linkVars, envVars>>

\* deliverTask's read, for all the tasks sendPendingTasks starts at once: a
\* task that is queued goes on to be reserved, for the others it returns.
CommitSnapshotOfPending ==
  /\ AtHead("snapshot") /\ Head(chain).by # NoConn
  /\ LET o == Head(chain)
         queued == {t \in o.tasks : task[t].status = "queued"} IN
       chain' = Tail(chain) \o Start("reserve", queued, {}, o.by)
  /\ UNCHANGED <<task, hub, srv, greeted, agentVars, linkVars, envVars>>

\* The same read when tasks are delivered one after the other, newest first.
CommitSnapshotOfNext ==
  /\ AtHead("snapshot") /\ Head(chain).by = NoConn
  /\ \E t \in Head(chain).tasks :
       /\ IsNewest(t, Head(chain).tasks)
       /\ LET rest == Head(chain).tasks \ {t} IN
            chain' = Tail(chain)
                       \o IF task[t].status = "queued"
                          THEN Start("reserve", {t}, rest, NoConn)
                          ELSE Returned(rest)
  /\ UNCHANGED <<task, hub, srv, greeted, agentVars, linkVars, envVars>>

\* The reserving transaction, then sendAgent.  Reservations started together
\* are one element of the chain, served newest first.
CommitReserve ==
  /\ AtHead("reserve")
  /\ \E t \in Head(chain).tasks :
       LET o == Head(chain)
           others == o.tasks \ {t}
           queue == Start("reserve", others, o.rest, o.by) \o Tail(chain)
           taken == task[t].status = "queued"
       IN
         /\ IsNewest(t, o.tasks)
         /\ task' = IF taken THEN [task EXCEPT ![t] = Reserved(@)] ELSE task
         /\ IF taken /\ ~Sendable
            THEN chain' = Append(queue, Deliver("revert", {t}, o.rest, o.by))
            ELSE chain' = queue \o Returned(o.rest)
         /\ IF taken /\ Sendable THEN SendTask(t) ELSE UNCHANGED agentQueue
  /\ UNCHANGED <<hub, srv, greeted, phase, current, journal, journalDisk, executions,
                 linkVars, envVars>>

CommitRevert ==
  /\ AtHead("revert")
  /\ LET o == Head(chain) IN
       /\ task' = [t \in Tasks |-> IF t \in o.tasks THEN Unreserved(task[t]) ELSE task[t]]
       /\ chain' = Tail(chain) \o Returned(o.rest)
  /\ UNCHANGED <<hub, srv, greeted, agentVars, linkVars, envVars>>

-----------------------------------------------------------------------------
(* Control plane: an agent connection, from its handshake to its close.    *)

\* authenticate has checked the credential; attachAgent supersedes the
\* connection the hub had, whether or not this one is still open.
CommitAuthenticate ==
  /\ AtHead("authenticate")
  /\ LET c == Head(chain).by IN
       /\ hub' = c
       /\ srv' = IF hub \notin {NoConn, c} /\ srv[hub] = "open"
                 THEN [srv EXCEPT ![hub] = "superseded"] ELSE srv
       /\ chain' = Append(Tail(chain), Handshake("online", c))
  /\ UNCHANGED <<task, greeted, agentVars, linkVars, envVars>>

\* Mutant: attachAgent does not call sendPendingTasks.
CommitOnlineOnly ==
  /\ AtHead("online")
  /\ chain' = Tail(chain)
  /\ UNCHANGED <<task, hub, srv, greeted, agentVars, linkVars, envVars>>

\* attachAgent's transaction writes the node record only (module AgentSession).
CommitOnline ==
  /\ AtHead("online")
  /\ chain' = Append(Tail(chain), Handshake("pending", Head(chain).by))
  /\ UNCHANGED <<task, hub, srv, greeted, agentVars, linkVars, envVars>>

\* sendPendingTasks
CommitPending ==
  /\ AtHead("pending")
  /\ LET queued == {t \in Tasks : task[t].status = "queued"} IN
       chain' = Tail(chain) \o Start("snapshot", queued, {}, Head(chain).by)
  /\ UNCHANGED <<task, hub, srv, greeted, agentVars, linkVars, envVars>>

\* One message: the handshake starts, or is required, or the message counts.
\* A connection the panel is closing is still read.
ReceiveMessage(c) ==
  /\ srv[c] \notin {"unused", "closed"}
  /\ wire[c] # <<>>
  /\ wire' = [wire EXCEPT ![c] = Tail(@)]
  /\ LET m == Head(wire[c]) IN
       \/ /\ m.type = "authenticate"
          /\ greeted' = [greeted EXCEPT ![c] = TRUE]
          /\ chain' = Append(chain, Handshake("authenticate", c))
          /\ UNCHANGED srv
       \/ /\ m.type # "authenticate" /\ ~Bound(c)
          /\ srv' = [srv EXCEPT ![c] = IF @ = "open" THEN "rejected" ELSE @]
          /\ UNCHANGED <<greeted, chain>>
       \/ /\ m.type = "task.ack" /\ Bound(c)
          /\ chain' = Append(chain, Report(m.task))
          /\ UNCHANGED <<greeted, srv>>
       \/ /\ m.type = "task.result" /\ Bound(c)
          /\ chain' = Append(chain, Result(m.task, m.ok))
          /\ UNCHANGED <<greeted, srv>>
  /\ UNCHANGED <<task, hub, agentVars, agentSock, lastConn, envVars>>

\* The agent's heartbeats are not queued here: one of them may be read at any
\* time after the greeting, and is refused while the handshake runs.  Bound: no
\* heartbeat meets the handshake of the last connection.
ReceiveHeartbeat(c) ==
  /\ srv[c] = "open" /\ greeted[c] /\ ~Bound(c)
  /\ c < MaxConns
  /\ srv' = [srv EXCEPT ![c] = "rejected"]
  /\ UNCHANGED <<task, chain, hub, greeted, agentVars, linkVars, envVars>>

CommitReport ==
  /\ AtHead("report")
  /\ task' = [task EXCEPT ![Head(chain).task] = Reported(@)]
  /\ chain' = Tail(chain)
  /\ UNCHANGED <<hub, srv, greeted, agentVars, linkVars, envVars>>

CommitResult ==
  /\ AtHead("result")
  /\ task' = [task EXCEPT ![Head(chain).task] = WithResult(@, Head(chain).ok)]
  /\ chain' = Tail(chain)
  /\ UNCHANGED <<hub, srv, greeted, agentVars, linkVars, envVars>>

\* The close event.  Messages not read by then are lost.  Only the connection
\* the hub holds, once its handshake is over, gives its tasks back.
SocketClose(c) ==
  /\ srv[c] \notin {"unused", "closed"}
  /\ agentSock # c
  /\ srv' = [srv EXCEPT ![c] = "closed"]
  /\ wire' = [wire EXCEPT ![c] = <<>>]
  /\ IF Bound(c) /\ hub = c
     THEN hub' = NoConn /\ chain' = Append(chain, Requeue)
     ELSE UNCHANGED <<hub, chain>>
  /\ UNCHANGED <<task, greeted, agentVars, agentSock, lastConn, envVars>>

CommitRequeue ==
  /\ AtHead("requeue")
  /\ task' = [t \in Tasks |-> Requeued(task[t])]
  /\ chain' = Tail(chain)
  /\ UNCHANGED <<hub, srv, greeted, agentVars, linkVars, envVars>>

-----------------------------------------------------------------------------
(* Control plane: the scheduler.                                           *)

\* Bound: a tick starts when the previous one's transaction is over.
StartTick ==
  /\ \A i \in DOMAIN chain : chain[i].op # "tick"
  /\ \E t \in Tasks : task[t].status \in {"retrying", "running", "delivered"}
  /\ chain' = Append(chain, Tick)
  /\ UNCHANGED <<task, hub, srv, greeted, agentVars, linkVars, envVars>>

\* Mutant: the tick does not sweep stale tasks.
CommitTickWithoutSweep ==
  /\ AtHead("tick")
  /\ \E due \in SUBSET {t \in Tasks : task[t].status = "retrying"} :
       /\ task' = [t \in Tasks |-> IF t \in due THEN RetryDue(task[t]) ELSE task[t]]
       /\ chain' = Tail(chain) \o Returned(due)
  /\ UNCHANGED <<hub, srv, greeted, agentVars, linkVars, envVars>>

\* `due': retries whose delay is over; `stale': tasks in flight for too long.
CommitTick ==
  /\ AtHead("tick")
  /\ \E due \in SUBSET {t \in Tasks : task[t].status = "retrying"},
        stale \in SUBSET {t \in Tasks : task[t].status \in {"running", "delivered"}} :
       /\ task' = [t \in Tasks |-> IF t \in due THEN RetryDue(task[t])
                                   ELSE IF t \in stale THEN FailedOnce(task[t])
                                   ELSE task[t]]
       /\ chain' = Tail(chain) \o Returned(due)
  /\ UNCHANGED <<hub, srv, greeted, agentVars, linkVars, envVars>>

\* The process ends and starts again: what is not in the store is gone, and
\* so is every connection.
ApiRestart ==
  /\ restarts < MaxRestarts
  /\ restarts' = restarts + 1
  /\ chain' = <<>>
  /\ hub' = NoConn
  /\ srv' = [c \in Conns |-> IF srv[c] = "unused" THEN "unused" ELSE "closed"]
  /\ wire' = [c \in Conns |-> <<>>]
  /\ agentSock' = NoConn
  /\ UNCHANGED <<task, greeted, agentVars, lastConn, submitted, crashes>>

-----------------------------------------------------------------------------
(* The agent.                                                              *)

\* Agent.send drops what it cannot send.
AgentSend(messages) ==
  wire' = IF agentSock = NoConn THEN wire
          ELSE [wire EXCEPT ![agentSock] = @ \o messages]

\* Bound: the last connection only breaks when the panel closes it.
AgentDrop ==
  /\ agentSock # NoConn
  /\ agentSock < MaxConns \/ srv[agentSock] # "open"
  /\ agentSock' = NoConn
  /\ UNCHANGED <<panelVars, agentVars, wire, lastConn, envVars>>

Connect ==
  /\ agentSock = NoConn
  /\ lastConn < MaxConns
  /\ LET c == lastConn + 1 IN
       /\ lastConn' = c
       /\ agentSock' = c
       /\ srv' = [srv EXCEPT ![c] = "open"]
       /\ wire' = [wire EXCEPT ![c] = <<Hello>>]
  /\ UNCHANGED <<task, chain, hub, greeted, agentVars, envVars>>

\* runTask acknowledges, then answers from the journal ...
AnswerFromJournal ==
  /\ phase = "idle" /\ agentQueue # <<>> /\ Head(agentQueue) \in journal
  /\ AgentSend(<<Ack(Head(agentQueue)), TaskResult(Head(agentQueue), TRUE)>>)
  /\ agentQueue' = Tail(agentQueue)
  /\ UNCHANGED <<panelVars, phase, current, journal, journalDisk, executions,
                 agentSock, lastConn, envVars>>

\* Mutants of StartTask: the journal is not consulted, or the task is not kept.
StartWithoutJournal ==
  /\ phase = "idle" /\ agentQueue # <<>>
  /\ AgentSend(<<Ack(Head(agentQueue))>>)
  /\ phase' = "executing"
  /\ current' = Head(agentQueue)
  /\ agentQueue' = Tail(agentQueue)
  /\ UNCHANGED <<panelVars, journal, journalDisk, executions, agentSock, lastConn, envVars>>
StartForgotten ==
  /\ phase = "idle" /\ agentQueue # <<>> /\ Head(agentQueue) \notin journal
  /\ AgentSend(<<Ack(Head(agentQueue))>>)
  /\ phase' = "executing"
  /\ agentQueue' = Tail(agentQueue)
  /\ UNCHANGED <<panelVars, current, journal, journalDisk, executions,
                 agentSock, lastConn, envVars>>

\* ... or starts the runtime.
StartTask ==
  /\ phase = "idle" /\ agentQueue # <<>> /\ Head(agentQueue) \notin journal
  /\ AgentSend(<<Ack(Head(agentQueue))>>)
  /\ phase' = "executing"
  /\ current' = Head(agentQueue)
  /\ agentQueue' = Tail(agentQueue)
  /\ UNCHANGED <<panelVars, journal, journalDisk, executions, agentSock, lastConn, envVars>>

ExecuteFails ==
  /\ phase = "executing"
  /\ AgentSend(<<TaskResult(current, FALSE)>>)
  /\ phase' = "idle" /\ current' = NoTask
  /\ UNCHANGED <<panelVars, agentQueue, journal, journalDisk, executions,
                 agentSock, lastConn, envVars>>

Execute ==
  /\ phase = "executing"
  /\ phase' = "executed"
  /\ executions' = [executions EXCEPT ![current] = @ + 1]
  /\ UNCHANGED <<panelVars, agentQueue, current, journal, journalDisk, linkVars, envVars>>

\* Mutant: an entry whose file is not written is not kept in memory.
RecordOnDiskOnly ==
  /\ phase = "executed"
  /\ journal' \in {journal \cup {current}, journal}
  /\ journalDisk' = journal'
  /\ AgentSend(<<TaskResult(current, TRUE)>>)
  /\ phase' = "idle" /\ current' = NoTask
  /\ UNCHANGED <<panelVars, agentQueue, executions, agentSock, lastConn, envVars>>

\* TaskJournal.record keeps the entry in memory even when its file is not
\* written, and the result is sent in either case.
RecordAndReport ==
  /\ phase = "executed"
  /\ journal' = journal \cup {current}
  /\ journalDisk' \in {journal', journalDisk}
  /\ AgentSend(<<TaskResult(current, TRUE)>>)
  /\ phase' = "idle" /\ current' = NoTask
  /\ UNCHANGED <<panelVars, agentQueue, executions, agentSock, lastConn, envVars>>

AgentCrash ==
  /\ crashes < MaxCrashes
  /\ crashes' = crashes + 1
  /\ agentSock' = NoConn
  /\ agentQueue' = <<>>
  /\ phase' = "idle" /\ current' = NoTask
  /\ journal' = journalDisk
  /\ UNCHANGED <<panelVars, journalDisk, executions, wire, lastConn, submitted, restarts>>

-----------------------------------------------------------------------------
CommitDelivery == CommitCreate \/ CommitSnapshotOfPending \/ CommitSnapshotOfNext
                    \/ CommitReserve \/ CommitRevert
CommitSession == CommitAuthenticate \/ CommitOnline \/ CommitPending
                   \/ CommitReport \/ CommitResult \/ CommitRequeue
Commit == CommitDelivery \/ CommitSession \/ CommitTick

Run == AnswerFromJournal \/ StartTask \/ ExecuteFails \/ Execute \/ RecordAndReport

Next ==
  \/ Submit \/ Commit \/ StartTick \/ ApiRestart
  \/ \E c \in Conns : ReceiveMessage(c) \/ ReceiveHeartbeat(c) \/ SocketClose(c)
  \/ AgentDrop \/ Connect \/ Run \/ AgentCrash

Spec == Init /\ [][Next]_vars

\* The code keeps going while it is up: the chain, the scheduler's timer and the
\* agent never stop, messages are read, the handshake's operations included.
\* Delays end: a tick infinitely often considered finds a waiting retry due and
\* an unanswered delivery stale.  Nothing is assumed of submissions, breaks,
\* reconnections, crashes, restarts, or of the outcome of a task.
TickMoves(t) == CommitTick /\ task'[t].status # task[t].status
Fairness ==
  /\ WF_vars(Commit) /\ WF_vars(StartTick) /\ WF_vars(Run)
  /\ \A c \in Conns : WF_vars(ReceiveMessage(c))
  /\ \A t \in Tasks : SF_vars(TickMoves(t))

FairSpec == Spec /\ Fairness

-----------------------------------------------------------------------------
(* Properties.                                                             *)

\* The values of every variable.
TypeOK ==
  /\ task \in [Tasks -> Task]
  /\ submitted \in 0..Len(Requests)
  /\ chain \in Seq(Op)
  /\ hub \in Conns \cup {NoConn}
  /\ srv \in [Conns -> {"unused", "open", "superseded", "rejected", "closed"}]
  /\ greeted \in [Conns -> BOOLEAN]
  /\ wire \in [Conns -> Seq(Message)]
  /\ agentSock \in Conns \cup {NoConn}
  /\ lastConn \in 0..MaxConns
  /\ agentQueue \in Seq(Tasks)
  /\ phase \in {"idle", "executing", "executed"}
  /\ current \in Tasks \cup {NoTask} /\ (phase # "idle" => current \in Tasks)
  /\ journal \in SUBSET Tasks
  /\ journalDisk \in SUBSET Tasks
  /\ executions \in [Tasks -> Nat]
  /\ crashes \in Nat
  /\ restarts \in Nat

\* The panel never shows success for work no agent has done, whatever was
\* lost, repeated, timed out or replayed from the journal on the way
\* (agentTaskResult, Agent.runTask, TaskJournal).
SucceededWasExecuted ==
  \A t \in Tasks : task[t].status = "succeeded" => executions[t] >= 1

\* However often a task is delivered, it is carried out once per life of the
\* agent process: only a crash before the journal is on disk repeats it
\* (Agent.runTask, TaskJournal.record).
ExecutedOncePerLife == \A t \in Tasks : executions[t] <= 1 + crashes

\* A wait for another try is only entered by a type the policy replays, with
\* attempts left; a replayable task is given up only when none is left, in
\* every order of requeues, given-back attempts, results and time-outs.
RetryPolicy ==
  \A t \in Tasks :
    /\ task[t].status = "retrying" => MayRetry(task[t])
    /\ task[t].status = "failed" => ~MayRetry(task[t])

\* No task is forgotten: when the store is quiet and the hub holds an open
\* connection, nothing is left queued for it (attachAgent against the
\* give-back of deliverTask and the close handler).
NoTaskStranded ==
  chain = <<>> /\ Sendable => \A t \in Tasks : task[t].status # "queued"

\* A task the policy does not replay is not sent again once the panel has
\* read its acknowledgement ("without replaying a console command").
AcceptedNotReplayed ==
  [][\A t \in Tasks :
       /\ task[t].status \in {"running", "succeeded", "failed"}
       /\ ~isAutomaticRetryableTask(task[t])
       => task'[t].status \in {"running", "succeeded", "failed"}]_vars

\* If the agent stays attached, every stored task is settled and stays so.
Attached == hub # NoConn /\ srv[hub] = "open" /\ agentSock = hub
EveryTaskSettles ==
  <>[]Attached =>
    \A t \in Tasks : [](task[t].status # "absent" => <>[]Finished(task[t]))

\* The delivery implements TaskService: a task is settled there when its record
\* is, and every step of the processes is a step of the service or none.
Outcome(x) ==
  CASE x.status = "absent" -> "none"
    [] Finished(x) -> x.status
    [] OTHER -> "open"
Outcomes == [t \in Tasks |-> Outcome(task[t])]
Service == INSTANCE TaskService
             WITH outcome <- Outcomes, done <- executions, lives <- crashes
ImplementsTaskService == Service!Spec

\* Why the two invariants above hold: what the agent's memory, the messages and
\* the store operations under way say about executions.
ExecutionsAccounted ==
  /\ journalDisk \subseteq journal
  /\ \A t \in Tasks :
       /\ executions[t] <= crashes + 1
       /\ executions[t] = crashes + 1 => t \in journal \/ (phase = "executed" /\ current = t)
       /\ t \in journal => executions[t] >= 1
  /\ phase = "executed" => executions[current] >= 1
  /\ phase = "executing" => current \notin journal
JustifiedMessages ==
  {m \in Message : m.type = "task.result" /\ m.ok => executions[m.task] >= 1}
JustifiedOps == {o \in Op : o.op = "result" /\ o.ok => executions[o.task] >= 1}
SuccessAccounted ==
  /\ wire \in [Conns -> Seq(JustifiedMessages)]
  /\ chain \in Seq(JustifiedOps)
  /\ SucceededWasExecuted
StoredTasks == {t \in Tasks : task[t].status # "absent"}
ReceivedIsStored ==
  /\ agentQueue \in Seq(StoredTasks)
  /\ phase # "idle" => current \in StoredTasks
DeliveryInv == TypeOK /\ ExecutionsAccounted /\ SuccessAccounted /\ ReceivedIsStored

\* A claim of the documentation that the code does not keep.

\* Console commands are "intentionally not replayed automatically" (README).
NotReplayed ==
  \A t \in Tasks : ~isAutomaticRetryableTask(task[t]) => executions[t] <= 1
=============================================================================
