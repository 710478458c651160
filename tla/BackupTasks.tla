---------------------------- MODULE BackupTasks -----------------------------
(***************************************************************************)
(* One backup, from a schedule's run or by hand: its record in the panel,  *)
(* the task that makes it and those that an operator resubmits             *)
(* (apps/api/src/server.ts).  Record and task are stored one after the     *)
(* other and linked by the task's payload only.  What the transactions do  *)
(* to a task is in TaskPolicy; TaskDelivery takes deliveries, handlers and *)
(* the agent apart, and here a delivery is one step and the agent runs its *)
(* deliveries one after the other, heard or not.                           *)
(***************************************************************************)
EXTENDS TaskPolicy, Sequences

CONSTANTS
  MaxTries,      \* bound: the task and its resubmissions
  MaxOutages,    \* bound: lost connections and restarts of the agent
  MaxReboots     \* bound: restarts of the panel

ASSUME BackupAssumption ==
  MaxTries \in Nat \ {0} /\ {MaxOutages, MaxReboots} \subseteq Nat

Tries == 1..MaxTries
NoTask == [type |-> "instance.backup", status |-> "absent", attempt |-> 0]

VARIABLES
  handler,     \* of the request or the run: its next step, done, or lost
  copy,        \* BackupRecord.status, or none
  tasks,       \* the backup's tasks in the order they were made in
  resubmitting,  \* the handler of a resubmission has found a failed task
  link,        \* the agent's socket: up, dead and not noticed, or down
  chain,       \* deliveries to the agent that it has not ended
  phase,       \* of the first: waiting, accepted, working, or to be answered again
  recorded,    \* the agent's journal
  reopened,    \* history: finished tasks that an acknowledgement took up again
  outages, reboots

agentVars == <<chain, phase, recorded>>
bounds == <<outages, reboots>>
backupVars == <<handler, copy, tasks, resubmitting, link, agentVars, reopened, bounds>>

BackupInit ==
  /\ handler = "none" /\ copy = "none" /\ tasks = [t \in Tries |-> NoTask] /\ resubmitting = FALSE
  /\ link \in {"up", "down"} /\ chain = <<>> /\ phase = "waiting" /\ recorded = {}
  /\ reopened = {} /\ outages = 0 /\ reboots = 0

Open(t) == tasks[t].status \in {"queued", "delivered", "running", "retrying"}
TaskBecomes(t, task) == tasks' = [tasks EXCEPT ![t] = task]

-----------------------------------------------------------------------------
(* The panel's handlers *)

HandlerGoes(from, to) == handler = from /\ handler' = to

RequestBackup ==
  /\ HandlerGoes("none", "record")
  /\ UNCHANGED <<copy, tasks, resubmitting, link, agentVars, reopened, bounds>>

RecordBackup ==
  /\ HandlerGoes("record", "enqueue") /\ copy' = "queued"
  /\ UNCHANGED <<tasks, resubmitting, link, agentVars, reopened, bounds>>

EnqueueBackup ==
  /\ HandlerGoes("enqueue", "done") /\ TaskBecomes(1, Created(tasks[1]))
  /\ UNCHANGED <<copy, resubmitting, link, agentVars, reopened, bounds>>

\* POST /api/tasks/:id/retry looks at the task first and makes a new one later.
AskRetry(t) ==
  /\ tasks[t].status = "failed" /\ ~resubmitting /\ resubmitting' = TRUE
  /\ UNCHANGED <<handler, copy, tasks, link, agentVars, reopened, bounds>>

ResubmitBackup(t) ==
  /\ resubmitting /\ resubmitting' = FALSE
  /\ t # 1 /\ tasks[t].status = "absent" /\ \A s \in 1..(t - 1) : tasks[s].status # "absent"
  /\ TaskBecomes(t, Created(tasks[t]))
  /\ UNCHANGED <<handler, copy, link, agentVars, reopened, bounds>>

\* deliverTask, which without a socket gives the attempt back.
DeliverBackup(t) ==
  /\ tasks[t].status = "queued" /\ link # "down"
  /\ TaskBecomes(t, Reserved(tasks[t]))
  /\ chain' = IF link = "up" THEN Append(chain, t) ELSE chain
  /\ UNCHANGED <<handler, copy, resubmitting, link, phase, recorded, reopened, bounds>>

-----------------------------------------------------------------------------
(* The scheduler's tick *)

RetryIsDue(t) ==
  /\ tasks[t].status = "retrying" /\ TaskBecomes(t, RetryDue(tasks[t]))
  /\ UNCHANGED <<handler, copy, resubmitting, link, agentVars, reopened, bounds>>

\* A task that failed for good fails its backup; one that is retried leaves it alone.
SweptCopy(t) == IF tasks'[t].status = "failed" THEN "failed" ELSE copy

\* Mutant: the sweep fails the task and leaves the backup as it is.
TimeOutOnly(t) ==
  /\ tasks[t].status \in {"delivered", "running"} /\ TaskBecomes(t, FailedOnce(tasks[t]))
  /\ UNCHANGED <<handler, copy, resubmitting, link, agentVars, reopened, bounds>>

\* Mutant: the sweep looks at the time only.
TimeOutAny(t) ==
  /\ tasks[t].status # "absent" /\ TaskBecomes(t, FailedOnce(tasks[t]))
  /\ copy' = SweptCopy(t)
  /\ UNCHANGED <<handler, resubmitting, link, agentVars, reopened, bounds>>

\* The sweep: tasks that are queued or waiting for a retry are not looked at.
TimeOutBackup(t) ==
  /\ tasks[t].status \in {"delivered", "running"} /\ TaskBecomes(t, FailedOnce(tasks[t]))
  /\ copy' = SweptCopy(t)
  /\ UNCHANGED <<handler, resubmitting, link, agentVars, reopened, bounds>>

-----------------------------------------------------------------------------
(* The agent; while its connection is lost, so is what it says *)

\* task.ack and task.progress make a task running, whatever it was.
HearOf(t) ==
  IF link = "up"
  THEN /\ TaskBecomes(t, Reported(tasks[t]))
       /\ reopened' = IF Finished(tasks[t]) THEN reopened \cup {t} ELSE reopened
  ELSE UNCHANGED <<tasks, reopened>>

\* agentTaskResult
HearResult(t, ok) ==
  IF link = "up" /\ ~Finished(tasks[t])
  THEN /\ TaskBecomes(t, WithResult(tasks[t], ok))
       /\ copy' = IF ok THEN "available"
                  ELSE IF MayRetry(tasks[t]) THEN "creating" ELSE "failed"
  ELSE UNCHANGED <<tasks, copy>>

AgentAccepts ==
  /\ chain # <<>> /\ phase = "waiting"
  /\ phase' = IF Head(chain) \in recorded THEN "answer" ELSE "accepted"
  /\ HearOf(Head(chain))
  /\ UNCHANGED <<handler, copy, resubmitting, link, chain, recorded, bounds>>

\* One message of progress stands for those of an execution.
AgentProceeds ==
  /\ chain # <<>> /\ phase = "accepted" /\ phase' = "working"
  /\ HearOf(Head(chain))
  /\ UNCHANGED <<handler, copy, resubmitting, link, chain, recorded, bounds>>

\* Only a success is recorded, and writing the journal may fail.
AgentEnds(ok) ==
  /\ chain # <<>> /\ chain' = Tail(chain) /\ phase' = "waiting"
  /\ \/ phase = "answer" /\ ok /\ UNCHANGED recorded
     \/ phase = "working" /\ ok /\ recorded' = recorded \cup {Head(chain)}
     \/ phase = "working" /\ UNCHANGED recorded
  /\ HearResult(Head(chain), ok)
  /\ UNCHANGED <<handler, resubmitting, link, reopened, bounds>>

-----------------------------------------------------------------------------
(* The connection *)

\* What comes after the first n deliveries is lost; with n = 0 the agent has died, too.
KeepDeliveries(n) ==
  /\ chain' = SubSeq(chain, 1, n) /\ phase' = IF n = 0 THEN "waiting" ELSE phase
  /\ UNCHANGED recorded

LoseAgent(n) ==
  /\ outages < MaxOutages /\ outages' = outages + 1
  /\ n = 0 \/ link = "up"
  /\ link' = (IF link = "up" THEN "dead" ELSE link) /\ KeepDeliveries(n)
  /\ UNCHANGED <<handler, copy, tasks, resubmitting, reopened, reboots>>

\* The close handler, unless a new socket is faster.
NoticeClose ==
  /\ link = "dead" /\ link' = "down"
  /\ tasks' = [t \in Tries |-> Requeued(tasks[t])]
  /\ UNCHANGED <<handler, copy, resubmitting, agentVars, reopened, bounds>>

AttachAgain ==
  /\ link # "up" /\ link' = "up"
  /\ UNCHANGED <<handler, copy, tasks, resubmitting, agentVars, reopened, bounds>>

PanelReboots(n) ==
  /\ reboots < MaxReboots /\ reboots' = reboots + 1
  /\ handler' = IF handler \in {"record", "enqueue"} THEN "lost" ELSE handler
  /\ resubmitting' = FALSE /\ link' = "down"
  /\ KeepDeliveries(n)
  /\ UNCHANGED <<copy, tasks, reopened, outages>>

-----------------------------------------------------------------------------
Deliveries == 0..Len(chain)

BackupNext ==
  \/ RequestBackup \/ RecordBackup \/ EnqueueBackup
  \/ \E t \in Tries : \/ AskRetry(t) \/ ResubmitBackup(t) \/ DeliverBackup(t)
                      \/ RetryIsDue(t) \/ TimeOutBackup(t)
  \/ AgentAccepts \/ AgentProceeds \/ \E ok \in BOOLEAN : AgentEnds(ok)
  \/ \E n \in Deliveries : LoseAgent(n) \/ PanelReboots(n)
  \/ NoticeClose \/ AttachAgain

BackupSpec == BackupInit /\ [][BackupNext]_backupVars

\* A handler that began goes on, the interval fires, and what is queued is sent when the
\* agent is or gets attached.  Nothing is assumed of the agent.
BackupFairness ==
  /\ WF_backupVars(RecordBackup) /\ WF_backupVars(EnqueueBackup)
  /\ \A t \in Tries : /\ WF_backupVars(DeliverBackup(t)) /\ WF_backupVars(RetryIsDue(t))
                      /\ WF_backupVars(TimeOutBackup(t))

FairBackupSpec == BackupSpec /\ BackupFairness

-----------------------------------------------------------------------------
(* Properties *)

\* The variables have their types (types.ts, BackupRecord and TaskRecord).
BackupTypeOK ==
  /\ handler \in {"none", "record", "enqueue", "done", "lost"}
  /\ copy \in {"none", "queued", "creating", "available", "failed"}
  /\ tasks \in [Tries -> Task] /\ resubmitting \in BOOLEAN /\ link \in {"up", "dead", "down"}
  /\ chain \in Seq(Tries) /\ phase \in {"waiting", "accepted", "working", "answer"}
  /\ {recorded, reopened} \subseteq SUBSET Tries /\ {outages, reboots} \subseteq Nat

\* A backup that the panel lists as queued or being created is decided in the end if its
\* node's agent comes to stay, unless a restart came between its record and its task.
\* The sweep does not look at queued tasks: the backup of a node that stays away remains
\* queued (server.ts:1030-1036, 1292, 1339).
BackupIsDecided ==
  <>[](link = "up") =>
    (copy \in {"queued", "creating"} ~> copy \in {"available", "failed"} \/ handler = "lost")

\* A backup that became available stays so, unless an operator had its task done again or
\* a late acknowledgement made its finished task a running one again: only such a task
\* can still fail it (server.ts:348-355, 481, 1203-1228, 1309).
AvailableBackupStays ==
  [][ copy = "available" /\ copy' # "available"
        => \E t \in Tries : Open(t) /\ (t # 1 \/ t \in reopened) ]_backupVars
=============================================================================
