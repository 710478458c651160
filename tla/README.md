# A verification project for MicoPanel

MicoPanel is a control plane (`apps/api`, one Fastify process with PostgreSQL) for game servers
that run in Docker on remote nodes. On each node an agent (`apps/agent`) opens a WebSocket to the
control plane, receives tasks, carries them out and reports. This directory holds TLA+ models of
that code, the TLC configurations that check them on small instances, and proofs checked by TLAPS.
Paths below are relative to the repository root; `server.ts` is `apps/api/src/server.ts`.

## Inventory

| Component | State | Operations | Talks to |
|---|---|---|---|
| Task policy (`service.ts`, `server.ts:79-87`) | `status`, `attempt`, `retryAt` of a task | create, reserve, give back, requeue, acknowledge, result, time-out, due retry | applied inside store transactions |
| Task delivery (`server.ts:255-514, 1248-1348`) | `state.tasks`, `hub.agents` | `enqueue`, `deliverTask`, `sendPendingTasks`, `attachAgent`, message and close handlers, scheduler | state store, agent sockets |
| Agent loop (`apps/agent/src/index.ts`) | socket, `taskChain` | `connect`, `send`, `handle`, `runTask` | control plane, runtime, journal |
| Task journal (`task-journal.ts`) | results by task id, in memory and in a file | `init`, `get`, `record` | agent loop |
| State store (`store.ts`) | panel state in memory and in one database row; a promise chain | `read`, `transaction`, metrics, `init` | every handler |
| Agent sessions and nodes (`server.ts:402-476`) | credentials, `online`, `lastSeenAt` | `register`, `authenticate`, `heartbeat`, close | delivery |
| Instance lifecycle (`server.ts:763-862, 1162-1193`, `service.ts:97-203`) | status, ports, archive dates | create, actions, configuration, archive, restore, purge; results | store, tasks |
| Container runtime (`runtime.ts`) | container, data, archive, backup and rollback directories | `execute` | Docker, file system, S3 |
| File transfers (`server.ts:541-608, 874-1005`, `runtime.ts:317-396`) | transfer records, staging files | upload, download, expiry | tasks, HTTP between agent and panel |
| Schedules and backups (`server.ts:1026-1123, 1314-1344`) | `nextRunAt`, backup status | CRUD, due runs | tasks |
| Metrics (`store.ts:55-68, 133-186`) | points of 24 hours | append, query, prune | heartbeats |
| Accounts and permissions (`server.ts:197-253, 610-686, 1125-1160`) | users, sessions, members | login, membership, access checks | every HTTP handler |
| Artifacts (`server.ts:520-532, 720-796`, `runtime.ts:278-315`) | artifact records and files, download tokens | upload, issue of a token, download by the agent | HTTP between agent and panel |
| Web interface and UI broadcast (`App.tsx`, `server.ts:90-99`) | selection, details, forms, editor | polls, refreshes, editing | HTTP and a UI socket |
| Templates, configuration | none | constant tables, environment parsing | |

What makes this code hard is not one algorithm but the order of things. Every handler is a chain of
awaits; the store serialises *operations* but not handlers, so another handler may run between a
read and the transaction that relies on it. Connections break between any two messages, agent and
panel die independently, and a task may be delivered, acknowledged, answered, timed out and
requeued in any order. `PROJECT.json` lists these hazards at their lines. What correctness means
for the components:

- *policy and delivery*: no success without the work; no repetition that the journal could avoid;
  the retry limit; no task forgotten; every task settles;
- *journal and store*: what was acknowledged survives a restart, and nothing else appears;
- *sessions*: a node is online exactly while the hub has a live socket; an enrolment token is
  used once;
- *instances*: live instances of a node have different ports and names; an archived instance can
  be restored or will be purged; statuses end where the last successful task put them;
- *runtime*: the data of an instance that was not purged is always in one of its directories;
- *transfers, schedules*: a file exists while its record says so and goes when it expires; no due
  run is lost or doubled; a backup is decided, and what is offered is complete;
- *accounts*: one founder, one user of a name, one membership;
- *artifacts*: an instance counts as created only with its whole package;
- *metrics*: the curve is the same in both stores and holds the newest point;
- *web interface*: the selected instance is shown, and what is saved is what the user has seen.

## Modules

| Module | Models |
|---|---|
| `TaskPolicy` | One task record and its transitions, one operator per transaction body. |
| `TaskService` | The abstract promise: tasks are accepted, carried out, and settled. |
| `TaskDelivery` | Control plane, connections and agent of one node; EXTENDS `TaskPolicy`, refines `TaskService`. |
| `MCTaskDelivery` | Small sequences of requests for TLC. |
| `TaskDeliveryProofs` | The theorems about `TaskDelivery`, proved for every value of the constants. |
| `DeliveryProgressProofs` | No task is stranded, and an accepted task is not replayed: the theorems about `NoTaskStranded` and `AcceptedNotReplayed`. |
| `InstanceLifecycle` | The instances of one node: status, name, port and archive under concurrent handlers, task results and the scheduler. |
| `MCInstanceLifecycle` | Small sets of instances, ports, clients and kinds of requests for TLC. |
| `InstanceLifecycleProofs` | The theorems about `InstanceLifecycle`. |
| `InstanceData` | One instance on its node: container, console stream, data, archive, rollback and backup directories under `DockerRuntime.execute`, step by step. |
| `InstanceDataProofs` | The theorems about `InstanceData`. |
| `ComponentProofs` | The theorems about `Accounts` and `Artifacts`, and about `MCComponents`. |
| `SessionEditingProofs` | The theorems about `AgentSession` and `FileEditing`. |
| `SettlingProofs` | The theorems about `FileTransfer`, `Scheduling`, `BackupTasks` and `PanelClient`, and about `MCSettling`. |
| `StateStore` | `PostgresStateStore`: the row, the copy in memory, the promise chain, failing and doubtful writes, death and start; refines `SerialStore`. |
| `SerialStore` | The abstract promise of a store. |
| `StateStoreProofs` | The theorems about `StateStore` and `MetricHistory`. |
| `FileTransfer` | One staged upload or download: record, staging file, task, HTTP request, expiry. |
| `Scheduling` | One cron schedule and its runs. |
| `BackupTasks` | One backup: its record, its task and those resubmitted for it, their deliveries, the agent and its connection; EXTENDS `TaskPolicy`. |
| `AgentSession` | Enrolment, authentication, hub entry and online flag of one node. |
| `MetricHistory` | One curve: sampling, both stores, pruning, answers. |
| `Accounts` | Users, sessions and members under overlapping requests. |
| `Artifacts` | Packages, their one token, creations and retries. |
| `FileEditing` | The file editor, the panel's cache, and the file on the node. |
| `PanelClient` | Selection, details, refreshes and the configuration form of the web interface. |
| `MCComponents`, `MCSettling` | Small instances of these for TLC: the first the components with safety properties only, the second those with liveness properties. |

*Composition.* `TaskDelivery` composes control plane, connections and agent. The other components
meet through tasks, and each of their modules takes what the others promise as nondeterminism: a
task may be begun in any order, carried out twice by a dead agent, answered late or timed out,
which is what `TaskDelivery` shows of delivery. `MCComponents` and `MCSettling` do not multiply
components: a behaviour chooses one (`part`) and takes its steps only. Their variables are
disjoint, so their product would add interleavings without a joint property.

### How TaskDelivery corresponds to the code

*One node.* Tasks and connections of different nodes only share the store's queue, which serialises
but never mixes them, so one node with its agent shows all interactions.

*The store's promise chain is the variable `chain`.* `store.read` and `store.transaction` wait for
the operations queued before them. In production (`PostgresStateStore`) a transaction ends with a
database query, so the code that awaited an operation runs up to its next store operation, or its
end, before the next queued operation completes. An action `Commit...` is therefore the operation
at the head of the chain together with that continuation: `CommitReserve` is the reserving
transaction of `deliverTask` *and* `hub.sendAgent`, and queues the give-back if nothing was sent.
Between two elements any other event may append to the chain; this is where the races are. The
in-memory development store, whose transactions complete within microtasks, is not modelled.
Transactions are taken to succeed; failing updates are the subject of `StateStore`.

*Bursts.* `sendPendingTasks` starts `deliverTask` for all queued tasks at once, newest first
(`createTask` puts new tasks in front), so their reads, and then their reservations, are adjacent
in the chain. They are one element, `tasks`; the reservations are served one by one, newest first.
The scheduler awaits each delivery before it starts the next: that is the component `rest`.

*A connection* has a panel's end `srv[c]` (open, superseded with code 4001, rejected with 4401, or
closed), an agent's end (`agentSock = c`) and messages under way to the panel (`wire[c]`). Messages
sent but unread when a connection closes are lost. A task sent to the agent is appended to the
agent's queue at once if the agent still holds that connection, and lost otherwise: a break between
sending and reception has the same effect as a break just before the sending, which the panel does
not see before its close event either. The handshake is over (`Bound`) when no store operation of
the connection's `authenticate` message is queued any more; that is when the code sets `nodeId`
(`server.ts:1252`). The agent has its credentials; enrolment is modelled in `AgentSession`.

*The agent* runs one task at a time. `task.ack` and the first `task.progress` (10 %) are sent
together and have the same effect on the status, so they are one message; later progress messages
repeat it. `StartTask`, `Execute` or `ExecuteFails`, and `RecordAndReport` are `runTask`'s steps;
`Execute` is the moment at which the runtime has completed the task. `RecordAndReport` keeps the
entry in memory and may fail to write the file. `AgentCrash` returns to the journal on disk.

*Times* are abstract: a tick finds any subset of the waiting retries due and any subset of the
tasks in flight stale. *History variables*: `executions`, `crashes`, `restarts`, `submitted`.
An operator's manual resubmission (`server.ts:1203-1228`) creates a new task, that is, it is one
more request.

### How InstanceLifecycle corresponds to the code

*Handlers.* A handler of `server.ts` reads a snapshot for its access check (`getInstanceAccess`),
decides on that snapshot, and then changes the record and enqueues its task in two later store
operations; power actions enqueue first. `Receive` is the decision, the `Commit...` actions are the
transactions, `Enqueue` is `createTask`; `request[c]` is what the handler has still to do. Between
these steps any other handler, result or tick may run. `Clients` bounds the handlers under way, not
the requests made in the course of time. A transaction that throws (`createInstance`,
`allocatePort`) is `Refuse`.

*Instances* are created at most once each, with the name and protocol that `Name` and `Protocol`
give them; the record never disappears, also not after the purge. One node: `allocatePort` and the
name check look at no other. An instance has one port, as templates give it. `AnyPort` stands for
a request that names no port.

*Tasks.* `todo` counts the open tasks of each kind for each instance. Their delivery is that of
`TaskDelivery`; here they end in any order, because tasks queued while the node is away are
delivered newest first, retries wait, and results may be late. A task's success sets the status its
type stands for, whatever the status is (`AfterSuccess`); its failure matters only to a creation. A
late acknowledgement can open a finished task again, so `Concluded` need not remove it. What the
agent does with the data is modelled in `InstanceData`: here a task may succeed or fail.

*Time* is `archive[i]`: no expiry, one in the future ("open"), one in the past ("over"). `Tick` is
the scheduler's transaction, `EnqueuePurge` its loop over `due.expired`; a panel that dies in
between loses `purging` and the handlers, not the store. The code adds a purge task every ten
seconds while the instance stays archived; the model adds the next when the last is done.

### How InstanceData corresponds to the code

`execute` runs one task at a time; `job` is the task and its next step, and each step is one Docker
or file-system call (or a few that nothing can tell apart), which may fail or be the agent's last.
A step named `Fails` goes to the task's end, or, inside the `try` of `restoreBackup`, to its catch
(`wipe`, `undo`). `Begin(k)` starts any open task, because delivery promises no order; a dead agent
leaves the tasks that may be replayed open. Directories are sets of `Items`, or `NoDir`. `bound`
says where the directory of the running container is now: Docker binds the inode, so a directory
that is renamed below a container takes its later writes with it, and one that is removed swallows
them (`Lost`). The server inside the container writes whenever it runs (`Play`).

`restoreBackup` has a step for each call that may fail: the download (`FetchBackup`, which leaves a
part of the object in the local file), the stop, whose errors are swallowed (`StopForRestore` goes
on with a server that may run), the rename and the `mkdir`, both outside the `try` (`SetAside`,
`MakeFresh`), and the `rm` and the rename of the catch (`WipeRestored`, `UndoRestore`). The end
`stuck` is that of an error that also kept the restoration from being undone; the panel sees a
failure like any other.

A backup is the local file, the S3 object if that is its destination, and `whole`, the set of those
of the two that are complete copies: a history variable, since a part can equal the whole. `PutObject` replaces an object as a whole
(external). `asked` says how often the panel asked for this backup: a task
that failed, or was given up by the sweep (`GiveUpBackup`) while the agent may still carry it out,
can be resubmitted for the same backup, also when a late result has made it available. `shelf` and
`offered` are what the panel's checks look at. `kill` and `look` (file.read, file.download) take the
same steps as `stop` and `write`, and the run does not request them. The end of a task and its
report are one step; a journal that cannot be written is in `TaskDelivery`. `saving` follows the `save-off` and `save-on` commands of `checkpoint`, which go
through the console stream, also through one whose container is gone (`console = "dead"`).

### How StateStore corresponds to the code

The state is the sequence of the changes that made it, because every transaction applies a function
to a clone of it. `Transact` is the call of `transaction`, `ComputeDraft` the function (which may
throw), `Update` the answer of the database: success, or an error after which the row may or may
not have changed. `CallRead` notes what `await this.chain` will wait for, `ReturnRead` clones.
`SelectRow` and `WriteRow` are `init`, which may fail at its write. `before` is a history variable:
the changes asked for before the read. `SerialStore` is the promise: changes apply one after the
other, at most once, and an acknowledged one is never lost; a refused one may apply all the same.

### How the other components correspond to the code

*FileTransfer.* The browser's handler (`request`), the agent (`worker`), the panel's handler of each
POST (`post`), `agentTaskResult` and the scheduler each take their steps; the record's status, the
staging file and the task are separate because no transaction joins them. `writer` is the execution
whose stream has this very file open: a stream on a removed file goes on and loses its content.
`due` is that `expiresAt` is over. Size, checksum and path are whether the file is whole.

*Scheduling.* `next` is `nextRunAt` (none, in the future, reached); a tick's transaction collects
what is due, and each run's record and task are created in later store operations, in which a
restart loses it.

*BackupTasks.* What becomes of one backup, from a run or by hand. `tasks[1]` is its task, the later
ones are those that `POST /api/tasks/:id/retry` makes of a failed one, with the same `backupId`.
Their transitions are the operators of `TaskPolicy`; `TaskDelivery` takes deliveries, handlers and
agent apart, and here a delivery is one step and the agent runs its deliveries (`chain`) one after
the other, heard (`link = "up"`) or not. `HearOf` is `task.ack` and `task.progress`, which make any
task running, also one that has succeeded or failed: `reopened` notes that. A task that is delivered
again acknowledges before it looks at the journal, so this is no rare case. `HearResult` is the part
of `agentTaskResult` that concerns backups, `TimeOutBackup` the sweep's. A connection is lost with
any number of the deliveries on it (`LoseAgent`), and with all of them if the agent dies.

*AgentSession.* Every `await` of a store operation is an element of `chain`, as in `TaskDelivery`;
the code that follows it belongs to the action. A credential is named after the connection it was
issued on. `missed`, `stray` and `overlapped` are history variables that name the exceptional
orders: a close event that changed nothing, a heartbeat stored for a connection that is not in the
hub, a token found by two connections.

*MetricHistory.* Time counts heartbeats. Both stores receive the same points; `points` is trimmed
when a point is appended (`MemoryStore`), `rows` is pruned every `PRUNE` and cut when it answers
(`PostgresStateStore`). The agent dates the points (`capturedAt`, `index.ts:85`) with its clock, the
panel asks for ranges and trims with its own (`server.ts:703, 812`, `store.ts:56`), PostgreSQL prunes
with a third (`store.ts:158`): `now` is the agent's, `PanelNow` and `DatabaseNow` differ from it by
`lead` and `dbLead`, which do not change while the system runs. The agent's two readings of its
clock for one sample are one.
`Kept` is JavaScript's `filter` and `Ordered` SQL's `ORDER BY` of distinct times; both are written
out because the provers know no facts about `SelectSeq` and `SortSeq`.

*Accounts.* A browser has one request under way; a handler first checks session and role in one
store operation, then changes the records in another that checks again what it checks in the code.

*Artifacts.* A package is its file (nothing, part, whole) and its record; creating an instance from
it replaces the artifact's only token. The agent's download is a temporary file renamed into place,
or for ZIP files unpacked, and a retry starts over what is there.

*FileEditing and PanelClient.* State variables of React components, one action per handler, effect
or answer; answers to requests arrive in any order. `FileEditing` has one file; a save may end in an
error before or after its text was stored. `refilled` in `PanelClient` is the tick as the effect
leaves it: whether a form that was filled again is still confirmed. The form itself may be filled by a late
detail of another instance, which no property speaks about. The events of
`hub.broadcast` all lead to the same refreshes, so they are one action. The page opens its socket
again when the selection changes and never else, hence the premise of `SelectionIsShown`.

## Runs

The system may stop (no more requests, bounds reached), so deadlock is not checked.

| Run | Instance | Shows |
|---|---|---|
| `delivery_retry` | one `instance.start`, 2 attempts, 2 connections, 1 agent crash, 1 panel restart | `TypeOK`, `ExecutedOncePerLife`, `RetryPolicy`, and `ImplementsTaskService` (refinement) |
| `delivery_pair` | a start and a command, 1 attempt, 2 connections | `SucceededWasExecuted`, `NoTaskStranded`, `AcceptedNotReplayed` |
| `delivery_settles` | one start, 2 attempts, 2 connections, with fairness | `EveryTaskSettles` (liveness) |
| `delivery_replay` | one command, 2 connections, 1 crash | *violated*: `NotReplayed` |
| `lifecycle_one` | 1 instance, 1 port (and requests for another), 2 clients, all kinds of requests, 1 panel restart, with fairness | `StuckOnlyIfRevived`, `CreationUnderWay`, `ExpiredIsPurged` (liveness) |
| `lifecycle_ports` | 2 instances with their own names, 2 ports, 2 clients | `ClashOnlyIfRevived` |
| `lifecycle_names` | 2 instances with one name, 2 ports, 2 clients | `ClashOnlyIfRevived` |
| `lifecycle_restored` | 2 instances, 1 port, 1 client | *violated*: `LivePortsDistinct` |
| `components` | the seven components of `MCComponents`; the agent's clock ahead of, behind or equal to either other one | types; `SavesHeldOnlyForBackup`, `OfferedBackupIsWhole`, `DataKept`, `FailedRestoreUndone`, `ServerKeepsItsDirectory` (data); `RowFollowsMemory`, `ReadsSeeEarlierChanges`, `StoreIsSerial` (store, the last a refinement); `CurvesAgree`, `NewestPointServed` (metrics); `EnrolledAgentIsKnown`, `OnlineFollowsHub` (sessions); `RecordsAreUnique` (accounts); `CreatedHasPackage`, `RefusedOnlyIfReplaced` (artifacts); `EmptySavedOnlyOnOverlap`, `OpenedIsFresh` (editing) |
| `settling` | the four components of `MCSettling`, with fairness | types; `UploadVerified`, `AvailableDownloadHasFile`, `StagingIsRemoved` (transfer); `EachTimeRunsOnce` (scheduling); `AvailableBackupStays`, `BackupIsDecided` (backup); `ConfirmedAsSeen`, `SelectionIsShown` (client); `StagingIsRemoved`, `BackupIsDecided` and `SelectionIsShown` are liveness |
| `archive_repeated` | one item, 3 requests, 1 crash | *violated*: `ArchiveKeepsData` |
| `transfer_resubmitted` | one transfer, 2 submissions, 2 executions | *violated*: `ResubmissionIsServed` |

*Bounds.* `MaxConns` connections: two are needed for superseding, for redelivery, and for messages
of an old connection that meet a new one. `MaxCrashes` and `MaxRestarts`: one of each separates the
lives of a process. `MAX_TASK_ATTEMPTS` (3 in the code) is a constant: with 2 a task is retried and
given up. Two tasks are the least that show bursts and the order of the agent's queue. In
`delivery_pair` they have one attempt, so that none waits for a retry and no tick delivers two: the
`rest` of the scheduler's loop is covered by the theorem `NothingStranded` and not by TLC. The last connection breaks only when the panel closes it and meets no early
heartbeat; one tick transaction is queued at a time; a tick starts only if it has something to do.

For the lifecycle: two clients are the least that put one handler between the check and the
transaction of another; two instances the least that clash. `MaxTasks` bounds the tasks of requests
that are open together: with 1, a task of one request still meets the handlers of others, and a
purge is always possible besides. Instances and clients are symmetric in `lifecycle_ports` and
`lifecycle_names`; the liveness run uses no symmetry.

For the components: `InstanceData` has one item of data, since the properties ask whether it is
lost, and three requests after the creation, the least in which an archive, a start and a second
archive or a restoration meet, with one death of the agent, which may also cut any of them short.
Its backup is local or in S3, and its task is given up, late or resubmitted within the requests.
`StateStore` has three changes, so that a doubtful one has predecessors and successors, and two
deaths, so that one can follow a restart. `MetricHistory` has `SAMPLE * LIMIT = WINDOW` as the
code's 30 s × 2,880 = 24 h, in small numbers, with time for the window to pass, and clocks that
differ by one heartbeat or not at all, which is the least that exceeds the margin of zero.
`AgentSession` has two connections and one death of each side; `Accounts` two browsers and two
spellings of one name; `Artifacts` two packages and two creations; `FileEditing` two openings, a
save and an upload. `Scheduling` has three runs and two edits; `BackupTasks` two attempts of each of two tasks, one lost
connection or death of the agent and one restart of the panel, the least in which a finished task is
delivered again, reopened and timed out. `FileTransfer` two submissions and two
executions, `PanelClient` two instances, two clicks and two answers under way per instance.

*What the violated properties say* is in `PROJECT.json` under "findings": sentences of the README
and of decision 0001 that the code does not keep. In short: a command can be carried out twice when
the agent crashes; a restored instance keeps a port that another one has been given; an archive
task that is carried out again after the instance was used deletes the archive; and a resubmitted
file transfer is refused.

*What the exceptions in the passing properties say.* Some of these properties hold only with an
exception that the model made necessary, and the exception is as much a result as the property:
two connections can enrol with one single-use token, and the agent then may keep a credential that
the panel does not know (`EnrolledAgentIsKnown`); a node can stay shown online after a connection
that died during its handshake or a last heartbeat of a superseded one (`OnlineFollowsHub`); an
instance can become archived without an expiry date when the archive's result comes after the
restoration (`StuckOnlyIfRevived`); a server started on an archived instance loses its directory
when the archive is restored (`ServerKeepsItsDirectory`); a second creation from an artifact makes
the first one's retries fail (`RefusedOnlyIfReplaced`); a backup stays queued for ever if its panel
died between record and task, and as long as its node stays away, since the sweep looks only at
tasks that were delivered (`BackupIsDecided`); an available backup can become failed, or be created
again, when an operator has resubmitted its task or when a redelivered task, finished since,
acknowledges once more (`AvailableBackupStays`); a resubmitted task rewrites a local backup that is
on offer, because the first one was late (`OfferedBackupIsWhole`); a restoration whose undoing fails
too, or that cannot make the directory it has just moved away, leaves the instance with what it was
half given or with nothing, and its data in the youngest directory set aside
(`FailedRestoreUndone`); the newest point of a curve is cut off when the agent was restarted or its
clock is ahead of the panel's (`NewestPointServed`); two overlapping requests of one transfer can
remove each other's file (`AvailableDownloadHasFile`); the placeholder can be saved over a file
when opening and another operation overlap (`EmptySavedOnlyOnOverlap`); and a late result of an
earlier read is shown as the new content (`OpenedIsFresh`).

*Fairness.* `TaskDelivery.FairSpec`: the head of the chain is eventually carried out, the
scheduler's interval fires, the agent's loop goes on, and messages are read (weak fairness). A tick
that is considered again and again finds a waiting retry due and an unanswered task stale (strong
fairness of `TickMoves`): both are comparisons with the clock, and nothing that happens for ever
moves `retryAt` or `updatedAt` on. Nothing is assumed about requests, breaks, reconnections,
crashes or the outcome of a task. `EveryTaskSettles` supposes that the agent finally stays
attached: the code promises nothing to a node that stays away. `InstanceLifecycle.FairSpec` only
supposes that the scheduler's interval fires and that its loop over what it has found goes on.
`TransferFairness` and `BackupFairness` suppose the same, and that a handler the panel has begun goes
on. That a task of which nothing is heard is timed out is what the sweep does at every interval, but
only with tasks that were delivered or run (`server.ts:1292`): a queued one waits for the agent.
`BackupIsDecided` therefore supposes, as `EveryTaskSettles` does, that the node's agent finally
stays attached; nothing is assumed of what it does then, nor of its tasks' ever ending.
`ClientFairness` supposes the page's five-second timer, the heartbeats that the panel
broadcasts every five seconds while a node is online, and that lists and details which are asked
for again and again are answered in the end (strong fairness: an answer is not under way all the
time). Deaths are bounded, so a panel that dies for ever between two steps is excluded.

Every property of a passing run has a mutant in `PROJECT.json`: an operator next to the code it
mutates, marked `Mutant`, that makes a plausible mistake in that code and breaks that property.


## Proofs

`TaskDeliveryProofs` proves, for all `Requests`, `MAX_TASK_ATTEMPTS` and bounds, from
`MaxAttemptsAssumption` (a positive natural number) and `DeliveryAssumption` (a sequence of task
types and natural bounds):

| Theorem | Property |
|---|---|
| `TypeCorrect` | `Spec => []TypeOK` |
| `DeliveryInvariant` | `Spec => []DeliveryInv` |
| `SucceededOnlyIfExecuted` | `Spec => []SucceededWasExecuted` |
| `ExecutedAtMostOncePerLife` | `Spec => []ExecutedOncePerLife` |
| `RetryPolicyKept` | `Spec => []RetryPolicy` |
| `DeliveryImplementsService` | `Spec => ImplementsTaskService` |

The argument. `SucceededWasExecuted` and `ExecutedOncePerLife` are not inductive: a success comes
from a store operation, which comes from a message, which comes from the journal or from an
execution just completed. `DeliveryInv` follows a success along that way: every successful result
on the wire and in the chain is about a task that was executed (`SuccessAccounted`), so is every
journal entry, the journal on disk is part of the one in memory, and a task executed in this life
is in the journal or just about to enter it (`ExecutionsAccounted`); the agent only holds tasks
whose record is stored (`ReceivedIsStored`). The proof first types each variable
under every action, then shows for each part that every step preserves it. `RetryPolicy` is
inductive with `TypeOK` through `TaskTransition`, the lemma that lists what a step can do to a task
record. The refinement maps a task to "none", "open" or its final status, and shows that each step is a step
of `TaskService` or a stutter.

`DeliveryProgressProofs` extends it, under the same assumptions:

| Theorem | Property |
|---|---|
| `NothingStranded` | `Spec => []NoTaskStranded` |
| `AcceptedStaysAccepted` | `Spec => AcceptedNotReplayed` |

`NoTaskStranded` only speaks of a quiet store; `StrandInv` says what holds on the way there. While
the hub can send, each queued task is in the hands of an operation on the chain that will deliver
it (`Covers`: a handshake not yet at its deliveries, a delivery that names the task, or one whose
loop goes on with it), and every operation that puts tasks back into the queue is followed on the
chain by a handshake that will deliver them (`FollowedUp`): an attempt is given back, and a close
requeues, only when the hub cannot send, and only the next `attachAgent` makes it able to, whose
`sendPendingTasks` comes after them. That nothing else does is `LinkInv`: a connection is opened
once, before it can be in the hub.

`AcceptedNotReplayed` is true of each transition of the policy except the creation of the record,
which would queue the task again. `AcceptInv` excludes that: the chain creates a task once
(`CreatesOnce`) and only while it is not stored, and only stored tasks are acknowledged, on the wire
and on the chain, so that an acknowledgement never stores a task ahead of its creation. Both proofs
rest on `ChainShape`, which lists how a step changes the chain.

`InstanceLifecycleProofs` proves, for all instances, names, protocols, ports, clients and kinds of
requests, from `LifecycleAssumption` (the types of the constants):

| Theorem | Property |
|---|---|
| `TypeCorrect` | `Spec => []TypeOK` |
| `ClashesOnlyByRevival` | `Spec => []ClashOnlyIfRevived` |
| `CreationsAreUnderWay` | `Spec => []CreationUnderWay` |
| `StuckOnlyByRevival` | `Spec => []StuckOnlyIfRevived` |

`ClashOnlyIfRevived` is inductive with `TypeOK`. It does not follow from what the handlers have
checked, which may be out of date, but from what the transactions of `createInstance` and
`updateInstanceConfiguration` check themselves (`AllocatedFacts`); every other step leaves the ports
alone and makes an instance live only by taking it out of the archive (`NoNewClash`).
`CreationUnderWay` needs `FreshCreation`: while a creation is not committed its instance is absent
and in no other handler's hands, so a refusal never ends the only handler of a stored instance.
`StuckOnlyIfRevived` needs `ArchiveInv`: an instance without a date that never left the archive has
no task that would archive it, nor a handler about to create one, and one that has a date and is
not archived has left the archive, so that clearing the date is no new exception.

`StateStoreProofs` proves, for all changes, reads and any number of deaths, from `StoreAssumption`:

| Theorem | Property |
|---|---|
| `StoreTypeCorrect` | `StoreSpec => []StoreTypeOK` |
| `RowIsOneAhead` | `StoreSpec => []RowFollowsMemory` |
| `ReadsAreCurrent` | `StoreSpec => []ReadsSeeEarlierChanges` |
| `StoreImplementsSerialStore` | `StoreSpec => StoreIsSerial` |

The inductive invariant `StoreInv` adds to the types and `RowFollowsMemory`: a transaction is on the
chain once and unanswered while it is there (`ChainInv`), a panel that is not up has neither chain
nor readers, and one that starts has read the row (`PhaseInv`), what was asked for before a read is
in memory, refused, or still awaited (`ReadInv`), and what is applied is no longer to be answered,
so that nothing is applied twice (`AppliedInv`). The refinement maps the log to the copy in memory
while the panel is up and to the row while it is not: a write whose answer was lost is then applied
at the restart, which is `SerialStore`'s `Recover`.

It also proves, for all distances of samples, windows, lengths of an answer and differences of the
three clocks, from `MetricAssumption` (the types of the constants):

| Theorem | Property |
|---|---|
| `MetricTypeCorrect` | `MetricSpec => []MetricTypeOK` |
| `NewestIsServed` | `MetricSpec => []NewestPointServed` |
| `CurvesStayEqual` | `MetricSpec => []CurvesAgree` |

`NewestPointServed` has its condition in the property: no restart of the agent, and
`lead + WINDOW <= SAMPLE * LIMIT`. In the code 30 s × 2,880 is exactly 24 hours, so the condition
says that the agent's clock is not ahead of the panel's; then the property fails without any
restart. Its proof needs `MetricInv`: until the agent restarts, the samples on their way, the rows
and the next sample are at least `SAMPLE` apart (`SamplesApart`), and the last point stays in the
table until the database finds it a day old, and is older than the agent's clock (`NewestStays`).
Ranges begin where both the panel may ask and the database still keeps (`Horizon`, `HorizonIsLater`).
The points before the newest in any range are then fewer than `LIMIT`: an injection maps them to the
whole multiples of `SAMPLE` that fit in the range (`PointsThatFit`), and the `LIMIT` oldest points
include it.

`CurvesAgree` compares two sequences that are built in different ways, so it rests on two facts
about the operators. `Kept` is defined for every sequence, and of one whose times ascend it keeps the
elements asked for, ascending (`KeptIsDefined`, `KeptAscends`): the least length for which this
failed would follow one for which it holds (`LeastNumber`). A set of the elements of an ascending
sequence, ordered, is that sequence (`OrderedIs`). It remains that both stores hold the same points
of any range, `CurveInv`: samples arrive in the order they were taken in, also those of a restarted
agent (`InOrder`); what memory holds of the last day is in the table (`PointsAreRows`); and a row of
the last day that memory lacks came before `LIMIT` points that memory has (`MissingAreCovered`), so
that the range holds more points than an answer may have. It is this last part that fails if a
store trims the wrong end, and it survives a sample with the time of the one before, which replaces
it in both.

`InstanceDataProofs` proves, for all pieces of data, kinds of tasks and bounds, from
`DataAssumption` (the types of the constants, and that no piece of data stands for a missing
directory):

| Theorem | Property |
|---|---|
| `DataTypeCorrect` | `DataSpec => []DataTypeOK` |
| `SavesAreGivenBack` | `DataSpec => []SavesHeldOnlyForBackup` |
| `OfferedBackupsAreWhole` | `DataSpec => []OfferedBackupIsWhole` |
| `FailedRestoresAreUndone` | `DataSpec => FailedRestoreUndone` |
| `ServersKeepDirectories` | `DataSpec => ServerKeepsItsDirectory` |
| `DataIsKept` | `DataSpec => DataKept` |

All six follow from one invariant, `DataInv`, which says for the task that is under way what its
earlier steps have brought about and no other actor has undone: only a running container writes, and
into a directory that exists (`BoundWhileRunning`); while a restoration fills the fresh directory no
server writes into it (`FreshIsUnused`), also not one that could not be stopped, whose directory was
moved and not replaced; the directory that was set aside is the
youngest of those (`YoungestIsOurs`), also if broken-off restorations have left older ones, so that
the catch block puts back the right one; what is moved into place finds nothing there
(`RoomIsMade`); saves are held through a stream that still works (`HeldByLiveStream`), so that the
finally block reaches the server; and nobody but a resubmitted task writes over a local backup that
is offered (`OfferedStays`).
`StepsOfTasks` says which task can be at which step. The step lemmas `GotoMoves`, `FailsMoves` and
`SetAsideMoves` are all the proof needs to know of how a task goes on, and `WriteAside` of what a
server that was not stopped writes into the directory set aside.

`ComponentProofs` proves, for all browsers and names (`AccountsAssumption`), for all uploads,
creations and numbers of retries (`ArtifactAssumption`), and for the composition from the
assumptions of all seven components:

| Theorem | Property |
|---|---|
| `RecordsStayUnique` | `AccountsSpec => []RecordsAreUnique` |
| `AccountsTypeCorrect` | `AccountsSpec => []AccountsTypeOK` |
| `ArtifactTypeCorrect` | `ArtifactSpec => []ArtifactTypeOK` |
| `CreatedFromWholePackage` | `ArtifactSpec => []CreatedHasPackage` |
| `RefusalsHaveCause` | `ArtifactSpec => []RefusedOnlyIfReplaced` |
| `ComponentTypesCorrect` | `ComponentsSpec => []ComponentsTypeOK` |

The composition the run checks is each of the seven components, with the others standing still
(`ComponentsAreEach`): what is proved of a component holds of it.

`RecordsAreUnique` is inductive with the types of the records and of what each handler will do
(`AccountInv`), because each transaction looks again for what it would duplicate; what the handler
saw in its own read plays no part in the proof. `AccountsTypeOK` needs in addition that the sessions,
the members and the requests under way refer to users that are there (`RefersToUsers`), which no
handler looks up again. `ArtifactInv` says that a record is only made of a
package that is whole and no longer written (`ListedIsWhole`), that a creation only knows artifacts
with a record (`RequestedIsListed`), and that a creation's token is its artifact's present one
unless it is noted as replaced or run out (`TokenAccounted`).

`SessionEditingProofs` proves, for all numbers of connections and restarts (`SessionAssumption`), and
for all openings, saves and versions of the file that are not taken for one of the model's own texts
(`EditingAssumption`):

| Theorem | Property |
|---|---|
| `SessionTypeCorrect` | `SessionSpec => []SessionTypeOK` |
| `EnrolledAgentsAreKnown` | `SessionSpec => []EnrolledAgentIsKnown` |
| `OnlineShownFollowsHub` | `SessionSpec => []OnlineFollowsHub` |
| `EditingTypeCorrect` | `EditingSpec => []EditingTypeOK` |
| `EmptySavedNeedsOverlap` | `EditingSpec => []EmptySavedOnlyOnOverlap` |
| `OpenedFilesAreFresh` | `EditingSpec => []OpenedIsFresh` |

`OnlineFollowsHub` only speaks of a quiet store; `SessionInv` says what the chain still holds on the
way there. A connection has at most one operation of its handshake waiting, and is identified only
after the last (`OneHandshake`), so that a close that finds its identified connection in the hub
leaves no `attach` behind. Of the operations that attach, the last is the hub's connection's
(`AttachesLast`), and each operation that shows the node offline is followed by one that attaches,
as long as the hub has a connection (`Reattaches`, both in `OnlineAfterOffline`): the flag is then
right when the chain is empty, whatever order closes and handshakes of the connections came in. A
connection that is closed is out of the hub and does not come back, unless its close event found it
not yet identified (`ClosedLeavesHub`). `EnrolledAgentIsKnown` follows from `OneEnrolment`: as long
as the token was not found twice, one operation at most will clear it, and every credential on its
way, in the process or in its file is the node's. The chain is a sequence; the lemmas `TailHolds`,
`TailOrder`, `AppendHolds` and `AppendOrder` say what its operations keep of it.

For the editor, `FlagFollowsCalls` says that the shared busy flag is right until two calls overlap,
and that the placeholder is nowhere but in the editor while the flag protects it; `AnswersSince`
that everything an opening may still be shown (the file, the cache, a read task's result) happened
since it asked.

`SettlingProofs` proves the safety properties of the run `settling`, from `TransferAssumption`,
`SchedulingAssumption`, `BackupAssumption` and `ClientAssumption` (the types of the constants), and
`MaxAttemptsAssumption`:

| Theorem | Property |
|---|---|
| `TransferTypeCorrect` | `TransferSpec => []TransferTypeOK` |
| `UploadsAreVerified` | `TransferSpec => []UploadVerified` |
| `AvailableDownloadsHaveFiles` | `TransferSpec => []AvailableDownloadHasFile` |
| `ExpiredFilesAreWatched` | `TransferSpec => []ExpiredFileIsWatched` |
| `SchedulingTypeCorrect` | `SchedulingSpec => []SchedulingTypeOK` |
| `TimesRunOnce` | `SchedulingSpec => []EachTimeRunsOnce` |
| `BackupTypeCorrect` | `BackupSpec => []BackupTypeOK` |
| `PendingBackupsHaveWork` | `BackupSpec => []PendingBackupHasWork` |
| `BackupsStayAvailable` | `BackupSpec => AvailableBackupStays` |
| `ClientTypeCorrect` | `ClientSpec => []ClientTypeOK` |
| `ConfirmationsAreSeen` | `ClientSpec => []ConfirmedAsSeen` |
| `SettlingTypesCorrect` | `SettlingSpec => []SettlingTypeOK` |

The composition the run checks is each of the four components, with the others standing still
(`SettlingIsEachComponent`): what is proved of a component holds of it.

An upload is only compared by an agent that has the whole file (`UploadCompared`). A download's
staging file belongs to the one request that was let in, and is removed by it or because the
transfer is past its time (`FileIsRequests`, `RemovalsDue`); an agent that asks again is a new
execution (`AskerIsNew`), and a second request that is let in leaves its trace for good
(`OneRequestBefore`), so that the exception `Overlapping` need not be assumed of the past. What expires has a record, and
before the record there is no task, no time limit and no request of an agent (`RecordFirst`): so
nothing but a request let in before writes an expired transfer's file.

`EachTimeRunsOnce` is inductive with the types. For a backup, `TriesInOrder` says that there is a
second task, or a backup available, only after the first task was finished: it still is, or a late
acknowledgement has taken it up again (`SettledOnce`), which leaves its trace in `reopened`. What can
fail an available backup is then a resubmitted task or a reopened one, and nothing else
(`AvailableBackupStays`): a task that is finished and not reopened is moved by no timer and no
result. The agent has only what was delivered to it (`DeliveriesExist`). The form of the web
interface is confirmed only while it was not filled again: `ClientInv` says that the effect that
fills the form never leaves the tick.

`ExpiredFileIsWatched` and `PendingBackupHasWork` are what `StagingIsRemoved` and `BackupIsDecided`
need of every state: as long as something is left to do, the step that does it is pending. No run
lists these two, parts of the inductive invariants. That the step is taken in the end is the
fairness of the run, and is checked there.

*Only model-checked.* Every invariant and every action property that a passing run checks is a
theorem, and so are both refinements. Liveness under fairness (`EveryTaskSettles`,
`ExpiredIsPurged`, `StagingIsRemoved`, `BackupIsDecided`, `SelectionIsShown`) is out of the prover's
reach, and so are the four expected violations, which are counterexamples. `DeliveryInv` and the
other inductive invariants are proved and checked by no run of their own.

## Not modelled

- The *journal's eviction* beyond 1,000 entries: a task evicted could be repeated if it was
  redelivered after a thousand later ones. A small bound would show what the code excludes by size.
- *Numbers*: usage from Docker's statistics, limits, sizes, checksums, cron expressions. The
  models see whether a file is whole and whether a time is reached.
- *Environment variables, templates, configuration files, audit log, console lines*: data that no
  guard in the modelled code looks at, and constant tables.
- *Passwords, the signing of cookies, rate limits*: library code.
- *The permission each handler asks for*: a table. `Accounts` models who has which permission.
- *MemoryStore's transactions*, which complete within microtasks: the development store. Its metrics
  are in `MetricHistory`.
- *The `instance.state` message*: the panel handles it, no agent sends it.
- *Failing transactions* outside `StateStore` and the handlers named above: a handler whose
  transaction fails ends with an error after the steps it has taken, as at a restart.
- *Clocks that are set* while the system runs: `MetricHistory`'s three clocks differ by fixed amounts.
- *An answer of the panel that is lost on its way to the file editor*: the editor treats it as an
  error, which `FileEditing` has before and after the save was stored.
- *Docker, S3, PostgreSQL*: external; what the code relies on is stated at the actions that call
  them.
