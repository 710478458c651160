------------------------- MODULE InstanceLifecycle -------------------------
(***************************************************************************)
(* The instance records of one node in the control plane: their status,    *)
(* their host port and their time in the archive, under the HTTP handlers  *)
(* of apps/api/src/server.ts, the results of the tasks these enqueue, and  *)
(* the scheduler.  A handler checks a snapshot first and changes the       *)
(* record, or enqueues its task, in later store operations: `request' is   *)
(* what each handler under way has still to do.  Tasks are delivered as    *)
(* TaskDelivery models it; here their results arrive in any order.         *)
(***************************************************************************)
EXTENDS Integers, FiniteSets

CONSTANTS
  Instances,    \* the instances that may be created
  Name,         \* the name of each of them, in lower case
  Protocol,     \* the protocol of the template of each of them
  Ports,        \* portRangeStart..portRangeEnd of the node
  Wanted,       \* ports that requests ask for
  Clients,      \* handlers under way at the same time
  Kinds,        \* the kinds of requests they make
  MaxTasks,     \* bound: tasks of these requests that are open together
  MaxRestarts   \* bound: restarts of the control plane

\* Power actions enqueue their task before they change the record.
PowerKinds == {"start", "stop", "restart", "kill"}
RecordKinds == {"create", "configure", "archive", "unarchive", "rollback"}
\* The task types are instance.create, .start, .stop, .restart, .kill;
\* configure is .restart with applyConfig; archive is .archive and so is purge;
\* unarchive and rollback (to a backup) are .restore.
TaskKinds == PowerKinds \cup RecordKinds \cup {"purge"}

AnyPort == 0

ASSUME LifecycleAssumption ==
  /\ DOMAIN Name = Instances
  /\ Protocol \in [Instances -> {"tcp", "udp"}]
  /\ Ports \subseteq Nat \ {0} /\ Wanted \subseteq Nat \ {0}
  /\ Kinds \subseteq PowerKinds \cup RecordKinds
  /\ MaxTasks \in Nat /\ MaxRestarts \in Nat

Statuses == {"absent", "creating", "offline", "starting", "running", "stopping",
             "archived", "error"}

NoRequest == [kind |-> "none"]
Request == [kind : Kinds, inst : Instances, port : Wanted \cup {AnyPort},
            step : {"commit", "enqueue"}]

VARIABLES
  status, port,   \* of state.instances ("absent": not created yet)
  archive,        \* archiveExpiresAt: none, still open, or over
  revived,        \* history: instances that left the archive
  request,        \* what each client's handler has still to do
  purging,        \* expired instances the scheduler has found and not enqueued
  todo,           \* open tasks of each kind and instance
  restarts

record == <<status, port, archive, revived>>
vars == <<record, request, purging, todo, restarts>>

-----------------------------------------------------------------------------
Live(i) == status[i] \notin {"absent", "archived"}

\* Mutant: an instance counts as a user of its port only when it is created.
UsedByCreated(i) ==
  {port[j] : j \in {k \in Instances \ {i} : Live(k) /\ status[k] # "creating"
                                              /\ Protocol[k] = Protocol[i]}}

\* allocatePort: the ports taken, and the one port it returns, if any.
Used(i) ==
  {port[j] : j \in {k \in Instances \ {i} : Live(k) /\ Protocol[k] = Protocol[i]}}
Allocated(i, requested) ==
  {p \in Ports \ Used(i) :
     IF requested = AnyPort THEN \A q \in Ports \ Used(i) : p <= q ELSE p = requested}

\* Mutant: an instance holds its name only when it is created.
NameTakenIfCreated(i) ==
  \E j \in Instances : Live(j) /\ status[j] # "creating" /\ Name[j] = Name[i]

\* createInstance looks for the name among the instances not archived.
NameTaken(i) == \E j \in Instances : Live(j) /\ Name[j] = Name[i]

\* An assignment to the status of a stored instance.
SetStatus(i, s) ==
  /\ status' = [status EXCEPT ![i] = IF @ = "absent" THEN @ ELSE s]
  /\ revived' = IF status[i] = "archived" /\ s # "archived"
                THEN revived \cup {i} ELSE revived

Init ==
  /\ status = [i \in Instances |-> "absent"]
  /\ port = [i \in Instances |-> AnyPort]
  /\ archive = [i \in Instances |-> "none"]
  /\ revived = {}
  /\ request = [c \in Clients |-> NoRequest]
  /\ purging = {}
  /\ todo = [j \in TaskKinds \X Instances |-> 0]
  /\ restarts = 0

-----------------------------------------------------------------------------
(* The handlers.                                                           *)

\* What a handler requires of the snapshot it has read.
Accepted(k, i) ==
  CASE k = "create"    -> /\ status[i] = "absent"
                          /\ \A c \in Clients :
                               request[c] # NoRequest => request[c].inst # i
    [] k = "configure" -> Live(i)
    [] k = "unarchive" -> status[i] = "archived" /\ archive[i] = "open"
    [] OTHER           -> status[i] # "absent"

RequestedPorts(k) ==
  CASE k = "create" -> Wanted \cup {AnyPort} [] k = "configure" -> Wanted
    [] OTHER -> {AnyPort}

Receive(c) ==
  /\ request[c] = NoRequest
  /\ \E k \in Kinds, i \in Instances :
       /\ Accepted(k, i)
       /\ \E p \in RequestedPorts(k) :
            request' = [request EXCEPT ![c] =
              [kind |-> k, inst |-> i, port |-> p,
               step |-> IF k \in PowerKinds THEN "enqueue" ELSE "commit"]]
  /\ UNCHANGED <<record, purging, todo, restarts>>

InTransaction(c, k) == request[c].kind = k /\ request[c].step = "commit"
ThenEnqueue(c) == request' = [request EXCEPT ![c].step = "enqueue"]
Answered(c) == request' = [request EXCEPT ![c] = NoRequest]

\* createInstance, when the name is free and it finds a port.
CommitCreate(c) ==
  /\ InTransaction(c, "create")
  /\ LET i == request[c].inst IN
       /\ ~NameTaken(i)
       /\ \E p \in Allocated(i, request[c].port) :
            /\ status' = [status EXCEPT ![i] = "creating"]
            /\ port' = [port EXCEPT ![i] = p]
  /\ ThenEnqueue(c)
  /\ UNCHANGED <<archive, revived, purging, todo, restarts>>

\* updateInstanceConfiguration: the status is not looked at again.
CommitConfigure(c) ==
  /\ InTransaction(c, "configure")
  /\ LET i == request[c].inst IN
       \E p \in Allocated(i, request[c].port) : port' = [port EXCEPT ![i] = p]
  /\ ThenEnqueue(c)
  /\ UNCHANGED <<status, archive, revived, purging, todo, restarts>>

\* The transaction throws: the draft is dropped and the request refused.
Refuse(c) ==
  /\ InTransaction(c, "create") \/ InTransaction(c, "configure")
  /\ \/ Allocated(request[c].inst, request[c].port) = {}
     \/ request[c].kind = "create" /\ NameTaken(request[c].inst)
  /\ Answered(c)
  /\ UNCHANGED <<record, purging, todo, restarts>>

\* Mutant: the date is set only for a server that runs.
CommitArchiveUndated(c) ==
  /\ InTransaction(c, "archive")
  /\ SetStatus(request[c].inst, "archived")
  /\ archive' = (IF status[request[c].inst] = "running"
                 THEN [archive EXCEPT ![request[c].inst] = "open"] ELSE archive)
  /\ ThenEnqueue(c)
  /\ UNCHANGED <<port, purging, todo, restarts>>

CommitArchive(c) ==
  /\ InTransaction(c, "archive")
  /\ SetStatus(request[c].inst, "archived")
  /\ archive' = [archive EXCEPT ![request[c].inst] = "open"]
  /\ ThenEnqueue(c)
  /\ UNCHANGED <<port, purging, todo, restarts>>

CommitUnarchive(c) ==
  /\ InTransaction(c, "unarchive")
  /\ SetStatus(request[c].inst, "offline")
  /\ archive' = [archive EXCEPT ![request[c].inst] = "none"]
  /\ ThenEnqueue(c)
  /\ UNCHANGED <<port, purging, todo, restarts>>

\* The restore of a backup that is available.
CommitRollback(c) ==
  /\ InTransaction(c, "rollback")
  /\ SetStatus(request[c].inst, "starting")
  /\ ThenEnqueue(c)
  /\ UNCHANGED <<port, archive, purging, todo, restarts>>

\* A power action, its task being enqueued; restart and kill leave the status.
CommitPower(c) ==
  /\ request[c].kind \in PowerKinds /\ request[c].step = "commit"
  /\ LET r == request[c] IN
       SetStatus(r.inst, CASE r.kind = "start" -> "starting"
                           [] r.kind = "stop" -> "stopping"
                           [] OTHER -> status[r.inst])
  /\ Answered(c)
  /\ UNCHANGED <<port, archive, purging, todo, restarts>>

\* createTask, for the handler's task.  Bound: MaxTasks.
TasksOpen == {j \in DOMAIN todo : j[1] # "purge" /\ todo[j] > 0}
Enqueue(c) ==
  /\ request[c] # NoRequest /\ request[c].step = "enqueue"
  /\ Cardinality(TasksOpen) < MaxTasks
  /\ LET j == <<request[c].kind, request[c].inst>> IN
       /\ todo[j] < MaxTasks
       /\ todo' = [todo EXCEPT ![j] = @ + 1]
  /\ request' = [request EXCEPT ![c] = IF @.kind \in PowerKinds
                                       THEN [@ EXCEPT !.step = "commit"] ELSE NoRequest]
  /\ UNCHANGED <<record, purging, restarts>>

-----------------------------------------------------------------------------
(* The results of tasks, agentTaskResult and the sweep of the scheduler.   *)

AfterSuccess(k) ==
  CASE k \in {"create", "stop", "kill", "unarchive"} -> "offline"
    [] k \in {"start", "restart", "configure", "rollback"} -> "running"
    [] k \in {"archive", "purge"} -> "archived"

\* A task leaves the open ones, unless an acknowledgement that is processed late
\* opens it again (TaskDelivery): its result will then count once more.
Concluded(k, i) ==
  /\ todo[<<k, i>>] > 0
  /\ todo' \in {todo, [todo EXCEPT ![<<k, i>>] = @ - 1]}

TaskSucceeds(k, i) ==
  /\ Concluded(k, i)
  /\ SetStatus(i, AfterSuccess(k))
  /\ UNCHANGED <<port, archive, request, purging, restarts>>

\* Mutant: a failed creation leaves the status.
FailsQuietly(k, i) ==
  /\ Concluded(k, i)
  /\ UNCHANGED <<record, request, purging, restarts>>

\* The task is given up, by its result or by the scheduler's sweep.
TaskFails(k, i) ==
  /\ Concluded(k, i)
  /\ SetStatus(i, IF k = "create" THEN "error" ELSE status[i])
  /\ UNCHANGED <<port, archive, request, purging, restarts>>

-----------------------------------------------------------------------------
(* Time, the scheduler and restarts.                                       *)

ArchiveEnds(i) ==
  /\ archive[i] = "open"
  /\ archive' = [archive EXCEPT ![i] = "over"]
  /\ UNCHANGED <<status, port, revived, request, purging, todo, restarts>>

Expired(i) == status[i] = "archived" /\ archive[i] = "over"

\* Mutant: what the tick has found it forgets.
TickOnce ==
  /\ \E i \in Instances : Expired(i) /\ todo[<<"purge", i>>] = 0
  /\ purging' = purging \cup {i \in Instances : Expired(i) /\ todo[<<"purge", i>>] = 0}
  /\ archive' = [i \in Instances |-> IF i \in purging' THEN "none" ELSE archive[i]]
  /\ UNCHANGED <<status, port, revived, request, todo, restarts>>

\* The scheduler's transaction.  Bound: it does not add a second purge to an
\* open one, which the code does every ten seconds.
Tick ==
  /\ \E i \in Instances : Expired(i) /\ todo[<<"purge", i>>] = 0
  /\ purging' = purging \cup {i \in Instances : Expired(i) /\ todo[<<"purge", i>>] = 0}
  /\ UNCHANGED <<record, request, todo, restarts>>

EnqueuePurge(i) ==
  /\ i \in purging
  /\ purging' = purging \ {i}
  /\ todo' = [todo EXCEPT ![<<"purge", i>>] = 1]
  /\ UNCHANGED <<record, request, restarts>>

\* The handlers and the scheduler's list are lost, the store is not.
ApiRestart ==
  /\ restarts < MaxRestarts
  /\ restarts' = restarts + 1
  /\ request' = [c \in Clients |-> NoRequest]
  /\ purging' = {}
  /\ UNCHANGED <<record, todo>>

-----------------------------------------------------------------------------
Handle(c) ==
  \/ CommitCreate(c) \/ CommitConfigure(c) \/ Refuse(c) \/ CommitArchive(c)
  \/ CommitUnarchive(c) \/ CommitRollback(c) \/ CommitPower(c) \/ Enqueue(c)
Settle == \E k \in TaskKinds, i \in Instances : TaskSucceeds(k, i) \/ TaskFails(k, i)
Schedule == Tick \/ \E i \in Instances : EnqueuePurge(i) \/ ArchiveEnds(i)

Next == (\E c \in Clients : Receive(c) \/ Handle(c)) \/ Settle \/ Schedule \/ ApiRestart

Spec == Init /\ [][Next]_vars

\* Only the scheduler is needed: its timer fires, and its loop goes on.
FairSpec == Spec /\ WF_vars(Tick) /\ \A i \in Instances : WF_vars(EnqueuePurge(i))

-----------------------------------------------------------------------------
(* Properties.                                                             *)

\* The values of every variable; a stored instance has a port of its node.
TypeOK ==
  /\ status \in [Instances -> Statuses]
  /\ port \in [Instances -> Ports \cup {AnyPort}]
  /\ \A i \in Instances : status[i] # "absent" => port[i] \in Ports
  /\ archive \in [Instances -> {"none", "open", "over"}]
  /\ revived \in SUBSET Instances
  /\ request \in [Clients -> Request \cup {NoRequest}]
  /\ purging \in SUBSET Instances
  /\ todo \in [TaskKinds \X Instances -> Nat]
  /\ restarts \in Nat

\* Two instances on the node that have one name, or one host port.
Clash(i, j) ==
  /\ Live(i) /\ Live(j)
  /\ Name[i] = Name[j] \/ (Protocol[i] = Protocol[j] /\ port[i] = port[j])

\* Creating and configuring never give two live instances one name or host port,
\* in any interleaving of handlers whose snapshots are out of date: one of two
\* that clash came back from the archive (createInstance, allocatePort).
ClashOnlyIfRevived ==
  \A i \in Instances : \A j \in Instances \ {i} :
    Clash(i, j) => i \in revived \/ j \in revived

\* No instance waits for a creation nobody works on, whatever failed, unless
\* the panel died between storing the instance and storing its task.
CreationUnderWay ==
  restarts = 0 =>
    \A i \in Instances : status[i] = "creating" =>
      \/ todo[<<"create", i>>] > 0
      \/ \E c \in Clients : request[c] # NoRequest /\ request[c].kind = "create"
                              /\ request[c].inst = i

\* An archived instance has an expiry date, so that it can be restored or will be
\* purged, unless it has left the archive before: the result of an archive task that
\* comes after the restoration archives it for good (server.ts:345, 1181, 1321).
StuckOnlyIfRevived ==
  \A i \in Instances : status[i] = "archived" /\ archive[i] = "none" => i \in revived

\* An archive that is over is purged, also when the panel dies between finding
\* it and storing the task, unless the instance leaves it or is archived anew.
ExpiredIsPurged ==
  \A i \in Instances :
    Expired(i) ~> todo[<<"purge", i>>] > 0 \/ status[i] # "archived" \/ archive[i] = "open"

\* A claim that the code does not keep.

\* "Host ports are reserved from the node pool": no two live instances of the
\* node have the same one (README).
LivePortsDistinct ==
  \A i \in Instances : \A j \in Instances \ {i} :
    Live(i) /\ Live(j) /\ Protocol[i] = Protocol[j] => port[i] # port[j]
=============================================================================
