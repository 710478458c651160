---------------------- MODULE InstanceLifecycleProofs ----------------------
(***************************************************************************)
(* Proofs about InstanceLifecycle for every set of instances, ports,       *)
(* requests and clients.  Conflicts of names and ports are an inductive    *)
(* invariant as they stand; that creations are under way also needs        *)
(* FreshCreation: a creation that is not committed yet concerns an         *)
(* instance nobody else knows of.                                          *)
(***************************************************************************)
EXTENDS InstanceLifecycle, TLAPS

\* An instance that is still to be stored is absent and of no other handler.
FreshCreation ==
  \A c \in Clients :
    InTransaction(c, "create") =>
      /\ status[request[c].inst] = "absent"
      /\ \A d \in Clients \ {c} :
           request[d] # NoRequest => request[d].inst # request[c].inst

\* An instance that was never archived, nor left the archive ...
Unarchived(i) == archive[i] = "none" /\ i \notin revived
\* ... has no task that would archive it, and nobody is about to create one.
Archives(r, i) == r # NoRequest /\ r.kind = "archive" /\ r.inst = i /\ r.step = "enqueue"
Untouched(i) ==
  /\ status[i] # "archived"
  /\ todo[<<"archive", i>>] = 0 /\ todo[<<"purge", i>>] = 0 /\ i \notin purging
  /\ \A c \in Clients : ~Archives(request[c], i)

\* One with a date that is not archived has left the archive; and handlers, but those
\* that create, are at work on stored instances.
ArchiveInv ==
  /\ \A i \in Instances : Unarchived(i) => Untouched(i)
  /\ \A i \in Instances : archive[i] # "none" => status[i] = "archived" \/ i \in revived
  /\ \A c \in Clients :
       request[c] # NoRequest /\ request[c].kind # "create" => status[request[c].inst] # "absent"

\* The kinds, as sets of strings.
LEMMA KindFacts ==
  ASSUME NEW k \in Kinds
  PROVE  /\ k \in TaskKinds /\ k # "purge" /\ k # "none"
         /\ k \in PowerKinds \/ k \in RecordKinds
  BY LifecycleAssumption DEF TaskKinds, PowerKinds, RecordKinds

\* What an assignment to the status of a stored instance does and leaves.
LEMMA SetStatusFacts ==
  ASSUME TypeOK, NEW i \in Instances, NEW s \in Statuses \ {"absent"}, SetStatus(i, s)
  PROVE  /\ status' \in [Instances -> Statuses]
         /\ revived' \in SUBSET Instances /\ revived \subseteq revived'
         /\ \A j \in Instances : (status'[j] = "absent") <=> (status[j] = "absent")
         /\ \A j \in Instances \ {i} : status'[j] = status[j]
         /\ status'[i] = s \/ status'[i] = status[i]
         /\ \A j \in Instances : Live(j)' => Live(j) \/ j \in revived'
  BY DEF TypeOK, SetStatus, Live, Statuses

\* CommitPower and TaskFails may assign the status an instance has.
LEMMA SameStatusFacts ==
  ASSUME TypeOK, NEW i \in Instances, SetStatus(i, status[i])
  PROVE  status' = status /\ revived' = revived
  BY DEF TypeOK, SetStatus, Statuses

\* A request under way is a request.
LEMMA RequestFacts ==
  ASSUME TypeOK, NEW c \in Clients, request[c].kind # "none"
  PROVE  /\ request[c] \in Request /\ request[c] # NoRequest
         /\ request[c].inst \in Instances /\ request[c].kind \in Kinds
  BY DEF TypeOK, Request, NoRequest

\* A handler's next step keeps its request, its end leaves none.
LEMMA NextRequest ==
  ASSUME TypeOK, NEW c \in Clients, request[c].kind # "none",
         ThenEnqueue(c) \/ Answered(c)
  PROVE  /\ request' \in [Clients -> Request \cup {NoRequest}]
         /\ \A d \in Clients \ {c} : request'[d] = request[d]
         /\ request'[c] # NoRequest =>
              /\ request'[c].kind = request[c].kind
              /\ request'[c].inst = request[c].inst
              /\ request'[c].step = "enqueue"
  BY RequestFacts DEF TypeOK, ThenEnqueue, Answered, Request, NoRequest

\* The ports allocatePort may return are ports of the node nobody uses.
LEMMA AllocatedFacts ==
  ASSUME NEW i \in Instances, NEW q, NEW p \in Allocated(i, q)
  PROVE  /\ p \in Ports
         /\ \A j \in Instances \ {i} :
              Live(j) /\ Protocol[j] = Protocol[i] => port[j] # p
  BY DEF Allocated, Used
\* The status a power action assigns, when the handler's second step runs.
LEMMA PowerFacts ==
  ASSUME TypeOK, NEW c \in Clients, CommitPower(c)
  PROVE  /\ request[c].kind \in PowerKinds /\ request[c].inst \in Instances
         /\ request' \in [Clients -> Request \cup {NoRequest}]
         /\ request' = [request EXCEPT ![c] = NoRequest]
         /\ status' \in [Instances -> Statuses]
         /\ revived' \in SUBSET Instances /\ revived \subseteq revived'
         /\ \A j \in Instances : (status'[j] = "absent") <=> (status[j] = "absent")
         /\ \A j \in Instances : status'[j] = "creating" => status[j] = "creating"
         /\ \A j \in Instances : Live(j)' => Live(j) \/ j \in revived'
<1>1. /\ request[c].kind # "none" /\ request[c].kind \in PowerKinds
      /\ request[c].inst \in Instances
  BY RequestFacts DEF CommitPower, PowerKinds
<1>2. /\ request' \in [Clients -> Request \cup {NoRequest}]
      /\ request' = [request EXCEPT ![c] = NoRequest]
  BY <1>1, NextRequest DEF CommitPower, Answered
<1>3. CASE request[c].kind \in {"start", "stop"}
  <2>1. PICK s \in {"starting", "stopping"} : SetStatus(request[c].inst, s)
    BY <1>3 DEF CommitPower
  <2>. QED
    BY <1>1, <1>2, <2>1, SetStatusFacts DEF Statuses
<1>4. CASE request[c].kind \notin {"start", "stop"}
  <2>1. SetStatus(request[c].inst, status[request[c].inst])
    BY <1>4 DEF CommitPower
  <2>. QED
    BY <1>1, <1>2, <2>1, SameStatusFacts DEF TypeOK, Live
<1>. QED
  BY <1>3, <1>4

\* The status a failed task leaves.
LEMMA FailureFacts ==
  ASSUME TypeOK, NEW k \in TaskKinds, NEW i \in Instances, TaskFails(k, i)
  PROVE  /\ todo' \in [TaskKinds \X Instances -> Nat]
         /\ status' \in [Instances -> Statuses]
         /\ revived' \in SUBSET Instances /\ revived \subseteq revived'
         /\ \A j \in Instances : (status'[j] = "absent") <=> (status[j] = "absent")
         /\ \A j \in Instances : status'[j] = "creating" =>
              /\ status[j] = "creating"
              /\ todo'[<<"create", j>>] = todo[<<"create", j>>]
         /\ \A j \in Instances : Live(j)' => Live(j) \/ j \in revived'
<1>1. todo' \in [TaskKinds \X Instances -> Nat]
  BY DEF TaskFails, Concluded, TypeOK
<1>2. ASSUME NEW j \in Instances, j # i \/ k # "create"
      PROVE  todo'[<<"create", j>>] = todo[<<"create", j>>]
  BY <1>2 DEF TaskFails, Concluded, TypeOK, TaskKinds, RecordKinds
<1>3. CASE k = "create"
  <2>1. SetStatus(i, "error") /\ "error" \in Statuses \ {"absent"}
    BY <1>3 DEF TaskFails, Statuses
  <2>2. \A j \in Instances : status'[j] = "creating" => j # i /\ status[j] = "creating"
    BY <2>1 DEF SetStatus, TypeOK
  <2>. QED
    BY <1>1, <1>2, <2>1, <2>2, SetStatusFacts
<1>4. CASE k # "create"
  <2>1. SetStatus(i, status[i])
    BY <1>4 DEF TaskFails
  <2>. QED
    BY <1>1, <1>2, <1>4, <2>1, SameStatusFacts DEF TypeOK, Live
<1>. QED
  BY <1>3, <1>4

-----------------------------------------------------------------------------
\* Whatever happens, the variables keep their types and a stored instance keeps
\* a port of its node's range.
THEOREM TypeCorrect == Spec => []TypeOK
<1>1. Init => TypeOK
  BY LifecycleAssumption DEF Init, TypeOK, Statuses
<1>2. ASSUME TypeOK, [Next]_vars PROVE TypeOK'
  <2>1. CASE UNCHANGED vars
    BY <1>2, <2>1 DEF TypeOK, vars, record
  <2>2. ASSUME NEW c \in Clients, Receive(c) PROVE TypeOK'
    BY <1>2, <2>2 DEF TypeOK, Receive, record, Request, RequestedPorts
  <2>3. ASSUME NEW c \in Clients, CommitCreate(c) PROVE TypeOK'
    <3>1. request[c].kind # "none" /\ request[c].inst \in Instances
      BY <1>2, <2>3, RequestFacts DEF CommitCreate, InTransaction
    <3>2. PICK p \in Allocated(request[c].inst, request[c].port) :
            /\ status' = [status EXCEPT ![request[c].inst] = "creating"]
            /\ port' = [port EXCEPT ![request[c].inst] = p]
      BY <2>3 DEF CommitCreate
    <3>3. p \in Ports
      BY <3>1, <3>2, AllocatedFacts
    <3>4. request' \in [Clients -> Request \cup {NoRequest}]
      BY <1>2, <2>3, <3>1, NextRequest DEF CommitCreate
    <3>. QED
      BY <1>2, <2>3, <3>1, <3>2, <3>3, <3>4 DEF CommitCreate, TypeOK, Statuses
  <2>4. ASSUME NEW c \in Clients, CommitConfigure(c) PROVE TypeOK'
    <3>1. request[c].kind # "none" /\ request[c].inst \in Instances
      BY <1>2, <2>4, RequestFacts DEF CommitConfigure, InTransaction
    <3>2. PICK p \in Allocated(request[c].inst, request[c].port) :
            port' = [port EXCEPT ![request[c].inst] = p]
      BY <2>4 DEF CommitConfigure
    <3>3. p \in Ports
      BY <3>1, <3>2, AllocatedFacts
    <3>4. request' \in [Clients -> Request \cup {NoRequest}]
      BY <1>2, <2>4, <3>1, NextRequest DEF CommitConfigure
    <3>. QED
      BY <1>2, <2>4, <3>1, <3>2, <3>3, <3>4 DEF CommitConfigure, TypeOK
  <2>5. ASSUME NEW c \in Clients, Refuse(c) PROVE TypeOK'
    <3>1. request[c].kind # "none"
      BY <2>5 DEF Refuse, InTransaction
    <3>. QED
      BY <1>2, <2>5, <3>1, NextRequest DEF Refuse, TypeOK, record
  <2>6. ASSUME NEW c \in Clients, CommitArchive(c) PROVE TypeOK'
    <3>1. request[c].kind # "none" /\ request[c].inst \in Instances
      BY <1>2, <2>6, RequestFacts DEF CommitArchive, InTransaction
    <3>2. request' \in [Clients -> Request \cup {NoRequest}]
      BY <1>2, <2>6, <3>1, NextRequest DEF CommitArchive
    <3>. QED
      BY <1>2, <2>6, <3>1, <3>2, SetStatusFacts
      DEF CommitArchive, TypeOK, Statuses
  <2>7. ASSUME NEW c \in Clients, CommitUnarchive(c) PROVE TypeOK'
    <3>1. request[c].kind # "none" /\ request[c].inst \in Instances
      BY <1>2, <2>7, RequestFacts DEF CommitUnarchive, InTransaction
    <3>2. request' \in [Clients -> Request \cup {NoRequest}]
      BY <1>2, <2>7, <3>1, NextRequest DEF CommitUnarchive
    <3>. QED
      BY <1>2, <2>7, <3>1, <3>2, SetStatusFacts
      DEF CommitUnarchive, TypeOK, Statuses
  <2>8. ASSUME NEW c \in Clients, CommitRollback(c) PROVE TypeOK'
    <3>1. request[c].kind # "none" /\ request[c].inst \in Instances
      BY <1>2, <2>8, RequestFacts DEF CommitRollback, InTransaction
    <3>2. request' \in [Clients -> Request \cup {NoRequest}]
      BY <1>2, <2>8, <3>1, NextRequest DEF CommitRollback
    <3>. QED
      BY <1>2, <2>8, <3>1, <3>2, SetStatusFacts
      DEF CommitRollback, TypeOK, Statuses
  <2>9. ASSUME NEW c \in Clients, CommitPower(c) PROVE TypeOK'
    BY <1>2, <2>9, PowerFacts DEF CommitPower, TypeOK
  <2>10. ASSUME NEW c \in Clients, Enqueue(c) PROVE TypeOK'
    <3>1. request[c] \in Request
      BY <1>2, <2>10 DEF Enqueue, TypeOK
    <3>2. request[c].kind \in TaskKinds /\ request[c].inst \in Instances
      BY <3>1, KindFacts DEF Request
    <3>3. request' \in [Clients -> Request \cup {NoRequest}]
      BY <1>2, <2>10, <3>1 DEF Enqueue, TypeOK, Request
    <3>4. todo' \in [TaskKinds \X Instances -> Nat]
      BY <1>2, <2>10, <3>2 DEF Enqueue, TypeOK
    <3>. QED
      BY <1>2, <2>10, <3>3, <3>4 DEF Enqueue, TypeOK, record
  <2>11. ASSUME NEW k \in TaskKinds, NEW i \in Instances, TaskSucceeds(k, i)
         PROVE  TypeOK'
    <3>1. AfterSuccess(k) \in Statuses \ {"absent"}
      BY DEF AfterSuccess, TaskKinds, PowerKinds, RecordKinds, Statuses
    <3>2. todo' \in [TaskKinds \X Instances -> Nat]
      BY <1>2, <2>11 DEF TaskSucceeds, Concluded, TypeOK
    <3>. QED
      BY <1>2, <2>11, <3>1, <3>2, SetStatusFacts DEF TaskSucceeds, TypeOK
  <2>12. ASSUME NEW k \in TaskKinds, NEW i \in Instances, TaskFails(k, i)
         PROVE  TypeOK'
    BY <1>2, <2>12, FailureFacts DEF TaskFails, TypeOK
  <2>13. CASE Tick
    BY <1>2, <2>13 DEF Tick, TypeOK, record
  <2>14. ASSUME NEW i \in Instances, EnqueuePurge(i) PROVE TypeOK'
    BY <1>2, <2>14 DEF EnqueuePurge, TypeOK, record, TaskKinds
  <2>15. ASSUME NEW i \in Instances, ArchiveEnds(i) PROVE TypeOK'
    BY <1>2, <2>15 DEF ArchiveEnds, TypeOK
  <2>16. CASE ApiRestart
    BY <1>2, <2>16 DEF ApiRestart, TypeOK, record
  <2>. QED
    BY <1>2, <2>1, <2>2, <2>3, <2>4, <2>5, <2>6, <2>7, <2>8, <2>9, <2>10, <2>11,
       <2>12, <2>13, <2>14, <2>15, <2>16 DEF Next, Handle, Settle, Schedule
<1>. QED
  BY <1>1, <1>2, PTL DEF Spec
-----------------------------------------------------------------------------
\* A step that leaves the ports alone and brings instances to life only out of
\* the archive adds no clash.
LEMMA NoNewClash ==
  ASSUME ClashOnlyIfRevived, port' = port, revived \subseteq revived',
         \A j \in Instances : Live(j)' => Live(j) \/ j \in revived'
  PROVE  ClashOnlyIfRevived'
  BY DEF ClashOnlyIfRevived, Clash

\* Two live instances of a node share a name or a host port only if one of them
\* came back from the archive, for any handlers in any interleaving.
THEOREM ClashesOnlyByRevival == Spec => []ClashOnlyIfRevived
<1>1. Init => ClashOnlyIfRevived
  BY DEF Init, ClashOnlyIfRevived, Clash, Live
<1>2. ASSUME TypeOK, ClashOnlyIfRevived, [Next]_vars PROVE ClashOnlyIfRevived'
  <2>1. CASE UNCHANGED <<status, port, revived>>
    BY <1>2, <2>1 DEF ClashOnlyIfRevived, Clash, Live
  <2>2. ASSUME NEW c \in Clients, CommitCreate(c) PROVE ClashOnlyIfRevived'
    <3>1. request[c].kind # "none" /\ request[c].inst \in Instances
      BY <1>2, <2>2, RequestFacts DEF CommitCreate, InTransaction
    <3>. DEFINE i == request[c].inst
    <3>2. PICK p \in Allocated(i, request[c].port) :
            /\ status' = [status EXCEPT ![i] = "creating"]
            /\ port' = [port EXCEPT ![i] = p]
      BY <2>2 DEF CommitCreate
    <3>3. \A j \in Instances \ {i} : Live(j) =>
            Name[j] # Name[i] /\ (Protocol[j] = Protocol[i] => port[j] # p)
      BY <2>2, <3>1, <3>2, AllocatedFacts DEF CommitCreate, NameTaken
    <3>4. port'[i] = p /\ \A j \in Instances \ {i} : port'[j] = port[j] /\ (Live(j)' <=> Live(j))
      BY <1>2, <3>1, <3>2 DEF TypeOK, Live
    <3>5. revived' = revived
      BY <2>2 DEF CommitCreate
    <3>. QED
      BY <1>2, <3>1, <3>3, <3>4, <3>5 DEF ClashOnlyIfRevived, Clash
  <2>3. ASSUME NEW c \in Clients, CommitConfigure(c) PROVE ClashOnlyIfRevived'
    <3>1. request[c].kind # "none" /\ request[c].inst \in Instances
      BY <1>2, <2>3, RequestFacts DEF CommitConfigure, InTransaction
    <3>. DEFINE i == request[c].inst
    <3>2. PICK p \in Allocated(i, request[c].port) : port' = [port EXCEPT ![i] = p]
      BY <2>3 DEF CommitConfigure
    <3>3. \A j \in Instances \ {i} :
            Live(j) /\ Protocol[j] = Protocol[i] => port[j] # p
      BY <3>1, <3>2, AllocatedFacts
    <3>4. port'[i] = p /\ \A j \in Instances \ {i} : port'[j] = port[j]
      BY <1>2, <3>1, <3>2 DEF TypeOK
    <3>5. revived' = revived /\ \A j \in Instances : Live(j)' <=> Live(j)
      BY <2>3 DEF CommitConfigure, Live
    <3>. QED
      BY <1>2, <3>1, <3>3, <3>4, <3>5 DEF ClashOnlyIfRevived, Clash
  <2>4. ASSUME NEW c \in Clients, CommitArchive(c) PROVE ClashOnlyIfRevived'
    <3>1. request[c].inst \in Instances
      BY <1>2, <2>4, RequestFacts DEF CommitArchive, InTransaction
    <3>. QED
      BY <1>2, <2>4, <3>1, SetStatusFacts, NoNewClash DEF CommitArchive, Statuses
  <2>5. ASSUME NEW c \in Clients, CommitUnarchive(c) PROVE ClashOnlyIfRevived'
    <3>1. request[c].inst \in Instances
      BY <1>2, <2>5, RequestFacts DEF CommitUnarchive, InTransaction
    <3>. QED
      BY <1>2, <2>5, <3>1, SetStatusFacts, NoNewClash DEF CommitUnarchive, Statuses
  <2>6. ASSUME NEW c \in Clients, CommitRollback(c) PROVE ClashOnlyIfRevived'
    <3>1. request[c].inst \in Instances
      BY <1>2, <2>6, RequestFacts DEF CommitRollback, InTransaction
    <3>. QED
      BY <1>2, <2>6, <3>1, SetStatusFacts, NoNewClash DEF CommitRollback, Statuses
  <2>7. ASSUME NEW c \in Clients, CommitPower(c) PROVE ClashOnlyIfRevived'
    BY <1>2, <2>7, PowerFacts, NoNewClash DEF CommitPower
  <2>8. ASSUME NEW k \in TaskKinds, NEW i \in Instances, TaskSucceeds(k, i)
        PROVE  ClashOnlyIfRevived'
    <3>1. AfterSuccess(k) \in Statuses \ {"absent"}
      BY DEF AfterSuccess, TaskKinds, PowerKinds, RecordKinds, Statuses
    <3>. QED
      BY <1>2, <2>8, <3>1, SetStatusFacts, NoNewClash DEF TaskSucceeds
  <2>9. ASSUME NEW k \in TaskKinds, NEW i \in Instances, TaskFails(k, i)
        PROVE  ClashOnlyIfRevived'
    BY <1>2, <2>9, FailureFacts, NoNewClash DEF TaskFails
  <2>10. ASSUME NEW c \in Clients, Receive(c) \/ Refuse(c) \/ Enqueue(c)
         PROVE  UNCHANGED <<status, port, revived>>
    BY <2>10 DEF Receive, Refuse, Enqueue, record
  <2>11. ASSUME NEW i \in Instances, EnqueuePurge(i) \/ ArchiveEnds(i)
         PROVE  UNCHANGED <<status, port, revived>>
    BY <2>11 DEF EnqueuePurge, ArchiveEnds, record
  <2>12. ASSUME Tick \/ ApiRestart \/ UNCHANGED vars
         PROVE  UNCHANGED <<status, port, revived>>
    BY <2>12 DEF Tick, ApiRestart, record, vars
  <2>. QED
    BY <1>2, <2>1, <2>2, <2>3, <2>4, <2>5, <2>6, <2>7, <2>8, <2>9, <2>10, <2>11,
       <2>12 DEF Next, Handle, Settle, Schedule
<1>. QED
  BY <1>1, <1>2, TypeCorrect, PTL DEF Spec
-----------------------------------------------------------------------------
\* Whether the handler of r creates i.
Creates(r, i) == r # NoRequest /\ r.kind = "create" /\ r.inst = i

\* A step keeps CreationUnderWay when the creations it ends are of instances that
\* are not being created.
LEMMA CreationsGoOn ==
  ASSUME CreationUnderWay, restarts' = restarts,
         \A i \in Instances : status'[i] = "creating" =>
           /\ status[i] = "creating"
           /\ todo[<<"create", i>>] > 0 => todo'[<<"create", i>>] > 0
           /\ \A c \in Clients : Creates(request[c], i) =>
                Creates(request'[c], i) \/ todo'[<<"create", i>>] > 0
  PROVE  CreationUnderWay'
<1>. SUFFICES ASSUME restarts' = 0, NEW i \in Instances, status'[i] = "creating"
              PROVE  todo'[<<"create", i>>] > 0 \/ \E c \in Clients : Creates(request'[c], i)
  BY DEF CreationUnderWay, Creates
<1>1. todo[<<"create", i>>] > 0 \/ \E c \in Clients : Creates(request[c], i)
  BY DEF CreationUnderWay, Creates
<1>. QED
  BY <1>1

\* A step that changes no request and stores no instance keeps FreshCreation.
LEMMA FreshUnchanged ==
  ASSUME FreshCreation, request' = request,
         \A i \in Instances : status[i] = "absent" => status'[i] = "absent",
         TypeOK
  PROVE  FreshCreation'
  BY RequestFacts DEF FreshCreation, InTransaction

\* So does the step or the end of one handler, when it stores no instance but its own.
LEMMA FreshHandled ==
  ASSUME FreshCreation, TypeOK, NEW c \in Clients,
         \A d \in Clients \ {c} : request'[d] = request[d],
         request'[c] # NoRequest =>
           /\ request'[c].inst = request[c].inst /\ request[c] # NoRequest
           /\ request'[c].kind # "create" \/ request'[c].step # "commit",
         \A i \in Instances : status[i] = "absent" =>
           status'[i] = "absent" \/ (request[c] # NoRequest /\ request[c].inst = i)
  PROVE  FreshCreation'
<1>. SUFFICES ASSUME NEW d \in Clients, InTransaction(d, "create")'
              PROVE  /\ status'[request'[d].inst] = "absent"
                     /\ \A e \in Clients \ {d} : request'[e] # NoRequest =>
                          request'[e].inst # request'[d].inst
  BY DEF FreshCreation
<1>1. d # c
  BY DEF InTransaction, NoRequest
<1>2. request'[d] = request[d] /\ InTransaction(d, "create")
  BY <1>1 DEF InTransaction
<1>3. request[d].inst \in Instances
  BY <1>2, RequestFacts DEF InTransaction
<1>4. /\ status[request[d].inst] = "absent"
      /\ \A e \in Clients \ {d} : request[e] # NoRequest =>
           request[e].inst # request[d].inst
  BY <1>2 DEF FreshCreation
<1>. QED
  BY <1>1, <1>2, <1>3, <1>4
\* FreshCreation and CreationUnderWay together are inductive.
LEMMA CreationInvariant == Spec => [](FreshCreation /\ CreationUnderWay)
<1>1. Init => FreshCreation /\ CreationUnderWay
  BY DEF Init, FreshCreation, CreationUnderWay, InTransaction, NoRequest
<1>2. ASSUME TypeOK, FreshCreation, CreationUnderWay, [Next]_vars
      PROVE  FreshCreation' /\ CreationUnderWay'
  <2>1. CASE UNCHANGED <<status, request, todo, restarts>>
    BY <1>2, <2>1 DEF FreshCreation, CreationUnderWay, InTransaction
  <2>2. ASSUME NEW c \in Clients, Receive(c) PROVE FreshCreation' /\ CreationUnderWay'
    <3>1. PICK r \in Request :
            /\ request' = [request EXCEPT ![c] = r] /\ Accepted(r.kind, r.inst)
            /\ r.kind \in PowerKinds => r.step = "enqueue"
      <4>1. PICK k \in Kinds, i \in Instances :
              /\ Accepted(k, i)
              /\ \E q \in RequestedPorts(k) :
                   request' = [request EXCEPT ![c] =
                     [kind |-> k, inst |-> i, port |-> q,
                      step |-> IF k \in PowerKinds THEN "enqueue" ELSE "commit"]]
        BY <2>2 DEF Receive
      <4>2. RequestedPorts(k) \subseteq Wanted \cup {AnyPort}
        BY DEF RequestedPorts
      <4>3. PICK q \in Wanted \cup {AnyPort} :
              request' = [request EXCEPT ![c] =
                [kind |-> k, inst |-> i, port |-> q,
                 step |-> IF k \in PowerKinds THEN "enqueue" ELSE "commit"]]
        BY <4>1, <4>2
      <4>. DEFINE r == [kind |-> k, inst |-> i, port |-> q,
                        step |-> IF k \in PowerKinds THEN "enqueue" ELSE "commit"]
      <4>4. /\ r \in Request /\ r.kind = k /\ r.inst = i
            /\ k \in PowerKinds => r.step = "enqueue"
        BY DEF Request
      <4>5. request' = [request EXCEPT ![c] = r] /\ Accepted(r.kind, r.inst)
        BY <4>1, <4>3, <4>4
      <4>. HIDE DEF r
      <4>. QED
        BY <4>4, <4>5
    <3>2. /\ request[c] = NoRequest /\ request'[c] = r
          /\ \A d \in Clients \ {c} : request'[d] = request[d]
          /\ status' = status /\ todo' = todo /\ restarts' = restarts
      BY <1>2, <2>2, <3>1 DEF Receive, record, TypeOK
    <3>3. FreshCreation'
      <4>. SUFFICES ASSUME NEW d \in Clients, InTransaction(d, "create")'
                    PROVE  /\ status[request'[d].inst] = "absent"
                           /\ \A e \in Clients \ {d} : request'[e] # NoRequest =>
                                request'[e].inst # request'[d].inst
        BY <3>2 DEF FreshCreation
      <4>1. CASE d = c
        <5>1. r.kind = "create"
          BY <3>2, <4>1 DEF InTransaction
        <5>2. /\ status[r.inst] = "absent"
              /\ \A e \in Clients : request[e] # NoRequest => request[e].inst # r.inst
          BY <3>1, <5>1 DEF Accepted
        <5>. QED
          BY <3>2, <4>1, <5>2
      <4>2. CASE d # c
        <5>1. InTransaction(d, "create") /\ request'[d] = request[d]
          BY <3>2, <4>2 DEF InTransaction
        <5>2. /\ status[request[d].inst] = "absent"
              /\ \A e \in Clients \ {d} : request[e] # NoRequest =>
                   request[e].inst # request[d].inst
          BY <1>2, <5>1 DEF FreshCreation
        <5>3. r.inst # request[d].inst
          <6>. SUFFICES ASSUME r.inst = request[d].inst PROVE FALSE
            OBVIOUS
          <6>1. request[d] # NoRequest /\ r.kind \in Kinds
            BY <1>2, <5>1, RequestFacts DEF InTransaction, Request
          <6>2. r.kind = "create"
            BY <3>1, <5>2 DEF Accepted, Live
          <6>. QED
            BY <3>1, <6>1, <6>2 DEF Accepted
        <5>. QED
          BY <3>2, <4>2, <5>1, <5>2, <5>3
      <4>. QED
        BY <4>1, <4>2
    <3>4. \A d \in Clients, i \in Instances : Creates(request[d], i) => Creates(request'[d], i)
      BY <3>2 DEF Creates
    <3>. QED
      BY <1>2, <3>2, <3>3, <3>4, CreationsGoOn
  <2>3. ASSUME NEW c \in Clients, CommitCreate(c)
        PROVE  FreshCreation' /\ CreationUnderWay'
    <3>1. /\ request[c].kind = "create" /\ request[c].step = "commit"
          /\ request[c] \in Request /\ request[c] # NoRequest
          /\ request[c].inst \in Instances
      BY <1>2, <2>3, RequestFacts DEF CommitCreate, InTransaction
    <3>2. request' = [request EXCEPT ![c].step = "enqueue"]
      BY <2>3 DEF CommitCreate, ThenEnqueue
    <3>3. /\ request'[c] # NoRequest /\ request'[c].kind = "create"
          /\ request'[c].inst = request[c].inst /\ request'[c].step = "enqueue"
          /\ \A d \in Clients \ {c} : request'[d] = request[d]
      BY <1>2, <3>1, <3>2 DEF TypeOK, Request, NoRequest
    <3>4. /\ status' = [status EXCEPT ![request[c].inst] = "creating"]
          /\ todo' = todo /\ restarts' = restarts
      BY <2>3 DEF CommitCreate
    <3>5. FreshCreation'
      BY <1>2, <3>1, <3>3, <3>4, FreshHandled DEF TypeOK
    <3>6. Creates(request'[c], request[c].inst)
      BY <3>3 DEF Creates
    <3>7. \A d \in Clients, i \in Instances : Creates(request[d], i) => Creates(request'[d], i)
      BY <3>1, <3>3 DEF Creates
    <3>8. ASSUME restarts' = 0, NEW i \in Instances, status'[i] = "creating"
          PROVE  todo'[<<"create", i>>] > 0 \/ \E d \in Clients : Creates(request'[d], i)
      <4>1. CASE i = request[c].inst
        BY <3>6, <4>1
      <4>2. CASE i # request[c].inst
        <5>1. status[i] = "creating"
          BY <1>2, <3>1, <3>4, <3>8, <4>2 DEF TypeOK
        <5>2. todo[<<"create", i>>] > 0 \/ \E d \in Clients : Creates(request[d], i)
          BY <1>2, <3>4, <3>8, <5>1 DEF CreationUnderWay, Creates
        <5>. QED
          BY <3>4, <3>7, <5>2
      <4>. QED
        BY <4>1, <4>2
    <3>. QED
      BY <3>5, <3>8 DEF CreationUnderWay, Creates
  <2>4. ASSUME NEW c \in Clients, Refuse(c) PROVE FreshCreation' /\ CreationUnderWay'
    <3>1. /\ request[c].kind # "none" /\ request[c] # NoRequest
          /\ request[c].inst \in Instances
          /\ request[c].kind = "create" => InTransaction(c, "create")
      BY <1>2, <2>4, RequestFacts DEF Refuse, InTransaction
    <3>2. /\ request'[c] = NoRequest /\ \A d \in Clients \ {c} : request'[d] = request[d]
          /\ status' = status /\ todo' = todo /\ restarts' = restarts
      BY <1>2, <2>4 DEF Refuse, Answered, record, TypeOK
    <3>3. FreshCreation'
      BY <1>2, <3>1, <3>2, FreshHandled
    <3>4. \A i \in Instances : status[i] = "creating" => ~Creates(request[c], i)
      BY <1>2, <3>1 DEF FreshCreation, Creates
    <3>5. \A d \in Clients, i \in Instances :
            status[i] = "creating" /\ Creates(request[d], i) => Creates(request'[d], i)
      BY <3>2, <3>4 DEF Creates
    <3>. QED
      BY <1>2, <3>2, <3>3, <3>5, CreationsGoOn
  <2>5. ASSUME NEW c \in Clients, CommitConfigure(c) PROVE FreshCreation' /\ CreationUnderWay'
    <3>1. /\ request[c].kind # "none" /\ request[c].kind # "create"
          /\ request[c] # NoRequest /\ request[c].inst \in Instances
      BY <1>2, <2>5, RequestFacts DEF CommitConfigure, InTransaction
    <3>2. /\ \A d \in Clients \ {c} : request'[d] = request[d]
          /\ request'[c] # NoRequest =>
               /\ request'[c].kind = request[c].kind
               /\ request'[c].inst = request[c].inst /\ request'[c].step = "enqueue"
      BY <1>2, <2>5, <3>1, NextRequest DEF CommitConfigure
    <3>3. \A i \in Instances : /\ status[i] = "absent" => status'[i] = "absent"
                               /\ status'[i] = "creating" => status[i] = "creating"
      BY <2>5 DEF CommitConfigure
    <3>4. restarts' = restarts /\ todo' = todo
      BY <2>5 DEF CommitConfigure
    <3>5. FreshCreation'
      BY <1>2, <3>1, <3>2, <3>3, FreshHandled
    <3>6. \A d \in Clients, i \in Instances : Creates(request[d], i) => Creates(request'[d], i)
      BY <3>1, <3>2 DEF Creates
    <3>. QED
      BY <1>2, <3>3, <3>4, <3>5, <3>6, CreationsGoOn
  <2>6. ASSUME NEW c \in Clients, CommitArchive(c) PROVE FreshCreation' /\ CreationUnderWay'
    <3>1. /\ request[c].kind # "none" /\ request[c].kind # "create"
          /\ request[c] # NoRequest /\ request[c].inst \in Instances
      BY <1>2, <2>6, RequestFacts DEF CommitArchive, InTransaction
    <3>2. /\ \A d \in Clients \ {c} : request'[d] = request[d]
          /\ request'[c] # NoRequest =>
               /\ request'[c].kind = request[c].kind
               /\ request'[c].inst = request[c].inst /\ request'[c].step = "enqueue"
      BY <1>2, <2>6, <3>1, NextRequest DEF CommitArchive
    <3>3. \A i \in Instances : /\ status[i] = "absent" => status'[i] = "absent"
                               /\ status'[i] = "creating" => status[i] = "creating"
      BY <1>2, <2>6, <3>1, SetStatusFacts DEF CommitArchive, Statuses
    <3>4. restarts' = restarts /\ todo' = todo
      BY <2>6 DEF CommitArchive
    <3>5. FreshCreation'
      BY <1>2, <3>1, <3>2, <3>3, FreshHandled
    <3>6. \A d \in Clients, i \in Instances : Creates(request[d], i) => Creates(request'[d], i)
      BY <3>1, <3>2 DEF Creates
    <3>. QED
      BY <1>2, <3>3, <3>4, <3>5, <3>6, CreationsGoOn
  <2>7. ASSUME NEW c \in Clients, CommitUnarchive(c) PROVE FreshCreation' /\ CreationUnderWay'
    <3>1. /\ request[c].kind # "none" /\ request[c].kind # "create"
          /\ request[c] # NoRequest /\ request[c].inst \in Instances
      BY <1>2, <2>7, RequestFacts DEF CommitUnarchive, InTransaction
    <3>2. /\ \A d \in Clients \ {c} : request'[d] = request[d]
          /\ request'[c] # NoRequest =>
               /\ request'[c].kind = request[c].kind
               /\ request'[c].inst = request[c].inst /\ request'[c].step = "enqueue"
      BY <1>2, <2>7, <3>1, NextRequest DEF CommitUnarchive
    <3>3. \A i \in Instances : /\ status[i] = "absent" => status'[i] = "absent"
                               /\ status'[i] = "creating" => status[i] = "creating"
      BY <1>2, <2>7, <3>1, SetStatusFacts DEF CommitUnarchive, Statuses
    <3>4. restarts' = restarts /\ todo' = todo
      BY <2>7 DEF CommitUnarchive
    <3>5. FreshCreation'
      BY <1>2, <3>1, <3>2, <3>3, FreshHandled
    <3>6. \A d \in Clients, i \in Instances : Creates(request[d], i) => Creates(request'[d], i)
      BY <3>1, <3>2 DEF Creates
    <3>. QED
      BY <1>2, <3>3, <3>4, <3>5, <3>6, CreationsGoOn
  <2>8. ASSUME NEW c \in Clients, CommitRollback(c) PROVE FreshCreation' /\ CreationUnderWay'
    <3>1. /\ request[c].kind # "none" /\ request[c].kind # "create"
          /\ request[c] # NoRequest /\ request[c].inst \in Instances
      BY <1>2, <2>8, RequestFacts DEF CommitRollback, InTransaction
    <3>2. /\ \A d \in Clients \ {c} : request'[d] = request[d]
          /\ request'[c] # NoRequest =>
               /\ request'[c].kind = request[c].kind
               /\ request'[c].inst = request[c].inst /\ request'[c].step = "enqueue"
      BY <1>2, <2>8, <3>1, NextRequest DEF CommitRollback
    <3>3. \A i \in Instances : /\ status[i] = "absent" => status'[i] = "absent"
                               /\ status'[i] = "creating" => status[i] = "creating"
      BY <1>2, <2>8, <3>1, SetStatusFacts DEF CommitRollback, Statuses
    <3>4. restarts' = restarts /\ todo' = todo
      BY <2>8 DEF CommitRollback
    <3>5. FreshCreation'
      BY <1>2, <3>1, <3>2, <3>3, FreshHandled
    <3>6. \A d \in Clients, i \in Instances : Creates(request[d], i) => Creates(request'[d], i)
      BY <3>1, <3>2 DEF Creates
    <3>. QED
      BY <1>2, <3>3, <3>4, <3>5, <3>6, CreationsGoOn
  <2>9. ASSUME NEW c \in Clients, CommitPower(c)
        PROVE  FreshCreation' /\ CreationUnderWay'
    <3>1. /\ request[c].kind \in PowerKinds /\ request[c].kind # "create"
          /\ request'[c] = NoRequest /\ \A d \in Clients \ {c} : request'[d] = request[d]
          /\ \A i \in Instances : /\ status[i] = "absent" => status'[i] = "absent"
                                  /\ status'[i] = "creating" => status[i] = "creating"
      BY <1>2, <2>9, PowerFacts DEF PowerKinds, TypeOK
    <3>2. todo' = todo /\ restarts' = restarts
      BY <2>9 DEF CommitPower
    <3>3. FreshCreation'
      BY <1>2, <3>1, FreshHandled
    <3>4. \A d \in Clients, i \in Instances : Creates(request[d], i) => Creates(request'[d], i)
      BY <3>1 DEF Creates
    <3>. QED
      BY <1>2, <3>1, <3>2, <3>3, <3>4, CreationsGoOn
  <2>10. ASSUME NEW c \in Clients, Enqueue(c) PROVE FreshCreation' /\ CreationUnderWay'
    <3>1. /\ request[c] \in Request /\ request[c] # NoRequest
          /\ request[c].step = "enqueue"
          /\ status' = status /\ restarts' = restarts
      BY <1>2, <2>10 DEF Enqueue, TypeOK, record
    <3>2. request[c].kind \in TaskKinds /\ request[c].inst \in Instances
      BY <3>1, KindFacts DEF Request
    <3>3. todo' = [todo EXCEPT ![<<request[c].kind, request[c].inst>>] = @ + 1]
      BY <2>10 DEF Enqueue
    <3>4. \A i \in Instances :
            /\ todo[<<"create", i>>] > 0 => todo'[<<"create", i>>] > 0
            /\ Creates(request[c], i) => todo'[<<"create", i>>] > 0
      BY <1>2, <3>2, <3>3 DEF TypeOK, Creates, TaskKinds, RecordKinds
    <3>5. /\ \A d \in Clients \ {c} : request'[d] = request[d]
          /\ request'[c] # NoRequest =>
               /\ request'[c].kind \in PowerKinds /\ request'[c].kind # "create"
               /\ request'[c].inst = request[c].inst
      BY <1>2, <2>10, <3>1 DEF Enqueue, TypeOK, Request, PowerKinds
    <3>6. FreshCreation'
      BY <1>2, <3>1, <3>5, FreshHandled
    <3>7. \A d \in Clients, i \in Instances :
            Creates(request[d], i) => Creates(request'[d], i) \/ todo'[<<"create", i>>] > 0
      BY <3>4, <3>5 DEF Creates
    <3>. QED
      BY <1>2, <3>1, <3>4, <3>6, <3>7, CreationsGoOn
  <2>11. ASSUME NEW k \in TaskKinds, NEW i \in Instances, TaskSucceeds(k, i)
         PROVE  FreshCreation' /\ CreationUnderWay'
    <3>1. AfterSuccess(k) \in Statuses \ {"absent", "creating"}
      BY DEF AfterSuccess, TaskKinds, PowerKinds, RecordKinds, Statuses
    <3>2. \A j \in Instances :
            /\ status[j] = "absent" => status'[j] = "absent"
            /\ status'[j] = "creating" => j # i /\ status[j] = "creating"
      BY <1>2, <2>11, <3>1 DEF TaskSucceeds, SetStatus, TypeOK
    <3>3. \A j \in Instances \ {i} : todo'[<<"create", j>>] = todo[<<"create", j>>]
      BY <1>2, <2>11 DEF TaskSucceeds, Concluded, TypeOK, TaskKinds, RecordKinds
    <3>4. request' = request /\ restarts' = restarts
      BY <2>11 DEF TaskSucceeds
    <3>5. FreshCreation'
      BY <1>2, <3>2, <3>4, FreshUnchanged
    <3>. QED
      BY <1>2, <3>2, <3>3, <3>4, <3>5, CreationsGoOn DEF Creates
  <2>12. ASSUME NEW k \in TaskKinds, NEW i \in Instances, TaskFails(k, i)
         PROVE  FreshCreation' /\ CreationUnderWay'
    <3>1. request' = request /\ restarts' = restarts
      BY <2>12 DEF TaskFails
    <3>2. FreshCreation'
      BY <1>2, <2>12, <3>1, FailureFacts, FreshUnchanged
    <3>. QED
      BY <1>2, <2>12, <3>1, <3>2, FailureFacts, CreationsGoOn DEF Creates
  <2>13. ASSUME NEW i \in Instances, EnqueuePurge(i)
         PROVE  FreshCreation' /\ CreationUnderWay'
    <3>1. /\ request' = request /\ restarts' = restarts /\ status' = status
          /\ \A j \in Instances : todo'[<<"create", j>>] = todo[<<"create", j>>]
      BY <1>2, <2>13 DEF EnqueuePurge, record, TypeOK, TaskKinds, RecordKinds
    <3>2. FreshCreation'
      BY <1>2, <3>1, FreshUnchanged
    <3>. QED
      BY <1>2, <3>1, <3>2, CreationsGoOn DEF Creates
  <2>14. CASE ApiRestart
    <3>1. restarts' # 0
      BY <1>2, <2>14 DEF ApiRestart, TypeOK
    <3>2. \A c \in Clients : ~InTransaction(c, "create")'
      BY <1>2, <2>14 DEF ApiRestart, InTransaction, NoRequest
    <3>. QED
      BY <3>1, <3>2 DEF CreationUnderWay, FreshCreation
  <2>15. ASSUME Tick \/ (\E i \in Instances : ArchiveEnds(i)) \/ UNCHANGED vars
         PROVE  UNCHANGED <<status, request, todo, restarts>>
    BY <2>15 DEF Tick, ArchiveEnds, record, vars
  <2>. QED
    BY <1>2, <2>1, <2>2, <2>3, <2>4, <2>5, <2>6, <2>7, <2>8, <2>9, <2>10, <2>11,
       <2>12, <2>13, <2>14, <2>15 DEF Next, Handle, Settle, Schedule
<1>. QED
  BY <1>1, <1>2, TypeCorrect, PTL DEF Spec
\* While the panel lives, an instance being created has its handler or its task:
\* no refusal, failure or result leaves a creation nobody works on.
THEOREM CreationsAreUnderWay == Spec => []CreationUnderWay
  BY CreationInvariant, PTL

-----------------------------------------------------------------------------
\* A step keeps ArchiveInv if no instance that stays away from the archive gets a task
\* or handler that would archive it, and none with a date leaves the archive unnoticed.
LEMMA ArchiveGoesOn ==
  ASSUME ArchiveInv, revived \subseteq revived',
         \A i \in Instances : Unarchived(i)' => archive[i] = "none",
         \A i \in Instances : Unarchived(i) /\ Untouched(i) /\ Unarchived(i)' =>
           /\ status'[i] # "archived"
           /\ todo'[<<"archive", i>>] = 0 /\ todo'[<<"purge", i>>] = 0 /\ i \notin purging'
           /\ \A c \in Clients : ~Archives(request'[c], i),
         \A i \in Instances : archive'[i] # "none" =>
           \/ status'[i] = "archived" \/ i \in revived'
           \/ archive[i] # "none" /\ status[i] # "archived",
         \A c \in Clients : request'[c] # NoRequest /\ request'[c].kind # "create" =>
           status'[request'[c].inst] # "absent"
  PROVE  ArchiveInv'
  BY DEF ArchiveInv, Unarchived, Untouched

\* Handlers keep their instances, and stored ones stay stored.
LEMMA HandlersStay ==
  ASSUME TypeOK, ArchiveInv, NEW c \in Clients,
         \A d \in Clients \ {c} : request'[d] = request[d],
         request'[c] # NoRequest =>
           /\ request[c] # NoRequest /\ request'[c].inst = request[c].inst
           /\ request'[c].kind = request[c].kind,
         \A i \in Instances : status[i] # "absent" => status'[i] # "absent"
  PROVE  \A d \in Clients : request'[d] # NoRequest /\ request'[d].kind # "create" =>
           status'[request'[d].inst] # "absent"
<1>. SUFFICES ASSUME NEW d \in Clients, request'[d] # NoRequest, request'[d].kind # "create"
              PROVE  status'[request'[d].inst] # "absent"
  OBVIOUS
<1>1. request[d] # NoRequest /\ request'[d].inst = request[d].inst
      /\ request'[d].kind = request[d].kind
  BY DEF TypeOK
<1>2. request[d].inst \in Instances /\ status[request[d].inst] # "absent"
  BY <1>1 DEF ArchiveInv, TypeOK, Request
<1>. QED
  BY <1>1, <1>2

\* An assignment to the status: an instance that becomes archived by it, and one that
\* leaves the archive by it.
LEMMA StatusAndArchive ==
  ASSUME TypeOK, NEW i \in Instances, NEW s \in Statuses \ {"absent"}, SetStatus(i, s)
  PROVE  /\ \A j \in Instances : status'[j] = "archived" =>
              status[j] = "archived" \/ (j = i /\ s = "archived")
         /\ \A j \in Instances : status[j] = "archived" =>
              status'[j] = "archived" \/ j \in revived'
         /\ status[i] # "absent" => status'[i] = s
  BY DEF SetStatus, TypeOK, Statuses

\* An archived instance without a date has left the archive before, whatever order the
\* handlers, the results and the scheduler come in.
THEOREM StuckOnlyByRevival == Spec => []StuckOnlyIfRevived
<1>1. Init => ArchiveInv
  BY DEF Init, ArchiveInv, Unarchived, Untouched, Archives, NoRequest, TaskKinds, RecordKinds
<1>2. ASSUME TypeOK, FreshCreation, ArchiveInv, [Next]_vars PROVE ArchiveInv'
  <2>. USE <1>2
  <2>1. CASE UNCHANGED vars
    BY <2>1 DEF vars, record, ArchiveInv, Unarchived, Untouched
  <2>2. ASSUME NEW c \in Clients, Receive(c) PROVE ArchiveInv'
    <3>1. PICK k \in Kinds, i \in Instances :
            /\ Accepted(k, i)
            /\ \E q \in RequestedPorts(k) :
                 request' = [request EXCEPT ![c] =
                   [kind |-> k, inst |-> i, port |-> q,
                    step |-> IF k \in PowerKinds THEN "enqueue" ELSE "commit"]]
      BY <2>2 DEF Receive
    <3>2. /\ request'[c].kind = k /\ request'[c].inst = i
          /\ k \notin PowerKinds => request'[c].step = "commit"
          /\ \A d \in Clients \ {c} : request'[d] = request[d]
      BY <3>1 DEF TypeOK
    <3>3. k # "create" => status[i] # "absent"
      BY <3>1 DEF Accepted, Live
    <3>4. UNCHANGED <<status, archive, revived, purging, todo>>
      BY <2>2 DEF Receive, record
    <3>. QED
      BY <3>2, <3>3, <3>4
      DEF ArchiveInv, Unarchived, Untouched, Archives, PowerKinds
  <2>3. ASSUME NEW c \in Clients, CommitCreate(c) PROVE ArchiveInv'
    <3>1. /\ request[c].kind = "create" /\ request[c] # NoRequest
          /\ request[c].inst \in Instances /\ status[request[c].inst] = "absent"
      BY <2>3, RequestFacts DEF CommitCreate, InTransaction, FreshCreation
    <3>2. /\ \A d \in Clients \ {c} : request'[d] = request[d]
          /\ request'[c] # NoRequest =>
               /\ request'[c].kind = request[c].kind
               /\ request'[c].inst = request[c].inst /\ request'[c].step = "enqueue"
      BY <2>3, <3>1, NextRequest DEF CommitCreate
    <3>3. /\ \A i \in Instances : status'[i] = status[i]
                                  \/ (status[i] = "absent" /\ status'[i] = "creating")
          /\ UNCHANGED <<archive, revived, purging, todo>>
      BY <2>3, <3>1 DEF CommitCreate, TypeOK
    <3>4. \A d \in Clients : request'[d] # NoRequest /\ request'[d].kind # "create" =>
            status'[request'[d].inst] # "absent"
      BY <3>1, <3>2, <3>3, HandlersStay
    <3>5. \A i \in Instances, d \in Clients : Archives(request'[d], i) => Archives(request[d], i)
      BY <3>1, <3>2 DEF Archives
    <3>. QED
      BY <3>3, <3>4, <3>5, ArchiveGoesOn DEF Unarchived, Untouched
  <2>4. ASSUME NEW c \in Clients, CommitConfigure(c) \/ CommitRollback(c) PROVE ArchiveInv'
    <3>1. /\ request[c].kind \in {"configure", "rollback"} /\ request[c] # NoRequest
          /\ request[c].inst \in Instances
      BY <2>4, RequestFacts DEF CommitConfigure, CommitRollback, InTransaction
    <3>2. /\ \A d \in Clients \ {c} : request'[d] = request[d]
          /\ request'[c] # NoRequest =>
               /\ request'[c].kind = request[c].kind
               /\ request'[c].inst = request[c].inst /\ request'[c].step = "enqueue"
      BY <2>4, <3>1, NextRequest DEF CommitConfigure, CommitRollback
    <3>3. /\ revived \subseteq revived'
          /\ \A i \in Instances : status[i] # "absent" => status'[i] # "absent"
          /\ \A i \in Instances : status'[i] = "archived" => status[i] = "archived"
          /\ \A i \in Instances : status[i] = "archived" =>
               status'[i] = "archived" \/ i \in revived'
          /\ UNCHANGED <<archive, purging, todo>>
      <4>1. CASE CommitConfigure(c)
        BY <4>1 DEF CommitConfigure
      <4>2. CASE CommitRollback(c)
        BY <4>2, <3>1, SetStatusFacts, StatusAndArchive DEF CommitRollback, Statuses
      <4>. QED
        BY <2>4, <4>1, <4>2
    <3>4. \A d \in Clients : request'[d] # NoRequest /\ request'[d].kind # "create" =>
            status'[request'[d].inst] # "absent"
      BY <3>1, <3>2, <3>3, HandlersStay
    <3>5. \A i \in Instances, d \in Clients : Archives(request'[d], i) => Archives(request[d], i)
      BY <3>1, <3>2 DEF Archives
    <3>. QED
      BY <3>3, <3>4, <3>5, ArchiveGoesOn DEF Unarchived, Untouched
  <2>5. ASSUME NEW c \in Clients, Refuse(c) PROVE ArchiveInv'
    <3>1. /\ \A d \in Clients \ {c} : request'[d] = request[d]
          /\ request'[c] = NoRequest
          /\ UNCHANGED <<status, archive, revived, purging, todo>>
      BY <2>5 DEF Refuse, Answered, record, TypeOK
    <3>. QED
      BY <3>1 DEF ArchiveInv, Unarchived, Untouched, Archives
  <2>6. ASSUME NEW c \in Clients, CommitArchive(c) PROVE ArchiveInv'
    <3>. DEFINE i == request[c].inst
    <3>1. /\ request[c].kind = "archive" /\ request[c] # NoRequest /\ i \in Instances
      BY <2>6, RequestFacts DEF CommitArchive, InTransaction
    <3>2. /\ \A d \in Clients \ {c} : request'[d] = request[d]
          /\ request'[c] # NoRequest =>
               /\ request'[c].kind = request[c].kind
               /\ request'[c].inst = request[c].inst /\ request'[c].step = "enqueue"
      BY <2>6, <3>1, NextRequest DEF CommitArchive
    <3>3. /\ revived \subseteq revived' /\ status'[i] = "archived"
          /\ \A j \in Instances : status[j] # "absent" => status'[j] # "absent"
          /\ \A j \in Instances \ {i} : status'[j] = status[j]
      <4>1. status[i] # "absent"
        BY <3>1 DEF ArchiveInv
      <4>. QED
        BY <2>6, <3>1, <4>1, SetStatusFacts, StatusAndArchive DEF CommitArchive, Statuses
    <3>4. /\ archive'[i] = "open" /\ \A j \in Instances \ {i} : archive'[j] = archive[j]
          /\ UNCHANGED <<purging, todo>>
      BY <2>6, <3>1 DEF CommitArchive, TypeOK
    <3>5. \A d \in Clients : request'[d] # NoRequest /\ request'[d].kind # "create" =>
            status'[request'[d].inst] # "absent"
      BY <3>1, <3>2, <3>3, HandlersStay
    <3>6. \A j \in Instances \ {i}, d \in Clients :
            Archives(request'[d], j) => Archives(request[d], j)
      BY <3>1, <3>2 DEF Archives
    <3>. QED
      BY <3>1, <3>3, <3>4, <3>5, <3>6, ArchiveGoesOn DEF Unarchived, Untouched
  <2>7. ASSUME NEW c \in Clients, CommitUnarchive(c) PROVE ArchiveInv'
    <3>. DEFINE i == request[c].inst
    <3>1. /\ request[c].kind = "unarchive" /\ request[c] # NoRequest /\ i \in Instances
      BY <2>7, RequestFacts DEF CommitUnarchive, InTransaction
    <3>2. /\ \A d \in Clients \ {c} : request'[d] = request[d]
          /\ request'[c] # NoRequest =>
               /\ request'[c].kind = request[c].kind
               /\ request'[c].inst = request[c].inst /\ request'[c].step = "enqueue"
      BY <2>7, <3>1, NextRequest DEF CommitUnarchive
    <3>3. /\ revived \subseteq revived'
          /\ status[i] = "archived" => i \in revived'
          /\ status'[i] # "archived"
          /\ \A j \in Instances : status[j] # "absent" => status'[j] # "absent"
          /\ \A j \in Instances \ {i} : status'[j] = status[j]
      <4>1. status[i] # "absent" /\ SetStatus(i, "offline") /\ "offline" \in Statuses \ {"absent"}
        BY <2>7, <3>1 DEF ArchiveInv, CommitUnarchive, Statuses
      <4>2. status'[i] = "offline"
        BY <3>1, <4>1, StatusAndArchive
      <4>. QED
        BY <3>1, <4>1, <4>2, SetStatusFacts, StatusAndArchive
    <3>4. /\ archive'[i] = "none" /\ \A j \in Instances \ {i} : archive'[j] = archive[j]
          /\ UNCHANGED <<purging, todo>>
      BY <2>7, <3>1 DEF CommitUnarchive, TypeOK
    <3>5. \A d \in Clients : request'[d] # NoRequest /\ request'[d].kind # "create" =>
            status'[request'[d].inst] # "absent"
      BY <3>1, <3>2, <3>3, HandlersStay
    <3>6. \A j \in Instances, d \in Clients :
            Archives(request'[d], j) => Archives(request[d], j)
      BY <3>1, <3>2 DEF Archives
    <3>7. archive[i] = "none" \/ i \in revived'
      BY <3>1, <3>3 DEF ArchiveInv
    <3>. QED
      BY <3>1, <3>3, <3>4, <3>5, <3>6, <3>7, ArchiveGoesOn DEF Unarchived, Untouched
  <2>8. ASSUME NEW c \in Clients, CommitPower(c) PROVE ArchiveInv'
    <3>1. /\ request[c].kind \in PowerKinds /\ request[c].inst \in Instances
          /\ \A d \in Clients \ {c} : request'[d] = request[d]
          /\ request'[c] = NoRequest /\ revived \subseteq revived'
          /\ \A j \in Instances : status[j] # "absent" => status'[j] # "absent"
      BY <2>8, PowerFacts DEF TypeOK
    <3>2. UNCHANGED <<archive, purging, todo>>
      BY <2>8 DEF CommitPower
    <3>3. \A j \in Instances :
            /\ status'[j] = "archived" => status[j] = "archived"
            /\ status[j] = "archived" => status'[j] = "archived" \/ j \in revived'
      <4>1. CASE request[c].kind \in {"start", "stop"}
        <5>1. PICK s \in {"starting", "stopping"} : SetStatus(request[c].inst, s)
          BY <2>8, <4>1 DEF CommitPower
        <5>. QED
          BY <3>1, <5>1, StatusAndArchive DEF Statuses
      <4>2. CASE request[c].kind \notin {"start", "stop"}
        <5>1. SetStatus(request[c].inst, status[request[c].inst])
          BY <2>8, <4>2 DEF CommitPower
        <5>. QED
          BY <3>1, <5>1, SameStatusFacts
      <4>. QED
        BY <4>1, <4>2
    <3>4. \A d \in Clients : request'[d] # NoRequest /\ request'[d].kind # "create" =>
            status'[request'[d].inst] # "absent"
      BY <3>1, HandlersStay
    <3>5. \A i \in Instances, d \in Clients : Archives(request'[d], i) => Archives(request[d], i)
      BY <3>1 DEF Archives
    <3>. QED
      BY <3>1, <3>2, <3>3, <3>4, <3>5, ArchiveGoesOn DEF Unarchived, Untouched
  <2>9. ASSUME NEW c \in Clients, Enqueue(c) PROVE ArchiveInv'
    <3>1. /\ request[c] \in Request /\ request[c] # NoRequest /\ request[c].step = "enqueue"
          /\ UNCHANGED <<status, archive, revived, purging>>
      BY <2>9 DEF Enqueue, TypeOK, record
    <3>2. /\ request[c].kind \in TaskKinds /\ request[c].kind # "purge"
          /\ request[c].inst \in Instances
      BY <3>1, KindFacts DEF Request
    <3>3. todo' = [todo EXCEPT ![<<request[c].kind, request[c].inst>>] = @ + 1]
      BY <2>9 DEF Enqueue
    <3>4. \A i \in Instances :
            /\ todo'[<<"purge", i>>] = todo[<<"purge", i>>]
            /\ ~Archives(request[c], i) => todo'[<<"archive", i>>] = todo[<<"archive", i>>]
      BY <3>1, <3>2, <3>3 DEF TypeOK, Archives, TaskKinds, RecordKinds
    <3>5. /\ \A d \in Clients \ {c} : request'[d] = request[d]
          /\ request'[c] # NoRequest =>
               /\ request'[c].kind \in PowerKinds /\ request'[c].kind = request[c].kind
               /\ request'[c].inst = request[c].inst
      BY <2>9, <3>1 DEF Enqueue, TypeOK, Request
    <3>6. \A d \in Clients : request'[d] # NoRequest /\ request'[d].kind # "create" =>
            status'[request'[d].inst] # "absent"
      BY <3>1, <3>5, HandlersStay
    <3>7. \A i \in Instances, d \in Clients : Archives(request'[d], i) => Archives(request[d], i)
      BY <3>1, <3>5 DEF Archives, PowerKinds
    <3>. QED
      BY <3>1, <3>4, <3>6, <3>7, ArchiveGoesOn DEF Unarchived, Untouched
  <2>10. ASSUME NEW k \in TaskKinds, NEW i \in Instances,
                TaskSucceeds(k, i) \/ TaskFails(k, i)
         PROVE  ArchiveInv'
    <3>1. /\ todo[<<k, i>>] > 0
          /\ \A j \in TaskKinds \X Instances : todo[j] = 0 => todo'[j] = 0
          /\ UNCHANGED <<archive, request, purging>>
      BY <2>10 DEF TaskSucceeds, TaskFails, Concluded, TypeOK
    <3>2. \A j \in Instances :
            /\ todo[<<"archive", j>>] = 0 => todo'[<<"archive", j>>] = 0
            /\ todo[<<"purge", j>>] = 0 => todo'[<<"purge", j>>] = 0
      BY <3>1 DEF TaskKinds, RecordKinds
    <3>3. \/ SetStatus(i, status[i])
          \/ \E s \in Statuses \ {"absent"} :
               SetStatus(i, s) /\ (s = "archived" => k \in {"archive", "purge"})
      <4>1. CASE TaskSucceeds(k, i)
        <5>1. AfterSuccess(k) \in Statuses \ {"absent"}
              /\ (AfterSuccess(k) = "archived" => k \in {"archive", "purge"})
          BY DEF AfterSuccess, TaskKinds, PowerKinds, RecordKinds, Statuses
        <5>. QED
          BY <4>1, <5>1 DEF TaskSucceeds
      <4>2. CASE TaskFails(k, i) /\ k = "create"
        BY <4>2 DEF TaskFails, Statuses
      <4>3. CASE TaskFails(k, i) /\ k # "create"
        BY <4>3 DEF TaskFails
      <4>. QED
        BY <2>10, <4>1, <4>2, <4>3
    <3>4. /\ revived \subseteq revived'
          /\ \A j \in Instances : status[j] # "absent" => status'[j] # "absent"
          /\ \A j \in Instances : status'[j] = "archived" =>
               status[j] = "archived" \/ (j = i /\ k \in {"archive", "purge"})
          /\ \A j \in Instances : status[j] = "archived" =>
               status'[j] = "archived" \/ j \in revived'
      <4>1. CASE \E s \in Statuses \ {"absent"} :
                   SetStatus(i, s) /\ (s = "archived" => k \in {"archive", "purge"})
        <5>1. PICK s \in Statuses \ {"absent"} :
                SetStatus(i, s) /\ (s = "archived" => k \in {"archive", "purge"})
          BY <4>1
        <5>. QED
          BY <5>1, SetStatusFacts, StatusAndArchive
      <4>2. CASE SetStatus(i, status[i])
        BY <4>2, SameStatusFacts
      <4>. QED
        BY <3>3, <4>1, <4>2
    <3>5. Untouched(i) => k \notin {"archive", "purge"}
      BY <3>1 DEF Untouched
    <3>6. \A d \in Clients : request'[d] # NoRequest /\ request'[d].kind # "create" =>
            status'[request'[d].inst] # "absent"
      BY <3>1, <3>4 DEF ArchiveInv, TypeOK, Request
    <3>. QED
      BY <3>1, <3>2, <3>4, <3>5, <3>6, ArchiveGoesOn DEF Unarchived, Untouched
  <2>11. CASE Tick
    <3>1. \A i \in purging' : i \in purging \/ archive[i] = "over"
      BY <2>11 DEF Tick, Expired
    <3>2. UNCHANGED <<status, archive, revived, request, todo>>
      BY <2>11 DEF Tick, record
    <3>. QED
      BY <3>1, <3>2 DEF ArchiveInv, Unarchived, Untouched
  <2>12. ASSUME NEW i \in Instances, EnqueuePurge(i) PROVE ArchiveInv'
    <3>1. /\ i \in purging /\ purging' = purging \ {i}
          /\ UNCHANGED <<status, archive, revived, request>>
      BY <2>12 DEF EnqueuePurge, record
    <3>2. \A j \in Instances :
            /\ todo'[<<"archive", j>>] = todo[<<"archive", j>>]
            /\ j # i => todo'[<<"purge", j>>] = todo[<<"purge", j>>]
      BY <2>12 DEF EnqueuePurge, TypeOK, TaskKinds, RecordKinds
    <3>. QED
      BY <3>1, <3>2 DEF ArchiveInv, Unarchived, Untouched
  <2>13. ASSUME NEW i \in Instances, ArchiveEnds(i) PROVE ArchiveInv'
    <3>1. /\ \A j \in Instances : (archive'[j] = "none") <=> (archive[j] = "none")
          /\ UNCHANGED <<status, revived, request, purging, todo>>
      BY <2>13 DEF ArchiveEnds, TypeOK
    <3>. QED
      BY <3>1 DEF ArchiveInv, Unarchived, Untouched
  <2>14. CASE ApiRestart
    <3>1. /\ \A c \in Clients : request'[c] = NoRequest
          /\ purging' = {} /\ UNCHANGED <<status, archive, revived, todo>>
      BY <2>14 DEF ApiRestart, record
    <3>. QED
      BY <3>1 DEF ArchiveInv, Unarchived, Untouched, Archives
  <2>. QED
    BY <2>1, <2>2, <2>3, <2>4, <2>5, <2>6, <2>7, <2>8, <2>9, <2>10, <2>11, <2>12, <2>13,
       <2>14 DEF Next, Handle, Settle, Schedule
<1>3. ArchiveInv => StuckOnlyIfRevived
  BY DEF ArchiveInv, Unarchived, Untouched, StuckOnlyIfRevived
<1>. QED
  BY <1>1, <1>2, <1>3, TypeCorrect, CreationInvariant, PTL DEF Spec
=============================================================================
