--------------------------- MODULE FileTransfer ----------------------------
(***************************************************************************)
(* One file on its way through the panel: from a browser to the node       *)
(* (upload) or from the node to a browser (download).  The panel keeps a   *)
(* record and a staging file, a task makes the agent fetch or send it over *)
(* HTTP, and the scheduler removes what has expired.  Record, file, task   *)
(* and HTTP request are changed by different handlers, each in steps.      *)
(***************************************************************************)
EXTENDS Integers, FiniteSets

CONSTANTS
  Directions,       \* the directions considered
  MaxSubmissions,   \* bound: the task and its manual resubmissions
  MaxExecutions,    \* bound: times an agent starts one of them
  MaxPanelCrashes

ASSUME TransferAssumption ==
  /\ Directions \subseteq {"upload", "download"}
  /\ {MaxSubmissions, MaxExecutions, MaxPanelCrashes} \subseteq Nat

Submissions == 1..MaxSubmissions
Executions == 1..MaxExecutions

TransferStatuses == {"none", "queued", "receiving", "available", "failed", "expired"}
PostSteps == {"none", "mark", "create", "write", "commit", "discard", "fail",
              "accepted", "refused", "gone"}

VARIABLES
  direction,
  transfer,    \* status of the record in state.fileTransfers
  due,         \* expiresAt is over
  staged,      \* the staging file: none, part of the content, or all of it
  writer,      \* the execution whose POST has this very file open (0: none)
  request,     \* the browser's request: what its handler does next
  submission,  \* status of each task
  worker,      \* the agent: execution, task and step
  post,        \* the panel's handler of the POST of each execution
  cleaning,    \* agentTaskResult has still to remove the upload's file
  sweeping,    \* so has the scheduler for an expired transfer
  nodeFile,    \* the uploaded file on the node: none, torn, whole
  panelCrashes

file == <<staged, writer>>
pending == <<cleaning, sweeping>>
transferVars == <<direction, transfer, due, file, request, submission, worker, post, pending,
                  nodeFile, panelCrashes>>

Idle == [run |-> 0, task |-> 0, at |-> "idle"]

TransferInit ==
  /\ direction \in Directions
  /\ transfer = "none" /\ due = FALSE /\ staged = "none" /\ writer = 0
  /\ request = "begin"
  /\ submission = [t \in Submissions |-> "none"]
  /\ worker = Idle
  /\ post = [e \in Executions |-> "none"]
  /\ cleaning = FALSE /\ sweeping = FALSE
  /\ nodeFile = "none" /\ panelCrashes = 0

RemoveFile == staged' = "none" /\ writer' = 0
\* What the agent's requests are checked for.
Authorised == transfer = "queued" /\ ~due
WorkerAt(step) == worker.at = step
WorkerGoes(step) == worker' = [worker EXCEPT !.at = step]

-----------------------------------------------------------------------------
(* The browser's request *)

\* The file first, then the record, then the task.
StageUpload ==
  /\ direction = "upload"
  /\ \/ request = "begin" /\ staged' = "part" /\ request' = "stage"
     \/ request = "stage" /\ staged' = "whole" /\ request' = "record"
  /\ UNCHANGED <<direction, transfer, due, writer, submission, worker, post, pending,
                 nodeFile, panelCrashes>>

RecordTransfer ==
  /\ request = (IF direction = "upload" THEN "record" ELSE "begin")
  /\ transfer' = "queued" /\ request' = "enqueue"
  /\ UNCHANGED <<direction, due, file, submission, worker, post, pending, nodeFile,
                 panelCrashes>>

EnqueueTransfer ==
  /\ request = "enqueue" /\ request' = "over"
  /\ submission' = [submission EXCEPT ![1] = "open"]
  /\ UNCHANGED <<direction, transfer, due, file, worker, post, pending, nodeFile,
                 panelCrashes>>

\* The stream or a store operation fails; the upload's catch removes the file,
\* also when the record is stored.
RequestFails ==
  /\ request \in {"stage", "record", "enqueue"} /\ request' = "over"
  /\ IF direction = "upload" THEN RemoveFile ELSE UNCHANGED file
  /\ UNCHANGED <<direction, transfer, due, submission, worker, post, pending, nodeFile,
                 panelCrashes>>

\* An operator resubmits a failed task: a new task with the same payload.
Resubmit(t) ==
  /\ submission[t] = "none"
  /\ \E failed \in 1..(t - 1) : submission[failed] = "failed"
  /\ \A u \in 1..(t - 1) : submission[u] # "none"
  /\ submission' = [submission EXCEPT ![t] = "open"]
  /\ UNCHANGED <<direction, transfer, due, file, request, worker, post, pending, nodeFile,
                 panelCrashes>>

-----------------------------------------------------------------------------
(* The agent and its HTTP requests *)

\* A task given back by a broken connection may be started more than once.
StartTransfer(t, e) ==
  /\ worker = Idle /\ submission[t] = "open"
  /\ post[e] = "none" /\ \A d \in 1..(e - 1) : post[d] # "none"
  /\ worker' = [run |-> e, task |-> t, at |-> "ask"]
  /\ post' = [post EXCEPT ![e] = "gone"]
  /\ UNCHANGED <<direction, transfer, due, file, request, submission, pending, nodeFile,
                 panelCrashes>>

\* GET of an upload, POST of a download: served, or refused with 403 or 404.
Ask ==
  /\ WorkerAt("ask")
  /\ \/ /\ ~(Authorised /\ (direction = "upload" => staged # "none"))
        /\ WorkerGoes("failed") /\ UNCHANGED post
     \/ /\ Authorised /\ direction = "upload" /\ staged # "none"
        /\ WorkerGoes("fetch") /\ UNCHANGED post
     \/ /\ Authorised /\ direction = "download"
        /\ WorkerGoes("await") /\ post' = [post EXCEPT ![worker.run] = "mark"]
  /\ UNCHANGED <<direction, transfer, due, file, request, submission, pending, nodeFile,
                 panelCrashes>>

\* Mutant: the file is renamed into place without comparing size and checksum.
ReceiveUnverified ==
  /\ WorkerAt("fetch")
  /\ WorkerGoes("ok") /\ nodeFile' \in {"torn", "whole"}
  /\ UNCHANGED <<direction, transfer, due, file, request, submission, post, pending,
                 panelCrashes>>

\* A temporary file, its size and checksum compared, then renamed into place.
ReceiveUpload ==
  /\ WorkerAt("fetch")
  /\ \/ WorkerGoes("ok") /\ nodeFile' = "whole"
     \/ WorkerGoes("failed") /\ UNCHANGED nodeFile
  /\ UNCHANGED <<direction, transfer, due, file, request, submission, post, pending,
                 panelCrashes>>

MarkReceiving(e) ==
  /\ post[e] = "mark" /\ post' = [post EXCEPT ![e] = "create"]
  /\ transfer' = (IF transfer = "queued" THEN "receiving" ELSE transfer)
  /\ UNCHANGED <<direction, due, file, request, submission, worker, pending, nodeFile,
                 panelCrashes>>

\* createWriteStream with flag wx: a file that is there is an error.
CreateStaged(e) ==
  /\ post[e] = "create"
  /\ IF staged = "none"
     THEN staged' = "part" /\ writer' = e /\ post' = [post EXCEPT ![e] = "write"]
     ELSE UNCHANGED file /\ post' = [post EXCEPT ![e] = "discard"]
  /\ UNCHANGED <<direction, transfer, due, request, submission, worker, pending, nodeFile,
                 panelCrashes>>

\* Mutant: a broken stream counts as its end.
WriteStagedUnchecked(e) ==
  /\ post[e] = "write" /\ post' = [post EXCEPT ![e] = "commit"]
  /\ staged' \in (IF writer = e THEN {"part", "whole"} ELSE {staged})
  /\ UNCHANGED <<direction, transfer, due, writer, request, submission, worker, pending,
                 nodeFile, panelCrashes>>

\* The stream ends, also on a file that was removed under it, or breaks.
WriteStaged(e) ==
  /\ post[e] = "write"
  /\ \/ /\ post' = [post EXCEPT ![e] = "commit"]
        /\ staged' = (IF writer = e THEN "whole" ELSE staged)
     \/ post' = [post EXCEPT ![e] = "discard"] /\ UNCHANGED staged
  /\ UNCHANGED <<direction, transfer, due, writer, request, submission, worker, pending,
                 nodeFile, panelCrashes>>

\* The catch: the file goes, whose ever it is, then the record fails.
DiscardStaged(e) ==
  /\ \/ /\ post[e] = "discard" /\ post' = [post EXCEPT ![e] = "fail"]
        /\ RemoveFile /\ UNCHANGED transfer
     \/ /\ post[e] = "fail" /\ post' = [post EXCEPT ![e] = "refused"]
        /\ transfer' = "failed" /\ UNCHANGED file
  /\ UNCHANGED <<direction, due, request, submission, worker, pending, nodeFile,
                 panelCrashes>>

\* Whatever the status is by now.
CommitReceived(e) ==
  /\ post[e] = "commit" /\ post' = [post EXCEPT ![e] = "accepted"]
  /\ transfer' = "available"
  /\ UNCHANGED <<direction, due, file, request, submission, worker, pending, nodeFile,
                 panelCrashes>>

\* The response to the POST arrives, or the connection breaks.
AwaitResponse ==
  /\ WorkerAt("await")
  /\ \/ post[worker.run] = "accepted" /\ WorkerGoes("ok")
     \/ WorkerGoes("failed")
  /\ UNCHANGED <<direction, transfer, due, file, request, submission, post, pending,
                 nodeFile, panelCrashes>>

-----------------------------------------------------------------------------
(* Results, expiry, crashes *)

AfterResult(ok) ==
  CASE direction = "upload" -> (IF ok THEN "available" ELSE "failed")
    [] ~ok /\ transfer # "available" -> "failed"
    [] OTHER -> transfer

\* agentTaskResult, if the task is still open.
TakeResult ==
  /\ worker.at \in {"ok", "failed"} /\ worker' = Idle
  /\ IF submission[worker.task] = "open"
     THEN /\ submission' = [submission EXCEPT ![worker.task] =
                              IF WorkerAt("ok") THEN "succeeded" ELSE "failed"]
          /\ transfer' = AfterResult(WorkerAt("ok"))
          /\ cleaning' = (cleaning \/ direction = "upload")
     ELSE UNCHANGED <<submission, transfer, cleaning>>
  /\ UNCHANGED <<direction, due, file, request, post, sweeping, nodeFile, panelCrashes>>

\* The agent dies, or its result is lost with the connection.
LoseWorker ==
  /\ worker # Idle /\ worker' = Idle
  /\ UNCHANGED <<direction, transfer, due, file, request, submission, post, pending,
                 nodeFile, panelCrashes>>

\* The scheduler's sweep fails the task and leaves the transfer alone.
TimeOutTransfer(t) ==
  /\ submission[t] = "open" /\ submission' = [submission EXCEPT ![t] = "failed"]
  /\ UNCHANGED <<direction, transfer, due, file, request, worker, post, pending, nodeFile,
                 panelCrashes>>

RemoveUploaded ==
  /\ cleaning /\ cleaning' = FALSE /\ RemoveFile
  /\ UNCHANGED <<direction, transfer, due, request, submission, worker, post, sweeping,
                 nodeFile, panelCrashes>>

TimePasses ==
  /\ transfer # "none" /\ ~due /\ due' = TRUE
  /\ UNCHANGED <<direction, transfer, file, request, submission, worker, post, pending,
                 nodeFile, panelCrashes>>

\* Mutant: only transfers that wait or are ready expire.
ExpireSettled ==
  /\ due /\ transfer \in {"queued", "available"}
  /\ transfer' = "expired" /\ sweeping' = TRUE
  /\ UNCHANGED <<direction, due, file, request, submission, worker, post, cleaning,
                 nodeFile, panelCrashes>>

ExpireTransfer ==
  /\ due /\ transfer # "expired" /\ transfer' = "expired" /\ sweeping' = TRUE
  /\ UNCHANGED <<direction, due, file, request, submission, worker, post, cleaning,
                 nodeFile, panelCrashes>>

RemoveExpired ==
  /\ sweeping /\ sweeping' = FALSE /\ RemoveFile
  /\ UNCHANGED <<direction, transfer, due, request, submission, worker, post, cleaning,
                 nodeFile, panelCrashes>>

PanelDies ==
  /\ panelCrashes < MaxPanelCrashes /\ panelCrashes' = panelCrashes + 1
  /\ request' = "over"
  /\ post' = [e \in Executions |-> IF post[e] = "none" THEN "none" ELSE "gone"]
  /\ writer' = 0 /\ cleaning' = FALSE /\ sweeping' = FALSE
  /\ UNCHANGED <<direction, transfer, due, staged, submission, worker, nodeFile>>

-----------------------------------------------------------------------------
PostStep(e) ==
  MarkReceiving(e) \/ CreateStaged(e) \/ WriteStaged(e) \/ CommitReceived(e)
    \/ DiscardStaged(e)

TransferNext ==
  \/ StageUpload \/ RecordTransfer \/ EnqueueTransfer \/ RequestFails
  \/ \E t \in Submissions : Resubmit(t) \/ TimeOutTransfer(t)
  \/ \E t \in Submissions, e \in Executions : StartTransfer(t, e)
  \/ Ask \/ ReceiveUpload \/ AwaitResponse \/ TakeResult \/ LoseWorker
  \/ \E e \in Executions : PostStep(e)
  \/ TimePasses \/ ExpireTransfer \/ RemoveExpired \/ RemoveUploaded \/ PanelDies

TransferSpec == TransferInit /\ [][TransferNext]_transferVars

\* The scheduler's interval fires and what the panel has begun goes on.
TransferFairness ==
  /\ WF_transferVars(ExpireTransfer) /\ WF_transferVars(RemoveExpired)
  /\ WF_transferVars(RemoveUploaded)
  /\ \A e \in Executions : WF_transferVars(PostStep(e))

FairTransferSpec == TransferSpec /\ TransferFairness

-----------------------------------------------------------------------------
(* Properties *)

\* The variables have their types (types.ts, FileTransferRecord).
TransferTypeOK ==
  /\ direction \in {"upload", "download"}
  /\ transfer \in TransferStatuses /\ due \in BOOLEAN
  /\ staged \in {"none", "part", "whole"} /\ writer \in Executions \cup {0}
  /\ request \in {"begin", "stage", "record", "enqueue", "over"}
  /\ submission \in [Submissions -> {"none", "open", "failed", "succeeded"}]
  /\ worker \in [run : Executions, task : Submissions,
                 at : {"ask", "fetch", "await", "ok", "failed"}] \cup {Idle}
  /\ post \in [Executions -> PostSteps]
  /\ cleaning \in BOOLEAN /\ sweeping \in BOOLEAN
  /\ nodeFile \in {"none", "torn", "whole"} /\ panelCrashes \in Nat

\* What the node has is the file that was uploaded, and it has it when the panel
\* says so (README.md:56-57; runtime.ts:350-356, server.ts:370-374).
UploadVerified ==
  /\ nodeFile # "torn"
  /\ direction = "upload" /\ transfer = "available" => nodeFile = "whole"

\* Two requests were let in for one transfer: the second came before the first had
\* marked it.
Overlapping == Cardinality({e \in Executions : post[e] \notin {"none", "gone"}}) > 1
                 \/ panelCrashes > 0

\* A download that is ready and not expired has its complete file, whatever becomes of
\* the agent, unless two of its requests overlapped (server.ts:558-608, 883-894).
AvailableDownloadHasFile ==
  direction = "download" /\ transfer = "available" /\ ~due => staged = "whole" \/ Overlapping

\* README.md:66-68: expired and failed staging files are removed automatically; the
\* panel only forgets one when it dies with the removal pending (server.ts:1345).
StagingIsRemoved ==
  due /\ panelCrashes = 0 ~> staged = "none" \/ panelCrashes > 0

\* README.md:112-114: an operator can resubmit a failed transfer.  But a transfer
\* whose task failed is no longer queued, and so its requests are refused
\* (server.ts:545, 562).
ResubmissionIsServed ==
  [][ WorkerAt("ask") /\ worker.task > 1 /\ ~due /\ panelCrashes = 0
        => worker'.at # "failed" ]_transferVars

=============================================================================
