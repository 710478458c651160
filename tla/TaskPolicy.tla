----------------------------- MODULE TaskPolicy -----------------------------
(***************************************************************************)
(* The state of one task and the transitions the control plane applies to  *)
(* it: the retry policy of apps/api/src/service.ts and the bodies of the   *)
(* store transactions of apps/api/src/server.ts.  Times (updatedAt,        *)
(* retryAt) and texts are abstracted: when a retry is due and when a task  *)
(* is stale is chosen by the caller.                                       *)
(***************************************************************************)
EXTENDS Integers

CONSTANT MAX_TASK_ATTEMPTS   \* 3 in service.ts

ASSUME MaxAttemptsAssumption == MAX_TASK_ATTEMPTS \in Nat \ {0}

\* The task types a failed or overdue task of which is tried again.
AUTOMATIC_RETRY_TASK_TYPES ==
  {"instance.create", "instance.start", "instance.stop", "instance.restart",
   "instance.kill", "instance.backup", "instance.archive",
   "file.list", "file.read", "file.write"}

TASK_TYPES ==
  AUTOMATIC_RETRY_TASK_TYPES
    \cup {"instance.command", "instance.restore", "file.upload", "file.download"}

\* "absent" is ours: the request has been made, its record is not stored yet.
\* The type also has "cancelled", which the agentTaskResult guard names and
\* nothing ever assigns.
TASK_STATUSES ==
  {"absent", "queued", "delivered", "running", "retrying", "succeeded", "failed"}

Task == [type : TASK_TYPES, status : TASK_STATUSES, attempt : Nat]

isAutomaticRetryableTask(task) == task.type \in AUTOMATIC_RETRY_TASK_TYPES

Finished(task) == task.status \in {"succeeded", "failed"}

-----------------------------------------------------------------------------
Created(task) == [task EXCEPT !.status = "queued", !.attempt = 0]

\* deliverTask takes the task for this delivery and counts the attempt.
Reserved(task) == [task EXCEPT !.status = "delivered", !.attempt = @ + 1]

\* deliverTask found no open connection: the attempt is given back.
GivenBack(attempt) == IF attempt > 0 THEN attempt - 1 ELSE 0
Unreserved(task) ==
  IF task.status = "delivered"
  THEN [task EXCEPT !.status = "queued", !.attempt = GivenBack(@)]
  ELSE task

\* Mutant: an acknowledged task is given back, too.
RequeuedIfOpen(task) ==
  IF task.status \in {"delivered", "running"} THEN [task EXCEPT !.status = "queued"] ELSE task

\* The connection closed under an unacknowledged task.
Requeued(task) ==
  IF task.status = "delivered" THEN [task EXCEPT !.status = "queued"] ELSE task

\* task.ack and task.progress, whatever the status was.
Reported(task) == [task EXCEPT !.status = "running"]

\* markTaskForRetry refuses (FALSE) or schedules the retry.
MayRetry(task) ==
  isAutomaticRetryableTask(task) /\ task.attempt < MAX_TASK_ATTEMPTS

\* Mutant: one attempt too many.
FailedOnceMore(task) ==
  [task EXCEPT !.status = IF isAutomaticRetryableTask(task) /\ task.attempt <= MAX_TASK_ATTEMPTS
                          THEN "retrying" ELSE "failed"]

\* A failure, reported or timed out: another try if the policy has one left.
FailedOnce(task) ==
  [task EXCEPT !.status = IF MayRetry(task) THEN "retrying" ELSE "failed"]

\* Mutant: a failed result counts as success.
WithAnyResult(task, ok) ==
  IF Finished(task) \/ task.status = "absent" THEN task
  ELSE [task EXCEPT !.status = "succeeded"]

\* agentTaskResult: only a task that is not finished takes a result.
WithResult(task, ok) ==
  IF Finished(task) \/ task.status = "absent" THEN task
  ELSE IF ok THEN [task EXCEPT !.status = "succeeded"]
  ELSE FailedOnce(task)

\* One task under a scheduler tick that finds the retry delay over.
RetryDue(task) == [task EXCEPT !.status = "queued"]
=============================================================================
