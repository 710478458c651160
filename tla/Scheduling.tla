----------------------------- MODULE Scheduling -----------------------------
(***************************************************************************)
(* One cron schedule of an instance (apps/api/src/server.ts).  The         *)
(* scheduler collects what is due in one store operation and creates the   *)
(* backup record and the task of each run in later ones.  Between two      *)
(* steps the schedule may be edited, the instance archived, the panel      *)
(* restarted.  What becomes of a backup and its tasks is in BackupTasks.   *)
(***************************************************************************)
EXTENDS Integers, FiniteSets

CONSTANTS
  Actions,       \* what the schedule may do: backup, restart, command
  MaxRuns,       \* bound: runs of the schedule
  MaxEdits,      \* bound: changes of the schedule
  MaxScheduleCrashes

ASSUME SchedulingAssumption ==
  /\ Actions \subseteq {"backup", "restart", "command"}
  /\ {MaxRuns, MaxEdits, MaxScheduleCrashes} \subseteq Nat

Runs == 1..MaxRuns

VARIABLES
  action, enabled,  \* of the schedule; enabled is "gone" when it was deleted
  next,         \* nextRunAt: none, later, or reached
  live,         \* the instance is not archived
  edit,         \* a PUT handler has found the schedule and will store its input
  run,          \* each run: none, its next step, lost in a restart, or enqueued
  reached, skipped,  \* history: times reached, those not run on purpose
  edits, scheduleCrashes

scheduleRecord == <<action, enabled, next>>
counts == <<reached, skipped>>
schedulingVars == <<scheduleRecord, live, edit, run, counts, edits, scheduleCrashes>>

SchedulingInit ==
  /\ action \in Actions /\ enabled = "yes" /\ next = "later"
  /\ live = TRUE /\ edit = "none"
  /\ run = [r \in Runs |-> "none"]
  /\ reached = 0 /\ skipped = 0 /\ edits = 0 /\ scheduleCrashes = 0

NewRun(r) == run[r] = "none" /\ \A q \in 1..(r - 1) : run[q] # "none"
FirstStepOf(a) == IF a = "backup" THEN "record" ELSE "enqueue"

-----------------------------------------------------------------------------
(* The schedule *)

TimeReached ==
  /\ next = "later" /\ reached < MaxRuns
  /\ next' = "reached" /\ reached' = reached + 1
  /\ UNCHANGED <<action, enabled, live, edit, run, skipped, edits, scheduleCrashes>>

\* Mutant: the next time is set when the run's task has been created.
CollectAndWait(r) ==
  /\ next = "reached" /\ enabled = "yes" /\ NewRun(r)
  /\ UNCHANGED next
  /\ IF live
     THEN run' = [run EXCEPT ![r] = FirstStepOf(action)] /\ UNCHANGED skipped
     ELSE UNCHANGED run /\ skipped' = skipped + 1
  /\ UNCHANGED <<action, enabled, live, edit, reached, edits, scheduleCrashes>>

\* The transaction of a tick.
CollectDue(r) ==
  /\ next = "reached" /\ enabled = "yes" /\ NewRun(r)
  /\ next' = "later"
  /\ IF live
     THEN run' = [run EXCEPT ![r] = FirstStepOf(action)] /\ UNCHANGED skipped
     ELSE UNCHANGED run /\ skipped' = skipped + 1
  /\ UNCHANGED <<action, enabled, live, edit, reached, edits, scheduleCrashes>>

\* newSchedule computes a fresh next time, whatever the old one was; a time that was
\* reached and not collected is given up.
GiveUpReached == skipped' = skipped + (IF next = "reached" THEN 1 ELSE 0)

BeginEdit ==
  /\ edits < MaxEdits /\ edits' = edits + 1
  /\ edit = "none" /\ enabled # "gone" /\ edit' = "store"
  /\ UNCHANGED <<scheduleRecord, live, run, counts, scheduleCrashes>>

\* The transaction finds the schedule again, or throws.
StoreEdit ==
  /\ edit = "store" /\ edit' = "none"
  /\ IF enabled = "gone"
     THEN UNCHANGED <<scheduleRecord, skipped>>
     ELSE /\ action' \in Actions /\ enabled' \in {"yes", "no"}
          /\ next' = (IF enabled' = "no" THEN "none" ELSE "later")
          /\ GiveUpReached
  /\ UNCHANGED <<live, run, reached, edits, scheduleCrashes>>

DeleteSchedule ==
  /\ edits < MaxEdits /\ edits' = edits + 1
  /\ enabled # "gone" /\ enabled' = "gone" /\ next' = "none" /\ GiveUpReached
  /\ UNCHANGED <<action, live, edit, run, reached, scheduleCrashes>>

ArchiveOrRestore ==
  /\ edits < MaxEdits /\ edits' = edits + 1 /\ live' = ~live
  /\ UNCHANGED <<scheduleRecord, edit, run, counts, scheduleCrashes>>

-----------------------------------------------------------------------------
(* Runs *)

RecordRun(r) ==
  /\ run[r] = "record" /\ run' = [run EXCEPT ![r] = "enqueue"]
  /\ UNCHANGED <<scheduleRecord, live, edit, counts, edits, scheduleCrashes>>

EnqueueRun(r) ==
  /\ run[r] = "enqueue" /\ run' = [run EXCEPT ![r] = "enqueued"]
  /\ UNCHANGED <<scheduleRecord, live, edit, counts, edits, scheduleCrashes>>

SchedulerDies ==
  /\ scheduleCrashes < MaxScheduleCrashes /\ scheduleCrashes' = scheduleCrashes + 1
  /\ run' = [r \in Runs |-> IF run[r] \in {"record", "enqueue"} THEN "lost" ELSE run[r]]
  /\ edit' = "none"
  /\ UNCHANGED <<scheduleRecord, live, counts, edits>>

-----------------------------------------------------------------------------
SchedulingNext ==
  \/ TimeReached \/ BeginEdit \/ StoreEdit \/ DeleteSchedule \/ ArchiveOrRestore
  \/ SchedulerDies
  \/ \E r \in Runs : CollectDue(r) \/ RecordRun(r) \/ EnqueueRun(r)

SchedulingSpec == SchedulingInit /\ [][SchedulingNext]_schedulingVars

-----------------------------------------------------------------------------
(* Properties *)

\* The variables have their types (types.ts, ScheduleRecord).
SchedulingTypeOK ==
  /\ action \in Actions /\ enabled \in {"yes", "no", "gone"}
  /\ next \in {"none", "later", "reached"} /\ live \in BOOLEAN
  /\ edit \in {"none", "store"}
  /\ run \in [Runs -> {"none", "record", "enqueue", "enqueued", "lost"}]
  /\ {reached, skipped, edits, scheduleCrashes} \subseteq Nat

\* Each time that the schedule reaches is run once and no more, but for the times that
\* an edit or an archived instance takes away, through overlapping ticks, edits and
\* restarts; a restart loses a run rather than repeating it (server.ts:1314-1344).
EachTimeRunsOnce ==
  Cardinality({r \in Runs : run[r] # "none"}) + skipped
    + (IF next = "reached" THEN 1 ELSE 0) = reached
=============================================================================
