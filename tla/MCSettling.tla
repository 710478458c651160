----------------------------- MODULE MCSettling -----------------------------
(* Small instances of the components with liveness properties, and of the schedule.  As
   in MCComponents, a behaviour takes the steps of one component only. *)
EXTENDS FileTransfer, Scheduling, BackupTasks, PanelClient

VARIABLE part

SettlingInit ==
  /\ part \in {"transfer", "scheduling", "backup", "client"}
  /\ TransferInit /\ SchedulingInit /\ BackupInit /\ ClientInit
  \* A component that stands still starts in one state.
  /\ part # "transfer" => direction = "upload"
  /\ part # "scheduling" => action = "restart"
  /\ part # "backup" => link = "down"
  /\ part # "client" => visible = {}

OfTransfer == part = "transfer" /\ TransferNext
OfSchedule == part = "scheduling" /\ SchedulingNext
OfBackup == part = "backup" /\ BackupNext
OfClient == part = "client" /\ ClientNext

SettlingNext ==
  \/ OfTransfer /\ UNCHANGED <<part, schedulingVars, backupVars, clientVars>>
  \/ OfSchedule /\ UNCHANGED <<part, transferVars, backupVars, clientVars>>
  \/ OfBackup /\ UNCHANGED <<part, transferVars, schedulingVars, clientVars>>
  \/ OfClient /\ UNCHANGED <<part, transferVars, schedulingVars, backupVars>>

settlingVars == <<part, transferVars, schedulingVars, backupVars, clientVars>>

\* The fairness of all: what a component must do in the end is not enabled in its first
\* state, where it stands still.
SettlingSpec ==
  /\ SettlingInit /\ [][SettlingNext]_settlingVars
  /\ TransferFairness /\ BackupFairness /\ ClientFairness

\* The variables of the components have their types.
SettlingTypeOK == TransferTypeOK /\ SchedulingTypeOK /\ BackupTypeOK /\ ClientTypeOK
=============================================================================
