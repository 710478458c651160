--------------------------- MODULE InstanceData ----------------------------
(***************************************************************************)
(* What apps/agent/src/runtime.ts does to one instance on its node: the    *)
(* container, its console stream, and the directories that hold its data.  *)
(* The agent carries out one task at a time; each task is a few Docker and *)
(* file system calls, and the agent may die between any two of them.  The  *)
(* server inside the container writes its world whenever it runs.          *)
(***************************************************************************)
EXTENDS Integers, Sequences, SequencesExt

CONSTANTS
  Items,         \* the pieces of data that an instance can have
  TaskMix,       \* the kinds of tasks that are requested
  MaxRequests,   \* bound: tasks requested of the panel
  MaxAgentCrashes

\* instance.restart comes with applyConfig (configure) or without; instance.restore
\* is of the archive (restore) or of a backup (recover); instance.archive archives
\* or purges; write stands for file.write and file.upload, look for file.read and
\* file.download.  file.list and instance.command change nothing on the node.
DataTasks == {"create", "start", "stop", "restart", "configure", "kill", "write",
              "look", "backup", "recover", "restore", "archive", "purge"}
RetryableDataTasks == DataTasks \ {"recover", "restore"}

Files == SUBSET Items
\* Stands for a directory or file that does not exist.
NoDir == {"no directory"}
Dir == Files \cup {NoDir}

ASSUME DataAssumption ==
  /\ "no directory" \notin Items
  /\ TaskMix \subseteq DataTasks
  /\ MaxRequests \in Nat /\ MaxAgentCrashes \in Nat

FirstStep ==
  [create |-> "artifact", start |-> "start", stop |-> "halt", restart |-> "restart",
   configure |-> "remove", kill |-> "halt", write |-> "file", look |-> "file",
   backup |-> "hold", recover |-> "fetch", restore |-> "clear", archive |-> "down",
   purge |-> "down"]
\* What becomes of a task; one is stuck when an error also stopped its restoration
\* from being undone.  The panel is told of a failure either way.
Ends == {"done", "failed", "stuck"}
Recreating == {"remove", "pull", "launch"}
BackingUp == {"tar", "resume", "release"}
\* The steps of restoreBackup from the rename of the directory on.
Restoring == Recreating \cup {"make", "unpack", "wipe", "undo"}
Steps == {FirstStep[k] : k \in DataTasks} \cup Restoring \cup BackingUp \cup Ends
           \cup {"upload", "quiet", "aside", "swap", "drop", "keep", "purge", "erase"}

\* Where the data of a running container lies, beside n > 0, which stands for rollbacks[n].
InUse == 0
Lost == -1
NoJob == [kind |-> "none", at |-> "idle", was |-> NoDir]
Job == [kind : DataTasks, at : Steps, was : Dir] \cup {NoJob}

VARIABLES
  container,  \* of the instance, as Docker has it
  bound,      \* the directory that a running container writes to, wherever it was moved:
              \* InUse: `current', n: rollbacks[n], Lost: removed, or nothing runs
  saving,     \* the server saves its world: on, held for a backup, or left so
  console,    \* consoleStreams: no entry, one that works, one of a dead container
  current, archived,  \* instances/<id>, archives/<id>
  rollbacks,  \* archives/<id>-restore-<time>, oldest first
  destination,\* of the backup: local, or s3
  backup,     \* backups/<id>-<backup>.tar.gz
  object,     \* the backup in the S3 bucket
  whole,      \* history: which of the two are complete copies
  job,        \* the task under way, its next step, the directory it set aside
  open,       \* tasks the panel has not seen finished
  shelf,      \* the panel's view: in use, archived, or its archive expired
  offered,    \* the panel's view: the backup is available
  asked,      \* the panel's tasks of the backup: none, one, one that failed, resubmitted
  requests, agentCrashes

docker == <<container, bound, saving, console>>
dirs == <<current, archived, rollbacks>>
backups == <<destination, backup, object, whole>>
panel == <<shelf, offered, asked, requests>>
dataVars == <<docker, dirs, backups, job, open, panel, agentCrashes>>

DataInit ==
  /\ container = "absent" /\ bound = Lost /\ saving = "on" /\ console = "none"
  /\ current = NoDir /\ archived = NoDir /\ rollbacks = <<>>
  /\ destination \in {"local", "s3"} /\ backup = NoDir /\ object = NoDir /\ whole = {}
  /\ job = NoJob /\ open = {"create"}
  /\ shelf = "live" /\ offered = FALSE /\ asked = "never" /\ requests = 0 /\ agentCrashes = 0

-----------------------------------------------------------------------------
(* Helpers *)

At(step) == job.at = step
Goto(step) == job' = [job EXCEPT !.at = step]
\* Inside the try of restoreBackup an error leads to its catch, else to the task's end.
Fails == Goto(IF job.kind = "recover" /\ job.at \in Recreating \cup {"unpack"}
              THEN "wipe" ELSE "failed")

Made(dir) == IF dir = NoDir THEN {} ELSE dir

\* rm removes the directory `current', also below a container, or fails half way.
RemoveCurrent == current' = NoDir /\ bound' = (IF bound = InUse THEN Lost ELSE bound)
RemovePart == current # NoDir /\ current' \in SUBSET current /\ bound' = bound

\* The backup file is left with a part of what was to be written.
TornFrom(source) ==
  /\ backup' \in SUBSET Made(source) /\ whole' = whole \ {"local"}
  /\ UNCHANGED <<destination, object>>

\* A stream dies with its container; its close event comes later.
Dead == IF console = "live" THEN "dead" ELSE console
\* ensureConsole keeps an entry it finds, and attaching may fail silently.
EnsureConsole == console' \in (IF console = "none" THEN {"none", "live"} ELSE {console})
\* The container begins a new run.
Runs == container' = "running" /\ bound' = InUse /\ saving' = "on"
Halted == container' = "stopped" /\ bound' = Lost /\ saving' = "on" /\ console' = Dead

-----------------------------------------------------------------------------
(* Panel, agent loop and server *)

\* A restoration may have been checked before the archive expired.  A failed task of the
\* backup may be resubmitted for the same backup, also when it has become available.
Allowed(k) ==
  CASE k = "restore" -> shelf # "live"
    [] k = "purge" -> shelf = "expired"
    [] k = "backup" -> asked # "once"
    [] k = "recover" -> offered
    [] OTHER -> k # "create"

RequestTask(k) ==
  /\ requests < MaxRequests /\ Allowed(k)
  /\ requests' = requests + 1
  /\ open' = open \cup {k}
  /\ shelf' = CASE k = "archive" -> "archived" [] k = "restore" -> "live" [] OTHER -> shelf
  /\ asked' = CASE k # "backup" -> asked [] asked = "never" -> "once" [] OTHER -> "again"
  /\ UNCHANGED <<docker, dirs, backups, job, offered, agentCrashes>>

ArchiveExpires ==
  /\ shelf = "archived" /\ shelf' = "expired"
  /\ UNCHANGED <<docker, dirs, backups, job, open, offered, asked, requests, agentCrashes>>

\* A task of the backup has failed at the panel.
BackupFailed == asked' = (IF asked = "once" THEN "failed" ELSE asked)

\* The sweep gives a task of the backup up, which the agent may be carrying out all the
\* same.  Of another task only that it may never be begun would matter.
GiveUpBackup ==
  /\ "backup" \in open /\ open' = open \ {"backup"}
  /\ offered' = FALSE /\ BackupFailed
  /\ UNCHANGED <<docker, dirs, backups, job, shelf, requests, agentCrashes>>

\* Tasks are delivered in any order: newest first after an absence, retries when due.
Begin(k) ==
  /\ job = NoJob /\ k \in open
  /\ job' = [kind |-> k, at |-> FirstStep[k], was |-> NoDir]
  /\ UNCHANGED <<docker, dirs, backups, open, panel, agentCrashes>>

\* Mutant: a backup is offered whatever its task says.
ReportAnyBackup ==
  /\ job.at \in Ends /\ job' = NoJob
  /\ \/ open' = open \ {job.kind}
     \/ ~At("done") /\ job.kind \in RetryableDataTasks /\ open' = open
  /\ offered' = (offered \/ job.kind = "backup") /\ UNCHANGED asked
  /\ UNCHANGED <<docker, dirs, backups, shelf, requests, agentCrashes>>

\* The end of the task is reported; a failed one may be tried again.  The panel ignores
\* the result of a task that it gave up, unless a late acknowledgement has reopened it.
ReportTask ==
  /\ job.at \in Ends /\ job' = NoJob
  /\ \/ open' = open \ {job.kind}
     \/ ~At("done") /\ job.kind \in RetryableDataTasks /\ open' = open
  /\ \/ job.kind = "backup" /\ offered' = At("done")
        /\ IF At("done") \/ job.kind \in open' THEN UNCHANGED asked ELSE BackupFailed
     \/ (job.kind # "backup" \/ asked # "once") /\ UNCHANGED <<offered, asked>>
  /\ UNCHANGED <<docker, dirs, backups, shelf, requests, agentCrashes>>

\* The agent dies; unanswered tasks that may be replayed are delivered again.  A backup
\* file that was being written remains in part.
DieInTask ==
  /\ agentCrashes < MaxAgentCrashes /\ agentCrashes' = agentCrashes + 1
  /\ open' = IF job.kind \in RetryableDataTasks THEN open ELSE open \ {job.kind}
  /\ \/ At("tar") /\ TornFrom(current)
     \/ At("fetch") /\ destination = "s3" /\ TornFrom(object)
     \/ ~At("tar") /\ UNCHANGED backups
  /\ saving' = (IF saving = "held" THEN "left" ELSE saving)
  /\ console' = "none" /\ job' = NoJob
  /\ UNCHANGED <<container, bound, dirs, panel>>

\* The close or error event of a console stream.
ConsoleCloses ==
  /\ console # "none" /\ console' = "none"
  /\ saving' = (IF saving = "held" THEN "left" ELSE saving)
  /\ UNCHANGED <<container, bound, dirs, backups, job, open, panel, agentCrashes>>

\* A container writes to the directory it was started with, wherever that is now; writes
\* to one that was removed are lost.
Play(i) ==
  /\ container = "running"
  /\ \/ bound = InUse /\ current' = Made(current) \cup {i} /\ UNCHANGED rollbacks
     \/ bound > 0 /\ rollbacks' = [rollbacks EXCEPT ![bound] = @ \cup {i}]
        /\ UNCHANGED current
  /\ UNCHANGED <<docker, archived, backups, job, open, panel, agentCrashes>>

-----------------------------------------------------------------------------
(* Containers *)

DownloadArtifact ==
  /\ At("artifact") /\ current' = Made(current)
  /\ (Goto("remove") \/ Fails)
  /\ UNCHANGED <<docker, archived, rollbacks, backups, open, panel, agentCrashes>>

\* Mutant: an error of the removal is swallowed like one of the stop before it.
RemoveUnchecked ==
  /\ job.at \in {"remove", "down"}
  /\ \/ /\ container' = "absent" /\ bound' = Lost /\ saving' = "on" /\ console' = Dead
     \/ UNCHANGED docker
  /\ Goto(CASE At("remove") -> "pull" [] job.kind = "purge" -> "purge" [] OTHER -> "drop")
  /\ UNCHANGED <<dirs, backups, open, panel, agentCrashes>>

\* The first part of recreate, and of archiving.
RemoveContainer ==
  /\ job.at \in {"remove", "down"}
  /\ \/ /\ container' = "absent" /\ bound' = Lost /\ saving' = "on" /\ console' = Dead
        /\ Goto(CASE At("remove") -> "pull"
                  [] job.kind = "purge" -> "purge"
                  [] OTHER -> "drop")
     \/ Fails /\ (UNCHANGED docker \/ (container = "running" /\ Halted))
  /\ UNCHANGED <<dirs, backups, open, panel, agentCrashes>>

PullImage ==
  /\ At("pull") /\ current' = Made(current)
  /\ (Goto("launch") \/ Fails)
  /\ UNCHANGED <<docker, archived, rollbacks, backups, open, panel, agentCrashes>>

Launch ==
  /\ At("launch")
  /\ \/ Runs /\ EnsureConsole /\ Goto("done")
     \/ container' \in {"absent", "stopped"} /\ Fails /\ UNCHANGED <<bound, saving, console>>
  /\ UNCHANGED <<dirs, backups, open, panel, agentCrashes>>

\* Docker makes the directory that a container it starts is bound to.
StartOrRestart ==
  /\ job.at \in {"start", "restart"}
  /\ \/ container = "absent" /\ Goto("remove") /\ UNCHANGED <<docker, current>>
     \/ /\ At("start") /\ container = "running"
        /\ EnsureConsole /\ Goto("done") /\ UNCHANGED <<container, bound, saving, current>>
     \/ /\ container = "stopped" \/ (At("restart") /\ container = "running")
        /\ Runs /\ current' = Made(current) /\ Goto("done")
        /\ IF container = "running" THEN console' \in {Dead, "none", "live"} ELSE EnsureConsole
     \/ container # "absent" /\ Fails /\ UNCHANGED current
        /\ (UNCHANGED docker \/ (At("restart") /\ container = "running" /\ Halted))
  /\ UNCHANGED <<archived, rollbacks, backups, open, panel, agentCrashes>>

StopOrKill ==
  /\ At("halt")
  /\ \/ container = "absent" /\ Goto("done") /\ UNCHANGED docker
     \/ container # "absent" /\ Halted /\ Goto("done")
     \/ container # "absent" /\ Fails /\ UNCHANGED docker
  /\ UNCHANGED <<dirs, backups, open, panel, agentCrashes>>

-----------------------------------------------------------------------------
(* Files and backups *)

\* safeFilePath makes the root directory, also for a file that is only read.
UseFile ==
  /\ At("file")
  /\ \/ current' = Made(current) /\ (Goto("done") \/ Fails)
     \/ \E i \in Items : job.kind = "write" /\ current' = Made(current) \cup {i} /\ Goto("done")
  /\ UNCHANGED <<docker, archived, rollbacks, backups, open, panel, agentCrashes>>

\* checkpoint: without a stream, or with a dead one, the server is not told.
HoldSaves ==
  /\ At("hold") /\ Goto("tar")
  /\ saving' = (IF console = "live" THEN "held" ELSE saving)
  /\ UNCHANGED <<container, bound, console, dirs, backups, open, panel, agentCrashes>>

\* tar writes the backup file in place.
PackBackup ==
  /\ At("tar")
  /\ \/ /\ current # NoDir /\ backup' = current /\ whole' = whole \cup {"local"}
        /\ Goto("resume") /\ UNCHANGED <<destination, object>>
     \/ TornFrom(current) /\ Goto("release")
  /\ UNCHANGED <<docker, dirs, open, panel, agentCrashes>>

\* Mutant: the server is told to save again only after a backup that succeeded.
ResumeSavesOnSuccess ==
  /\ job.at \in {"resume", "release"}
  /\ \/ At("resume") /\ Goto(IF destination = "s3" THEN "upload" ELSE "done")
     \/ Fails
  /\ saving' = (IF console = "live" /\ At("resume") THEN "on" ELSE saving)
  /\ UNCHANGED <<container, bound, console, dirs, backups, open, panel, agentCrashes>>

\* The finally block, and the checksum of a complete file.
ResumeSaves ==
  /\ job.at \in {"resume", "release"}
  /\ \/ At("resume") /\ Goto(IF destination = "s3" THEN "upload" ELSE "done")
     \/ Fails
  /\ saving' = (IF console = "live" THEN "on" ELSE saving)
  /\ UNCHANGED <<container, bound, console, dirs, backups, open, panel, agentCrashes>>

\* An S3 object is replaced as a whole or not at all; the answer may be lost.
UploadBackup ==
  /\ At("upload")
  /\ \/ /\ object' = backup /\ (Goto("done") \/ Fails)
        /\ whole' = (IF "local" \in whole THEN whole \cup {"s3"} ELSE whole \ {"s3"})
        /\ UNCHANGED <<destination, backup>>
     \/ Fails /\ UNCHANGED backups
  /\ UNCHANGED <<docker, dirs, open, panel, agentCrashes>>

-----------------------------------------------------------------------------
(* restoreBackup *)

\* A backup in S3 is downloaded over the local file.
FetchBackup ==
  /\ At("fetch")
  /\ \/ /\ destination = "s3" /\ object # NoDir /\ backup' = object /\ Goto("quiet")
        /\ whole' = (IF "s3" \in whole THEN whole \cup {"local"} ELSE whole \ {"local"})
        /\ UNCHANGED <<destination, object>>
     \/ destination = "s3" /\ TornFrom(object) /\ Fails
     \/ destination = "local" /\ backup # NoDir /\ Goto("quiet") /\ UNCHANGED backups
     \/ Fails /\ UNCHANGED backups
  /\ UNCHANGED <<docker, dirs, open, panel, agentCrashes>>

\* Every error of the stop is swallowed, also that of a container that goes on running.
StopForRestore ==
  /\ At("quiet")
  /\ \/ Goto("aside") /\ (UNCHANGED docker \/ (container = "running" /\ Halted))
     \/ Fails /\ UNCHANGED docker
  /\ UNCHANGED <<dirs, backups, open, panel, agentCrashes>>

\* Mutant: the directory is not looked for before it is renamed.
SetAsideUnseen ==
  /\ At("aside")
  /\ job' = [job EXCEPT !.at = "make", !.was = current]
  /\ rollbacks' = Append(rollbacks, current) /\ current' = NoDir /\ UNCHANGED bound
  /\ UNCHANGED <<container, saving, console, archived, backups, open, panel, agentCrashes>>

\* A container that still runs goes with its directory.
SetAside ==
  /\ At("aside")
  /\ \/ Fails /\ UNCHANGED <<current, rollbacks, bound>>
     \/ /\ job' = [job EXCEPT !.at = "make", !.was = current]
        /\ rollbacks' = (IF current = NoDir THEN rollbacks ELSE Append(rollbacks, current))
        /\ bound' = (IF bound = InUse THEN Len(rollbacks) + 1 ELSE bound)
        /\ current' = NoDir
  /\ UNCHANGED <<container, saving, console, archived, backups, open, panel, agentCrashes>>

\* Not in the try: an error here is not undone.
MakeFresh ==
  /\ At("make")
  /\ \/ current' = {} /\ Goto("unpack")
     \/ Goto("stuck") /\ UNCHANGED current
  /\ UNCHANGED <<docker, archived, rollbacks, backups, open, panel, agentCrashes>>

UnpackBackup ==
  /\ At("unpack")
  /\ \/ current' = Made(backup) /\ Goto("remove")
     \/ current' \in SUBSET Made(backup) /\ Fails
  /\ UNCHANGED <<docker, archived, rollbacks, backups, open, panel, agentCrashes>>

\* The catch; an error in it leaves it.
WipeRestored ==
  /\ At("wipe")
  /\ \/ RemoveCurrent /\ Goto("undo")
     \/ RemovePart /\ Goto("stuck")
  /\ UNCHANGED <<container, saving, console, archived, rollbacks, backups, open, panel,
                 agentCrashes>>

\* Mutant: what was set aside stays there.
UndoByWipe ==
  /\ At("undo") /\ Goto("failed")
  /\ UNCHANGED <<docker, dirs, backups, open, panel, agentCrashes>>

UndoRestore ==
  /\ At("undo")
  /\ \/ job.was = NoDir /\ Goto("failed") /\ UNCHANGED <<current, rollbacks, bound>>
     \/ /\ job.was # NoDir /\ Goto("failed")
        /\ current' = Last(rollbacks) /\ rollbacks' = Front(rollbacks)
        /\ bound' = (IF bound = Len(rollbacks) THEN InUse ELSE bound)
     \/ job.was # NoDir /\ Goto("stuck") /\ UNCHANGED <<current, rollbacks, bound>>
  /\ UNCHANGED <<container, saving, console, archived, backups, open, panel, agentCrashes>>

-----------------------------------------------------------------------------
(* Archive, restoration of the archive, purge *)

\* The container is not looked at: one that runs loses its directory.
ClearCurrent ==
  /\ At("clear")
  /\ \/ archived = NoDir /\ Fails /\ UNCHANGED <<current, bound>>
     \/ archived # NoDir /\ RemoveCurrent /\ Goto("swap")
     \/ archived # NoDir /\ RemovePart /\ Fails
  /\ UNCHANGED <<container, saving, console, archived, rollbacks, backups, open, panel,
                 agentCrashes>>

BringBack ==
  /\ At("swap")
  /\ \/ current' = archived /\ archived' = NoDir /\ Goto("done")
     \/ Fails /\ UNCHANGED <<current, archived>>
  /\ UNCHANGED <<docker, rollbacks, backups, open, panel, agentCrashes>>

\* Mutant: the archive goes before the directory is looked for.
DropArchiveFirst ==
  /\ At("drop") /\ archived' = NoDir
  /\ Goto(IF current = NoDir THEN "done" ELSE "keep")
  /\ UNCHANGED <<docker, current, rollbacks, backups, open, panel, agentCrashes>>

DropOldArchive ==
  /\ At("drop")
  /\ \/ current = NoDir /\ Goto("done") /\ UNCHANGED archived
     \/ current # NoDir /\ archived' = NoDir /\ Goto("keep")
     \/ current # NoDir /\ archived # NoDir /\ archived' \in SUBSET archived /\ Fails
  /\ UNCHANGED <<docker, current, rollbacks, backups, open, panel, agentCrashes>>

KeepAsArchive ==
  /\ At("keep")
  /\ \/ archived' = current /\ current' = NoDir /\ Goto("done")
     \/ Fails /\ UNCHANGED <<current, archived>>
  /\ UNCHANGED <<docker, rollbacks, backups, open, panel, agentCrashes>>

PurgeArchive ==
  /\ At("purge")
  /\ \/ archived' = NoDir /\ Goto("erase")
     \/ archived # NoDir /\ archived' \in SUBSET archived /\ Fails
  /\ UNCHANGED <<docker, current, rollbacks, backups, open, panel, agentCrashes>>

EraseCurrent ==
  /\ At("erase")
  /\ \/ RemoveCurrent /\ Goto("done")
     \/ RemovePart /\ Fails
  /\ UNCHANGED <<container, saving, console, archived, rollbacks, backups, open, panel,
                 agentCrashes>>

-----------------------------------------------------------------------------
DataStep ==
  \/ DownloadArtifact \/ RemoveContainer \/ PullImage \/ Launch
  \/ StartOrRestart \/ StopOrKill \/ UseFile
  \/ HoldSaves \/ PackBackup \/ ResumeSaves \/ UploadBackup
  \/ FetchBackup \/ StopForRestore \/ SetAside \/ MakeFresh \/ UnpackBackup
  \/ WipeRestored \/ UndoRestore
  \/ ClearCurrent \/ BringBack \/ DropOldArchive \/ KeepAsArchive
  \/ PurgeArchive \/ EraseCurrent

DataNext ==
  \/ \E k \in TaskMix : RequestTask(k)
  \/ \E k \in open : Begin(k)
  \/ \E i \in Items : Play(i)
  \/ ArchiveExpires \/ GiveUpBackup \/ ReportTask \/ DieInTask \/ ConsoleCloses
  \/ DataStep

DataSpec == DataInit /\ [][DataNext]_dataVars

-----------------------------------------------------------------------------
(* Properties *)

\* The variables have their types (runtime.ts, class DockerRuntime).
DataTypeOK ==
  /\ container \in {"absent", "stopped", "running"}
  /\ bound \in Int /\ Lost <= bound /\ bound <= Len(rollbacks)
  /\ saving \in {"on", "held", "left"}
  /\ console \in {"none", "live", "dead"}
  /\ current \in Dir /\ archived \in Dir /\ rollbacks \in Seq(Files)
  /\ destination \in {"local", "s3"} /\ backup \in Dir /\ object \in Dir
  /\ whole \subseteq {"local", "s3"}
  /\ job \in Job /\ open \subseteq DataTasks
  /\ shelf \in {"live", "archived", "expired"} /\ offered \in BOOLEAN
  /\ asked \in {"never", "once", "failed", "again"}
  /\ requests \in Nat /\ agentCrashes \in Nat

\* restoreBackup has set the directory aside: it fills a fresh one, or undoes it.
Refilling == job.kind = "recover" /\ job.at \in Restoring

\* The instance's own data on the node; what a restoration unpacks is a copy.
Held == (IF Refilling THEN {} ELSE Made(current)) \cup Made(archived)
          \cup UNION {rollbacks[n] : n \in DOMAIN rollbacks}

\* Whatever fails and wherever the agent dies, no data leaves the node but by a
\* purge, unless the instance has both a directory in use and an archive, of which
\* archiving and restoring keep one (runtime.ts:255-276, 501-526).
DataKept ==
  [][ Held \subseteq Held' \/ job.kind = "purge" \/ (current # NoDir /\ archived # NoDir)
    ]_dataVars

\* A restoration from a backup that fails puts back the directory it found, or none if
\* there was none; when the undoing itself fails, or the step before the try, what was
\* there lies complete in the youngest directory set aside (runtime.ts:265-274).  A server
\* that could not be stopped may have written more.
FailedRestoreUndone ==
  [][ Refilling /\ job' # NoJob =>
        /\ job'.at = "failed" =>
             IF job.was = NoDir THEN current' = NoDir
             ELSE current' # NoDir /\ job.was \subseteq current'
        /\ job'.at = "stuck" /\ job.was # NoDir =>
             rollbacks' # <<>> /\ job.was \subseteq Last(rollbacks') ]_dataVars

\* The directory of a running server is moved, but not removed below it, also when it could
\* not be stopped, but when an archive is restored over an instance that was started while
\* archived (runtime.ts:258-274, 503-505, 513-525).
ServerKeepsItsDirectory ==
  [][ container = "running" /\ container' = "running" /\ bound # Lost
        => bound' # Lost \/ job.kind = "restore" ]_dataVars

\* A server is kept from saving only while its backup is being taken; only the death
\* of the agent or of the stream can leave it so (runtime.ts:230-236, 485-490).
SavesHeldOnlyForBackup == saving = "held" => job.kind = "backup" /\ job.at \in BackingUp

\* A backup that the panel offers is a complete copy where it is kept, also when its task
\* was repeated after the agent died or a restoration broke off its download; but a task
\* that an operator resubmitted rewrites a local file while it is on offer
\* (runtime.ts:245-252, 483-496, server.ts:348-355, 1203-1228).
OfferedBackupIsWhole ==
  offered => destination \in whole \/ (destination = "local" /\ asked = "again")

\* Archiving loses nothing, however often it is repeated: README.md:108-110 counts it
\* among the idempotent tasks and the result says that the archive awaits its
\* restoration.  The code does not keep this (runtime.ts:522-525).
ArchiveKeepsData == [][ job.kind = "archive" => Held \subseteq Held' ]_dataVars

=============================================================================
