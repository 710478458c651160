------------------------ MODULE InstanceDataProofs ------------------------
(***************************************************************************)
(* Proofs about the data of one instance (InstanceData).  The inductive    *)
(* invariant says, for the task that is under way, what its earlier steps *)
(* have brought about and no other actor has undone since: the container   *)
(* is gone or bound elsewhere, the place is free, the directory set aside  *)
(* is the youngest.                                                        *)
(***************************************************************************)
EXTENDS InstanceData, TLAPS

-----------------------------------------------------------------------------
(* The step of the task under way *)

\* The steps that follow another step.
NextSteps == Restoring \cup BackingUp \cup Ends \cup
  {"upload", "quiet", "aside", "swap", "drop", "keep", "purge", "erase"}

\* The task under way goes on to the step s.
Moved(s) ==
  job' \in Job /\ job' # NoJob /\ job'.kind = job.kind /\ job'.was = job.was /\ job'.at = s

\* A task that has a step is not the idle agent's.
LEMMA AtWork ==
  ASSUME job \in Job, job.at # "idle" PROVE job # NoJob /\ job.kind \in DataTasks
  BY DEF Job, NoJob

\* The idle agent has no step and no task.
LEMMA Idle == NoJob \in Job /\ NoJob.at = "idle" /\ NoJob.kind = "none"
  BY DEF Job, NoJob

\* Goto changes the step and nothing else.
LEMMA GotoMoves ==
  ASSUME job \in Job, job # NoJob, NEW s \in NextSteps, Goto(s)
  PROVE  Moved(s)
<1>1. job \in [kind : DataTasks, at : Steps, was : Dir]
  BY DEF Job
<1>2. s \in Steps
  BY DEF NextSteps, Steps, Restoring
<1>3. /\ job' \in [kind : DataTasks, at : Steps, was : Dir]
      /\ job'.kind = job.kind /\ job'.at = s /\ job'.was = job.was
  BY <1>1, <1>2 DEF Goto
<1>4. job'.kind # "none"
  BY <1>1, <1>3 DEF DataTasks
<1> QED BY <1>3, <1>4 DEF Job, NoJob, Moved

\* An error goes to the catch of restoreBackup or to the end of the task.
LEMMA FailsMoves ==
  ASSUME job \in Job, job # NoJob, Fails
  PROVE  \/ /\ job.kind = "recover" /\ job.at \in Recreating \cup {"unpack"}
            /\ Moved("wipe")
         \/ /\ ~(job.kind = "recover" /\ job.at \in Recreating \cup {"unpack"})
            /\ Moved("failed")
<1>1. CASE job.kind = "recover" /\ job.at \in Recreating \cup {"unpack"}
  BY <1>1, GotoMoves DEF Fails, NextSteps, Restoring, Ends
<1>2. CASE ~(job.kind = "recover" /\ job.at \in Recreating \cup {"unpack"})
  BY <1>2, GotoMoves DEF Fails, NextSteps, Restoring, Ends
<1> QED BY <1>1, <1>2

\* A directory that was made is a set of files, and so is a part of it.
LEMMA MadeFiles ==
  /\ NoDir \in Dir /\ Files \subseteq Dir /\ \A d \in Dir : d # NoDir => d \in Files
  /\ NoDir \notin Files /\ {} \in Files /\ \A d \in Dir : Made(d) # NoDir
  /\ \A d \in Dir : d # NoDir => SUBSET d \subseteq Files
  /\ \A d \in Dir : Made(d) \in Files
  /\ \A d \in Dir : SUBSET Made(d) \subseteq Files
  /\ \A d \in Dir : \A i \in Items : Made(d) \cup {i} \in Files
  BY DataAssumption DEF Dir, Made, Files, NoDir

\* Which copies may be complete.
LEMMA Copies ==
  \A w : w \subseteq {"local", "s3"} =>
    /\ w \cup {"local"} \subseteq {"local", "s3"} /\ w \cup {"s3"} \subseteq {"local", "s3"}
    /\ w \ {"local"} \subseteq {"local", "s3"} /\ w \ {"s3"} \subseteq {"local", "s3"}
  OBVIOUS

\* A torn backup file is a set of files, and the object in S3 is what it was.
LEMMA Torn ==
  ASSUME NEW d \in Dir, whole \subseteq {"local", "s3"}, TornFrom(d)
  PROVE  /\ backup' \in Dir /\ whole' \subseteq {"local", "s3"}
         /\ destination' = destination /\ object' = object
         /\ "s3" \in whole' <=> "s3" \in whole
  BY MadeFiles, Copies DEF TornFrom

\* A directory that exists is made already.
LEMMA MadeAgain == \A d \in Files : Made(d) = d
<1>1. NoDir \notin Files
  BY DataAssumption DEF NoDir, Files
<1> QED BY <1>1 DEF Made

\* The data in the directories r.
Within(r) == UNION {r[n] : n \in DOMAIN r}

\* Directories set aside: the youngest and the rest, and what lies in them.
LEMMA LastAndRest ==
  ASSUME NEW r \in Seq(Files), r # <<>>
  PROVE  /\ Last(r) \in Files /\ Front(r) \in Seq(Files)
         /\ Within(r) = Within(Front(r)) \cup Last(r) /\ Len(Front(r)) = Len(r) - 1
<1>1. Len(r) \in Nat \ {0} /\ DOMAIN r = 1 .. Len(r)
  OBVIOUS
<1>2. Last(r) = r[Len(r)] /\ Last(r) \in Files
  BY <1>1 DEF Last
<1>3. /\ Front(r) \in Seq(Files) /\ DOMAIN Front(r) = 1 .. (Len(r) - 1)
      /\ \A n \in 1 .. (Len(r) - 1) : Front(r)[n] = r[n]
      /\ Len(Front(r)) = Len(r) - 1
  BY <1>1 DEF Front
<1>4. 1 .. Len(r) = (1 .. (Len(r) - 1)) \cup {Len(r)}
  BY <1>1
<1> QED BY <1>1, <1>2, <1>3, <1>4 DEF Within

\* One directory more is set aside.
LEMMA OneMore ==
  ASSUME NEW r \in Seq(Files), NEW d \in Files
  PROVE  Append(r, d) \in Seq(Files) /\ Within(Append(r, d)) = Within(r) \cup d
         /\ Append(r, d) # <<>> /\ Last(Append(r, d)) = d
<1>1. /\ Append(r, d) \in Seq(Files) /\ Append(r, d)[Len(r) + 1] = d
      /\ DOMAIN Append(r, d) = (1 .. Len(r)) \cup {Len(r) + 1}
      /\ \A n \in 1 .. Len(r) : Append(r, d)[n] = r[n]
      /\ Len(Append(r, d)) = Len(r) + 1
  OBVIOUS
<1>2. DOMAIN r = 1 .. Len(r)
  OBVIOUS
<1>3. Append(r, d) # <<>> /\ Last(Append(r, d)) = d
  BY <1>1 DEF Last
<1> QED BY <1>1, <1>2, <1>3 DEF Within

\* A task begins with its first step, which is no later step of a task.
LEMMA FirstSteps ==
  \A k \in DataTasks :
    /\ [kind |-> k, at |-> FirstStep[k], was |-> NoDir] \in Job
    /\ FirstStep[k] \notin BackingUp \cup Ends
         \cup {"pull", "launch", "upload", "quiet", "aside", "make", "unpack", "wipe",
               "undo", "swap", "drop", "keep", "purge", "erase"}
    /\ FirstStep[k] \in Recreating => k = "configure"
    /\ FirstStep[k] = "fetch" <=> k = "recover"
    /\ FirstStep[k] = "hold" <=> k = "backup"
    /\ FirstStep[k] = "clear" <=> k = "restore"
<1>1. \A k \in DataTasks : FirstStep[k] \in Steps
  BY DEF Steps
<1>2. NoDir \in Dir
  BY DEF Dir
<1>3. \A k \in DataTasks : [kind |-> k, at |-> FirstStep[k], was |-> NoDir] \in Job
  BY <1>1, <1>2 DEF Job
<1> QED BY <1>3 DEF DataTasks, FirstStep, BackingUp, Recreating, Ends

\* The directory that is set aside is remembered.
LEMMA SetAsideMoves ==
  ASSUME job \in Job, job # NoJob, current \in Dir,
         job' = [job EXCEPT !.at = "make", !.was = current]
  PROVE  job' \in Job /\ job'.kind = job.kind /\ job'.at = "make" /\ job'.was = current
<1>1. job \in [kind : DataTasks, at : Steps, was : Dir] /\ "make" \in Steps
  BY DEF Job, Steps, Restoring
<1> QED BY <1>1 DEF Job

\* A write of a server into a directory set aside keeps what the others and it held.
LEMMA WriteAside ==
  ASSUME NEW r \in Seq(Files), NEW b \in 1 .. Len(r), NEW i \in Items
  PROVE  LET w == [r EXCEPT ![b] = @ \cup {i}] IN
         /\ w \in Seq(Files) /\ Len(w) = Len(r) /\ Last(r) \subseteq Last(w)
         /\ Within(r) \subseteq Within(w)
<1> DEFINE w == [r EXCEPT ![b] = @ \cup {i}]
<1>1. r[b] \cup {i} \in Files
  BY DEF Files
<1>2. /\ w \in Seq(Files) /\ Len(w) = Len(r) /\ DOMAIN w = DOMAIN r
      /\ \A n \in DOMAIN r : r[n] \subseteq w[n]
  BY <1>1
<1>3. Len(r) \in DOMAIN r
  OBVIOUS
<1>4. Last(r) \subseteq Last(w)
  BY <1>2, <1>3 DEF Last
<1>5. Within(r) \subseteq Within(w)
  BY <1>2 DEF Within
<1> QED BY <1>2, <1>4, <1>5

-----------------------------------------------------------------------------
(* The inductive invariant *)

\* Which tasks have which steps.
StepsOfTasks ==
  /\ job.kind = "recover" =>
       job.at \in Restoring \cup Ends \cup {"fetch", "quiet", "aside"}
  /\ job.at \in {"fetch", "quiet", "aside", "make", "unpack", "wipe", "undo"} =>
       job.kind = "recover"
  /\ job.kind = "backup" => job.at \in BackingUp \cup {"hold", "upload", "done", "failed"}
  /\ job.at \in BackingUp \cup {"hold", "upload"} => job.kind = "backup"
  /\ job.at \in {"clear", "swap"} => job.kind = "restore"
  /\ job.at \in {"purge", "erase"} => job.kind = "purge"

\* Only a running container writes to a directory, and the one in use exists.
BoundWhileRunning ==
  /\ container # "running" => bound = Lost
  /\ bound = InUse => current # NoDir
  /\ At("launch") => current # NoDir
  /\ job.at \in {"pull", "launch", "drop", "keep", "purge", "erase"} => container = "absent"

\* No server writes to the directory that is filled from a backup.
FreshIsUnused == Refilling => bound # InUse

\* What was set aside lies in the youngest of the directories set aside.
YoungestIsOurs ==
  Refilling /\ job.was # NoDir => rollbacks # <<>> /\ job.was \subseteq Last(rollbacks)

\* A directory or archive is put only where there is none.
RoomIsMade ==
  /\ job.at \in {"make", "undo", "swap"} => current = NoDir
  /\ At("keep") => archived = NoDir

\* SavesHeldOnlyForBackup, and the stream that held the saves still works.
HeldByLiveStream ==
  saving = "held" => job.kind = "backup" /\ job.at \in BackingUp /\ console = "live"

\* The task of the backup is done.
BackupMade == job.kind = "backup" /\ At("done")

\* A task of the backup has made a complete copy of what it reports or uploads; what is
\* offered is complete, and nobody but a resubmitted task writes over it.
OfferedStays ==
  /\ job.at \in {"resume", "upload"} => "local" \in whole
  /\ BackupMade => destination \in whole
  /\ asked = "never" => ~offered /\ "backup" \notin open /\ job.kind # "backup"
  /\ OfferedBackupIsWhole
  /\ offered /\ destination = "local" /\ asked # "again" =>
       job.kind # "backup" /\ "backup" \notin open

\* What holds of the task under way, beside the types.
TaskInv ==
  /\ StepsOfTasks /\ BoundWhileRunning /\ FreshIsUnused /\ YoungestIsOurs
  /\ RoomIsMade /\ HeldByLiveStream /\ OfferedStays

\* The inductive invariant.
DataInv == DataTypeOK /\ TaskInv

-----------------------------------------------------------------------------
(* Every action keeps it.  From here on the invariant, the tuples of variables *)
(* and the sets of steps are always expanded.                                  *)

USE DEF docker, dirs, backups, panel, At, Refilling, Recreating, BackingUp, Restoring, Ends,
        NextSteps, Moved, InUse, Lost, DataInv, DataTypeOK, TaskInv, StepsOfTasks,
        BoundWhileRunning, FreshIsUnused, YoungestIsOurs, RoomIsMade, HeldByLiveStream,
        BackupMade, OfferedBackupIsWhole, OfferedStays

\* The download of the artifact keeps the invariant.
LEMMA DownloadArtifactKeeps == ASSUME DataInv, DownloadArtifact PROVE DataInv'
<1>1. job \in Job /\ job # NoJob
  BY AtWork DEF DownloadArtifact
<1>2. \A s \in NextSteps : Goto(s) => Moved(s)
  BY <1>1, GotoMoves
<1>3. DataTypeOK'
  BY <1>1, <1>2, FailsMoves, MadeFiles DEF DownloadArtifact
<1>4. TaskInv'
  BY <1>1, <1>2, FailsMoves, MadeFiles DEF DownloadArtifact
<1> QED BY <1>3, <1>4

\* The removal of the container keeps the invariant.
LEMMA RemoveContainerKeeps == ASSUME DataInv, RemoveContainer PROVE DataInv'
<1>1. job \in Job /\ job # NoJob
  BY AtWork DEF RemoveContainer
<1>2. \A s \in NextSteps : Goto(s) => Moved(s)
  BY <1>1, GotoMoves
<1>3. DataTypeOK'
  BY <1>1, <1>2, FailsMoves DEF RemoveContainer, Dead, Halted
<1>4. TaskInv'
  BY <1>1, <1>2, FailsMoves DEF RemoveContainer, Dead, Halted
<1> QED BY <1>3, <1>4

\* The download of the image keeps the invariant.
LEMMA PullImageKeeps == ASSUME DataInv, PullImage PROVE DataInv'
<1>1. job \in Job /\ job # NoJob
  BY AtWork DEF PullImage
<1>2. \A s \in NextSteps : Goto(s) => Moved(s)
  BY <1>1, GotoMoves
<1>3. DataTypeOK'
  BY <1>1, <1>2, FailsMoves, MadeFiles DEF PullImage
<1>4. TaskInv'
  BY <1>1, <1>2, FailsMoves, MadeFiles DEF PullImage
<1> QED BY <1>3, <1>4

\* The new container keeps the invariant.
LEMMA LaunchKeeps == ASSUME DataInv, Launch PROVE DataInv'
<1>1. job \in Job /\ job # NoJob
  BY AtWork DEF Launch
<1>2. \A s \in NextSteps : Goto(s) => Moved(s)
  BY <1>1, GotoMoves
<1>3. DataTypeOK'
  <2>1. 0 <= Len(rollbacks)
    OBVIOUS
  <2> QED BY <1>1, <1>2, <2>1, FailsMoves DEF Launch, Runs, EnsureConsole
<1>4. /\ container' # "running" => bound' = Lost
      /\ bound' = InUse => current' # NoDir
      /\ \/ Moved("done") \/ Moved("failed")
         \/ Moved("wipe") /\ job.kind = "recover" /\ bound' = bound
      /\ saving' = saving \/ saving' = "on"
      /\ saving' = "held" => console' = console
  <2>1. CASE Runs /\ EnsureConsole /\ Goto("done")
    BY <1>2, <2>1 DEF Launch, Runs, EnsureConsole
  <2>2. CASE ~(Runs /\ EnsureConsole /\ Goto("done"))
    <3>1. Fails /\ UNCHANGED <<bound, saving, console, current>> /\ At("launch")
      BY <2>2 DEF Launch
    <3>2. Moved("failed") \/ (Moved("wipe") /\ job.kind = "recover")
      BY <1>1, <3>1, FailsMoves
    <3> QED BY <3>1, <3>2
  <2> QED BY <2>1, <2>2
<1>5. UNCHANGED <<dirs, backups, open, panel, agentCrashes>>
  BY DEF Launch
<1>6. TaskInv'
  BY <1>4, <1>5 DEF Launch
<1> QED BY <1>3, <1>6

\* Starting and restarting keep the invariant.
LEMMA StartOrRestartKeeps == ASSUME DataInv, StartOrRestart PROVE DataInv'
<1>1. job \in Job /\ job # NoJob
  BY AtWork DEF StartOrRestart
<1>2. \A s \in NextSteps : Goto(s) => Moved(s)
  BY <1>1, GotoMoves
<1>3. 0 <= Len(rollbacks) /\ Made(current) \in Dir /\ Made(current) # NoDir
  BY MadeFiles
<1>4. /\ current' \in {current, Made(current)}
      /\ UNCHANGED <<archived, rollbacks, backups, open, panel>>
      /\ agentCrashes' = agentCrashes
  BY DEF StartOrRestart
<1>5. /\ container' \in {"absent", "stopped", "running"} /\ saving' \in {"on", "held", "left"}
      /\ console' \in {"none", "live", "dead"}
      /\ \/ bound' \in {-1, bound}
         \/ bound' = 0 /\ container' = "running" /\ current' = Made(current)
  BY DEF StartOrRestart, Runs, EnsureConsole, Dead, Halted
<1>6. /\ container' # "running" => bound' = Lost
      /\ saving' = saving \/ saving' = "on"
      /\ saving' = "held" => console' = console
  BY DEF StartOrRestart, Runs, EnsureConsole, Dead, Halted
<1>7. Moved("done") \/ Moved("failed") \/ Moved("remove")
  BY <1>1, <1>2, FailsMoves DEF StartOrRestart
<1>8. DataTypeOK'
  BY <1>3, <1>4, <1>5, <1>7
<1>9. TaskInv'
  BY <1>3, <1>4, <1>5, <1>6, <1>7 DEF StartOrRestart
<1> QED BY <1>8, <1>9

\* Stopping and killing keep the invariant.
LEMMA StopOrKillKeeps == ASSUME DataInv, StopOrKill PROVE DataInv'
<1>1. job \in Job /\ job # NoJob
  BY AtWork DEF StopOrKill
<1>2. \A s \in NextSteps : Goto(s) => Moved(s)
  BY <1>1, GotoMoves
<1>3. DataTypeOK'
  BY <1>1, <1>2, FailsMoves DEF StopOrKill, Halted, Dead
<1>4. TaskInv'
  BY <1>1, <1>2, FailsMoves DEF StopOrKill, Halted, Dead
<1> QED BY <1>3, <1>4

\* A file task keeps the invariant.
LEMMA UseFileKeeps == ASSUME DataInv, UseFile PROVE DataInv'
<1>1. job \in Job /\ job # NoJob
  BY AtWork DEF UseFile
<1>2. \A s \in NextSteps : Goto(s) => Moved(s)
  BY <1>1, GotoMoves
<1>3. DataTypeOK'
  BY <1>1, <1>2, FailsMoves, MadeFiles DEF UseFile
<1>4. TaskInv'
  BY <1>1, <1>2, FailsMoves, MadeFiles DEF UseFile
<1> QED BY <1>3, <1>4

\* The checkpoint before a backup keeps the invariant.
LEMMA HoldSavesKeeps == ASSUME DataInv, HoldSaves PROVE DataInv'
<1>1. job \in Job /\ job # NoJob
  BY AtWork DEF HoldSaves
<1>2. \A s \in NextSteps : Goto(s) => Moved(s)
  BY <1>1, GotoMoves
<1>3. DataTypeOK'
  BY <1>1, <1>2 DEF HoldSaves
<1>4. TaskInv'
  BY <1>1, <1>2 DEF HoldSaves
<1> QED BY <1>3, <1>4

\* tar keeps the invariant.
LEMMA PackBackupKeeps == ASSUME DataInv, PackBackup PROVE DataInv'
<1>1. job \in Job /\ job # NoJob
  BY AtWork DEF PackBackup
<1>2. \A s \in NextSteps : Goto(s) => Moved(s)
  BY <1>1, GotoMoves
<1>3. job.kind = "backup" /\ (Moved("resume") \/ Moved("release"))
  BY <1>1, <1>2 DEF PackBackup
<1>4. /\ backup' \in Dir /\ object' = object /\ destination' = destination
      /\ whole' \subseteq {"local", "s3"} /\ ("s3" \in whole' <=> "s3" \in whole)
      /\ Moved("resume") => "local" \in whole'
  <2>1. CASE TornFrom(current) /\ Goto("release")
    BY <1>1, <1>2, <2>1, Torn
  <2>2. CASE ~(TornFrom(current) /\ Goto("release"))
    BY <2>2, Copies DEF PackBackup
  <2> QED BY <2>1, <2>2
<1>5. DataTypeOK'
  BY <1>3, <1>4 DEF PackBackup
<1>6. TaskInv'
  BY <1>3, <1>4 DEF PackBackup
<1> QED BY <1>5, <1>6

\* The finally block of a backup keeps the invariant.
LEMMA ResumeSavesKeeps == ASSUME DataInv, ResumeSaves PROVE DataInv'
<1>1. job \in Job /\ job # NoJob
  BY AtWork DEF ResumeSaves
<1>2. \A s \in NextSteps : Goto(s) => Moved(s)
  BY <1>1, GotoMoves
<1>3. DataTypeOK'
  BY <1>1, <1>2, FailsMoves DEF ResumeSaves
<1>4. TaskInv'
  BY <1>1, <1>2, FailsMoves DEF ResumeSaves
<1> QED BY <1>3, <1>4

\* The upload of a backup keeps the invariant.
LEMMA UploadBackupKeeps == ASSUME DataInv, UploadBackup PROVE DataInv'
<1>1. job \in Job /\ job # NoJob
  BY AtWork DEF UploadBackup
<1>2. \A s \in NextSteps : Goto(s) => Moved(s)
  BY <1>1, GotoMoves
<1>3. /\ job.kind = "backup" /\ "local" \in whole /\ (Moved("done") \/ Moved("failed"))
      /\ UNCHANGED <<docker, dirs, open, panel, agentCrashes, destination, backup>>
  BY <1>1, <1>2, FailsMoves DEF UploadBackup
<1>4. /\ object' \in Dir /\ whole' \subseteq {"local", "s3"} /\ whole \subseteq whole'
      /\ Moved("done") => whole' = whole \cup {"s3"}
  <2>1. CASE object' = backup /\ whole' = whole \cup {"s3"}
    BY <2>1, Copies
  <2>2. CASE Fails /\ UNCHANGED backups
    BY <1>1, <2>2, FailsMoves
  <2> QED BY <1>3, <2>1, <2>2 DEF UploadBackup
<1>5. DataTypeOK'
  BY <1>3, <1>4
<1>6. destination \in whole' \/ ~Moved("done")
  BY <1>3, <1>4
<1>7. OfferedStays'
  BY <1>3, <1>4, <1>6
<1>8. StepsOfTasks' /\ FreshIsUnused' /\ YoungestIsOurs'
  BY <1>3
<1>9. BoundWhileRunning' /\ RoomIsMade'
  BY <1>3
<1>10. HeldByLiveStream'
  BY <1>3 DEF UploadBackup
<1> QED BY <1>5, <1>7, <1>8, <1>9, <1>10

\* The download of the backup keeps the invariant.
LEMMA FetchBackupKeeps == ASSUME DataInv, FetchBackup PROVE DataInv'
<1>1. job \in Job /\ job # NoJob
  BY AtWork DEF FetchBackup
<1>2. \A s \in NextSteps : Goto(s) => Moved(s)
  BY <1>1, GotoMoves
<1>3. job.kind = "recover" /\ (Moved("quiet") \/ Moved("failed"))
  BY <1>1, <1>2, FailsMoves DEF FetchBackup
<1>4. /\ backup' \in Dir /\ object' = object /\ destination' = destination
      /\ whole' \subseteq {"local", "s3"} /\ ("s3" \in whole' <=> "s3" \in whole)
      /\ destination = "local" => whole' = whole
  <2>1. CASE TornFrom(object) /\ destination = "s3"
    BY <2>1, Torn
  <2>2. CASE ~(TornFrom(object) /\ destination = "s3")
    BY <2>2, Copies DEF FetchBackup
  <2> QED BY <2>1, <2>2
<1>5. DataTypeOK'
  BY <1>3, <1>4 DEF FetchBackup
<1>6. TaskInv'
  BY <1>3, <1>4 DEF FetchBackup
<1> QED BY <1>5, <1>6

\* The stop before a restoration keeps the invariant.
LEMMA StopForRestoreKeeps == ASSUME DataInv, StopForRestore PROVE DataInv'
<1>1. job \in Job /\ job # NoJob
  BY AtWork DEF StopForRestore
<1>2. \A s \in NextSteps : Goto(s) => Moved(s)
  BY <1>1, GotoMoves
<1>3. DataTypeOK'
  BY <1>1, <1>2, FailsMoves DEF StopForRestore, Halted, Dead
<1>4. TaskInv'
  BY <1>1, <1>2, FailsMoves DEF StopForRestore, Halted, Dead
<1> QED BY <1>3, <1>4

\* Making the fresh directory keeps the invariant.
LEMMA MakeFreshKeeps == ASSUME DataInv, MakeFresh PROVE DataInv'
<1>1. job \in Job /\ job # NoJob
  BY AtWork DEF MakeFresh
<1>2. \A s \in NextSteps : Goto(s) => Moved(s)
  BY <1>1, GotoMoves
<1>3. DataTypeOK'
  BY <1>1, <1>2, MadeFiles DEF MakeFresh
<1>4. TaskInv'
  BY <1>1, <1>2 DEF MakeFresh
<1> QED BY <1>3, <1>4

\* Unpacking keeps the invariant.
LEMMA UnpackBackupKeeps == ASSUME DataInv, UnpackBackup PROVE DataInv'
<1>1. job \in Job /\ job # NoJob
  BY AtWork DEF UnpackBackup
<1>2. \A s \in NextSteps : Goto(s) => Moved(s)
  BY <1>1, GotoMoves
<1>3. DataTypeOK'
  BY <1>1, <1>2, FailsMoves, MadeFiles DEF UnpackBackup
<1>4. TaskInv'
  BY <1>1, <1>2, FailsMoves DEF UnpackBackup
<1> QED BY <1>3, <1>4

\* The removal of what was unpacked keeps the invariant.
LEMMA WipeRestoredKeeps == ASSUME DataInv, WipeRestored PROVE DataInv'
<1>1. job \in Job /\ job # NoJob
  BY AtWork DEF WipeRestored
<1>2. \A s \in NextSteps : Goto(s) => Moved(s)
  BY <1>1, GotoMoves
<1>3. DataTypeOK'
  BY <1>1, <1>2, MadeFiles DEF WipeRestored, RemoveCurrent, RemovePart
<1>4. TaskInv'
  BY <1>1, <1>2, MadeFiles DEF WipeRestored, RemoveCurrent, RemovePart
<1> QED BY <1>3, <1>4

\* Putting back what was set aside keeps the invariant.
LEMMA UndoRestoreKeeps == ASSUME DataInv, UndoRestore PROVE DataInv'
<1>1. job \in Job /\ job # NoJob
  BY AtWork DEF UndoRestore
<1>2. \A s \in NextSteps : Goto(s) => Moved(s)
  BY <1>1, GotoMoves
<1>3. CASE UNCHANGED <<current, rollbacks, bound>>
  <2>1. DataTypeOK'
    BY <1>2, <1>3 DEF UndoRestore
  <2>2. TaskInv'
    BY <1>2, <1>3 DEF UndoRestore
  <2> QED BY <2>1, <2>2
<1>4. CASE ~UNCHANGED <<current, rollbacks, bound>>
  <2>1. /\ job.was # NoDir /\ Moved("failed") /\ rollbacks # <<>>
        /\ current' = Last(rollbacks) /\ rollbacks' = Front(rollbacks)
        /\ bound' = (IF bound = Len(rollbacks) THEN 0 ELSE bound)
    BY <1>2, <1>4 DEF UndoRestore
  <2>2. current' \in Files /\ rollbacks' \in Seq(Files) /\ Len(rollbacks') = Len(rollbacks) - 1
    BY <2>1, LastAndRest
  <2>3. current' \in Dir /\ current' # NoDir
    BY <2>2, MadeFiles
  <2>4. bound' \in Int /\ -1 <= bound' /\ bound' <= Len(rollbacks')
    BY <2>1, <2>2
  <2>5. DataTypeOK'
    BY <2>1, <2>2, <2>3, <2>4 DEF UndoRestore
  <2>6. container # "running" => bound' = Lost
    BY <2>1
  <2>7. TaskInv'
    BY <2>1, <2>3, <2>6 DEF UndoRestore
  <2> QED BY <2>5, <2>7
<1> QED BY <1>3, <1>4

\* Making room for the archive keeps the invariant.
LEMMA ClearCurrentKeeps == ASSUME DataInv, ClearCurrent PROVE DataInv'
<1>1. job \in Job /\ job # NoJob
  BY AtWork DEF ClearCurrent
<1>2. \A s \in NextSteps : Goto(s) => Moved(s)
  BY <1>1, GotoMoves
<1>3. DataTypeOK'
  BY <1>1, <1>2, FailsMoves, MadeFiles DEF ClearCurrent, RemoveCurrent, RemovePart
<1>4. TaskInv'
  BY <1>1, <1>2, FailsMoves, MadeFiles DEF ClearCurrent, RemoveCurrent, RemovePart
<1> QED BY <1>3, <1>4

\* The return of the archive keeps the invariant.
LEMMA BringBackKeeps == ASSUME DataInv, BringBack PROVE DataInv'
<1>1. job \in Job /\ job # NoJob
  BY AtWork DEF BringBack
<1>2. \A s \in NextSteps : Goto(s) => Moved(s)
  BY <1>1, GotoMoves
<1>3. DataTypeOK'
  BY <1>1, <1>2, FailsMoves, MadeFiles DEF BringBack
<1>4. TaskInv'
  BY <1>1, <1>2, FailsMoves DEF BringBack
<1> QED BY <1>3, <1>4

\* The removal of an older archive keeps the invariant.
LEMMA DropOldArchiveKeeps == ASSUME DataInv, DropOldArchive PROVE DataInv'
<1>1. job \in Job /\ job # NoJob
  BY AtWork DEF DropOldArchive
<1>2. \A s \in NextSteps : Goto(s) => Moved(s)
  BY <1>1, GotoMoves
<1>3. DataTypeOK'
  BY <1>1, <1>2, FailsMoves, MadeFiles DEF DropOldArchive
<1>4. TaskInv'
  BY <1>1, <1>2, FailsMoves DEF DropOldArchive
<1> QED BY <1>3, <1>4

\* Archiving keeps the invariant.
LEMMA KeepAsArchiveKeeps == ASSUME DataInv, KeepAsArchive PROVE DataInv'
<1>1. job \in Job /\ job # NoJob
  BY AtWork DEF KeepAsArchive
<1>2. \A s \in NextSteps : Goto(s) => Moved(s)
  BY <1>1, GotoMoves
<1>3. DataTypeOK'
  BY <1>1, <1>2, FailsMoves, MadeFiles DEF KeepAsArchive
<1>4. TaskInv'
  BY <1>1, <1>2, FailsMoves DEF KeepAsArchive
<1> QED BY <1>3, <1>4

\* The removal of the archive keeps the invariant.
LEMMA PurgeArchiveKeeps == ASSUME DataInv, PurgeArchive PROVE DataInv'
<1>1. job \in Job /\ job # NoJob
  BY AtWork DEF PurgeArchive
<1>2. \A s \in NextSteps : Goto(s) => Moved(s)
  BY <1>1, GotoMoves
<1>3. DataTypeOK'
  BY <1>1, <1>2, FailsMoves, MadeFiles DEF PurgeArchive
<1>4. TaskInv'
  BY <1>1, <1>2, FailsMoves DEF PurgeArchive
<1> QED BY <1>3, <1>4

\* The removal of the directory keeps the invariant.
LEMMA EraseCurrentKeeps == ASSUME DataInv, EraseCurrent PROVE DataInv'
<1>1. job \in Job /\ job # NoJob
  BY AtWork DEF EraseCurrent
<1>2. \A s \in NextSteps : Goto(s) => Moved(s)
  BY <1>1, GotoMoves
<1>3. DataTypeOK'
  BY <1>1, <1>2, FailsMoves, MadeFiles DEF EraseCurrent, RemoveCurrent, RemovePart
<1>4. TaskInv'
  BY <1>1, <1>2, FailsMoves, MadeFiles DEF EraseCurrent, RemoveCurrent, RemovePart
<1> QED BY <1>3, <1>4

\* A request of the panel keeps the invariant.
LEMMA RequestTaskKeeps == ASSUME DataInv, NEW k \in TaskMix, RequestTask(k) PROVE DataInv'
<1>1. DataTypeOK'
  <2>1. k \in DataTasks /\ open' \subseteq DataTasks
    BY DataAssumption DEF RequestTask
  <2>2. shelf' \in {"live", "archived", "expired"}
    BY DEF RequestTask
  <2> QED BY <2>1, <2>2 DEF RequestTask
<1>2. TaskInv'
  BY DEF RequestTask, Allowed
<1> QED BY <1>1, <1>2

\* The end of an archive's time keeps the invariant.
LEMMA ArchiveExpiresKeeps == ASSUME DataInv, ArchiveExpires PROVE DataInv'
<1>1. DataTypeOK'
  BY DEF ArchiveExpires
<1>2. TaskInv'
  BY DEF ArchiveExpires
<1> QED BY <1>1, <1>2

\* The start of a task keeps the invariant.
LEMMA BeginKeeps == ASSUME DataInv, NEW k \in open, Begin(k) PROVE DataInv'
<1>1. DataTypeOK'
  BY FirstSteps DEF Begin
<1>2. TaskInv'
  BY FirstSteps, Idle DEF Begin
<1> QED BY <1>1, <1>2

\* Giving a backup up keeps the invariant.
LEMMA GiveUpBackupKeeps == ASSUME DataInv, GiveUpBackup PROVE DataInv'
<1>1. DataTypeOK'
  BY DEF GiveUpBackup, BackupFailed
<1>2. TaskInv'
  BY DEF GiveUpBackup, BackupFailed
<1> QED BY <1>1, <1>2

\* The end of a task keeps the invariant.
LEMMA ReportTaskKeeps == ASSUME DataInv, ReportTask PROVE DataInv'
<1>1. open' \subseteq open /\ asked' \in {asked, "failed"} /\ (asked' # asked => asked = "once")
  BY DEF ReportTask, BackupFailed
<1>2. DataTypeOK'
  <2>1. offered' \in BOOLEAN
    BY DEF ReportTask
  <2> QED BY <1>1, <2>1, Idle DEF ReportTask
<1>3. job' = NoJob /\ whole' = whole /\ destination' = destination
  BY DEF ReportTask
<1>4. CASE job.kind = "backup" /\ offered' = At("done")
  <2>1. offered' => destination \in whole /\ "backup" \notin open'
    BY <1>4 DEF ReportTask
  <2>2. OfferedStays'
    BY <1>1, <1>3, <1>4, <2>1, Idle
  <2> QED BY <1>2, <1>3, <2>2, Idle DEF ReportTask
<1>5. CASE offered' = offered /\ asked' = asked
  <2>1. OfferedStays'
    BY <1>1, <1>3, <1>5, Idle
  <2> QED BY <1>2, <1>3, <2>1, Idle DEF ReportTask
<1> QED BY <1>4, <1>5 DEF ReportTask

\* The death of the agent keeps the invariant.
LEMMA DieInTaskKeeps == ASSUME DataInv, DieInTask PROVE DataInv'
<1>1. /\ backup' \in Dir /\ object' \in Dir /\ whole' \subseteq {"local", "s3"}
      /\ destination' = destination /\ ("s3" \in whole' <=> "s3" \in whole)
      /\ whole' = whole \/ At("tar") \/ destination = "s3"
  BY Torn DEF DieInTask
<1>2. DataTypeOK'
  BY <1>1, Idle DEF DieInTask
<1>3. TaskInv'
  BY <1>1, Idle DEF DieInTask
<1> QED BY <1>2, <1>3

\* The close of the console keeps the invariant.
LEMMA ConsoleClosesKeeps == ASSUME DataInv, ConsoleCloses PROVE DataInv'
<1>1. DataTypeOK'
  BY DEF ConsoleCloses
<1>2. TaskInv'
  BY DEF ConsoleCloses
<1> QED BY <1>1, <1>2

\* A write of the server keeps the invariant.
LEMMA PlayKeeps == ASSUME DataInv, NEW i \in Items, Play(i) PROVE DataInv'
<1>1. CASE bound = InUse /\ current' = Made(current) \cup {i} /\ UNCHANGED rollbacks
  <2>1. current' \in Dir /\ current' # NoDir
    BY <1>1, MadeFiles
  <2>2. DataTypeOK'
    BY <1>1, <2>1 DEF Play
  <2>3. TaskInv'
    BY <1>1, <2>1 DEF Play
  <2> QED BY <2>2, <2>3
<1>2. CASE bound > 0 /\ rollbacks' = [rollbacks EXCEPT ![bound] = @ \cup {i}]
           /\ UNCHANGED current
  <2>0. bound \in 1 .. Len(rollbacks)
    BY <1>2
  <2>1. /\ rollbacks' \in Seq(Files) /\ Len(rollbacks') = Len(rollbacks)
        /\ Last(rollbacks) \subseteq Last(rollbacks')
    BY <1>2, <2>0, WriteAside
  <2>2. rollbacks # <<>> => rollbacks' # <<>>
    BY <2>1
  <2>5. UNCHANGED <<docker, current, archived, backups, job, open, panel, agentCrashes>>
    BY <1>2 DEF Play
  <2>6. YoungestIsOurs'
    BY <2>1, <2>2, <2>5
  <2>3. DataTypeOK'
    BY <1>2, <2>1 DEF Play
  <2>4. TaskInv'
    BY <2>5, <2>6
  <2> QED BY <2>3, <2>4
<1> QED BY <1>1, <1>2 DEF Play

\* Setting the directory aside keeps the invariant.
LEMMA SetAsideKeeps == ASSUME DataInv, SetAside PROVE DataInv'
<1>1. job \in Job /\ job # NoJob /\ job.kind = "recover"
  BY AtWork DEF SetAside
<1>2. CASE Fails /\ UNCHANGED <<current, rollbacks, bound>>
  <2>1. Moved("failed")
    BY <1>1, <1>2, FailsMoves DEF SetAside
  <2>2. DataTypeOK'
    BY <1>2, <2>1 DEF SetAside
  <2>3. TaskInv'
    BY <1>1, <1>2, <2>1 DEF SetAside
  <2> QED BY <2>2, <2>3
<1>3. CASE /\ job' = [job EXCEPT !.at = "make", !.was = current]
           /\ ~(Fails /\ UNCHANGED <<current, rollbacks, bound>>)
  <2>1. job' \in Job /\ job'.kind = "recover" /\ job'.at = "make" /\ job'.was = current
    BY <1>1, <1>3, SetAsideMoves
  <2>2. /\ rollbacks' = IF current = NoDir THEN rollbacks ELSE Append(rollbacks, current)
        /\ bound' = IF bound = 0 THEN Len(rollbacks) + 1 ELSE bound
        /\ current' = NoDir
    BY <1>3 DEF SetAside
  <2>3. /\ rollbacks' \in Seq(Files)
        /\ Len(rollbacks') = IF current = NoDir THEN Len(rollbacks) ELSE Len(rollbacks) + 1
        /\ current # NoDir => rollbacks' # <<>> /\ current \subseteq Last(rollbacks')
    BY <2>2, OneMore, MadeFiles
  <2>4. bound' \in Int /\ -1 <= bound' /\ bound' <= Len(rollbacks') /\ bound' # 0
    BY <2>2, <2>3
  <2>5. container # "running" => bound' = -1
    BY <2>2
  <2>6. DataTypeOK'
    BY <2>1, <2>2, <2>3, <2>4, MadeFiles DEF SetAside
  <2>7. TaskInv'
    BY <2>1, <2>2, <2>3, <2>4, <2>5 DEF SetAside
  <2> QED BY <2>6, <2>7
<1> QED BY <1>2, <1>3 DEF SetAside

-----------------------------------------------------------------------------
(* The invariant holds first, and every step keeps it *)

\* The invariant holds before the first task.
LEMMA DataBegins == ASSUME DataInit PROVE DataInv
<1>1. rollbacks \in Seq(Files) /\ open \subseteq DataTasks
  BY DEF DataInit, DataTasks
<1>2. job \in Job /\ current \in Dir /\ archived \in Dir /\ backup \in Dir
  BY Idle, MadeFiles DEF DataInit
<1>3. /\ bound \in Int /\ Lost <= bound /\ bound <= Len(rollbacks)
      /\ whole \subseteq {"local", "s3"}
  BY DEF DataInit
<1>4. DataTypeOK
  BY <1>1, <1>2, <1>3 DEF DataInit
<1>5. TaskInv
  BY Idle DEF DataInit
<1> QED BY <1>4, <1>5

\* Every step keeps the invariant.
LEMMA DataGoesOn == ASSUME DataInv, [DataNext]_dataVars PROVE DataInv'
<1>1. CASE DataStep
  BY <1>1, DownloadArtifactKeeps, RemoveContainerKeeps, PullImageKeeps, LaunchKeeps,
    StartOrRestartKeeps, StopOrKillKeeps, UseFileKeeps, HoldSavesKeeps, PackBackupKeeps,
    ResumeSavesKeeps, UploadBackupKeeps, FetchBackupKeeps, StopForRestoreKeeps,
    SetAsideKeeps, MakeFreshKeeps, UnpackBackupKeeps, WipeRestoredKeeps, UndoRestoreKeeps,
    ClearCurrentKeeps, BringBackKeeps,
    DropOldArchiveKeeps, KeepAsArchiveKeeps, PurgeArchiveKeeps, EraseCurrentKeeps DEF
    DataStep
<1>2. CASE DataNext /\ ~DataStep
  BY <1>2, RequestTaskKeeps, ArchiveExpiresKeeps, BeginKeeps, GiveUpBackupKeeps,
    ReportTaskKeeps, DieInTaskKeeps, ConsoleClosesKeeps, PlayKeeps DEF DataNext
<1>3. CASE UNCHANGED dataVars
  BY <1>3 DEF dataVars
<1> QED BY <1>1, <1>2, <1>3

-----------------------------------------------------------------------------
(* What a step may not do *)

\* What the panel, the agent's loop, the console and the server do beside the tasks' steps.
OtherStep ==
  \/ \E k \in TaskMix : RequestTask(k)
  \/ \E k \in open : Begin(k)
  \/ \E i \in Items : Play(i)
  \/ ArchiveExpires \/ GiveUpBackup \/ ReportTask \/ DieInTask \/ ConsoleCloses

\* What FailedRestoreUndone says of a step.
UndoneOrAside ==
  /\ job'.at = "failed" =>
       IF job.was = NoDir THEN current' = NoDir
       ELSE current' # NoDir /\ job.was \subseteq current'
  /\ job'.at = "stuck" /\ job.was # NoDir =>
       rollbacks' # <<>> /\ job.was \subseteq Last(rollbacks')

\* No step but that of UndoRestore ends a restoration as failed, and it puts back what was
\* set aside; a restoration that is stuck leaves it there.
LEMMA StepUndoesRestore ==
  ASSUME DataInv, DataNext, Refilling, job' # NoJob
  PROVE  UndoneOrAside
<1>1. CASE OtherStep
  BY <1>1, Idle, FirstSteps DEF OtherStep, RequestTask, Begin, Play, ArchiveExpires,
    GiveUpBackup, ReportTask, DieInTask, ConsoleCloses, UndoneOrAside
<1>2. CASE DownloadArtifact \/ StartOrRestart \/ StopOrKill \/ UseFile \/ HoldSaves \/
          PackBackup \/ ResumeSaves \/ UploadBackup \/ FetchBackup \/ StopForRestore \/
          SetAside \/ ClearCurrent \/ BringBack \/ DropOldArchive \/ KeepAsArchive \/
          PurgeArchive \/ EraseCurrent
  BY <1>2 DEF DownloadArtifact, StartOrRestart, StopOrKill, UseFile, HoldSaves, PackBackup,
    ResumeSaves, UploadBackup, FetchBackup, StopForRestore, SetAside, ClearCurrent,
    BringBack, DropOldArchive, KeepAsArchive, PurgeArchive, EraseCurrent
<1>3. CASE RemoveContainer
  BY <1>3, AtWork, GotoMoves, FailsMoves DEF RemoveContainer, UndoneOrAside
<1>4. CASE PullImage
  BY <1>4, AtWork, GotoMoves, FailsMoves DEF PullImage, UndoneOrAside
<1>5. CASE Launch
  BY <1>5, AtWork, GotoMoves, FailsMoves DEF Launch, UndoneOrAside
<1>6. CASE UnpackBackup
  BY <1>6, AtWork, GotoMoves, FailsMoves DEF UnpackBackup, UndoneOrAside
<1>7. CASE WipeRestored
  BY <1>7, AtWork, GotoMoves DEF WipeRestored, UndoneOrAside
<1>8. CASE MakeFresh
  BY <1>8, AtWork, GotoMoves DEF MakeFresh, UndoneOrAside
<1>9. CASE UndoRestore
  <2>1. \A s \in NextSteps : Goto(s) => Moved(s)
    BY <1>9, AtWork, GotoMoves DEF UndoRestore
  <2>2. CASE job.was # NoDir /\ Goto("failed")
    <3>1. current' = Last(rollbacks) /\ current' \in Files /\ job.was \subseteq current'
      BY <1>9, <2>1, <2>2, LastAndRest DEF UndoRestore
    <3> QED BY <2>1, <2>2, <3>1, MadeFiles DEF UndoneOrAside
  <2>3. CASE ~(job.was # NoDir /\ Goto("failed"))
    BY <1>9, <2>1, <2>3 DEF UndoRestore, UndoneOrAside
  <2> QED BY <2>2, <2>3
<1> QED
  BY <1>1, <1>2, <1>3, <1>4, <1>5, <1>6, <1>7, <1>8, <1>9 DEF DataNext, DataStep, OtherStep

\* A directory is removed only while no container writes to it, but by ClearCurrent.
LEMMA StepKeepsDirectory ==
  ASSUME DataInv, DataNext, container = "running", container' = "running", bound # Lost
  PROVE  bound' # Lost \/ job.kind = "restore"
<1>1. CASE OtherStep
  BY <1>1 DEF OtherStep, RequestTask, Begin, Play, ArchiveExpires, GiveUpBackup, ReportTask,
    DieInTask, ConsoleCloses
<1>2. CASE DownloadArtifact \/ PullImage \/ UseFile \/ HoldSaves \/ PackBackup \/
          ResumeSaves \/ UploadBackup \/ FetchBackup \/ MakeFresh \/ UnpackBackup \/
          BringBack \/ DropOldArchive \/ KeepAsArchive \/ PurgeArchive
  BY <1>2 DEF DownloadArtifact, PullImage, UseFile, HoldSaves, PackBackup, ResumeSaves,
    UploadBackup, FetchBackup, MakeFresh, UnpackBackup, BringBack, DropOldArchive,
    KeepAsArchive, PurgeArchive
<1>3. CASE RemoveContainer \/ Launch \/ StartOrRestart \/ StopOrKill \/ StopForRestore
  BY <1>3 DEF RemoveContainer, Launch, StartOrRestart, StopOrKill, StopForRestore, Runs,
    Halted
<1>4. CASE ClearCurrent \/ WipeRestored \/ EraseCurrent
  BY <1>4 DEF ClearCurrent, WipeRestored, EraseCurrent, RemoveCurrent, RemovePart
<1>5. CASE SetAside
  BY <1>5 DEF SetAside
<1>6. CASE UndoRestore
  BY <1>6 DEF UndoRestore
<1> QED
  BY <1>1, <1>2, <1>3, <1>4, <1>5, <1>6 DEF DataNext, DataStep, OtherStep

\* Whether the directory in use counts: not while it is filled from a backup.
Counted == IF Refilling THEN {} ELSE Made(current)

\* The data held on the node, part by part.
LEMMA HeldParts ==
  /\ Held = Counted \cup Made(archived) \cup Within(rollbacks)
  /\ Held' = Counted' \cup Made(archived') \cup Within(rollbacks')
  BY DEF Held, Counted, Within

\* No step loses data but a purge, or one that keeps one of two directories.
LEMMA StepKeepsData ==
  ASSUME DataInv, DataNext
  PROVE  Held \subseteq Held' \/ job.kind = "purge" \/ (current # NoDir /\ archived # NoDir)
<1> USE HeldParts DEF Counted
<1>1. CASE OtherStep /\ ~\E i \in Items : Play(i)
  BY <1>1, Idle, FirstSteps DEF OtherStep, RequestTask, Begin, ArchiveExpires, GiveUpBackup,
    ReportTask, DieInTask, ConsoleCloses
<1>2. CASE \E i \in Items : Play(i)
  <2>1. PICK i \in Items : Play(i)
    BY <1>2
  <2>2. CASE bound = InUse /\ current' = Made(current) \cup {i} /\ UNCHANGED rollbacks
    BY <2>1, <2>2, MadeFiles, MadeAgain DEF Play
  <2>3. CASE bound > 0 /\ rollbacks' = [rollbacks EXCEPT ![bound] = @ \cup {i}]
             /\ UNCHANGED current
    <3>1. Within(rollbacks) \subseteq Within(rollbacks')
      <4>1. bound \in 1 .. Len(rollbacks)
        BY <2>3
      <4> QED BY <2>3, <4>1, WriteAside
    <3> QED BY <2>1, <2>3, <3>1 DEF Play
  <2> QED BY <2>1, <2>2, <2>3 DEF Play
<1>3. CASE StopOrKill
  BY <1>3, AtWork, GotoMoves, FailsMoves DEF StopOrKill
<1>4. CASE HoldSaves
  BY <1>4, AtWork, GotoMoves DEF HoldSaves
<1>5. CASE PackBackup
  BY <1>5, AtWork, GotoMoves DEF PackBackup
<1>6. CASE ResumeSaves
  BY <1>6, AtWork, GotoMoves, FailsMoves DEF ResumeSaves
<1>7. CASE FetchBackup \/ StopForRestore \/ UploadBackup
  BY <1>7, AtWork, GotoMoves, FailsMoves DEF FetchBackup, StopForRestore, UploadBackup
<1>8. CASE RemoveContainer
  BY <1>8, AtWork, GotoMoves, FailsMoves DEF RemoveContainer
<1>9. CASE Launch
  BY <1>9, AtWork, GotoMoves, FailsMoves DEF Launch
<1>10. CASE DownloadArtifact
  BY <1>10, AtWork, GotoMoves, FailsMoves, MadeFiles, MadeAgain DEF DownloadArtifact
<1>11. CASE PullImage
  BY <1>11, AtWork, GotoMoves, FailsMoves, MadeFiles, MadeAgain DEF PullImage
<1>12. CASE StartOrRestart
  BY <1>12, AtWork, GotoMoves, FailsMoves, MadeFiles, MadeAgain DEF StartOrRestart
<1>13. CASE UseFile
  BY <1>13, AtWork, GotoMoves, FailsMoves, MadeFiles, MadeAgain DEF UseFile
<1>14. CASE SetAside
  <2>1. job \in Job /\ job # NoJob
    BY <1>14, AtWork DEF SetAside
  <2>2. CASE Fails /\ UNCHANGED <<current, rollbacks, bound>>
    BY <1>14, <2>1, <2>2, FailsMoves DEF SetAside
  <2>3. CASE ~(Fails /\ UNCHANGED <<current, rollbacks, bound>>)
    <3>1. /\ Counted = Made(current) /\ Made(archived') = Made(archived)
          /\ rollbacks' = IF current = NoDir THEN rollbacks ELSE Append(rollbacks, current)
      BY <1>14, <2>3 DEF SetAside
    <3>2. CASE current = NoDir
      BY <3>1, <3>2 DEF Made
    <3>3. CASE current # NoDir
      <4>1. Within(rollbacks') = Within(rollbacks) \cup current
        BY <3>1, <3>3, OneMore, MadeFiles
      <4> QED BY <3>1, <4>1, MadeFiles, MadeAgain, <3>3
    <3> QED BY <3>2, <3>3
  <2> QED BY <2>2, <2>3
<1>15. CASE UnpackBackup \/ MakeFresh
  BY <1>15, AtWork, GotoMoves, FailsMoves DEF UnpackBackup, MakeFresh
<1>16. CASE WipeRestored
  BY <1>16, AtWork, GotoMoves DEF WipeRestored, RemoveCurrent, RemovePart
<1>17. CASE UndoRestore
  <2>1. archived' = archived /\ Counted = {}
    BY <1>17 DEF UndoRestore
  <2>2. CASE UNCHANGED rollbacks
    BY <2>1, <2>2
  <2>3. CASE ~UNCHANGED rollbacks
    <3>1. /\ job.was # NoDir /\ Goto("failed") /\ current' = Last(rollbacks)
          /\ rollbacks' = Front(rollbacks)
      BY <1>17, <2>3 DEF UndoRestore
    <3>2. Moved("failed")
      BY <1>17, <3>1, AtWork, GotoMoves DEF UndoRestore
    <3>3. Within(rollbacks) = Within(rollbacks') \cup current' /\ current' \in Files
      BY <1>17, <3>1, LastAndRest DEF UndoRestore
    <3>4. Counted' = current'
      BY <3>2, <3>3, MadeAgain
    <3> QED BY <2>1, <3>3, <3>4
  <2> QED BY <2>2, <2>3
<1>18. CASE ClearCurrent
  BY <1>18, AtWork, GotoMoves, FailsMoves DEF ClearCurrent, RemoveCurrent, RemovePart, Made
<1>19. CASE BringBack
  BY <1>19, AtWork, GotoMoves, FailsMoves DEF BringBack, Made
<1>20. CASE DropOldArchive
  BY <1>20, AtWork, GotoMoves, FailsMoves DEF DropOldArchive, Made
<1>21. CASE KeepAsArchive
  BY <1>21, AtWork, GotoMoves, FailsMoves DEF KeepAsArchive, Made
<1>22. CASE PurgeArchive \/ EraseCurrent
  BY <1>22 DEF PurgeArchive, EraseCurrent
<1> QED
  BY <1>1, <1>2, <1>3, <1>4, <1>5, <1>6, <1>7, <1>8, <1>9, <1>10, <1>11, <1>12, <1>13,
    <1>14, <1>15, <1>16, <1>17, <1>18, <1>19, <1>20, <1>21, <1>22 DEF DataNext,
    DataStep, OtherStep

-----------------------------------------------------------------------------
(* Theorems.  For temporal steps the invariant is a name again. *)

HIDE DEF docker, dirs, backups, panel, Refilling, DataInv, DataTypeOK, TaskInv

\* Every behaviour keeps the inductive invariant.
LEMMA DataInvariant == DataSpec => []DataInv
<1>1. DataInit => DataInv
  BY DataBegins
<1>2. DataInv /\ [DataNext]_dataVars => DataInv'
  BY DataGoesOn
<1> QED BY <1>1, <1>2, PTL DEF DataSpec

\* The variables have their types (class DockerRuntime).
THEOREM DataTypeCorrect == DataSpec => []DataTypeOK
<1>1. DataInv => DataTypeOK
  BY DEF DataInv
<1> QED BY <1>1, DataInvariant, PTL

\* A server is kept from saving only while its backup is being taken
\* (runtime.ts:230-236, 485-490).
THEOREM SavesAreGivenBack == DataSpec => []SavesHeldOnlyForBackup
<1>1. DataInv => SavesHeldOnlyForBackup
  BY DEF DataInv, TaskInv, SavesHeldOnlyForBackup
<1> QED BY <1>1, DataInvariant, PTL

\* A backup that the panel offers is a complete copy, also after deaths and downloads that
\* broke off, unless its task was resubmitted and rewrites the local file
\* (runtime.ts:245-252, 483-496, server.ts:348-355, 1203-1228).
THEOREM OfferedBackupsAreWhole == DataSpec => []OfferedBackupIsWhole
<1>1. DataInv => OfferedBackupIsWhole
  BY DEF DataInv, TaskInv, OfferedBackupIsWhole
<1> QED BY <1>1, DataInvariant, PTL

\* A restoration of a backup that fails puts back the directory it found, or leaves it
\* complete as the youngest one set aside when the undoing fails (runtime.ts:265-274).
THEOREM FailedRestoresAreUndone == DataSpec => FailedRestoreUndone
<1>1. DataInv /\ [DataNext]_dataVars
        => [Refilling /\ job' # NoJob => UndoneOrAside]_dataVars
  BY StepUndoesRestore
<1> QED BY <1>1, DataInvariant, PTL DEF DataSpec, FailedRestoreUndone, UndoneOrAside

\* The directory of a running server may be moved but is not removed, but when an archive is
\* restored over one that was started while archived (runtime.ts:258-274, 503-525).
THEOREM ServersKeepDirectories == DataSpec => ServerKeepsItsDirectory
<1>1. DataInv /\ [DataNext]_dataVars
        => [container = "running" /\ container' = "running" /\ bound # Lost
              => bound' # Lost \/ job.kind = "restore"]_dataVars
  BY StepKeepsDirectory
<1> QED BY <1>1, DataInvariant, PTL DEF DataSpec, ServerKeepsItsDirectory

\* Whatever fails and wherever the agent dies, no data leaves the node but by a purge, or
\* where the instance has both a directory and an archive (runtime.ts:255-276, 501-526).
THEOREM DataIsKept == DataSpec => DataKept
<1>1. DataInv /\ [DataNext]_dataVars
        => [Held \subseteq Held' \/ job.kind = "purge"
              \/ (current # NoDir /\ archived # NoDir)]_dataVars
  BY StepKeepsData
<1> QED BY <1>1, DataInvariant, PTL DEF DataSpec, DataKept

=============================================================================
