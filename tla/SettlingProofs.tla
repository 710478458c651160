--------------------------- MODULE SettlingProofs ---------------------------
(***************************************************************************)
(* Proofs about FileTransfer, Scheduling, BackupTasks and PanelClient, for *)
(* any number of executions, runs, edits, resubmissions, crashes and       *)
(* clicks, and that MCSettling, which the runs check, is each of the four. *)
(***************************************************************************)
EXTENDS MCSettling, FiniteSetTheorems, TLAPS

-----------------------------------------------------------------------------
(* File transfers *)

\* The requests for a download whose handler has looked at the transfer.
Active(e) == post[e] \notin {"none", "gone"}
OneRequest == \A d, e \in Executions : Active(d) /\ Active(e) => d = e

\* An upload has no handler of that kind, and the node only has what it has compared.
UploadCompared ==
  direction = "upload" =>
    /\ \A e \in Executions : ~Active(e)
    /\ WorkerAt("ok") => nodeFile = "whole"
    /\ transfer = "available" => nodeFile = "whole"

\* Files are removed as an upload's rest or for expiry only.
RemovalsDue ==
  /\ direction = "download" => ~cleaning
  /\ sweeping \/ transfer = "expired" => due
  /\ direction = "download" => request \notin {"stage", "record"}

\* An agent that is about to ask has no other request with the panel.
AskerIsNew == WorkerAt("ask") => post[worker.run] = "gone"

\* While one request at most was let in, the staging file is its file.
FileOfRequest ==
  /\ (\A e \in Executions : ~Active(e)) => staged = "none"
  /\ \A e \in Executions :
       /\ post[e] \in {"mark", "create"} => staged = "none"
       /\ post[e] = "write" => writer = e
       /\ post[e] \in {"commit", "accepted"} => staged = "whole"
  /\ transfer = "available" => \E e \in Executions : post[e] = "accepted"

FileIsRequests ==
  direction = "download" /\ panelCrashes = 0 /\ OneRequest /\ ~due => FileOfRequest

\* Before there is a record, there is no time limit, no task and no request of an agent;
\* and the browser's request stages its file before it.
RecordFirst ==
  /\ request \in {"begin", "stage", "record"} => transfer = "none"
  /\ transfer = "none" => /\ ~due /\ request # "enqueue"
                          /\ \A e \in Executions : ~Active(e)
                          /\ \A t \in Submissions : submission[t] = "none"

\* The staging file of an expired transfer is about to be removed, or a request that was
\* let in before still writes it and will discard it or make the transfer available, to
\* expire again: no file is left that nothing looks at (server.ts:558-608, 1323-1345).
ExpiredFileIsWatched ==
  transfer = "expired" /\ staged # "none" /\ panelCrashes = 0 =>
    sweeping \/ \E e \in Executions : post[e] \in {"write", "commit", "discard"}

TransferInv ==
  TransferTypeOK /\ nodeFile # "torn" /\ UploadCompared /\ RemovalsDue /\ AskerIsNew
    /\ FileIsRequests /\ RecordFirst /\ ExpiredFileIsWatched

\* A step keeps the types.
LEMMA TransferStepTyped ==
  ASSUME TransferTypeOK, TransferNext
  PROVE  TransferTypeOK'
<1> USE DEF TransferStatuses, PostSteps, file, pending
<1>0. /\ direction \in {"upload", "download"} /\ direction' = direction
      /\ worker # Idle => /\ worker.run \in Executions /\ worker.task \in Submissions
                          /\ \A s \in {"ask", "fetch", "await", "ok", "failed"} :
                               [worker EXCEPT !.at = s] \in
                                 [run : Executions, task : Submissions,
                                  at : {"ask", "fetch", "await", "ok", "failed"}]
      /\ worker.at # "idle" => worker # Idle
  <2>1. direction' = direction
    BY DEF TransferNext, StageUpload, RecordTransfer, EnqueueTransfer, RequestFails, Resubmit,
       TimeOutTransfer, StartTransfer, Ask, ReceiveUpload, AwaitResponse, TakeResult, LoseWorker,
       PostStep, MarkReceiving, CreateStaged, WriteStaged, CommitReceived, DiscardStaged,
       TimePasses, ExpireTransfer, RemoveExpired, RemoveUploaded, PanelDies
  <2> QED BY <2>1 DEF TransferTypeOK, Idle
<1>1. CASE StageUpload \/ RecordTransfer \/ EnqueueTransfer \/ RequestFails
  <2>1. submission' \in [Submissions -> {"none", "open", "failed", "succeeded"}]
    BY <1>1 DEF TransferTypeOK, StageUpload, RecordTransfer, EnqueueTransfer, RequestFails
  <2> QED BY <1>0, <1>1, <2>1 DEF TransferTypeOK, StageUpload, RecordTransfer, EnqueueTransfer,
                                  RequestFails, RemoveFile
<1>2. ASSUME NEW t \in Submissions, Resubmit(t) \/ TimeOutTransfer(t)
      PROVE  TransferTypeOK'
  BY <1>2 DEF TransferTypeOK, Resubmit, TimeOutTransfer
<1>3. ASSUME NEW t \in Submissions, NEW e \in Executions, StartTransfer(t, e)
      PROVE  TransferTypeOK'
  BY <1>3 DEF TransferTypeOK, StartTransfer
<1>4. CASE Ask
  <2>1. worker # Idle /\ worker.run \in Executions
    BY <1>0, <1>4 DEF Ask, WorkerAt
  <2>2. post' \in [Executions -> PostSteps]
    BY <1>4, <2>1 DEF Ask, TransferTypeOK
  <2>3. worker' \in [run : Executions, task : Submissions,
                     at : {"ask", "fetch", "await", "ok", "failed"}]
    BY <1>0, <1>4, <2>1 DEF Ask, WorkerGoes
  <2> QED BY <1>4, <2>2, <2>3 DEF Ask, TransferTypeOK
<1>5. CASE ReceiveUpload \/ AwaitResponse
  <2>1. worker' \in [run : Executions, task : Submissions,
                     at : {"ask", "fetch", "await", "ok", "failed"}]
    BY <1>0, <1>5 DEF ReceiveUpload, AwaitResponse, WorkerGoes, WorkerAt
  <2> QED BY <1>5, <2>1 DEF ReceiveUpload, AwaitResponse, TransferTypeOK
<1>6. CASE TakeResult
  <2>1. worker # Idle /\ worker' = Idle
    BY <1>6 DEF TakeResult, Idle
  <2>2. submission' \in [Submissions -> {"none", "open", "failed", "succeeded"}]
    BY <1>6 DEF TakeResult, TransferTypeOK
  <2>3. transfer' \in TransferStatuses /\ cleaning' \in BOOLEAN
    BY <1>0, <1>6 DEF TakeResult, TransferTypeOK, AfterResult
  <2> QED BY <1>6, <2>1, <2>2, <2>3 DEF TakeResult, TransferTypeOK
<1>7. CASE LoseWorker \/ TimePasses \/ ExpireTransfer \/ RemoveExpired \/ RemoveUploaded
  <2>1. due' \in BOOLEAN /\ cleaning' \in BOOLEAN /\ sweeping' \in BOOLEAN
    BY <1>7 DEF LoseWorker, TimePasses, ExpireTransfer, RemoveExpired, RemoveUploaded,
                TransferTypeOK
  <2>2. UNCHANGED <<direction, request, submission, post, nodeFile, panelCrashes>>
    BY <1>7 DEF LoseWorker, TimePasses, ExpireTransfer, RemoveExpired, RemoveUploaded
  <2>3. /\ transfer' \in TransferStatuses
        /\ staged' \in {"none", "part", "whole"} /\ writer' \in Executions \cup {0}
        /\ worker' \in {worker, Idle}
    BY <1>7 DEF LoseWorker, TimePasses, ExpireTransfer, RemoveExpired, RemoveUploaded, RemoveFile,
                TransferTypeOK
  <2> QED BY <2>1, <2>2, <2>3 DEF TransferTypeOK
<1>8. ASSUME NEW e \in Executions, PostStep(e)
      PROVE  TransferTypeOK'
  BY <1>8 DEF PostStep, MarkReceiving, CreateStaged, WriteStaged, CommitReceived, DiscardStaged,
              RemoveFile, TransferTypeOK
<1>9. CASE PanelDies
  <2>1. post' \in [Executions -> PostSteps]
    BY <1>9 DEF PanelDies
  <2>2. /\ UNCHANGED <<direction, transfer, due, staged, submission, worker, nodeFile>>
        /\ request' = "over" /\ writer' = 0 /\ ~cleaning' /\ ~sweeping'
        /\ cleaning' \in BOOLEAN /\ sweeping' \in BOOLEAN /\ panelCrashes' = panelCrashes + 1
    BY <1>9 DEF PanelDies
  <2> QED BY <2>1, <2>2 DEF TransferTypeOK
<1> QED BY <1>1, <1>2, <1>3, <1>4, <1>5, <1>6, <1>7, <1>8, <1>9 DEF TransferNext

\* What a step does to the handlers of the requests, all of them and one.
LEMMA PostMoves ==
  ASSUME TransferTypeOK, TransferNext, ~PanelDies
  PROVE  /\ direction' = direction /\ panelCrashes' = panelCrashes
         /\ due => due'
         /\ \/ post' = post
            \/ /\ WorkerAt("ask") /\ direction = "download" /\ Authorised
               /\ post' = [post EXCEPT ![worker.run] = "mark"]
               /\ UNCHANGED <<transfer, file, due>>
            \/ \E e \in Executions :
                 post[e] = "none" /\ post' = [post EXCEPT ![e] = "gone"]
                   /\ UNCHANGED <<transfer, file, due>>
            \/ \E e \in Executions : PostStep(e)
BY DEF TransferNext, StageUpload, RecordTransfer, EnqueueTransfer, RequestFails, Resubmit,
       TimeOutTransfer, StartTransfer, Ask, ReceiveUpload, AwaitResponse, TakeResult, LoseWorker,
       PostStep, MarkReceiving, CreateStaged, WriteStaged, CommitReceived, DiscardStaged,
       TimePasses, ExpireTransfer, RemoveExpired, RemoveUploaded, pending

\* A handler of the panel goes on.
LEMMA PostStepMoves ==
  ASSUME TransferTypeOK, NEW e \in Executions, PostStep(e)
  PROVE  /\ Active(e) /\ Active(e)' /\ \A d \in Executions \ {e} : post'[d] = post[d]
         /\ UNCHANGED <<direction, due, request, submission, worker, pending, nodeFile,
                        panelCrashes>>
BY DEF TransferTypeOK, PostStep, MarkReceiving, CreateStaged, WriteStaged, CommitReceived,
       DiscardStaged, Active

\* Whoever starts a task is a new execution, whose POST was not made.
LEMMA AskerKept ==
  ASSUME TransferTypeOK, AskerIsNew, TransferNext
  PROVE  AskerIsNew'
<1> SUFFICES ASSUME WorkerAt("ask")' PROVE post'[worker'.run] = "gone"
  BY DEF AskerIsNew
<1>1. CASE \E t \in Submissions, e \in Executions : StartTransfer(t, e)
  BY <1>1 DEF StartTransfer, TransferTypeOK
<1>2. CASE PanelDies
  <2>1. worker' = worker /\ post[worker.run] = "gone" /\ worker.run \in Executions
    BY <1>2 DEF PanelDies, AskerIsNew, WorkerAt, TransferTypeOK, Idle
  <2> QED BY <1>2, <2>1 DEF PanelDies
<1>3. CASE \E e \in Executions : PostStep(e)
  <2>1. PICK e \in Executions : PostStep(e)
    BY <1>3
  <2>2. worker' = worker /\ post[worker.run] = "gone" /\ worker.run \in Executions
    BY <2>1, PostStepMoves DEF AskerIsNew, WorkerAt, TransferTypeOK, Idle
  <2> QED BY <2>1, <2>2, PostStepMoves DEF Active
<1>4. CASE worker' = worker /\ post' = post
  BY <1>4 DEF AskerIsNew, WorkerAt
<1>5. CASE worker' = Idle \/ \E s \in {"fetch", "await", "ok", "failed"} :
             WorkerGoes(s) /\ worker # Idle
  BY <1>5 DEF WorkerAt, WorkerGoes, Idle, TransferTypeOK
<1> QED BY <1>1, <1>2, <1>3, <1>4, <1>5
        DEF TransferNext, StageUpload, RecordTransfer, EnqueueTransfer, RequestFails, Resubmit,
            TimeOutTransfer, Ask, ReceiveUpload, AwaitResponse, TakeResult, LoseWorker,
            TimePasses, ExpireTransfer, RemoveExpired, RemoveUploaded, WorkerAt, Idle

\* Nothing but a comparison makes an upload's task succeed, and nothing but this makes the
\* transfer available.
LEMMA ComparedKept ==
  ASSUME TransferTypeOK, UploadCompared, nodeFile # "torn", TransferNext
  PROVE  UploadCompared' /\ nodeFile' # "torn"
<1>1. CASE PanelDies
  BY <1>1 DEF PanelDies, UploadCompared, Active, WorkerAt
<1>2. CASE ~PanelDies
  <2>1. nodeFile' # "torn" /\ (nodeFile = "whole" => nodeFile' = "whole")
    BY <1>2 DEF TransferNext, StageUpload, RecordTransfer, EnqueueTransfer, RequestFails,
       Resubmit, TimeOutTransfer, StartTransfer, Ask, ReceiveUpload, AwaitResponse, TakeResult,
       LoseWorker, PostStep, MarkReceiving, CreateStaged, WriteStaged, CommitReceived,
       DiscardStaged, TimePasses, ExpireTransfer, RemoveExpired, RemoveUploaded
  <2>2. SUFFICES ASSUME direction' = "upload" PROVE UploadCompared'
    BY <2>1 DEF UploadCompared
  <2>3. direction = "upload" /\ \A e \in Executions : ~Active(e)
    BY <1>2, <2>2, PostMoves DEF UploadCompared
  <2>4. \A e \in Executions : ~PostStep(e)
    BY <2>3, PostStepMoves
  <2>5. \A e \in Executions : ~Active(e)'
    BY <1>2, <2>3, <2>4, PostMoves DEF Active, TransferTypeOK
  <2>6. WorkerAt("ok")' => nodeFile' = "whole"
    <3>1. CASE ReceiveUpload
      BY <3>1 DEF ReceiveUpload, WorkerAt, WorkerGoes, TransferTypeOK, Idle
    <3>2. CASE AwaitResponse
      <4>1. worker.run \in Executions
        BY <3>2 DEF AwaitResponse, WorkerAt, TransferTypeOK, Idle
      <4>2. post[worker.run] # "accepted"
        BY <2>3, <4>1 DEF Active
      <4> QED BY <3>2, <4>2 DEF AwaitResponse, WorkerAt, WorkerGoes, TransferTypeOK, Idle
    <3>3. CASE worker' = worker
      BY <2>1, <2>3, <3>3 DEF UploadCompared, WorkerAt
    <3>4. CASE worker' = Idle \/ \E s \in {"ask", "fetch", "await", "failed"} : worker'.at = s
      BY <3>4 DEF WorkerAt, Idle
    <3>5. CASE Ask
      BY <3>5 DEF Ask, WorkerAt, WorkerGoes, TransferTypeOK, Idle
    <3>6. CASE \E t \in Submissions, e \in Executions : StartTransfer(t, e)
      BY <3>6 DEF StartTransfer, WorkerAt
    <3> QED BY <1>2, <2>4, <3>1, <3>2, <3>3, <3>4, <3>5, <3>6
            DEF TransferNext, StageUpload, RecordTransfer, EnqueueTransfer, RequestFails,
                Resubmit, TimeOutTransfer, TakeResult, LoseWorker, TimePasses,
                ExpireTransfer, RemoveExpired, RemoveUploaded
  <2>7. transfer' = "available" => nodeFile' = "whole"
    <3>1. CASE TakeResult
      BY <2>3, <3>1 DEF TakeResult, AfterResult, UploadCompared, WorkerAt
    <3>2. CASE transfer' \in {transfer, "queued", "expired"}
      BY <2>1, <2>3, <3>2 DEF UploadCompared
    <3> QED BY <1>2, <2>4, <3>1, <3>2
            DEF TransferNext, StageUpload, RecordTransfer, EnqueueTransfer, RequestFails,
                Resubmit, TimeOutTransfer, StartTransfer, Ask, ReceiveUpload, AwaitResponse,
                LoseWorker, TimePasses, ExpireTransfer, RemoveExpired, RemoveUploaded
  <2> QED BY <2>5, <2>6, <2>7 DEF UploadCompared
<1> QED BY <1>1, <1>2

\* Only an upload is cleaned up after, and only what is past its time is swept.
LEMMA RemovalsKept ==
  ASSUME TransferTypeOK, RemovalsDue, TransferNext
  PROVE  RemovalsDue'
<1> USE DEF RemovalsDue, pending
<1>1. CASE StageUpload \/ RecordTransfer \/ EnqueueTransfer \/ RequestFails
  BY <1>1 DEF StageUpload, RecordTransfer, EnqueueTransfer, RequestFails, TransferTypeOK
<1>2. CASE TakeResult
  BY <1>2 DEF TakeResult, AfterResult
<1>3. CASE \E e \in Executions : PostStep(e)
  BY <1>3 DEF PostStep, MarkReceiving, CreateStaged, WriteStaged, CommitReceived, DiscardStaged
<1>4. CASE PanelDies \/ TimePasses \/ ExpireTransfer \/ RemoveExpired \/ RemoveUploaded
  BY <1>4 DEF PanelDies, TimePasses, ExpireTransfer, RemoveExpired, RemoveUploaded
<1>5. CASE UNCHANGED <<direction, transfer, due, request, pending>>
  BY <1>5
<1> QED BY <1>1, <1>2, <1>3, <1>4, <1>5
        DEF TransferNext, Resubmit, TimeOutTransfer, StartTransfer, Ask, ReceiveUpload,
            AwaitResponse, LoseWorker

\* Handlers that have looked at the transfer stay, so that a second one is seen for good.
LEMMA OneRequestBefore ==
  ASSUME TransferTypeOK, AskerIsNew, TransferNext, ~PanelDies, OneRequest'
  PROVE  OneRequest
<1>1. \A e \in Executions : Active(e) => Active(e)'
  <2>1. CASE \E e \in Executions : PostStep(e)
    BY <2>1, PostStepMoves DEF Active
  <2>2. CASE ~\E e \in Executions : PostStep(e)
    BY <2>2, PostMoves DEF Active, TransferTypeOK, AskerIsNew
  <2> QED BY <2>1, <2>2
<1> QED BY <1>1 DEF OneRequest

\* What one request does to the staging file, from its creation to its acceptance.
LEMMA FileKept ==
  ASSUME TransferTypeOK, RemovalsDue, AskerIsNew, FileIsRequests, TransferNext
  PROVE  FileIsRequests'
<1> SUFFICES ASSUME direction' = "download", panelCrashes' = 0, OneRequest', ~due'
             PROVE  FileOfRequest'
  BY DEF FileIsRequests
<1>1. ~PanelDies
  BY DEF PanelDies, TransferTypeOK
<1>2. direction = "download" /\ panelCrashes = 0 /\ ~due /\ OneRequest
  BY <1>1, PostMoves, OneRequestBefore
<1>3. FileOfRequest
  BY <1>2 DEF FileIsRequests
<1>4. ~cleaning /\ ~sweeping /\ transfer # "expired" /\ request \notin {"stage", "record"}
  BY <1>2 DEF RemovalsDue
<1>5. CASE post' = post
  <2>0. \A e \in Executions : ~PostStep(e)
    BY <1>5 DEF PostStep, MarkReceiving, CreateStaged, WriteStaged, CommitReceived,
                DiscardStaged, TransferTypeOK
  <2>1. UNCHANGED file
    BY <1>1, <1>2, <1>4, <2>0
       DEF TransferNext, StageUpload, RecordTransfer, EnqueueTransfer, RequestFails, Resubmit,
           TimeOutTransfer, StartTransfer, Ask, ReceiveUpload, AwaitResponse, TakeResult,
           LoseWorker, TimePasses, ExpireTransfer, RemoveExpired, RemoveUploaded
  <2>2. transfer' = "available" => transfer = "available"
    BY <1>1, <1>2, <1>4, <2>0
       DEF TransferNext, StageUpload, RecordTransfer, EnqueueTransfer, RequestFails, Resubmit,
           TimeOutTransfer, StartTransfer, Ask, ReceiveUpload, AwaitResponse, TakeResult,
           LoseWorker, TimePasses, ExpireTransfer, RemoveExpired, RemoveUploaded, AfterResult
  <2> QED BY <1>3, <1>5, <2>1, <2>2 DEF file, Active, FileOfRequest
<1>6. CASE /\ WorkerAt("ask") /\ direction = "download" /\ Authorised
           /\ post' = [post EXCEPT ![worker.run] = "mark"] /\ UNCHANGED <<transfer, file, due>>
  <2>1. worker.run \in Executions /\ post[worker.run] = "gone" /\ post'[worker.run] = "mark"
    BY <1>6 DEF TransferTypeOK, WorkerAt, Idle, AskerIsNew
  <2>2. \A e \in Executions \ {worker.run} : post'[e] = post[e] /\ ~Active(e)
    BY <1>6, <2>1 DEF OneRequest, Active, TransferTypeOK
  <2>3. staged = "none"
    BY <1>3, <2>1, <2>2 DEF Active, FileOfRequest
  <2> QED BY <1>6, <2>1, <2>2, <2>3 DEF Active, file, Authorised, FileOfRequest
<1>7. ASSUME NEW e \in Executions, post[e] = "none", post' = [post EXCEPT ![e] = "gone"],
             UNCHANGED <<transfer, file, due>>
      PROVE  FileOfRequest'
  <2>1. /\ \A d \in Executions : Active(d)' <=> Active(d)
        /\ \A d \in Executions : Active(d) => post'[d] = post[d]
    BY <1>7 DEF Active, TransferTypeOK
  <2> QED BY <1>3, <1>7, <2>1 DEF Active, file, FileOfRequest
<1>8. ASSUME NEW e \in Executions, PostStep(e)
      PROVE  FileOfRequest'
  <2>1. Active(e) /\ Active(e)' /\ \A d \in Executions \ {e} : post'[d] \in {"none", "gone"}
    BY <1>8, PostStepMoves DEF OneRequest, Active
  <2>2. transfer # "available"
    BY <1>2, <1>3, <1>8, <2>1
       DEF FileOfRequest, OneRequest, Active, PostStep, MarkReceiving, CreateStaged,
           WriteStaged, CommitReceived, DiscardStaged
  <2>3. SUFFICES /\ post'[e] \in {"mark", "create"} => staged' = "none"
                 /\ post'[e] = "write" => writer' = e
                 /\ post'[e] \in {"commit", "accepted"} => staged' = "whole"
                 /\ transfer' = "available" => post'[e] = "accepted"
    BY <2>1 DEF FileOfRequest
  <2>4. CASE MarkReceiving(e)
    BY <1>3, <2>2, <2>4 DEF MarkReceiving, FileOfRequest, TransferTypeOK, file
  <2>5. CASE CreateStaged(e)
    BY <1>3, <2>2, <2>5 DEF CreateStaged, FileOfRequest, TransferTypeOK, file
  <2>6. CASE WriteStaged(e)
    BY <1>3, <2>2, <2>6 DEF WriteStaged, FileOfRequest, TransferTypeOK, file
  <2>7. CASE CommitReceived(e) \/ DiscardStaged(e)
    BY <1>3, <2>2, <2>7 DEF CommitReceived, DiscardStaged, FileOfRequest, TransferTypeOK, file
  <2> QED BY <1>8, <2>4, <2>5, <2>6, <2>7 DEF PostStep
<1> QED BY <1>1, <1>5, <1>6, <1>7, <1>8, PostMoves

\* A record that is there stays, and the first task comes after it.
LEMMA RecordFirstKept ==
  ASSUME TransferTypeOK, RecordFirst, TransferNext
  PROVE  RecordFirst'
<1>1. CASE \E e \in Executions : PostStep(e)
  <2>1. PICK e \in Executions : PostStep(e)
    BY <1>1
  <2>2. transfer # "none" /\ request' = request
    BY <2>1, PostStepMoves DEF RecordFirst
  <2>3. transfer' # "none"
    BY <2>1, <2>2 DEF PostStep, MarkReceiving, CreateStaged, WriteStaged, CommitReceived,
                      DiscardStaged
  <2> QED BY <2>2, <2>3 DEF RecordFirst
<1>2. CASE PanelDies
  <2>1. /\ request' = "over" /\ UNCHANGED <<transfer, due, submission>>
        /\ \A e \in Executions : ~Active(e)'
    BY <1>2 DEF PanelDies, Active
  <2> QED BY <2>1 DEF RecordFirst
<1>3. CASE ~PanelDies /\ ~\E e \in Executions : PostStep(e)
  <2>1. request' \in {"begin", "stage", "record"} => transfer' = "none"
    <3>1. \/ request' = "enqueue" \/ request' = "over"
          \/ request \in {"begin", "stage", "record"} /\ transfer' = transfer
          \/ request' = request
      BY <1>3 DEF TransferNext, StageUpload, RecordTransfer, EnqueueTransfer, RequestFails,
         Resubmit, TimeOutTransfer, StartTransfer, Ask, ReceiveUpload, AwaitResponse, TakeResult,
         LoseWorker, TimePasses, ExpireTransfer, RemoveExpired, RemoveUploaded
    <3>2. CASE request \in {"begin", "stage", "record"} /\ request' = request
      <4>1. transfer = "none" /\ ~due /\ \A t \in Submissions : submission[t] = "none"
        BY <3>2 DEF RecordFirst
      <4>2. ~TakeResult \/ transfer' = transfer
        BY <4>1 DEF TakeResult, TransferTypeOK, Idle
      <4> QED BY <1>3, <3>2, <4>1, <4>2
              DEF TransferNext, StageUpload, RecordTransfer, EnqueueTransfer, RequestFails,
                  Resubmit, TimeOutTransfer, StartTransfer, Ask, ReceiveUpload, AwaitResponse,
                  LoseWorker, TimePasses, ExpireTransfer, RemoveExpired, RemoveUploaded
    <3> QED BY <3>1, <3>2 DEF RecordFirst
  <2>2. ASSUME transfer' = "none"
        PROVE  /\ ~due' /\ request' # "enqueue"
               /\ \A e \in Executions : ~Active(e)'
               /\ \A t \in Submissions : submission'[t] = "none"
    <3>1. transfer = "none"
      BY <1>3, <2>2
         DEF TransferNext, StageUpload, RecordTransfer, EnqueueTransfer, RequestFails, Resubmit,
             TimeOutTransfer, StartTransfer, Ask, ReceiveUpload, AwaitResponse, TakeResult,
             LoseWorker, TimePasses, ExpireTransfer, RemoveExpired, RemoveUploaded, AfterResult
    <3>2. /\ ~due /\ request # "enqueue" /\ \A e \in Executions : ~Active(e)
          /\ \A t \in Submissions : submission[t] = "none"
      BY <3>1 DEF RecordFirst
    <3>3. ~due' /\ request' # "enqueue"
      BY <1>3, <2>2, <3>1, <3>2
         DEF TransferNext, StageUpload, RecordTransfer, EnqueueTransfer, RequestFails, Resubmit,
             TimeOutTransfer, StartTransfer, Ask, ReceiveUpload, AwaitResponse, TakeResult,
             LoseWorker, TimePasses, ExpireTransfer, RemoveExpired, RemoveUploaded
    <3>4. \A e \in Executions : ~Active(e)'
      BY <1>3, <3>1, <3>2, PostMoves DEF Active, TransferTypeOK, Authorised
    <3>5. submission' = submission
      <4>1. ~TakeResult \/ submission' = submission
        BY <3>2 DEF TakeResult, TransferTypeOK, Idle
      <4>2. \A t \in Submissions : ~Resubmit(t) /\ ~TimeOutTransfer(t)
        <5>1. \A t \in Submissions : 1..(t - 1) \subseteq Submissions
          BY TransferAssumption DEF Submissions
        <5> QED BY <3>2, <5>1 DEF Resubmit, TimeOutTransfer
      <4> QED BY <1>3, <3>2, <4>1, <4>2
              DEF TransferNext, StageUpload, RecordTransfer, EnqueueTransfer, RequestFails,
                  StartTransfer, Ask, ReceiveUpload, AwaitResponse, LoseWorker, TimePasses,
                  ExpireTransfer, RemoveExpired, RemoveUploaded
    <3> QED BY <3>2, <3>3, <3>4, <3>5
  <2> QED BY <2>1, <2>2 DEF RecordFirst
<1> QED BY <1>1, <1>2, <1>3

\* What is still written into an expired transfer's file is written by a request that goes
\* on to discard it or to make the transfer available.
LEMMA ExpiredKept ==
  ASSUME TransferTypeOK, RecordFirst, ExpiredFileIsWatched, TransferNext
  PROVE  ExpiredFileIsWatched'
<1> DEFINE Writes(e) == post[e] \in {"write", "commit", "discard"}
<1> SUFFICES ASSUME transfer' = "expired", staged' # "none", panelCrashes' = 0
             PROVE  sweeping' \/ \E e \in Executions : Writes(e)'
  BY DEF ExpiredFileIsWatched
<1>1. ~PanelDies
  BY DEF PanelDies, TransferTypeOK
<1>2. panelCrashes = 0
  BY <1>1, PostMoves
<1>3. CASE ExpireTransfer
  BY <1>3 DEF ExpireTransfer
<1>4. ASSUME NEW e \in Executions, PostStep(e)
      PROVE  sweeping' \/ \E d \in Executions : Writes(d)'
  <2>1. CASE CreateStaged(e) \/ WriteStaged(e)
    BY <2>1 DEF CreateStaged, WriteStaged, TransferTypeOK
  <2>2. CASE CommitReceived(e) \/ DiscardStaged(e)
    BY <2>2 DEF CommitReceived, DiscardStaged, RemoveFile
  <2>3. CASE MarkReceiving(e)
    <3>1. transfer = "expired" /\ staged # "none" /\ sweeping' = sweeping /\ ~Writes(e)
      BY <2>3 DEF MarkReceiving, file, pending
    <3>2. sweeping \/ \E d \in Executions \ {e} : Writes(d)
      BY <1>2, <3>1 DEF ExpiredFileIsWatched
    <3> QED BY <1>4, <3>1, <3>2, PostStepMoves
  <2> QED BY <1>4, <2>1, <2>2, <2>3 DEF PostStep
<1>5. CASE ~ExpireTransfer /\ ~\E e \in Executions : PostStep(e)
  <2>1. transfer = "expired"
    BY <1>1, <1>5
       DEF TransferNext, StageUpload, RecordTransfer, EnqueueTransfer, RequestFails, Resubmit,
           TimeOutTransfer, StartTransfer, Ask, ReceiveUpload, AwaitResponse, TakeResult,
           LoseWorker, TimePasses, RemoveExpired, RemoveUploaded, AfterResult
  <2>2. request \notin {"begin", "stage", "record"}
    BY <2>1 DEF RecordFirst
  <2>3. staged # "none" /\ sweeping' = sweeping
    BY <1>1, <1>5, <2>2
       DEF TransferNext, StageUpload, RecordTransfer, EnqueueTransfer, RequestFails, Resubmit,
           TimeOutTransfer, StartTransfer, Ask, ReceiveUpload, AwaitResponse, TakeResult,
           LoseWorker, TimePasses, RemoveExpired, RemoveUploaded, RemoveFile, file, pending
  <2>4. sweeping \/ \E e \in Executions : Writes(e)
    BY <1>2, <2>1, <2>3 DEF ExpiredFileIsWatched
  <2>5. \A e \in Executions : Writes(e) => Writes(e)'
    BY <1>1, <1>5, <2>1, PostMoves DEF Authorised, TransferTypeOK
  <2> QED BY <2>3, <2>4, <2>5
<1> QED BY <1>1, <1>3, <1>4, <1>5

\* The invariant holds whatever crashes, time-outs and resubmissions there are.
LEMMA TransferInvariant == TransferSpec => []TransferInv
<1>1. TransferInit => TransferInv
  <2> SUFFICES ASSUME TransferInit PROVE TransferInv
    OBVIOUS
  <2>1. TransferTypeOK
    BY TransferAssumption DEF TransferInit, TransferTypeOK, TransferStatuses, PostSteps
  <2>2. UploadCompared /\ RemovalsDue /\ AskerIsNew /\ nodeFile # "torn"
    BY DEF TransferInit, UploadCompared, RemovalsDue, AskerIsNew, Active, WorkerAt, Idle
  <2>3. FileIsRequests
    BY DEF TransferInit, FileIsRequests, FileOfRequest, Active
  <2>4. RecordFirst /\ ExpiredFileIsWatched
    BY DEF TransferInit, RecordFirst, ExpiredFileIsWatched, Active
  <2> QED BY <2>1, <2>2, <2>3, <2>4 DEF TransferInv
<1>2. TransferInv /\ [TransferNext]_transferVars => TransferInv'
  <2> SUFFICES ASSUME TransferInv, [TransferNext]_transferVars PROVE TransferInv'
    OBVIOUS
  <2>1. CASE UNCHANGED transferVars
    BY <2>1 DEF transferVars, file, pending, TransferInv, TransferTypeOK, UploadCompared,
       RemovalsDue, AskerIsNew, FileIsRequests, FileOfRequest, OneRequest, Active, WorkerAt,
       RecordFirst, ExpiredFileIsWatched
  <2>2. CASE TransferNext
    BY <2>2, TransferStepTyped, ComparedKept, RemovalsKept, AskerKept, FileKept,
       RecordFirstKept, ExpiredKept DEF TransferInv
  <2> QED BY <2>1, <2>2
<1> QED BY <1>1, <1>2, PTL DEF TransferSpec

\* Two handlers are two.
LEMMA OverlapSeen == ~Overlapping => OneRequest
<1> DEFINE A == {e \in Executions : post[e] \notin {"none", "gone"}}
<1>1. IsFiniteSet(A)
  <2>1. IsFiniteSet(Executions)
    BY FS_Interval, TransferAssumption DEF Executions
  <2> QED BY <2>1, FS_Subset
<1>2. ASSUME NEW d \in Executions, NEW e \in Executions, Active(d), Active(e), d # e
      PROVE  Overlapping
  <2>1. IsFiniteSet({d}) /\ Cardinality({d}) = 1
    BY FS_Singleton
  <2>2. IsFiniteSet({d} \cup {e}) /\ Cardinality({d} \cup {e}) = 2
    BY <1>2, <2>1, FS_AddElement
  <2>3. {d} \cup {e} \in SUBSET A
    BY <1>2 DEF Active
  <2>4. 2 <= Cardinality(A) /\ Cardinality(A) \in Nat
    <3> HIDE DEF A
    <3> QED BY <1>1, <2>2, <2>3, FS_Subset, FS_CardinalityType
  <2>5. Cardinality(A) > 1
    <3> HIDE DEF A
    <3> QED BY <2>4
  <2> QED BY <2>5 DEF Overlapping
<1> QED BY <1>2 DEF OneRequest

\* The transfer, its file, its tasks and its handlers keep their types (types.ts,
\* FileTransferRecord).
THEOREM TransferTypeCorrect == TransferSpec => []TransferTypeOK
BY TransferInvariant, PTL DEF TransferInv

\* No agent leaves a torn file on its node, and an upload that the panel lists as
\* available is on the node whole, however often its task timed out, was lost or was
\* resubmitted (runtime.ts:350-356, server.ts:370-374).
THEOREM UploadsAreVerified == TransferSpec => []UploadVerified
<1>1. TransferInv => UploadVerified
  BY DEF TransferInv, UploadCompared, UploadVerified
<1> QED BY <1>1, TransferInvariant, PTL

\* A download that the panel offers and that is not past its time has its complete file,
\* however often agents failed and asked again, as long as no second request was let in
\* before the first had marked the transfer and no panel died (server.ts:558-608, 883-894).
THEOREM AvailableDownloadsHaveFiles == TransferSpec => []AvailableDownloadHasFile
<1>1. TransferInv => AvailableDownloadHasFile
  <2> SUFFICES ASSUME TransferInv, direction = "download", transfer = "available", ~due,
                      ~Overlapping
               PROVE  staged = "whole"
    BY DEF AvailableDownloadHasFile
  <2>1. OneRequest
    BY OverlapSeen
  <2>2. panelCrashes = 0
    BY DEF TransferInv, TransferTypeOK, Overlapping
  <2> QED BY <2>1, <2>2 DEF TransferInv, FileIsRequests, FileOfRequest
<1> QED BY <1>1, TransferInvariant, PTL

\* While no panel died, the staging file of an expired transfer is on its way out: its
\* removal is pending, or a request let in before writes it and then discards it or makes
\* the transfer available, which expires again (server.ts:558-608, 1323-1345).
THEOREM ExpiredFilesAreWatched == TransferSpec => []ExpiredFileIsWatched
BY TransferInvariant, PTL DEF TransferInv

-----------------------------------------------------------------------------
(* Schedules *)

\* The runs that the schedule itself has brought about.
RunsOfSchedule == {r \in Runs : run[r] # "none"}

SchedulingInv == SchedulingTypeOK /\ EachTimeRunsOnce

\* They can be counted.
LEMMA RunsAreFinite ==
  IsFiniteSet(RunsOfSchedule) /\ Cardinality(RunsOfSchedule) \in Nat
<1>1. IsFiniteSet(Runs)
  BY FS_Interval, SchedulingAssumption DEF Runs
<1>2. RunsOfSchedule \in SUBSET Runs
  BY DEF RunsOfSchedule
<1>3. IsFiniteSet(RunsOfSchedule)
  BY <1>1, <1>2, FS_Subset
<1> QED BY <1>3, FS_CardinalityType

\* The steps of the schedule alone leave the runs as they are; what they take from the
\* times still to be run they count as skipped.
LEMMA ScheduleKeeps ==
  ASSUME SchedulingInv,
         TimeReached \/ BeginEdit \/ StoreEdit \/ DeleteSchedule \/ ArchiveOrRestore
  PROVE  SchedulingInv'
<1>1. SchedulingTypeOK /\ EachTimeRunsOnce
  BY DEF SchedulingInv
<1>2. run' = run
  BY DEF TimeReached, BeginEdit, StoreEdit, DeleteSchedule, ArchiveOrRestore, scheduleRecord,
         counts
<1>3. SchedulingTypeOK'
  <2>1. {reached, skipped, edits} \subseteq Nat
    BY <1>1 DEF SchedulingTypeOK
  <2>2. {reached', skipped', edits'} \subseteq Nat
    BY <2>1 DEF TimeReached, BeginEdit, StoreEdit, DeleteSchedule, ArchiveOrRestore,
                scheduleRecord, counts, GiveUpReached
  <2>3. /\ action' \in Actions /\ enabled' \in {"yes", "no", "gone"}
        /\ next' \in {"none", "later", "reached"} /\ live' \in BOOLEAN
        /\ edit' \in {"none", "store"} /\ scheduleCrashes' = scheduleCrashes
    BY <1>1 DEF SchedulingTypeOK, TimeReached, BeginEdit, StoreEdit, DeleteSchedule,
                ArchiveOrRestore, scheduleRecord
  <2> QED BY <1>1, <1>2, <2>2, <2>3 DEF SchedulingTypeOK
<1>4. EachTimeRunsOnce'
  <2> DEFINE N == Cardinality(RunsOfSchedule)
  <2>1. N \in Nat /\ N' = N
    BY <1>2, RunsAreFinite DEF RunsOfSchedule
  <2>2. N + skipped + (IF next = "reached" THEN 1 ELSE 0) = reached
    BY <1>1 DEF EachTimeRunsOnce, RunsOfSchedule
  <2>3. skipped \in Nat /\ reached \in Nat
    BY <1>1 DEF SchedulingTypeOK
  <2>4. N' + skipped' + (IF next' = "reached" THEN 1 ELSE 0) = reached'
    <3> HIDE DEF N
    <3>1. CASE UNCHANGED <<next, skipped, reached>>
      BY <2>1, <2>2, <3>1
    <3>2. CASE TimeReached
      BY <2>1, <2>2, <2>3, <3>2 DEF TimeReached
    <3>3. CASE reached' = reached /\ next' # "reached" /\ GiveUpReached
      BY <2>1, <2>2, <2>3, <3>3 DEF GiveUpReached
    <3> QED BY <3>1, <3>2, <3>3 DEF BeginEdit, StoreEdit, DeleteSchedule,
               ArchiveOrRestore, scheduleRecord, counts
  <2> QED BY <2>4 DEF EachTimeRunsOnce, RunsOfSchedule
<1> QED BY <1>3, <1>4 DEF SchedulingInv

\* A tick begins a run that was not begun, or skips the time.
LEMMA CollectKeeps ==
  ASSUME SchedulingInv, NEW r \in Runs, CollectDue(r)
  PROVE  SchedulingInv'
<1>1. SchedulingTypeOK /\ EachTimeRunsOnce
  BY DEF SchedulingInv
<1>2. run[r] = "none" /\ next = "reached" /\ next' = "later" /\ reached' = reached
  BY DEF CollectDue, NewRun
<1>3. \/ skipped' = skipped /\ \E s \in {"record", "enqueue"} : run' = [run EXCEPT ![r] = s]
      \/ skipped' = skipped + 1 /\ run' = run
  BY DEF CollectDue, FirstStepOf
<1>4. SchedulingTypeOK'
  BY <1>1, <1>3 DEF SchedulingTypeOK, CollectDue
<1>5. r \notin RunsOfSchedule
  BY <1>2 DEF RunsOfSchedule
<1>6. EachTimeRunsOnce'
  <2> DEFINE N == Cardinality(RunsOfSchedule)
  <2>1. N + skipped + 1 = reached /\ N \in Nat /\ skipped \in Nat /\ reached \in Nat
    BY <1>1, <1>2, RunsAreFinite DEF EachTimeRunsOnce, RunsOfSchedule, SchedulingTypeOK
  <2>2. CASE skipped' = skipped /\ \E s \in {"record", "enqueue"} : run' = [run EXCEPT ![r] = s]
    <3>1. RunsOfSchedule' = RunsOfSchedule \cup {r}
      BY <1>1, <1>2, <1>5, <2>2 DEF RunsOfSchedule, SchedulingTypeOK
    <3>2. N' = N + 1
      BY <1>5, <3>1, RunsAreFinite, FS_AddElement
    <3>3. N' + skipped' + 0 = reached'
      <4> HIDE DEF N
      <4> QED BY <1>2, <2>1, <2>2, <3>2
    <3> QED BY <1>2, <3>3 DEF EachTimeRunsOnce, RunsOfSchedule
  <2>3. CASE skipped' = skipped + 1 /\ run' = run
    <3>1. N' = N
      BY <2>3 DEF RunsOfSchedule
    <3>2. N' + skipped' + 0 = reached'
      <4> HIDE DEF N
      <4> QED BY <1>2, <2>1, <2>3, <3>1
    <3> QED BY <1>2, <3>2 DEF EachTimeRunsOnce, RunsOfSchedule
  <2> QED BY <1>3, <2>2, <2>3
<1> QED BY <1>4, <1>6 DEF SchedulingInv

\* What a run does next, and a restart of the panel, leave the times alone and begin no run.
LEMMA RunsKeep ==
  ASSUME SchedulingInv, SchedulerDies \/ \E r \in Runs : RecordRun(r) \/ EnqueueRun(r)
  PROVE  SchedulingInv'
<1>1. SchedulingTypeOK /\ EachTimeRunsOnce
  BY DEF SchedulingInv
<1>2. UNCHANGED <<next, counts>>
  BY DEF SchedulerDies, RecordRun, EnqueueRun, scheduleRecord
<1>3. SchedulingTypeOK' /\ RunsOfSchedule' = RunsOfSchedule
  <2>1. CASE SchedulerDies
    BY <1>1, <2>1 DEF SchedulingTypeOK, RunsOfSchedule, SchedulerDies, scheduleRecord, counts
  <2>2. ASSUME NEW r \in Runs, RecordRun(r)
        PROVE  SchedulingTypeOK' /\ RunsOfSchedule' = RunsOfSchedule
    BY <1>1, <2>2 DEF SchedulingTypeOK, RunsOfSchedule, RecordRun, scheduleRecord, counts
  <2>3. ASSUME NEW r \in Runs, EnqueueRun(r)
        PROVE  SchedulingTypeOK' /\ RunsOfSchedule' = RunsOfSchedule
    BY <1>1, <2>3 DEF SchedulingTypeOK, RunsOfSchedule, EnqueueRun, scheduleRecord, counts
  <2> QED BY <2>1, <2>2, <2>3
<1>4. EachTimeRunsOnce'
  BY <1>1, <1>2, <1>3 DEF EachTimeRunsOnce, RunsOfSchedule, counts
<1> QED BY <1>3, <1>4 DEF SchedulingInv

\* The invariant holds whatever ticks, edits and restarts there are.
LEMMA SchedulingInvariant == SchedulingSpec => []SchedulingInv
<1>1. SchedulingInit => SchedulingInv
  <2> SUFFICES ASSUME SchedulingInit PROVE SchedulingInv
    OBVIOUS
  <2>1. SchedulingTypeOK
    BY DEF SchedulingInit, SchedulingTypeOK
  <2>2. {r \in Runs : run[r] # "none"} = {}
    BY DEF SchedulingInit
  <2>3. EachTimeRunsOnce
    BY <2>2, FS_EmptySet DEF SchedulingInit, EachTimeRunsOnce
  <2> QED BY <2>1, <2>3 DEF SchedulingInv
<1>2. SchedulingInv /\ [SchedulingNext]_schedulingVars => SchedulingInv'
  <2> SUFFICES ASSUME SchedulingInv, [SchedulingNext]_schedulingVars PROVE SchedulingInv'
    OBVIOUS
  <2>1. CASE UNCHANGED schedulingVars
    BY <2>1 DEF SchedulingInv, SchedulingTypeOK, EachTimeRunsOnce, schedulingVars,
                scheduleRecord, counts
  <2>2. CASE SchedulingNext
    BY <2>2, ScheduleKeeps, CollectKeeps, RunsKeep DEF SchedulingNext
  <2> QED BY <2>1, <2>2
<1> QED BY <1>1, <1>2, PTL DEF SchedulingSpec

\* The schedule and its runs keep their types (types.ts, ScheduleRecord).
THEOREM SchedulingTypeCorrect == SchedulingSpec => []SchedulingTypeOK
BY SchedulingInvariant, PTL DEF SchedulingInv

\* The runs that a schedule has brought about, the times taken from it on purpose and the
\* one it has still to notice are together the times that it reached: none is run twice and
\* none is forgotten, through overlapping ticks, edits and restarts (server.ts:1314-1344).
THEOREM TimesRunOnce == SchedulingSpec => []EachTimeRunsOnce
BY SchedulingInvariant, PTL DEF SchedulingInv

-----------------------------------------------------------------------------
(* A backup and its tasks *)

\* The backup's first task was finished once: it still is, or was taken up again.
SettledOnce == Finished(tasks[1]) \/ 1 \in reopened

\* Until its first task is made a backup has no other; a later one is made when the first
\* has failed, and the backup is available when one of them has succeeded.
TriesInOrder ==
  /\ handler \in {"none", "record", "enqueue"} =>
       /\ copy \in {"none", "queued"} /\ ~resubmitting
       /\ \A t \in Tries : tasks[t].status = "absent"
  /\ resubmitting \/ copy = "available" => SettledOnce
  /\ \A t \in Tries : t # 1 /\ tasks[t].status # "absent" => SettledOnce

\* The agent has only what was delivered to it.
DeliveriesExist == \A k \in DOMAIN chain : tasks[chain[k]].status # "absent"

\* A backup that the panel lists as queued or being created has a task that is not finished,
\* or a handler about to create it, or lost its handler in a restart: record and task, that
\* only the payload links, are never parted otherwise (server.ts:348-355, 1030-1036, 1309,
\* 1341).
PendingBackupHasWork ==
  copy \in {"queued", "creating"} =>
    handler \in {"enqueue", "lost"} \/ \E t \in Tries : Open(t)

BackupInv == BackupTypeOK /\ TriesInOrder /\ DeliveriesExist /\ PendingBackupHasWork

\* What the transactions make of a task.
LEMMA TaskOutcomes ==
  ASSUME NEW task \in Task
  PROVE  /\ Created(task) \in Task /\ Created(task).status = "queued"
         /\ Reserved(task) \in Task /\ Reserved(task).status = "delivered"
         /\ Requeued(task) \in Task
         /\ Requeued(task).status
              = IF task.status = "delivered" THEN "queued" ELSE task.status
         /\ Reported(task) \in Task /\ Reported(task).status = "running"
         /\ RetryDue(task) \in Task /\ RetryDue(task).status = "queued"
         /\ FailedOnce(task) \in Task
         /\ FailedOnce(task).status = IF MayRetry(task) THEN "retrying" ELSE "failed"
<1>1. /\ task.type \in TASK_TYPES /\ task.status \in TASK_STATUSES /\ task.attempt \in Nat
      /\ task = [type |-> task.type, status |-> task.status, attempt |-> task.attempt]
  BY DEF Task
<1>2. /\ Created(task) \in Task /\ Created(task).status = "queued"
      /\ Reserved(task) \in Task /\ Reserved(task).status = "delivered"
  <2>1. Created(task) \in Task /\ Created(task).status = "queued"
    BY DEF Task, TASK_STATUSES, Created
  <2>2. Reserved(task) \in Task /\ Reserved(task).status = "delivered"
    <3>1. task.attempt + 1 \in Nat
      BY <1>1
    <3>2. Reserved(task) \in Task
      BY <3>1 DEF Task, TASK_STATUSES, Reserved
    <3> QED BY <3>2 DEF Task, Reserved
  <2> QED BY <2>1, <2>2
<1>3. /\ Requeued(task) \in Task
      /\ Requeued(task).status = IF task.status = "delivered" THEN "queued" ELSE task.status
  BY <1>1 DEF Task, TASK_STATUSES, Requeued
<1>4. /\ Reported(task) \in Task /\ Reported(task).status = "running"
      /\ RetryDue(task) \in Task /\ RetryDue(task).status = "queued"
  BY <1>1 DEF Task, TASK_STATUSES, Reported, RetryDue
<1>5. /\ FailedOnce(task) \in Task
      /\ FailedOnce(task).status = IF MayRetry(task) THEN "retrying" ELSE "failed"
  BY <1>1 DEF Task, TASK_STATUSES, FailedOnce
<1> QED BY <1>2, <1>3, <1>4, <1>5

\* A result for a task that is there and not finished.
LEMMA ResultOutcomes ==
  ASSUME NEW task \in Task, ~Finished(task), task.status # "absent", NEW ok \in BOOLEAN
  PROVE  /\ WithResult(task, ok) \in Task
         /\ WithResult(task, ok).status
              = IF ok THEN "succeeded" ELSE IF MayRetry(task) THEN "retrying" ELSE "failed"
BY TaskOutcomes DEF WithResult, Task, TASK_STATUSES

\* One task has become another, the others have stayed.
LEMMA OneTaskChanges ==
  ASSUME BackupTypeOK, NEW t \in Tries, NEW task \in Task, TaskBecomes(t, task)
  PROVE  /\ tasks' \in [Tries -> Task] /\ tasks'[t] = task
         /\ \A u \in Tries : u # t => tasks'[u] = tasks[u]
BY DEF BackupTypeOK, TaskBecomes

\* The deliveries that remain are some of those that were there.
LEMMA KeptDeliveries ==
  ASSUME BackupTypeOK, NEW n \in Deliveries, KeepDeliveries(n)
  PROVE  /\ chain' \in Seq(Tries) /\ phase' \in {"waiting", "accepted", "working", "answer"}
         /\ \A k \in DOMAIN chain' : k \in DOMAIN chain /\ chain'[k] = chain[k]
<1>1. chain \in Seq(Tries) /\ n \in 0..Len(chain) /\ chain' = SubSeq(chain, 1, n)
  BY DEF BackupTypeOK, Deliveries, KeepDeliveries
<1>2. /\ SubSeq(chain, 1, n) \in Seq(Tries) /\ Len(SubSeq(chain, 1, n)) = n
      /\ \A k \in 1..n : SubSeq(chain, 1, n)[k] = chain[k]
  BY <1>1
<1> QED BY <1>1, <1>2 DEF KeepDeliveries, BackupTypeOK

\* A task that is there has moved on: the order of the tasks stays.
LEMMA TaskMoves ==
  ASSUME BackupInv, NEW t \in Tries, NEW task \in Task, TaskBecomes(t, task),
         tasks[t].status # "absent", task.status # "absent",
         UNCHANGED <<handler, resubmitting>>, SettledOnce => SettledOnce',
         copy' = "available" => copy = "available" \/ SettledOnce'
  PROVE  TriesInOrder' /\ \A u \in Tries : tasks[u].status # "absent" => tasks'[u].status # "absent"
<1>1. BackupTypeOK /\ TriesInOrder
  BY DEF BackupInv
<1>2. tasks'[t] = task /\ \A u \in Tries : u # t => tasks'[u] = tasks[u]
  BY <1>1, OneTaskChanges
<1>3. handler \notin {"none", "record", "enqueue"}
  BY <1>1 DEF TriesInOrder
<1>4. \A u \in Tries : tasks'[u].status # "absent" <=> tasks[u].status # "absent"
  BY <1>2
<1>5. TriesInOrder'
  BY <1>1, <1>3, <1>4 DEF TriesInOrder
<1> QED BY <1>4, <1>5

\* No task that is not finished is passed over.
LEMMA WorkGoesOn ==
  ASSUME BackupInv, NEW t \in Tries, NEW task \in Task, TaskBecomes(t, task),
         handler' = handler, copy' = copy,
         Open(t) => task.status \in {"queued", "delivered", "running", "retrying"}
  PROVE  PendingBackupHasWork'
<1>1. BackupTypeOK /\ PendingBackupHasWork
  BY DEF BackupInv
<1>2. tasks'[t] = task /\ \A u \in Tries : u # t => tasks'[u] = tasks[u]
  BY <1>1, OneTaskChanges
<1>3. \A u \in Tries : Open(u) => Open(u)'
  BY <1>2 DEF Open
<1> QED BY <1>1, <1>3 DEF PendingBackupHasWork

\* The handlers of the request and of a resubmission.
LEMMA RequestsKeepBackup ==
  ASSUME BackupInv,
         \/ RequestBackup \/ RecordBackup \/ EnqueueBackup
         \/ \E t \in Tries : AskRetry(t) \/ ResubmitBackup(t)
  PROVE  BackupInv'
<1>1. BackupTypeOK /\ TriesInOrder /\ DeliveriesExist /\ PendingBackupHasWork /\ 1 \in Tries
  BY BackupAssumption DEF BackupInv, Tries
<1>2. UNCHANGED <<chain, phase, recorded, reopened, outages, reboots, link>>
  BY DEF RequestBackup, RecordBackup, EnqueueBackup, AskRetry, ResubmitBackup, agentVars, bounds
<1>3. CASE RequestBackup
  BY <1>1, <1>2, <1>3 DEF RequestBackup, HandlerGoes, BackupInv, BackupTypeOK, TriesInOrder,
       DeliveriesExist, PendingBackupHasWork, SettledOnce, Open
<1>4. CASE RecordBackup
  BY <1>1, <1>2, <1>4 DEF RecordBackup, HandlerGoes, BackupInv, BackupTypeOK, TriesInOrder,
       DeliveriesExist, PendingBackupHasWork, SettledOnce, Open
<1>5. CASE EnqueueBackup
  <2>1. tasks[1] \in Task /\ TaskBecomes(1, Created(tasks[1])) /\ handler = "enqueue"
        /\ handler' = "done" /\ UNCHANGED <<copy, resubmitting>>
    BY <1>1, <1>5 DEF EnqueueBackup, HandlerGoes, BackupTypeOK
  <2>2. /\ tasks' \in [Tries -> Task] /\ tasks'[1].status = "queued"
        /\ \A u \in Tries : u # 1 => tasks'[u] = tasks[u]
    BY <1>1, <2>1, OneTaskChanges, TaskOutcomes
  <2>3. BackupTypeOK'
    BY <1>1, <1>2, <2>1, <2>2 DEF BackupTypeOK
  <2>4. TriesInOrder'
    BY <1>1, <2>1, <2>2 DEF TriesInOrder
  <2>5. DeliveriesExist'
    BY <1>1, <1>2, <2>1 DEF DeliveriesExist, TriesInOrder, BackupTypeOK
  <2>6. PendingBackupHasWork'
    BY <1>1, <2>2 DEF PendingBackupHasWork, Open
  <2> QED BY <2>3, <2>4, <2>5, <2>6 DEF BackupInv
<1>6. ASSUME NEW t \in Tries, AskRetry(t)
      PROVE  BackupInv'
  <2>1. /\ tasks[t].status = "failed" /\ resubmitting' = TRUE
        /\ UNCHANGED <<handler, copy, tasks>>
    BY <1>6 DEF AskRetry
  <2>2. SettledOnce
    BY <1>1, <2>1 DEF TriesInOrder, SettledOnce, Finished
  <2>3. BackupTypeOK' /\ DeliveriesExist' /\ PendingBackupHasWork'
    BY <1>1, <1>2, <2>1 DEF BackupTypeOK, DeliveriesExist, PendingBackupHasWork, Open
  <2>4. TriesInOrder'
    BY <1>1, <1>2, <2>1, <2>2 DEF TriesInOrder, SettledOnce
  <2> QED BY <2>3, <2>4 DEF BackupInv
<1>7. ASSUME NEW t \in Tries, ResubmitBackup(t)
      PROVE  BackupInv'
  <2>1. /\ resubmitting /\ resubmitting' = FALSE /\ t # 1 /\ tasks[t] \in Task
        /\ tasks[t].status = "absent"
        /\ TaskBecomes(t, Created(tasks[t])) /\ UNCHANGED <<handler, copy>>
    BY <1>1, <1>7 DEF ResubmitBackup, BackupTypeOK
  <2>2. /\ tasks' \in [Tries -> Task] /\ tasks'[t].status = "queued"
        /\ \A u \in Tries : u # t => tasks'[u] = tasks[u]
    BY <1>1, <2>1, OneTaskChanges, TaskOutcomes
  <2>3. SettledOnce /\ SettledOnce'
    BY <1>1, <1>2, <2>1, <2>2 DEF TriesInOrder, SettledOnce
  <2>4. BackupTypeOK'
    BY <1>1, <1>2, <2>1, <2>2 DEF BackupTypeOK
  <2>5. TriesInOrder'
    BY <1>1, <2>1, <2>2, <2>3 DEF TriesInOrder
  <2>6. DeliveriesExist'
    BY <1>1, <1>2, <2>2 DEF DeliveriesExist, BackupTypeOK
  <2>7. PendingBackupHasWork'
    BY <1>1, <2>1, <2>2 DEF PendingBackupHasWork, Open
  <2> QED BY <2>4, <2>5, <2>6, <2>7 DEF BackupInv
<1> QED BY <1>3, <1>4, <1>5, <1>6, <1>7

\* Deliveries, due retries and time-outs.
LEMMA PanelKeepsBackup ==
  ASSUME BackupInv, NEW t \in Tries, DeliverBackup(t) \/ RetryIsDue(t) \/ TimeOutBackup(t)
  PROVE  BackupInv'
<1>1. /\ BackupTypeOK /\ TriesInOrder /\ DeliveriesExist /\ PendingBackupHasWork
      /\ 1 \in Tries /\ tasks[t] \in Task
  BY BackupAssumption DEF BackupInv, Tries, BackupTypeOK
<1>2. UNCHANGED <<handler, resubmitting, link, phase, recorded, reopened, outages, reboots>>
  BY DEF DeliverBackup, RetryIsDue, TimeOutBackup, agentVars, bounds
<1>3. PICK task \in Task :
        /\ TaskBecomes(t, task) /\ ~Finished(tasks[t])
        /\ tasks[t].status # "absent" /\ task.status # "absent"
        /\ \/ copy' = copy /\ task.status \in {"queued", "delivered", "running", "retrying"}
           \/ copy' = "failed"
  <2>1. CASE DeliverBackup(t)
    BY <1>1, <2>1, TaskOutcomes DEF DeliverBackup, Finished
  <2>2. CASE RetryIsDue(t)
    BY <1>1, <2>2, TaskOutcomes DEF RetryIsDue, Finished
  <2>3. CASE TimeOutBackup(t)
    <3>1. /\ TaskBecomes(t, FailedOnce(tasks[t])) /\ copy' = SweptCopy(t)
          /\ tasks[t].status \in {"delivered", "running"}
      BY <2>3 DEF TimeOutBackup
    <3>2. FailedOnce(tasks[t]) \in Task /\ FailedOnce(tasks[t]).status \in {"retrying", "failed"}
      BY <1>1, TaskOutcomes
    <3>3. tasks'[t] = FailedOnce(tasks[t])
      BY <1>1, <3>1, <3>2, OneTaskChanges
    <3> QED BY <3>1, <3>2, <3>3 DEF SweptCopy, Finished
  <2> QED BY <2>1, <2>2, <2>3
<1>4. /\ tasks' \in [Tries -> Task] /\ tasks'[t] = task
      /\ \A u \in Tries : u # t => tasks'[u] = tasks[u]
  BY <1>1, <1>3, OneTaskChanges
<1>5. SettledOnce => SettledOnce'
  BY <1>1, <1>2, <1>3, <1>4 DEF SettledOnce
<1>6. copy' = "available" => copy = "available"
  BY <1>3
<1>7. TriesInOrder' /\ \A u \in Tries : tasks[u].status # "absent" => tasks'[u].status # "absent"
  BY <1>2, <1>3, <1>5, <1>6, TaskMoves
<1>8. chain' \in Seq(Tries) /\ DeliveriesExist'
  <2>1. chain' = chain \/ chain' = Append(chain, t)
    BY DEF DeliverBackup, RetryIsDue, TimeOutBackup, agentVars
  <2>2. chain \in Seq(Tries)
    BY <1>1 DEF BackupTypeOK
  <2>3. \A k \in DOMAIN chain : tasks'[chain[k]].status # "absent"
    BY <1>1, <1>7, <2>2 DEF DeliveriesExist
  <2>4. CASE chain' = chain
    BY <2>2, <2>3, <2>4 DEF DeliveriesExist
  <2>5. CASE chain' = Append(chain, t)
    <3>1. \A k \in DOMAIN chain' : (k \in DOMAIN chain /\ chain'[k] = chain[k]) \/ chain'[k] = t
      BY <2>2, <2>5
    <3> QED BY <1>3, <1>4, <2>2, <2>3, <2>5, <3>1 DEF DeliveriesExist
  <2> QED BY <2>1, <2>4, <2>5
<1>9. BackupTypeOK'
  <2>1. copy' \in {"none", "queued", "creating", "available", "failed"}
    BY <1>1, <1>3 DEF BackupTypeOK
  <2> QED BY <1>1, <1>2, <1>4, <1>8, <2>1 DEF BackupTypeOK
<1>10. PendingBackupHasWork'
  <2>1. CASE copy' = "failed"
    BY <2>1 DEF PendingBackupHasWork
  <2>2. CASE copy' = copy /\ task.status \in {"queued", "delivered", "running", "retrying"}
    BY <1>2, <1>3, <2>2, WorkGoesOn
  <2> QED BY <1>3, <2>1, <2>2
<1> QED BY <1>7, <1>8, <1>9, <1>10 DEF BackupInv

\* An acknowledgement or progress, which the panel hears or not.
LEMMA HearingKeepsBackup ==
  ASSUME BackupInv, AgentAccepts \/ AgentProceeds
  PROVE  BackupInv'
<1> DEFINE t == Head(chain)
<1>1. /\ BackupTypeOK /\ TriesInOrder /\ DeliveriesExist /\ PendingBackupHasWork /\ 1 \in Tries
  BY BackupAssumption DEF BackupInv, Tries
<1>2. t \in Tries /\ tasks[t] \in Task /\ tasks[t].status # "absent"
  <2>1. chain # <<>> /\ chain \in Seq(Tries)
    BY <1>1 DEF AgentAccepts, AgentProceeds, BackupTypeOK
  <2>2. t \in Tries /\ 1 \in DOMAIN chain /\ t = chain[1]
    BY <2>1
  <2> QED BY <1>1, <2>2 DEF DeliveriesExist, BackupTypeOK
<1>3. /\ UNCHANGED <<handler, copy, resubmitting, link, chain, recorded, outages, reboots>>
      /\ phase' \in {"accepted", "working", "answer"} /\ HearOf(t)
  BY DEF AgentAccepts, AgentProceeds, bounds
<1> HIDE DEF t
<1>4. CASE link = "up"
  <2>1. TaskBecomes(t, Reported(tasks[t]))
        /\ reopened' = IF Finished(tasks[t]) THEN reopened \cup {t} ELSE reopened
    BY <1>3, <1>4 DEF HearOf
  <2>2. Reported(tasks[t]) \in Task /\ Reported(tasks[t]).status = "running"
    BY <1>2, TaskOutcomes
  <2>3. /\ tasks' \in [Tries -> Task] /\ \A u \in Tries : u # t => tasks'[u] = tasks[u]
    BY <1>1, <1>2, <2>1, <2>2, OneTaskChanges
  <2>4. SettledOnce => SettledOnce'
    BY <1>1, <2>1, <2>3 DEF SettledOnce
  <2>5. TriesInOrder' /\ \A u \in Tries : tasks[u].status # "absent" => tasks'[u].status # "absent"
    BY <1>2, <1>3, <2>1, <2>2, <2>4, TaskMoves
  <2>6. DeliveriesExist'
    BY <1>1, <1>3, <2>5 DEF DeliveriesExist, BackupTypeOK
  <2>7. PendingBackupHasWork'
    BY <1>2, <1>3, <2>1, <2>2, WorkGoesOn
  <2>8. BackupTypeOK'
    BY <1>1, <1>2, <1>3, <2>1, <2>3 DEF BackupTypeOK
  <2> QED BY <2>5, <2>6, <2>7, <2>8 DEF BackupInv
<1>5. CASE link # "up"
  <2>1. UNCHANGED <<tasks, reopened>>
    BY <1>3, <1>5 DEF HearOf
  <2> QED BY <1>1, <1>3, <2>1 DEF BackupInv, BackupTypeOK, TriesInOrder, DeliveriesExist,
             PendingBackupHasWork, SettledOnce, Open
<1> QED BY <1>4, <1>5

\* A result, which decides the backup if it decides the task.
LEMMA ResultKeepsBackup ==
  ASSUME BackupInv, NEW ok \in BOOLEAN, AgentEnds(ok)
  PROVE  BackupInv'
<1> DEFINE t == Head(chain)
<1>1. /\ BackupTypeOK /\ TriesInOrder /\ DeliveriesExist /\ PendingBackupHasWork /\ 1 \in Tries
  BY BackupAssumption DEF BackupInv, Tries
<1>2. /\ t \in Tries /\ tasks[t] \in Task /\ tasks[t].status # "absent"
      /\ chain \in Seq(Tries) /\ Tail(chain) \in Seq(Tries)
      /\ \A k \in DOMAIN Tail(chain) : k + 1 \in DOMAIN chain /\ Tail(chain)[k] = chain[k + 1]
  <2>1. chain # <<>> /\ chain \in Seq(Tries)
    BY <1>1 DEF AgentEnds, BackupTypeOK
  <2>2. t \in Tries /\ 1 \in DOMAIN chain /\ t = chain[1]
    BY <2>1
  <2> QED BY <1>1, <2>1, <2>2 DEF DeliveriesExist, BackupTypeOK
<1>3. /\ UNCHANGED <<handler, resubmitting, link, reopened, outages, reboots>>
      /\ phase' = "waiting" /\ chain' = Tail(chain) /\ HearResult(t, ok)
      /\ recorded' \in {recorded, recorded \cup {t}}
  BY DEF AgentEnds, bounds
<1> HIDE DEF t
<1>4. phase' \in {"waiting", "accepted", "working", "answer"} /\ recorded' \in SUBSET Tries
  BY <1>1, <1>2, <1>3 DEF BackupTypeOK
<1>5. CASE link = "up" /\ ~Finished(tasks[t])
  <2> DEFINE task == WithResult(tasks[t], ok)
  <2>1. /\ TaskBecomes(t, task)
        /\ copy' = IF ok THEN "available" ELSE IF MayRetry(tasks[t]) THEN "creating" ELSE "failed"
    BY <1>3, <1>5 DEF HearResult
  <2>2. /\ task \in Task
        /\ task.status
             = IF ok THEN "succeeded" ELSE IF MayRetry(tasks[t]) THEN "retrying" ELSE "failed"
    BY <1>2, <1>5, ResultOutcomes
  <2> HIDE DEF task
  <2>3. /\ tasks' \in [Tries -> Task] /\ tasks'[t] = task
        /\ \A u \in Tries : u # t => tasks'[u] = tasks[u]
    BY <1>1, <1>2, <2>1, <2>2, OneTaskChanges
  <2>4. SettledOnce => SettledOnce'
    BY <1>1, <1>3, <1>5, <2>3 DEF SettledOnce
  <2>5. copy' = "available" => SettledOnce'
    <3>1. CASE t = 1
      BY <2>1, <2>2, <2>3, <3>1 DEF SettledOnce, Finished
    <3>2. CASE t # 1
      BY <1>1, <1>2, <2>4, <3>2 DEF TriesInOrder
    <3> QED BY <3>1, <3>2
  <2>6. TriesInOrder' /\ \A u \in Tries : tasks[u].status # "absent" => tasks'[u].status # "absent"
    BY <1>2, <1>3, <2>1, <2>2, <2>4, <2>5, TaskMoves
  <2>7. DeliveriesExist'
    BY <1>1, <1>2, <1>3, <2>6 DEF DeliveriesExist, BackupTypeOK
  <2>8. PendingBackupHasWork'
    BY <1>2, <2>1, <2>2, <2>3 DEF PendingBackupHasWork, Open
  <2>9. BackupTypeOK'
    BY <1>1, <1>2, <1>3, <1>4, <2>1, <2>3 DEF BackupTypeOK
  <2> QED BY <2>6, <2>7, <2>8, <2>9 DEF BackupInv
<1>6. CASE ~(link = "up" /\ ~Finished(tasks[t]))
  <2>1. UNCHANGED <<tasks, copy>>
    BY <1>3, <1>6 DEF HearResult
  <2>2. DeliveriesExist'
    BY <1>1, <1>2, <1>3, <2>1 DEF DeliveriesExist
  <2>3. BackupTypeOK'
    BY <1>1, <1>2, <1>3, <1>4, <2>1 DEF BackupTypeOK
  <2> QED BY <1>1, <1>3, <2>1, <2>2, <2>3 DEF BackupInv, TriesInOrder, PendingBackupHasWork,
             SettledOnce, Open
<1> QED BY <1>5, <1>6

\* Connections that break, are noticed to be broken and made again, and a restarted panel.
LEMMA ConnectionsKeepBackup ==
  ASSUME BackupInv,
         \/ NoticeClose \/ AttachAgain
         \/ \E n \in Deliveries : LoseAgent(n) \/ PanelReboots(n)
  PROVE  BackupInv'
<1>1. /\ BackupTypeOK /\ TriesInOrder /\ DeliveriesExist /\ PendingBackupHasWork /\ 1 \in Tries
  BY BackupAssumption DEF BackupInv, Tries
<1>2. CASE AttachAgain
  BY <1>1, <1>2 DEF AttachAgain, agentVars, bounds, BackupInv, BackupTypeOK, TriesInOrder,
       DeliveriesExist, PendingBackupHasWork, SettledOnce, Open
<1>3. CASE NoticeClose
  <2>1. /\ UNCHANGED <<handler, copy, resubmitting, chain, phase, recorded, reopened, outages,
                       reboots>>
        /\ link' = "down" /\ tasks' = [t \in Tries |-> Requeued(tasks[t])]
    BY <1>3 DEF NoticeClose, agentVars, bounds
  <2>2. tasks' \in [Tries -> Task]
    BY <1>1, <2>1, TaskOutcomes DEF BackupTypeOK
  <2>3. \A u \in Tries : tasks'[u].status
          = IF tasks[u].status = "delivered" THEN "queued" ELSE tasks[u].status
    BY <1>1, <2>1, TaskOutcomes DEF BackupTypeOK
  <2>4. /\ \A u \in Tries : Open(u) => Open(u)'
        /\ SettledOnce => SettledOnce'
    BY <1>1, <2>1, <2>3 DEF Open, SettledOnce, Finished
  <2>5. BackupTypeOK'
    BY <1>1, <2>1, <2>2 DEF BackupTypeOK
  <2>6. TriesInOrder'
    BY <1>1, <2>1, <2>3, <2>4 DEF TriesInOrder
  <2>7. DeliveriesExist' /\ PendingBackupHasWork'
    BY <1>1, <2>1, <2>3, <2>4 DEF DeliveriesExist, PendingBackupHasWork, BackupTypeOK
  <2> QED BY <2>5, <2>6, <2>7 DEF BackupInv
<1>4. ASSUME NEW n \in Deliveries, LoseAgent(n) \/ PanelReboots(n)
      PROVE  BackupInv'
  <2>1. /\ KeepDeliveries(n) /\ UNCHANGED <<copy, tasks, reopened, recorded>>
        /\ handler' \in {handler, "lost"} /\ resubmitting' \in {resubmitting, FALSE}
        /\ link' \in {link, "dead", "down"}
        /\ outages' \in {outages, outages + 1} /\ reboots' \in {reboots, reboots + 1}
    <3>1. CASE LoseAgent(n)
      BY <3>1 DEF LoseAgent, KeepDeliveries
    <3>2. CASE PanelReboots(n)
      BY <3>2 DEF PanelReboots, KeepDeliveries
    <3> QED BY <1>4, <3>1, <3>2
  <2>2. /\ chain' \in Seq(Tries) /\ phase' \in {"waiting", "accepted", "working", "answer"}
        /\ \A k \in DOMAIN chain' : k \in DOMAIN chain /\ chain'[k] = chain[k]
    BY <1>1, <2>1, KeptDeliveries
  <2>3. BackupTypeOK'
    <3>1. outages' \in Nat /\ reboots' \in Nat
      BY <1>1, <2>1 DEF BackupTypeOK
    <3>2. recorded' = recorded /\ reopened' = reopened /\ copy' = copy /\ tasks' = tasks
      BY <2>1 DEF KeepDeliveries
    <3> QED BY <1>1, <2>1, <2>2, <3>1, <3>2 DEF BackupTypeOK
  <2>4. DeliveriesExist'
    BY <1>1, <2>1, <2>2 DEF DeliveriesExist
  <2>5. TriesInOrder'
    <3>1. SettledOnce' <=> SettledOnce
      BY <2>1 DEF SettledOnce
    <3>2. handler' \in {"none", "record", "enqueue"} => handler' = handler
      BY <2>1
    <3>3. resubmitting' => resubmitting
      BY <2>1
    <3> QED BY <1>1, <2>1, <3>1, <3>2, <3>3 DEF TriesInOrder
  <2>6. PendingBackupHasWork'
    <3>1. \A u \in Tries : Open(u)' <=> Open(u)
      BY <2>1 DEF Open
    <3>2. handler \in {"enqueue", "lost"} => handler' \in {"enqueue", "lost"}
      BY <2>1
    <3> QED BY <1>1, <2>1, <3>1, <3>2 DEF PendingBackupHasWork
  <2> QED BY <2>3, <2>4, <2>5, <2>6 DEF BackupInv
<1> QED BY <1>2, <1>3, <1>4

\* The invariant holds whatever the panel, the agent and the connections between them do.
LEMMA BackupInvariant == BackupSpec => []BackupInv
<1>1. BackupInit => BackupInv
  <2> SUFFICES ASSUME BackupInit PROVE BackupInv
    OBVIOUS
  <2>1. NoTask \in Task /\ NoTask.status = "absent"
    BY DEF NoTask, Task, TASK_TYPES, AUTOMATIC_RETRY_TASK_TYPES, TASK_STATUSES
  <2>2. tasks \in [Tries -> Task] /\ \A t \in Tries : tasks[t].status = "absent"
    BY <2>1 DEF BackupInit
  <2>3. BackupTypeOK
    <3>1. chain \in Seq(Tries) /\ recorded \in SUBSET Tries /\ reopened \in SUBSET Tries
      BY DEF BackupInit
    <3>2. outages \in Nat /\ reboots \in Nat
      BY DEF BackupInit
    <3> QED BY <2>2, <3>1, <3>2 DEF BackupInit, BackupTypeOK
  <2>4. TriesInOrder /\ DeliveriesExist /\ PendingBackupHasWork
    BY <2>2 DEF BackupInit, TriesInOrder, DeliveriesExist, PendingBackupHasWork
  <2> QED BY <2>3, <2>4 DEF BackupInv
<1>2. BackupInv /\ [BackupNext]_backupVars => BackupInv'
  <2> SUFFICES ASSUME BackupInv, [BackupNext]_backupVars PROVE BackupInv'
    OBVIOUS
  <2>1. CASE UNCHANGED backupVars
    BY <2>1 DEF backupVars, agentVars, bounds, BackupInv, BackupTypeOK, TriesInOrder,
                DeliveriesExist, PendingBackupHasWork, SettledOnce, Open
  <2>2. CASE BackupNext
    BY <2>2, RequestsKeepBackup, PanelKeepsBackup, HearingKeepsBackup, ResultKeepsBackup,
       ConnectionsKeepBackup DEF BackupNext
  <2> QED BY <2>1, <2>2
<1> QED BY <1>1, <1>2, PTL DEF BackupSpec

\* The backup, its tasks, the connection and the agent keep their types (types.ts,
\* BackupRecord and TaskRecord).
THEOREM BackupTypeCorrect == BackupSpec => []BackupTypeOK
BY BackupInvariant, PTL DEF BackupInv

\* No backup stays listed as queued or being created with nobody at work on it, but for one
\* whose handler a restart took between its record and its task (server.ts:348-355,
\* 1030-1036, 1309, 1341).
THEOREM PendingBackupsHaveWork == BackupSpec => []PendingBackupHasWork
BY BackupInvariant, PTL DEF BackupInv

\* A backup that became available leaves this state only by a task that an operator had done
\* again, or by its first task after a late acknowledgement took this up again: otherwise
\* late results, lost connections and time-outs do not touch it, for any attempts, outages,
\* resubmissions and restarts (server.ts:348-355, 481, 1203-1228, 1309).
THEOREM BackupsStayAvailable == BackupSpec => AvailableBackupStays
<1>1. BackupInv /\ [BackupNext]_backupVars
        => [copy = "available" /\ copy' # "available"
              => \E t \in Tries : Open(t) /\ (t # 1 \/ t \in reopened)]_backupVars
  <2> SUFFICES ASSUME BackupInv, BackupNext, copy = "available", copy' # "available"
               PROVE  \E t \in Tries : Open(t) /\ (t # 1 \/ t \in reopened)
    OBVIOUS
  <2>1. BackupTypeOK /\ TriesInOrder /\ DeliveriesExist
    BY DEF BackupInv
  <2>2. ~RecordBackup
    BY <2>1 DEF RecordBackup, HandlerGoes, TriesInOrder
  <2>3. (\E ok \in BOOLEAN : AgentEnds(ok)) \/ \E t \in Tries : TimeOutBackup(t)
    BY <2>2 DEF BackupNext, RequestBackup, EnqueueBackup, AskRetry, ResubmitBackup,
       DeliverBackup, RetryIsDue, AgentAccepts, AgentProceeds, LoseAgent, PanelReboots,
       NoticeClose, AttachAgain
  <2>4. PICK t \in Tries : Open(t)
    <3>1. CASE \E t \in Tries : TimeOutBackup(t)
      BY <3>1 DEF TimeOutBackup, Open
    <3>2. ASSUME NEW ok \in BOOLEAN, AgentEnds(ok)
          PROVE  \E t \in Tries : Open(t)
      <4>1. chain # <<>> /\ chain \in Seq(Tries) /\ HearResult(Head(chain), ok)
        BY <2>1, <3>2 DEF AgentEnds, BackupTypeOK
      <4>2. Head(chain) \in Tries /\ 1 \in DOMAIN chain /\ Head(chain) = chain[1]
        BY <4>1
      <4>3. ~Finished(tasks[Head(chain)]) /\ tasks[Head(chain)].status # "absent"
        BY <2>1, <4>1, <4>2 DEF HearResult, DeliveriesExist
      <4>4. tasks[Head(chain)].status \in TASK_STATUSES
        BY <2>1, <4>2 DEF BackupTypeOK, Task
      <4>5. Open(Head(chain))
        BY <4>3, <4>4 DEF Open, Finished, TASK_STATUSES
      <4> QED BY <4>2, <4>5
    <3> QED BY <2>3, <3>1, <3>2
  <2>5. t # 1 \/ t \in reopened
    BY <2>1, <2>4 DEF TriesInOrder, SettledOnce, Finished, Open
  <2> QED BY <2>4, <2>5
<1> QED BY <1>1, BackupInvariant, PTL DEF BackupSpec, AvailableBackupStays

-----------------------------------------------------------------------------
(* The page's instance and its form *)

\* The form is never filled behind the user's tick.
ClientInv == ClientTypeOK /\ ~refilled /\ ConfirmedAsSeen

\* What the client does keeps the number of requests for details in its bounds.
LEMMA AskedInBounds ==
  ASSUME ClientTypeOK, NEW i \in Catalog \cup {Nobody}, AskDetail(i)
  PROVE  asked' \in [Catalog -> 0..MaxAsked]
BY ClientAssumption DEF ClientTypeOK, AskDetail, Nobody

\* A selection fills the form anew, or leaves it alone with the selection.
LEMMA SelectKeeps ==
  ASSUME ClientInv, NEW i \in Catalog \cup {Nobody}, Select(i)
  PROVE  /\ asked' \in [Catalog -> 0..MaxAsked] /\ socket' \in {"none", "open", "lost"}
         /\ {selectedId', detail', form'} \subseteq Catalog \cup {Nobody}
         /\ confirmed' \in BOOLEAN /\ ~refilled' /\ ~blindSave'
         /\ refilled' \in BOOLEAN /\ blindSave' \in BOOLEAN
<1>1. ClientTypeOK /\ ~refilled /\ ~blindSave
  BY DEF ClientInv, ConfirmedAsSeen
<1>2. CASE i = selectedId
  BY <1>1, <1>2 DEF Select, ClientTypeOK, formVars
<1>3. CASE i # selectedId
  BY <1>1, <1>3, AskedInBounds DEF Select, ClientTypeOK, RefillForm
<1> QED BY <1>2, <1>3

\* What is saved was seen since the box was ticked, whatever answers and events come.
LEMMA ClientInvariant == ClientSpec => []ClientInv
<1>1. ClientInit => ClientInv
  <2> SUFFICES ASSUME ClientInit PROVE ClientInv
    OBVIOUS
  <2>1. ~refilled /\ ~blindSave /\ {confirmed, refilled, blindSave} \subseteq BOOLEAN
    BY DEF ClientInit
  <2>2. asked \in [Catalog -> 0..MaxAsked] /\ clicks \in 0..MaxClicks
    BY ClientAssumption DEF ClientInit
  <2>3. /\ visible \subseteq Catalog /\ listsUnderWay \subseteq SUBSET Catalog
        /\ socket \in {"none", "open", "lost"}
        /\ {selectedId, detail, form} \subseteq Catalog \cup {Nobody}
    BY DEF ClientInit
  <2> QED BY <2>1, <2>2, <2>3 DEF ClientInv, ClientTypeOK, ConfirmedAsSeen
<1>2. ClientInv /\ [ClientNext]_clientVars => ClientInv'
  <2> SUFFICES ASSUME ClientInv, [ClientNext]_clientVars PROVE ClientInv'
    OBVIOUS
  <2> USE DEF ConfirmedAsSeen
  <2>0. ClientTypeOK /\ ~refilled /\ ~blindSave
    BY DEF ClientInv
  <2>1. CASE UNCHANGED clientVars
    BY <2>0, <2>1 DEF ClientInv, ClientTypeOK, clientVars, page, formVars
  <2>2. CASE OpenPage \/ PollDashboard \/ LoseSocket \/ Confirm
    <3>1. ~refilled' /\ blindSave' = blindSave
      BY <2>0, <2>2 DEF OpenPage, PollDashboard, LoseSocket, Confirm, formVars
    <3>2. {confirmed', refilled', blindSave'} \subseteq BOOLEAN
      BY <2>0, <2>2 DEF OpenPage, PollDashboard, LoseSocket, Confirm, formVars, ClientTypeOK
    <3>3. ClientTypeOK'
      BY <2>0, <2>2, <3>2 DEF OpenPage, PollDashboard, LoseSocket, Confirm, ClientTypeOK,
                              page, formVars
    <3> QED BY <2>0, <3>1, <3>3 DEF ClientInv
  <2>3. CASE ReceiveEvent \/ SaveConfiguration
    <3>1. asked' \in [Catalog -> 0..MaxAsked]
      BY <2>0, <2>3, AskedInBounds DEF ReceiveEvent, SaveConfiguration, ClientTypeOK
    <3> QED BY <2>0, <2>3, <3>1 DEF ReceiveEvent, SaveConfiguration, ClientInv, ClientTypeOK,
                                    page, formVars
  <2>4. ASSUME NEW i \in Catalog, Click(i) PROVE ClientInv'
    BY <2>0, <2>4, SelectKeeps, ClientAssumption DEF Click, ClientInv, ClientTypeOK
  <2>5. ASSUME NEW i \in Catalog, VisibleChanges(i) PROVE ClientInv'
    BY <2>0, <2>5, ClientAssumption DEF VisibleChanges, ClientInv, ClientTypeOK, page, formVars
  <2>6. ASSUME NEW i \in Catalog, ShowDetail(i) \/ DetailFails(i) PROVE ClientInv'
    <3>1. asked' \in [Catalog -> 0..MaxAsked]
      BY <2>0, <2>6, ClientAssumption DEF ShowDetail, DetailFails, ClientTypeOK
    <3>2. ~refilled' /\ blindSave' = blindSave
      BY <2>0, <2>6 DEF ShowDetail, DetailFails, RefillForm, formVars
    <3>3. {confirmed', refilled', blindSave'} \subseteq BOOLEAN
      BY <2>0, <2>6 DEF ShowDetail, DetailFails, RefillForm, formVars, ClientTypeOK
    <3>4. ClientTypeOK'
      BY <2>0, <2>6, <3>1, <3>3 DEF ShowDetail, DetailFails, RefillForm, ClientTypeOK, page,
                                    formVars
    <3> QED BY <2>0, <3>2, <3>4 DEF ClientInv
  <2>7. ASSUME NEW list \in SUBSET Catalog, ShowDashboard(list) PROVE ClientInv'
    <3>1. PICK i \in Catalog \cup {Nobody} : Select(i)
      BY <2>0, <2>7 DEF ShowDashboard, ClientTypeOK
    <3> QED BY <2>0, <2>7, <3>1, SelectKeeps DEF ShowDashboard, ClientInv, ClientTypeOK
  <2> QED BY <2>1, <2>2, <2>3, <2>4, <2>5, <2>6, <2>7 DEF ClientNext
<1> QED BY <1>1, <1>2, PTL DEF ClientSpec

\* The page, its form and the answers under way keep their types.
THEOREM ClientTypeCorrect == ClientSpec => []ClientTypeOK
BY ClientInvariant, PTL DEF ClientInv

\* Whatever refreshes, events and selections come while a user fills the configuration form
\* in, only what was on the screen since the box was ticked is saved: every refill clears
\* the tick (App.tsx:1910-1917, 1927).
THEOREM ConfirmationsAreSeen == ClientSpec => []ConfirmedAsSeen
BY ClientInvariant, PTL DEF ClientInv

-----------------------------------------------------------------------------
(* The four together *)

\* A behaviour of the composition is one of each component: the others leave its
\* variables alone.
LEMMA SettlingIsEachComponent ==
  SettlingSpec => TransferSpec /\ SchedulingSpec /\ BackupSpec /\ ClientSpec
<1>1. SettlingInit => TransferInit /\ SchedulingInit /\ BackupInit /\ ClientInit
  BY DEF SettlingInit
<1> USE DEF SettlingNext, settlingVars, OfTransfer, OfSchedule, OfBackup, OfClient
<1>2. [SettlingNext]_settlingVars => [TransferNext]_transferVars
  BY Zenon
<1>3. [SettlingNext]_settlingVars => [SchedulingNext]_schedulingVars
  BY Zenon
<1>4. [SettlingNext]_settlingVars => [BackupNext]_backupVars
  BY Zenon
<1>5. [SettlingNext]_settlingVars => [ClientNext]_clientVars
  BY Zenon
<1> QED BY <1>1, <1>2, <1>3, <1>4, <1>5, PTL
           DEF SettlingSpec, TransferSpec, SchedulingSpec, BackupSpec, ClientSpec

\* Transfers, schedules, backups and the page keep their types side by side, as the runs
\* check them.
THEOREM SettlingTypesCorrect == SettlingSpec => []SettlingTypeOK
<1>1. TransferTypeOK /\ SchedulingTypeOK /\ BackupTypeOK /\ ClientTypeOK => SettlingTypeOK
  BY DEF SettlingTypeOK
<1> QED BY <1>1, SettlingIsEachComponent, TransferTypeCorrect, SchedulingTypeCorrect,
           BackupTypeCorrect, ClientTypeCorrect, PTL
=============================================================================
