----------------------------- MODULE Artifacts ------------------------------
(***************************************************************************)
(* Server packages: an administrator uploads one to the panel, an instance *)
(* is created from it, and the agent fetches it with a token               *)
(* (apps/api/src/server.ts, apps/agent/src/runtime.ts).  An artifact has   *)
(* one token at a time, whichever creation it was issued for; the creation *)
(* task may be retried after the token was replaced or ran out.            *)
(***************************************************************************)
EXTENDS Integers

CONSTANTS
  Uploads,     \* uploads of a package; each makes an artifact of its own
  Zips,        \* those of a ZIP file; the others are JAR files
  Creations,   \* requests for an instance with an artifact
  MaxFailures  \* bound on the failures of each creation task

ASSUME ArtifactAssumption == Zips \subseteq Uploads /\ MaxFailures \in Nat

NoCreation == "none"
Fullness == {"none", "part", "whole"}

VARIABLES
  uploading,   \* each upload's handler: idle, writing, written, done
  packageFile, \* each artifact's file in ARTIFACTS_DIR
  listed,      \* the artifacts that have a record
  downloadToken, \* the creation for which an artifact's present token was issued
  lapsed,     \* the artifacts whose tokenExpiresAt is past
  creation,   \* each creation: what its handler or its task does next
  package,    \* what the instance's directory has of the package
  failures,
  replaced, ranOut, refused  \* history: creations whose token ended, or was refused

artifactFiles == <<uploading, packageFile, listed>>
tokens == <<downloadToken, lapsed, replaced, ranOut>>
artifactVars == <<artifactFiles, tokens, creation, package, failures, refused>>

ArtifactInit ==
  /\ uploading = [a \in Uploads |-> "idle"] /\ packageFile = [a \in Uploads |-> "none"]
  /\ listed = {} /\ lapsed = {}
  /\ downloadToken = [a \in Uploads |-> NoCreation]
  /\ creation = [n \in Creations |-> [step |-> "none"]]
  /\ package = [n \in Creations |-> "none"] /\ failures = [n \in Creations |-> 0]
  /\ replaced = {} /\ ranOut = {} /\ refused = {}

\* The creation n is at this step; its artifact is a.
AtCreation(n, a, step) == creation[n] = [step |-> step, of |-> a]
Proceed(n, a, step) == creation' = [creation EXCEPT ![n] = [step |-> step, of |-> a]]

-----------------------------------------------------------------------------
(* Upload: POST /api/artifacts *)

WritePackage(a) ==
  /\ \/ uploading[a] = "idle" /\ uploading' = [uploading EXCEPT ![a] = "writing"]
        /\ packageFile' = [packageFile EXCEPT ![a] = "part"]
     \/ uploading[a] = "writing" /\ uploading' = [uploading EXCEPT ![a] = "written"]
        /\ packageFile' = [packageFile EXCEPT ![a] = "whole"]
  /\ UNCHANGED <<listed, tokens, creation, package, failures, refused>>

\* The stream breaks or is truncated, or the transaction fails: the file is removed.
UploadFails(a) ==
  /\ uploading[a] \in {"writing", "written"}
  /\ uploading' = [uploading EXCEPT ![a] = "done"] /\ packageFile' = [packageFile EXCEPT ![a] = "none"]
  /\ UNCHANGED <<listed, tokens, creation, package, failures, refused>>

\* Mutant: the record is made while the file is written.
RecordEarly(a) ==
  /\ uploading[a] \in {"writing", "written"} /\ listed' = listed \cup {a}
  /\ uploading' = [uploading EXCEPT ![a] = "done"]
  /\ UNCHANGED <<packageFile, tokens, creation, package, failures, refused>>

RecordArtifact(a) ==
  /\ uploading[a] = "written" /\ listed' = listed \cup {a}
  /\ uploading' = [uploading EXCEPT ![a] = "done"]
  /\ UNCHANGED <<packageFile, tokens, creation, package, failures, refused>>

-----------------------------------------------------------------------------
(* Creation: POST /api/instances *)

\* The artifact is looked up in a snapshot, and the instance created.
RequestCreation(n, a) ==
  /\ creation[n].step = "none" /\ a \in listed /\ Proceed(n, a, "token")
  /\ UNCHANGED <<artifactFiles, tokens, package, failures, refused>>

\* Mutant: tokenExpiresAt is left as it is.
IssueKeepingExpiry(n, a) ==
  /\ AtCreation(n, a, "token") /\ Proceed(n, a, "enqueue")
  /\ downloadToken' = [downloadToken EXCEPT ![a] = n] /\ replaced' = replaced \cup {downloadToken[a]}
  /\ UNCHANGED <<artifactFiles, lapsed, ranOut, package, failures, refused>>

IssueToken(n, a) ==
  /\ AtCreation(n, a, "token") /\ Proceed(n, a, "enqueue")
  /\ downloadToken' = [downloadToken EXCEPT ![a] = n] /\ replaced' = replaced \cup {downloadToken[a]}
  /\ lapsed' = lapsed \ {a}
  /\ UNCHANGED <<artifactFiles, ranOut, package, failures, refused>>

EnqueueCreation(n, a) ==
  /\ AtCreation(n, a, "enqueue") /\ Proceed(n, a, "queued")
  /\ UNCHANGED <<artifactFiles, tokens, package, failures, refused>>

TokenLapses(a) ==
  /\ downloadToken[a] # NoCreation /\ a \notin lapsed
  /\ lapsed' = lapsed \cup {a} /\ ranOut' = ranOut \cup {downloadToken[a]}
  /\ UNCHANGED <<artifactFiles, downloadToken, replaced, creation, package, failures, refused>>

\* A restart of the panel ends its handlers and the streams to the agent.
PanelRestarts ==
  /\ uploading' = [a \in Uploads |-> IF uploading[a] = "idle" THEN "idle" ELSE "done"]
  /\ creation' = [n \in Creations |->
       CASE creation[n].step \in {"token", "enqueue"} -> [creation[n] EXCEPT !.step = "lost"]
         [] creation[n].step = "fetching" -> [creation[n] EXCEPT !.step = "broken"]
         [] OTHER -> creation[n]]
  /\ uploading' # uploading \/ creation' # creation
  /\ UNCHANGED <<packageFile, listed, tokens, package, failures, refused>>

-----------------------------------------------------------------------------
(* The agent: downloadArtifact, in the task instance.create *)

\* GET /api/agent/artifacts/:id.
Accepted(n, a) == a \in listed /\ downloadToken[a] = n /\ a \notin lapsed /\ packageFile[a] # "none"

FetchPackage(n, a) ==
  /\ AtCreation(n, a, "queued")
  /\ IF Accepted(n, a) THEN Proceed(n, a, "fetching") /\ UNCHANGED refused
     ELSE Proceed(n, a, "broken") /\ refused' = refused \cup {n}
  /\ UNCHANGED <<artifactFiles, tokens, package, failures>>

\* The stream goes to a temporary file: a JAR is renamed, a ZIP unpacked in place.
ReceivePackage(n, a) ==
  /\ AtCreation(n, a, "fetching")
  /\ IF a \in Zips
     THEN Proceed(n, a, "unpacking") /\ package' = [package EXCEPT ![n] = "part"]
     ELSE Proceed(n, a, "created") /\ package' = [package EXCEPT ![n] = packageFile[a]]
  /\ UNCHANGED <<artifactFiles, tokens, failures, refused>>

UnpackPackage(n, a) ==
  /\ AtCreation(n, a, "unpacking") /\ Proceed(n, a, "created")
  /\ package' = [package EXCEPT ![n] = packageFile[a]]
  /\ UNCHANGED <<artifactFiles, tokens, failures, refused>>

CreationBreaks(n, a) ==
  /\ AtCreation(n, a, "fetching") \/ AtCreation(n, a, "unpacking")
  /\ Proceed(n, a, "broken")
  /\ UNCHANGED <<artifactFiles, tokens, package, failures, refused>>

\* The task is retried as long as there are attempts left, and then failed.
CreationRetried(n, a) ==
  /\ AtCreation(n, a, "broken") /\ failures[n] < MaxFailures
  /\ failures' = [failures EXCEPT ![n] = @ + 1]
  /\ Proceed(n, a, IF failures[n] + 1 < MaxFailures THEN "queued" ELSE "failed")
  /\ UNCHANGED <<artifactFiles, tokens, package, refused>>

-----------------------------------------------------------------------------
ArtifactNext ==
  \/ PanelRestarts
  \/ \E a \in Uploads :
       \/ WritePackage(a) \/ UploadFails(a) \/ RecordArtifact(a) \/ TokenLapses(a)
       \/ \E n \in Creations :
            \/ RequestCreation(n, a) \/ IssueToken(n, a) \/ EnqueueCreation(n, a)
            \/ FetchPackage(n, a) \/ ReceivePackage(n, a) \/ UnpackPackage(n, a)
            \/ CreationBreaks(n, a) \/ CreationRetried(n, a)

ArtifactSpec == ArtifactInit /\ [][ArtifactNext]_artifactVars

-----------------------------------------------------------------------------
(* Properties *)

\* The variables have their types (types.ts, ArtifactRecord).
ArtifactTypeOK ==
  /\ uploading \in [Uploads -> {"idle", "writing", "written", "done"}]
  /\ packageFile \in [Uploads -> Fullness] /\ {listed, lapsed} \subseteq SUBSET Uploads
  /\ downloadToken \in [Uploads -> Creations \cup {NoCreation}]
  /\ DOMAIN creation = Creations /\ package \in [Creations -> Fullness]
  /\ failures \in [Creations -> 0..MaxFailures]
  /\ replaced \cup ranOut \cup refused \subseteq Creations \cup {NoCreation}

\* An instance that counts as created has its whole package, through breaking uploads
\* and downloads, restarts, and retries over what an earlier attempt has left
\* (server.ts:738-750, runtime.ts:290-313).
CreatedHasPackage ==
  \A n \in Creations : creation[n].step = "created" => package[n] = "whole"

\* The panel refuses the agent a package only if the token ran out, or if another
\* instance was created from the same artifact meanwhile: this replaces the token of
\* the first one, whose retries then all fail (server.ts:781, 522).
RefusedOnlyIfReplaced == refused \subseteq replaced \cup ranOut
=============================================================================
