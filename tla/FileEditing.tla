---------------------------- MODULE FileEditing -----------------------------
(***************************************************************************)
(* The file editor of an instance: the workspace in the browser            *)
(* (apps/web/src/App.tsx), the panel's cache of file contents              *)
(* (apps/api/src/server.ts) and the files on the node                      *)
(* (apps/agent/src/runtime.ts).  To open a file, the browser asks for a    *)
(* read task and polls the cache until its content is there.  Opening,     *)
(* saving and uploading share one busy flag and may overlap.  One file.    *)
(***************************************************************************)
EXTENDS Integers

CONSTANTS
  Openings,  \* calls of openFile
  Versions,  \* what the game server writes to the file
  MaxSaves   \* bound on the saves; the saved texts

Typed == "typed"
Placeholder == "placeholder"   \* the empty text shown while a file is opened
NoText == "none"
Texts == Versions \cup {Typed, Placeholder}

\* What the game server writes is not taken for a text that stands for something else.
ASSUME EditingAssumption ==
  /\ Versions \cap {Placeholder, NoText, "queued", "over"} = {}
  /\ MaxSaves \in Nat

VARIABLES
  text,       \* the editor's text, NoText if it is closed
  fileBusy,
  opening,    \* each openFile: idle, asked, polling, over
  saveCall,   \* saveFile: idle, sent, stored, answered, and the text
  uploadBusy, \* an uploadFile is under way
  cached,     \* instance.files of the file
  onNode,     \* the file on the node
  readTask,   \* each opening's read task: none, queued, what it has read, over
  writes,     \* the texts of open write tasks
  saves,
  crossed, emptySaved, since, lateRead, shown  \* history

browser == <<text, fileBusy, opening, saveCall, uploadBusy, crossed, emptySaved, shown>>
node == <<onNode, readTask, writes>>
editingVars == <<browser, cached, node, saves, since, lateRead>>

EditingInit ==
  /\ text = NoText /\ fileBusy = FALSE /\ opening = [o \in Openings |-> "idle"]
  /\ saveCall = [step |-> "idle", of |-> NoText] /\ uploadBusy = FALSE
  /\ cached \in Versions \cup {NoText} /\ onNode \in Versions
  /\ readTask = [o \in Openings |-> "none"] /\ writes = {} /\ saves = 0
  /\ crossed = FALSE /\ emptySaved = FALSE
  /\ since = [o \in Openings |-> {}] /\ lateRead = {}
  /\ shown = [o \in Openings |-> NoText]

UnderWay == {o \in Openings : opening[o] \in {"asked", "polling"}}
\* A call that uses the busy flag ends while others are under way.
NoteOverlap(others) == crossed' = (crossed \/ others)
\* What each opening may show from now on.
Happens(t) == since' = [o \in Openings |-> IF opening[o] = "polling" THEN since[o] \cup {t}
                                           ELSE since[o]]

-----------------------------------------------------------------------------
(* The browser *)

\* Mutant: the flag is not set.
BeginOpenNotBusy(o) ==
  /\ opening[o] = "idle" /\ opening' = [opening EXCEPT ![o] = "asked"]
  /\ text' = Placeholder
  /\ UNCHANGED <<fileBusy, saveCall, uploadBusy, crossed, emptySaved, shown, cached, node,
                 saves, since, lateRead>>

BeginOpen(o) ==
  /\ opening[o] = "idle" /\ opening' = [opening EXCEPT ![o] = "asked"]
  /\ text' = Placeholder /\ fileBusy' = TRUE
  /\ UNCHANGED <<saveCall, uploadBusy, crossed, emptySaved, shown, cached, node, saves, since,
                 lateRead>>

\* A poll that finds the content, or the twentieth that does not, or an error.
EndOpen(o) ==
  /\ \/ opening[o] = "polling" /\ cached # NoText
        /\ text' = cached /\ shown' = [shown EXCEPT ![o] = cached]
     \/ opening[o] \in {"asked", "polling"} /\ text' = NoText /\ UNCHANGED shown
  /\ opening' = [opening EXCEPT ![o] = "over"] /\ fileBusy' = FALSE
  /\ NoteOverlap(UnderWay # {o} \/ saveCall.step # "idle" \/ uploadBusy)
  /\ UNCHANGED <<saveCall, uploadBusy, emptySaved, cached, node, saves, since,
                 lateRead>>

\* The text area is never disabled.
TypeText ==
  /\ text # NoText /\ text' = Typed
  /\ UNCHANGED <<fileBusy, opening, saveCall, uploadBusy, crossed, emptySaved, shown,
                 cached, node, saves, since, lateRead>>

BeginSave ==
  /\ text # NoText /\ ~fileBusy /\ saveCall.step = "idle" /\ saves < MaxSaves
  /\ saveCall' = [step |-> "sent", of |-> text] /\ fileBusy' = TRUE
  /\ emptySaved' = (emptySaved \/ text = Placeholder) /\ saves' = saves + 1
  /\ UNCHANGED <<text, opening, uploadBusy, crossed, shown, cached, node, since, lateRead>>

\* The answer, or an error before or after the text was stored.
EndSave ==
  /\ saveCall.step # "idle"
  /\ saveCall' = [step |-> "idle", of |-> NoText] /\ fileBusy' = FALSE
  /\ NoteOverlap(UnderWay # {} \/ uploadBusy)
  /\ UNCHANGED <<text, opening, uploadBusy, emptySaved, shown, cached, node, saves, since,
                 lateRead>>

BeginUpload ==
  /\ ~uploadBusy /\ uploadBusy' = TRUE /\ fileBusy' = TRUE
  /\ UNCHANGED <<text, opening, saveCall, crossed, emptySaved, shown, cached, node, saves,
                 since, lateRead>>

EndUpload ==
  /\ uploadBusy /\ uploadBusy' = FALSE /\ fileBusy' = FALSE
  /\ NoteOverlap(UnderWay # {} \/ saveCall.step # "idle")
  /\ UNCHANGED <<text, opening, saveCall, emptySaved, shown, cached, node, saves, since,
                 lateRead>>

-----------------------------------------------------------------------------
(* The panel: POST files/read and PUT files *)

\* Mutant: the cached content stays.
AskKeepingCache(o) ==
  /\ opening[o] = "asked" /\ opening' = [opening EXCEPT ![o] = "polling"]
  /\ readTask' = [readTask EXCEPT ![o] = "queued"]
  /\ since' = [since EXCEPT ![o] = {onNode}]
  /\ lateRead' = IF \E q \in Openings : readTask[q] \in Texts THEN lateRead \cup {o}
                 ELSE lateRead
  /\ UNCHANGED <<text, fileBusy, saveCall, uploadBusy, crossed, emptySaved, shown, cached,
                 onNode, writes, saves>>

\* The content is deleted from the cache and a read task created; a result of an earlier
\* read may be on its way.
AskForRead(o) ==
  /\ opening[o] = "asked" /\ opening' = [opening EXCEPT ![o] = "polling"]
  /\ cached' = NoText /\ readTask' = [readTask EXCEPT ![o] = "queued"]
  /\ since' = [since EXCEPT ![o] = {onNode}]
  /\ lateRead' = IF \E q \in Openings : readTask[q] \in Texts THEN lateRead \cup {o}
                 ELSE lateRead
  /\ UNCHANGED <<text, fileBusy, saveCall, uploadBusy, crossed, emptySaved, shown, onNode,
                 writes, saves>>

StoreSave ==
  /\ saveCall.step = "sent" /\ saveCall' = [saveCall EXCEPT !.step = "stored"]
  /\ cached' = saveCall.of /\ Happens(saveCall.of)
  /\ UNCHANGED <<text, fileBusy, opening, uploadBusy, crossed, emptySaved, shown, node,
                 saves, lateRead>>

EnqueueWrite ==
  /\ saveCall.step = "stored" /\ saveCall' = [saveCall EXCEPT !.step = "answered"]
  /\ writes' = writes \cup {saveCall.of}
  /\ UNCHANGED <<text, fileBusy, opening, uploadBusy, crossed, emptySaved, shown, cached,
                 onNode, readTask, saves, since, lateRead>>

\* agentTaskResult: a success fills the cache, a failure does not.
ReadReported(o) ==
  /\ readTask[o] \in Texts /\ readTask' = [readTask EXCEPT ![o] = "over"]
  /\ cached' \in {readTask[o], cached}
  /\ UNCHANGED <<browser, onNode, writes, saves, since, lateRead>>

-----------------------------------------------------------------------------
(* The node *)

ReadFile(o) ==
  /\ readTask[o] = "queued" /\ readTask' = [readTask EXCEPT ![o] = onNode]
  /\ UNCHANGED <<browser, cached, onNode, writes, saves, since, lateRead>>

\* A write task is carried out, or fails.
WriteFile(t) ==
  /\ t \in writes /\ writes' = writes \ {t}
  /\ \/ onNode' = t /\ Happens(t)
     \/ UNCHANGED <<onNode, since>>
  /\ UNCHANGED <<browser, cached, readTask, saves, lateRead>>

GameWrites(t) ==
  /\ t # onNode /\ onNode' = t /\ Happens(t)
  /\ UNCHANGED <<browser, cached, readTask, writes, saves, lateRead>>

-----------------------------------------------------------------------------
EditingNext ==
  \/ TypeText \/ BeginSave \/ EndSave \/ BeginUpload \/ EndUpload \/ StoreSave
  \/ EnqueueWrite
  \/ \E o \in Openings : \/ BeginOpen(o) \/ EndOpen(o) \/ AskForRead(o)
                         \/ ReadReported(o) \/ ReadFile(o)
  \/ \E t \in Texts : WriteFile(t)
  \/ \E t \in Versions : GameWrites(t)

EditingSpec == EditingInit /\ [][EditingNext]_editingVars

-----------------------------------------------------------------------------
(* Properties *)

\* The variables have their types.
EditingTypeOK ==
  /\ {text, cached} \subseteq Texts \cup {NoText} /\ onNode \in Texts /\ writes \subseteq Texts
  /\ {fileBusy, uploadBusy, crossed, emptySaved} \subseteq BOOLEAN
  /\ opening \in [Openings -> {"idle", "asked", "polling", "over"}]
  /\ saveCall \in [step : {"idle", "sent", "stored", "answered"}, of : Texts \cup {NoText}]
  /\ readTask \in [Openings -> {"none", "queued", "over"} \cup Texts]
  /\ since \in [Openings -> SUBSET Texts] /\ lateRead \subseteq Openings

\* The empty text that stands for a file being opened is saved over the file only if two
\* of opening, saving and uploading have overlapped: the end of one clears the flag that
\* disables the button for the other (App.tsx:1213-1214, 1240, 1267, 1289, 1544).
EmptySavedOnlyOnOverlap == emptySaved => crossed

\* What an opening shows is what the file was, or was being changed to, at some time
\* since it was asked for, unless the result of an earlier read was still on its way
\* then and is taken for the new one (server.ts:1011-1014, 363-365).
OpenedIsFresh ==
  \A o \in Openings : shown[o] # NoText => shown[o] \in since[o] \/ o \in lateRead
=============================================================================
