---------------------------- MODULE StateStore -----------------------------
(***************************************************************************)
(* PostgresStateStore of apps/api/src/store.ts: the state is one row of    *)
(* the database and a copy of it in memory.  A transaction is queued on    *)
(* the promise chain, computes a draft of the whole state, writes it to    *)
(* the row and only then makes it the copy.  The write may fail, or fail   *)
(* although it took effect; the panel may die at any moment and reads the  *)
(* row when it starts again.  The state is the sequence of the changes     *)
(* that made it.                                                           *)
(***************************************************************************)
EXTENDS Integers, Sequences, FiniteSets

CONSTANTS
  Changes,        \* transactions that the handlers may ask for, each once
  Reads,          \* calls of read
  MaxStoreCrashes

ASSUME StoreAssumption == MaxStoreCrashes \in Nat

NoRead == [called |-> FALSE]

VARIABLES
  row,      \* panel_state.state of row 1; the empty state while there is none
  memory,   \* this.state
  phase,    \* of the panel: down, in init before its write, up
  queue,    \* transactions on this.chain
  sent,     \* the first one has computed its draft and sent the UPDATE
  answer,   \* to each caller: none, ok, error
  reading,  \* for each read under way, the transactions it waits for
  storeCrashes

storeVars == <<row, memory, phase, queue, sent, answer, reading, storeCrashes>>

StoreInit ==
  /\ row = <<>> /\ memory = <<>> /\ phase = "down"
  /\ queue = <<>> /\ sent = FALSE
  /\ answer = [c \in Changes |-> "none"]
  /\ reading = [r \in Reads |-> NoRead]
  /\ storeCrashes = 0

Elements(s) == {s[n] : n \in DOMAIN s}
Draft == Append(memory, Head(queue))
Settle(a) ==
  /\ answer' = [answer EXCEPT ![Head(queue)] = a]
  /\ queue' = Tail(queue) /\ sent' = FALSE
  /\ UNCHANGED <<phase, reading, storeCrashes>>

-----------------------------------------------------------------------------
(* init *)

SelectRow ==
  /\ phase = "down" /\ phase' = "starting"
  /\ memory' = row
  /\ UNCHANGED <<row, queue, sent, answer, reading, storeCrashes>>

\* The INSERT of an empty state or the UPDATE with the normalised one.
WriteRow ==
  /\ phase = "starting"
  /\ \/ row' = memory /\ phase' = "up"
     \/ row' \in {row, memory} /\ phase' = "down"
  /\ UNCHANGED <<memory, queue, sent, answer, reading, storeCrashes>>

-----------------------------------------------------------------------------
(* transaction and read *)

Transact(c) ==
  /\ phase = "up" /\ answer[c] = "none" /\ c \notin Elements(queue)
  /\ queue' = Append(queue, c)
  /\ UNCHANGED <<row, memory, phase, sent, answer, reading, storeCrashes>>

\* fn is applied to a clone; it may throw.
ComputeDraft ==
  /\ phase = "up" /\ queue # <<>> /\ ~sent
  /\ \/ sent' = TRUE /\ UNCHANGED <<phase, queue, answer, reading, storeCrashes>>
     \/ Settle("error")
  /\ UNCHANGED <<row, memory>>

\* Mutant: the copy in memory is changed before the answer to the UPDATE is known.
UpdateMemoryFirst ==
  /\ sent
  /\ memory' = Draft
  /\ \/ row' = Draft /\ Settle("ok")
     \/ row' \in {row, Draft} /\ Settle("error")

\* Mutant: a failed UPDATE is taken for a success.
UpdateUnchecked ==
  /\ sent
  /\ row' \in {row, Draft} /\ memory' = Draft /\ Settle("ok")

\* The answer of the database, or an error with or without an effect.
Update ==
  /\ sent
  /\ \/ row' = Draft /\ memory' = Draft /\ Settle("ok")
     \/ row' \in {row, Draft} /\ Settle("error") /\ UNCHANGED memory

\* Mutant: read does not wait for the chain.
CallReadAtOnce(r) ==
  /\ phase = "up" /\ reading[r] = NoRead
  /\ reading' = [reading EXCEPT ![r] =
       [called |-> TRUE, await |-> {}, before |-> Elements(queue) \cup Elements(memory)]]
  /\ UNCHANGED <<row, memory, phase, queue, sent, answer, storeCrashes>>

\* await this.chain; `before' is a history of what has been asked for by now.
CallRead(r) ==
  /\ phase = "up" /\ reading[r] = NoRead
  /\ reading' = [reading EXCEPT ![r] =
       [called |-> TRUE, await |-> Elements(queue),
        before |-> Elements(queue) \cup Elements(memory)]]
  /\ UNCHANGED <<row, memory, phase, queue, sent, answer, storeCrashes>>

Awaits(r) == reading[r] # NoRead /\ reading[r].await \cap Elements(queue) = {}

\* A clone of the copy in memory.
ReturnRead(r) ==
  /\ phase = "up" /\ Awaits(r)
  /\ reading' = [reading EXCEPT ![r] = NoRead]
  /\ UNCHANGED <<row, memory, phase, queue, sent, answer, storeCrashes>>

-----------------------------------------------------------------------------
\* The panel dies: a statement that was sent may still take effect, callers go.
StoreDies ==
  /\ phase # "down" /\ storeCrashes < MaxStoreCrashes
  /\ storeCrashes' = storeCrashes + 1
  /\ row' \in {row} \cup (IF sent THEN {Draft} ELSE {})
  /\ phase' = "down" /\ sent' = FALSE /\ queue' = <<>> /\ memory' = <<>>
  /\ answer' = [c \in Changes |-> IF c \in Elements(queue) THEN "error" ELSE answer[c]]
  /\ reading' = [r \in Reads |-> NoRead]

StoreNext ==
  \/ SelectRow \/ WriteRow \/ ComputeDraft \/ Update \/ StoreDies
  \/ \E c \in Changes : Transact(c)
  \/ \E r \in Reads : CallRead(r) \/ ReturnRead(r)

StoreSpec == StoreInit /\ [][StoreNext]_storeVars

-----------------------------------------------------------------------------
(* Properties *)

\* The variables have their types (store.ts, class PostgresStateStore).
StoreTypeOK ==
  /\ row \in Seq(Changes) /\ memory \in Seq(Changes)
  /\ phase \in {"down", "starting", "up"}
  /\ queue \in Seq(Changes) /\ sent \in BOOLEAN
  /\ answer \in [Changes -> {"none", "ok", "error"}]
  /\ reading \in [Reads -> [called : {TRUE}, await : SUBSET Changes, before : SUBSET Changes]
                             \cup {NoRead}]
  /\ storeCrashes \in Nat

\* The row is never behind the copy in memory, and ahead of it by one change at most,
\* that was not acknowledged: what a restart can bring back (store.ts:119-129).
RowFollowsMemory ==
  phase = "up" =>
    \/ row = memory
    \/ \E c \in Changes :
         answer[c] # "ok" /\ c \notin Elements(memory) /\ row = Append(memory, c)

\* A read sees every change that was asked for before it and has been acknowledged:
\* handlers read right after their transactions (store.ts:115-118).
ReadsSeeEarlierChanges ==
  \A r \in Reads : phase = "up" /\ Awaits(r)
    => \A c \in reading[r].before : answer[c] # "error" => c \in Elements(memory)

\* Crashes and failed writes included, the store is the serial one in which no
\* acknowledged change is lost and none is applied twice (store.ts:75-132).
Panel == INSTANCE SerialStore WITH log <- IF phase = "up" THEN memory ELSE row
StoreIsSerial == Panel!SerialSpec
=============================================================================
