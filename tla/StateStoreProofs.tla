-------------------------- MODULE StateStoreProofs --------------------------
(***************************************************************************)
(* Proofs about what store.ts keeps.  StateStore: the copy in memory and   *)
(* the row, the reads, and the refinement of SerialStore, for any changes, *)
(* reads and number of crashes.  MetricHistory: the newest point and the   *)
(* agreement of the two stores, for any rate of samples with the length of *)
(* answer that fits it.                                                    *)
(***************************************************************************)
EXTENDS StateStore, MetricHistory, SequenceTheorems, FiniteSetTheorems, WellFoundedInduction,
        TLAPS

\* A transaction is on the chain once, and not answered as long as it is there; the
\* first one may have been sent.
Distinct(s) == \A m, n \in DOMAIN s : m # n => s[m] # s[n]
ChainInv ==
  /\ Distinct(queue)
  /\ \A c \in Elements(queue) : answer[c] = "none"
  /\ sent => queue # <<>>

\* Only a panel that runs has callers, and one that starts has read the row.
PhaseInv ==
  /\ phase # "up" => queue = <<>> /\ ~sent /\ reading = [r \in Reads |-> NoRead]
  /\ phase = "starting" => memory = row

\* What was asked for before a read is in memory, refused, or still awaited.
ReadInv ==
  \A r \in Reads : reading[r] # NoRead =>
    \A c \in reading[r].before :
      \/ c \in Elements(memory)
      \/ answer[c] = "error"
      \/ c \in reading[r].await /\ c \in Elements(queue)

\* What has been applied is no longer to be answered, so it is not applied again.
AppliedInv ==
  \A c \in Elements(memory) \cup Elements(row) : answer[c] # "none"

StoreInv ==
  StoreTypeOK /\ ChainInv /\ PhaseInv /\ RowFollowsMemory /\ ReadInv /\ AppliedInv

-----------------------------------------------------------------------------
(* Sequences *)

\* Appending adds one element.
LEMMA AppendElements ==
  ASSUME NEW S, NEW s \in Seq(S), NEW e \in S
  PROVE  /\ Append(s, e) \in Seq(S)
         /\ Elements(Append(s, e)) = Elements(s) \cup {e}
         /\ Distinct(s) /\ e \notin Elements(s) => Distinct(Append(s, e))
<1> DEFINE t == Append(s, e)
<1>1. t \in Seq(S) /\ Len(t) = Len(s) + 1 /\ t[Len(s) + 1] = e
      /\ \A n \in 1..Len(s) : t[n] = s[n]
  OBVIOUS
<1>2. DOMAIN s = 1..Len(s) /\ DOMAIN t = 1..(Len(s) + 1) /\ Len(s) \in Nat
  BY <1>1
<1> HIDE DEF t
<1>3. Elements(t) = Elements(s) \cup {e}
  BY <1>1, <1>2 DEF Elements
<1>4. Distinct(s) /\ e \notin Elements(s) => Distinct(t)
  BY <1>1, <1>2 DEF Elements, Distinct
<1> QED
  BY <1>1, <1>3, <1>4 DEF t

\* Taking the head away removes this element and no other.
LEMMA TailElements ==
  ASSUME NEW S, NEW s \in Seq(S), s # <<>>
  PROVE  /\ Head(s) \in S /\ Tail(s) \in Seq(S)
         /\ Elements(s) = {Head(s)} \cup Elements(Tail(s))
         /\ Distinct(s) => Distinct(Tail(s)) /\ Head(s) \notin Elements(Tail(s))
<1> DEFINE t == Tail(s)
<1>1. t \in Seq(S) /\ Len(t) = Len(s) - 1 /\ Head(s) = s[1] /\ s[1] \in S
      /\ \A n \in 1..(Len(s) - 1) : t[n] = s[n + 1]
  OBVIOUS
<1>2. DOMAIN s = 1..Len(s) /\ DOMAIN t = 1..(Len(s) - 1) /\ Len(s) \in Nat /\ Len(s) >= 1
  BY <1>1
<1> HIDE DEF t
<1>3. Elements(s) = {s[1]} \cup Elements(t)
  <2>1. ASSUME NEW x \in Elements(s) PROVE x \in {s[1]} \cup Elements(t)
    <3>1. PICK n \in 1..Len(s) : x = s[n]
      BY <1>2 DEF Elements
    <3>2. CASE n = 1
      BY <3>1, <3>2
    <3>3. CASE n # 1
      <4>1. n - 1 \in DOMAIN t /\ t[n - 1] = x
        BY <1>1, <1>2, <3>1, <3>3
      <4> QED
        BY <4>1 DEF Elements
    <3> QED
      BY <3>2, <3>3
  <2>2. ASSUME NEW x \in Elements(t) PROVE x \in Elements(s)
    <3>1. PICK n \in DOMAIN t : x = t[n]
      BY DEF Elements
    <3>2. n + 1 \in DOMAIN s /\ s[n + 1] = x
      BY <1>1, <1>2, <3>1
    <3> QED
      BY <3>2 DEF Elements
  <2>3. s[1] \in Elements(s)
    BY <1>2 DEF Elements
  <2> QED
    BY <2>1, <2>2, <2>3
<1>4. ASSUME Distinct(s) PROVE Distinct(t) /\ s[1] \notin Elements(t)
  <2>1. Distinct(t)
    <3> SUFFICES ASSUME NEW m \in DOMAIN t, NEW n \in DOMAIN t, m # n PROVE t[m] # t[n]
      BY DEF Distinct
    <3>1. m + 1 \in DOMAIN s /\ n + 1 \in DOMAIN s /\ m + 1 # n + 1
      BY <1>2
    <3>2. s[m + 1] # s[n + 1]
      BY <3>1, <1>4 DEF Distinct
    <3> QED
      BY <3>2, <1>1, <1>2
  <2>2. \A n \in DOMAIN t : t[n] # s[1]
    BY <1>1, <1>2, <1>4 DEF Distinct
  <2> QED
    BY <2>1, <2>2 DEF Elements
<1> QED
  BY <1>1, <1>3, <1>4 DEF t

-----------------------------------------------------------------------------
(* The invariant *)

LEMMA StoreInitInv == ASSUME StoreInit PROVE StoreInv
<1>1. row = <<>> /\ memory = <<>> /\ phase = "down" /\ queue = <<>> /\ sent = FALSE
      /\ answer = [c \in Changes |-> "none"] /\ reading = [r \in Reads |-> NoRead]
      /\ storeCrashes = 0
  BY DEF StoreInit
<1> DEFINE Call == [called : {TRUE}, await : SUBSET Changes, before : SUBSET Changes]
<1>2. StoreTypeOK
  <2>1. \A X : [r \in Reads |-> NoRead] \in [Reads -> X \cup {NoRead}]
    OBVIOUS
  <2>2. reading \in [Reads -> Call \cup {NoRead}]
    BY <1>1, <2>1
  <2>3. \A S : <<>> \in Seq(S)
    OBVIOUS
  <2> QED
    BY <1>1, <2>2, <2>3 DEF StoreTypeOK
<1>3. DOMAIN queue = {}
  BY <1>1
<1>4. ChainInv
  BY <1>1, <1>3 DEF ChainInv, Elements, Distinct
<1> QED
  BY <1>1, <1>2, <1>4
     DEF StoreInv, PhaseInv, RowFollowsMemory, ReadInv, AppliedInv, Elements

\* The typing of what Settle changes, and the chain after it.
LEMMA SettleFacts ==
  ASSUME StoreTypeOK, ChainInv, queue # <<>>, NEW a \in {"ok", "error"}, Settle(a)
  PROVE  /\ Head(queue) \in Changes /\ Head(queue) \in Elements(queue)
         /\ queue' \in Seq(Changes) /\ sent' = FALSE
         /\ answer' \in [Changes -> {"none", "ok", "error"}]
         /\ answer[Head(queue)] = "none" /\ answer'[Head(queue)] = a
         /\ \A c \in Changes : c # Head(queue) => answer'[c] = answer[c]
         /\ Elements(queue) = {Head(queue)} \cup Elements(queue')
         /\ ChainInv'
         /\ UNCHANGED <<phase, reading, storeCrashes>>
<1>1. queue \in Seq(Changes) /\ answer \in [Changes -> {"none", "ok", "error"}]
  BY DEF StoreTypeOK
<1>2. /\ Head(queue) \in Changes /\ Tail(queue) \in Seq(Changes)
      /\ Elements(queue) = {Head(queue)} \cup Elements(Tail(queue))
      /\ Distinct(Tail(queue)) /\ Head(queue) \notin Elements(Tail(queue))
  BY <1>1, TailElements DEF ChainInv
<1>3. queue' = Tail(queue) /\ sent' = FALSE
      /\ answer' = [answer EXCEPT ![Head(queue)] = a]
      /\ UNCHANGED <<phase, reading, storeCrashes>>
  BY DEF Settle
<1>4. Elements(Tail(queue)) \subseteq Changes
  BY <1>2 DEF Elements
<1>5. Elements(queue)' = Elements(Tail(queue))
  BY <1>3 DEF Elements
<1>6. Distinct(queue)'
  BY <1>2, <1>3 DEF Distinct
<1>7. ChainInv'
  BY <1>1, <1>2, <1>3, <1>4, <1>5, <1>6 DEF ChainInv
<1> QED
  BY <1>1, <1>2, <1>3, <1>5, <1>7 DEF ChainInv

\* What a step leaves alone, for the steps that leave most of it.
LEMMA ChainUnchanged ==
  ASSUME ChainInv, UNCHANGED <<queue, sent, answer>> PROVE ChainInv'
  BY DEF ChainInv, Elements, Distinct

LEMMA ReadUnchanged ==
  ASSUME ReadInv, UNCHANGED <<memory, queue, answer, reading>> PROVE ReadInv'
  BY DEF ReadInv, Elements

\* After the first transaction has left the chain, with or without its change.
LEMMA SettleReads ==
  ASSUME StoreInv, queue # <<>>, NEW a \in {"ok", "error"}, Settle(a),
         \/ a = "error" /\ memory' = memory
         \/ Elements(memory') = Elements(memory) \cup {Head(queue)}
  PROVE  ReadInv'
<1>1. StoreTypeOK /\ ChainInv /\ ReadInv
  BY DEF StoreInv
<1>2. /\ Head(queue) \in Changes /\ answer'[Head(queue)] = a
      /\ \A c \in Changes : c # Head(queue) => answer'[c] = answer[c]
      /\ Elements(queue) = {Head(queue)} \cup Elements(queue') /\ reading' = reading
  BY <1>1, SettleFacts
<1>3. Elements(memory) \subseteq Elements(memory')
  BY DEF Elements
<1> SUFFICES ASSUME NEW r \in Reads, reading[r] # NoRead, NEW c \in reading[r].before
             PROVE  \/ c \in Elements(memory')
                    \/ answer'[c] = "error"
                    \/ c \in reading[r].await /\ c \in Elements(queue')
  BY <1>2 DEF ReadInv, Elements
<1>4. \/ c \in Elements(memory) \/ answer[c] = "error"
      \/ c \in reading[r].await /\ c \in Elements(queue)
  BY <1>1 DEF ReadInv
<1>5. c \in Changes
  BY <1>1 DEF StoreTypeOK
<1>6. CASE c = Head(queue)
  BY <1>2, <1>6, <1>3, <1>4
<1>7. CASE c # Head(queue)
  BY <1>2, <1>3, <1>4, <1>5, <1>7
<1> QED
  BY <1>6, <1>7

\* Types: what a transaction writes is a sequence of changes.
LEMMA DraftTyped ==
  ASSUME StoreTypeOK, queue # <<>>
  PROVE  Draft \in Seq(Changes) /\ Elements(Draft) = Elements(memory) \cup {Head(queue)}
  BY AppendElements, TailElements DEF StoreTypeOK, Draft

\* Every step preserves the types.
LEMMA StoreTypeStep ==
  ASSUME StoreInv, [StoreNext]_storeVars PROVE StoreTypeOK'
<1> DEFINE Call == [called : {TRUE}, await : SUBSET Changes, before : SUBSET Changes]
           Stat == {"none", "ok", "error"}
<1> USE DEF StoreTypeOK
<1>0. StoreTypeOK /\ ChainInv
  BY DEF StoreInv
<1>1. CASE SelectRow
  BY <1>0, <1>1 DEF SelectRow
<1>2. CASE WriteRow
  BY <1>0, <1>2 DEF WriteRow
<1>3. ASSUME NEW c \in Changes, Transact(c) PROVE StoreTypeOK'
  <2>1. queue' \in Seq(Changes)
    BY <1>0, <1>3, AppendElements DEF Transact
  <2> QED
    BY <1>0, <1>3, <2>1 DEF Transact
<1>4. CASE ComputeDraft
  <2>1. CASE sent' = TRUE /\ UNCHANGED <<phase, queue, answer, reading, storeCrashes>>
    BY <1>0, <1>4, <2>1 DEF ComputeDraft
  <2>2. CASE Settle("error")
    BY <1>0, <1>4, <2>2, SettleFacts DEF ComputeDraft
  <2> QED
    BY <1>4, <2>1, <2>2 DEF ComputeDraft
<1>5. CASE Update
  <2>1. queue # <<>> /\ Draft \in Seq(Changes)
    BY <1>0, <1>5, DraftTyped DEF Update, ChainInv
  <2>2. PICK a \in {"ok", "error"} : Settle(a)
    BY <1>5 DEF Update
  <2>3. row' \in {row, Draft} /\ memory' \in {memory, Draft}
    BY <1>5 DEF Update
  <2> QED
    BY <1>0, <2>1, <2>2, <2>3, SettleFacts
<1>6. CASE StoreDies
  <2>1. row' \in Seq(Changes)
    BY <1>0, <1>6, DraftTyped DEF StoreDies, ChainInv
  <2>2. answer' \in [Changes -> Stat]
    BY <1>0, <1>6 DEF StoreDies
  <2>3. \A X : [r \in Reads |-> NoRead] \in [Reads -> X \cup {NoRead}]
    OBVIOUS
  <2>4. reading' \in [Reads -> Call \cup {NoRead}]
    BY <1>6, <2>3 DEF StoreDies
  <2>5. queue' = <<>> /\ memory' = <<>> /\ sent' = FALSE /\ phase' = "down"
        /\ storeCrashes' \in Nat
    BY <1>0, <1>6 DEF StoreDies
  <2>6. \A S : <<>> \in Seq(S)
    OBVIOUS
  <2>7. queue' \in Seq(Changes) /\ memory' \in Seq(Changes)
    BY <2>5, <2>6
  <2> QED
    BY <2>1, <2>2, <2>4, <2>5, <2>7
<1>7. ASSUME NEW r \in Reads, CallRead(r) PROVE StoreTypeOK'
  <2> DEFINE new == [called |-> TRUE, await |-> Elements(queue),
                     before |-> Elements(queue) \cup Elements(memory)]
  <2>1. Elements(queue) \subseteq Changes /\ Elements(memory) \subseteq Changes
    BY <1>0 DEF Elements
  <2>2. new \in Call
    BY <2>1
  <2>3. reading' = [reading EXCEPT ![r] = new]
    BY <1>7 DEF CallRead
  <2> HIDE DEF new, Call
  <2>4. reading \in [Reads -> Call \cup {NoRead}]
    BY <1>0 DEF Call
  <2>5. reading' \in [Reads -> Call \cup {NoRead}]
    BY <2>2, <2>3, <2>4
  <2> QED
    BY <1>0, <1>7, <2>5 DEF CallRead, Call
<1>8. ASSUME NEW r \in Reads, ReturnRead(r) PROVE StoreTypeOK'
  <2>1. reading' \in [Reads -> Call \cup {NoRead}]
    <3> HIDE DEF Call
    <3>1. reading \in [Reads -> Call \cup {NoRead}]
      BY <1>0 DEF Call
    <3> QED
      BY <3>1, <1>8 DEF ReturnRead
  <2> QED
    BY <1>0, <1>8, <2>1 DEF ReturnRead
<1>9. CASE UNCHANGED storeVars
  BY <1>0, <1>9 DEF storeVars
<1> QED
  BY <1>1, <1>2, <1>3, <1>4, <1>5, <1>6, <1>7, <1>8, <1>9 DEF StoreNext

\* Every step but a write leaves what was applied alone; a write is answered.
LEMMA AppliedStep ==
  ASSUME StoreInv, [StoreNext]_storeVars PROVE AppliedInv'
<1>0. StoreTypeOK /\ ChainInv /\ PhaseInv /\ AppliedInv
  BY DEF StoreInv
<1>a. Elements(memory) \subseteq Changes /\ Elements(row) \subseteq Changes
  BY <1>0 DEF StoreTypeOK, Elements
<1>b. ASSUME Elements(memory') \cup Elements(row') \subseteq Elements(memory) \cup Elements(row),
             \A c \in Changes : answer[c] # "none" => answer'[c] # "none"
      PROVE  AppliedInv'
  BY <1>0, <1>a, <1>b DEF AppliedInv, Elements
<1>1. CASE SelectRow
  BY <1>1, <1>b DEF SelectRow
<1>2. CASE WriteRow
  BY <1>2, <1>b DEF WriteRow
<1>3. ASSUME NEW c \in Changes, Transact(c) PROVE AppliedInv'
  BY <1>3, <1>b DEF Transact
<1>4. CASE ComputeDraft
  <2>1. queue # <<>> /\ UNCHANGED <<row, memory>>
    BY <1>4 DEF ComputeDraft
  <2>2. CASE UNCHANGED answer
    BY <1>b, <2>1, <2>2
  <2>3. CASE Settle("error")
    BY <1>0, <1>b, <2>1, <2>3, SettleFacts
  <2> QED
    BY <1>4, <2>2, <2>3 DEF ComputeDraft
<1>5. CASE Update
  <2>1. queue # <<>> /\ row' \in {row, Draft} /\ memory' \in {memory, Draft}
    BY <1>0, <1>5 DEF Update, ChainInv
  <2>2. PICK a \in {"ok", "error"} : Settle(a)
    BY <1>5 DEF Update
  <2>3. Elements(Draft) = Elements(memory) \cup {Head(queue)}
    BY <1>0, <2>1, DraftTyped
  <2>4. Elements(memory') \cup Elements(row')
          \subseteq Elements(memory) \cup Elements(row) \cup {Head(queue)}
    BY <2>1, <2>3
  <2>5. answer'[Head(queue)] # "none"
        /\ \A c \in Changes : answer[c] # "none" => answer'[c] # "none"
    BY <1>0, <2>1, <2>2, SettleFacts
  <2> QED
    BY <1>0, <1>a, <2>4, <2>5 DEF AppliedInv, Elements
<1>6. CASE StoreDies
  <2>1. /\ row' = row \/ (sent /\ row' = Draft)
        /\ memory' = <<>>
        /\ \A c \in Changes : answer'[c] = IF c \in Elements(queue) THEN "error" ELSE answer[c]
    BY <1>6 DEF StoreDies
  <2>2. Elements(memory') = {}
    BY <2>1 DEF Elements
  <2>3. CASE row' = row
    BY <1>b, <2>1, <2>2, <2>3
  <2>4. CASE sent /\ row' = Draft
    <3>1. queue # <<>> /\ queue \in Seq(Changes)
      BY <1>0, <2>4 DEF ChainInv, StoreTypeOK
    <3>2. Elements(Draft) = Elements(memory) \cup {Head(queue)}
      BY <1>0, <3>1, DraftTyped
    <3>3. Head(queue) \in Changes /\ Head(queue) \in Elements(queue)
      BY <3>1, TailElements
    <3> QED
      BY <1>0, <1>a, <2>1, <2>2, <2>4, <3>2, <3>3 DEF AppliedInv, Elements
  <2> QED
    BY <2>1, <2>3, <2>4
<1>7. ASSUME NEW r \in Reads, CallRead(r) \/ ReturnRead(r) PROVE AppliedInv'
  BY <1>7, <1>b DEF CallRead, ReturnRead
<1>8. CASE UNCHANGED storeVars
  BY <1>8, <1>b DEF storeVars
<1> QED
  BY <1>1, <1>2, <1>3, <1>4, <1>5, <1>6, <1>7, <1>8 DEF StoreNext

\* Every step preserves the invariant.
LEMMA StoreInvStep ==
  ASSUME StoreInv, [StoreNext]_storeVars PROVE StoreInv'
<1>0. StoreTypeOK /\ ChainInv /\ PhaseInv /\ RowFollowsMemory /\ ReadInv /\ AppliedInv
  BY DEF StoreInv
<1>t. StoreTypeOK' /\ AppliedInv'
  BY StoreTypeStep, AppliedStep
<1>1. CASE SelectRow
  <2>1. phase = "down" /\ phase' = "starting" /\ memory' = row
        /\ UNCHANGED <<row, queue, sent, answer, reading, storeCrashes>>
    BY <1>1 DEF SelectRow
  <2>2. ChainInv'
    BY <1>0, <2>1, ChainUnchanged
  <2>3. queue = <<>> /\ ~sent /\ reading = [r \in Reads |-> NoRead]
    BY <1>0, <2>1 DEF PhaseInv
  <2>4. PhaseInv' /\ RowFollowsMemory' /\ ReadInv'
    BY <2>1, <2>3 DEF PhaseInv, RowFollowsMemory, ReadInv
  <2> QED
    BY <1>t, <2>2, <2>4 DEF StoreInv
<1>2. CASE WriteRow
  <2>1. phase = "starting" /\ phase' \in {"up", "down"} /\ row' = row /\ row = memory
        /\ UNCHANGED <<memory, queue, sent, answer, reading, storeCrashes>>
    BY <1>0, <1>2 DEF WriteRow, PhaseInv
  <2>2. ChainInv' /\ ReadInv'
    BY <1>0, <2>1, ChainUnchanged, ReadUnchanged
  <2>3. PhaseInv' /\ RowFollowsMemory'
    BY <1>0, <2>1 DEF PhaseInv, RowFollowsMemory
  <2> QED
    BY <1>t, <2>2, <2>3 DEF StoreInv
<1>3. ASSUME NEW c \in Changes, Transact(c) PROVE StoreInv'
  <2>1. phase = "up" /\ answer[c] = "none" /\ c \notin Elements(queue)
        /\ queue' = Append(queue, c)
        /\ UNCHANGED <<row, memory, phase, sent, answer, reading, storeCrashes>>
    BY <1>3 DEF Transact
  <2>2. Elements(Append(queue, c)) = Elements(queue) \cup {c} /\ Distinct(Append(queue, c))
    BY <1>0, <2>1, AppendElements DEF StoreTypeOK, ChainInv
  <2>3. Elements(queue)' = Elements(queue) \cup {c} /\ Distinct(queue)'
    BY <2>1, <2>2 DEF Elements, Distinct
  <2>4. queue' # <<>>
    <3>1. c \in Elements(queue)'
      BY <2>3
    <3>2. \E n \in DOMAIN queue' : TRUE
      BY <3>1 DEF Elements
    <3> QED
      BY <3>2
  <2>5. ChainInv'
    BY <1>0, <2>1, <2>3, <2>4 DEF ChainInv
  <2>6. Elements(memory)' = Elements(memory)
    BY <2>1 DEF Elements
  <2>7. ReadInv'
    BY <1>0, <2>1, <2>3, <2>6 DEF ReadInv
  <2>8. PhaseInv' /\ RowFollowsMemory'
    BY <1>0, <2>1 DEF PhaseInv, RowFollowsMemory
  <2> QED
    BY <1>t, <2>5, <2>7, <2>8 DEF StoreInv
<1>4. CASE ComputeDraft
  <2>0. phase = "up" /\ queue # <<>> /\ UNCHANGED <<row, memory>>
    BY <1>4 DEF ComputeDraft
  <2>1. CASE sent' = TRUE /\ UNCHANGED <<phase, queue, answer, reading, storeCrashes>>
    <3>1. ChainInv'
      BY <1>0, <2>0, <2>1 DEF ChainInv, Elements, Distinct
    <3>2. ReadInv' /\ PhaseInv' /\ RowFollowsMemory'
      BY <1>0, <2>0, <2>1, ReadUnchanged DEF PhaseInv, RowFollowsMemory
    <3> QED
      BY <1>t, <3>1, <3>2 DEF StoreInv
  <2>2. CASE Settle("error")
    <3>1. ChainInv' /\ phase' = "up" /\ answer'[Head(queue)] = "error"
          /\ \A c \in Changes : c # Head(queue) => answer'[c] = answer[c]
      BY <1>0, <2>0, <2>2, SettleFacts
    <3>2. ReadInv'
      BY <2>0, <2>2, SettleReads
    <3>3. PhaseInv' /\ RowFollowsMemory'
      BY <1>0, <2>0, <3>1 DEF PhaseInv, RowFollowsMemory
    <3> QED
      BY <1>t, <3>1, <3>2, <3>3 DEF StoreInv
  <2> QED
    BY <1>4, <2>1, <2>2 DEF ComputeDraft
<1>5. CASE Update
  <2>0. sent /\ queue # <<>> /\ phase = "up"
    BY <1>0, <1>5 DEF Update, ChainInv, PhaseInv
  <2>d. Elements(Draft) = Elements(memory) \cup {Head(queue)}
    BY <1>0, <2>0, DraftTyped
  <2>1. CASE row' = Draft /\ memory' = Draft /\ Settle("ok")
    <3>1. ChainInv' /\ phase' = "up"
      BY <1>0, <2>0, <2>1, SettleFacts
    <3>2. Elements(memory') = Elements(memory) \cup {Head(queue)}
      BY <2>1, <2>d
    <3>3. ReadInv'
      BY <2>0, <2>1, <3>2, SettleReads
    <3>4. PhaseInv' /\ RowFollowsMemory'
      BY <2>1, <3>1 DEF PhaseInv, RowFollowsMemory
    <3> QED
      BY <1>t, <3>1, <3>3, <3>4 DEF StoreInv
  <2>2. CASE row' \in {row, Draft} /\ Settle("error") /\ UNCHANGED memory
    <3>1. ChainInv' /\ phase' = "up" /\ answer'[Head(queue)] = "error"
          /\ Head(queue) \in Changes
          /\ \A c \in Changes : c # Head(queue) => answer'[c] = answer[c]
      BY <1>0, <2>0, <2>2, SettleFacts
    <3>2. ReadInv'
      BY <2>0, <2>2, SettleReads
    <3>3. RowFollowsMemory'
      <4>1. CASE row' = Draft
        <5>1. Head(queue) \notin Elements(memory)
          BY <1>0, <2>0, SettleFacts, <2>2 DEF AppliedInv
        <5> QED
          BY <2>2, <3>1, <4>1, <5>1 DEF RowFollowsMemory, Draft, Elements
      <4>2. CASE row' = row
        BY <1>0, <2>0, <2>2, <3>1, <4>2 DEF RowFollowsMemory
      <4> QED
        BY <2>2, <4>1, <4>2
    <3>4. PhaseInv'
      BY <3>1 DEF PhaseInv
    <3> QED
      BY <1>t, <3>1, <3>2, <3>3, <3>4 DEF StoreInv
  <2> QED
    BY <1>5, <2>1, <2>2 DEF Update
<1>6. CASE StoreDies
  <2>1. phase' = "down" /\ sent' = FALSE /\ queue' = <<>>
        /\ reading' = [r \in Reads |-> NoRead]
    BY <1>6 DEF StoreDies
  <2>2. ChainInv'
    <3>1. DOMAIN queue' = {}
      BY <2>1
    <3> QED
      BY <2>1, <3>1 DEF ChainInv, Elements, Distinct
  <2>3. PhaseInv' /\ RowFollowsMemory' /\ ReadInv'
    BY <2>1 DEF PhaseInv, RowFollowsMemory, ReadInv
  <2> QED
    BY <1>t, <2>2, <2>3 DEF StoreInv
<1>7. ASSUME NEW r \in Reads, CallRead(r) PROVE StoreInv'
  <2> DEFINE new == [called |-> TRUE, await |-> Elements(queue),
                     before |-> Elements(queue) \cup Elements(memory)]
  <2>1. phase = "up" /\ reading' = [reading EXCEPT ![r] = new]
        /\ UNCHANGED <<row, memory, phase, queue, sent, answer, storeCrashes>>
    BY <1>7 DEF CallRead
  <2>2. ChainInv' /\ PhaseInv' /\ RowFollowsMemory'
    BY <1>0, <2>1, ChainUnchanged DEF PhaseInv, RowFollowsMemory
  <2>3. new.before = Elements(queue) \cup Elements(memory) /\ new.await = Elements(queue)
    OBVIOUS
  <2>4. Elements(memory)' = Elements(memory) /\ Elements(queue)' = Elements(queue)
    BY <2>1 DEF Elements
  <2> HIDE DEF new
  <2>5. ReadInv'
    <3>1. \A q \in Reads : reading'[q] = IF q = r THEN new ELSE reading[q]
      BY <1>0, <2>1 DEF StoreTypeOK
    <3> QED
      BY <1>0, <2>1, <2>3, <2>4, <3>1 DEF ReadInv
  <2> QED
    BY <1>t, <2>2, <2>5 DEF StoreInv
<1>8. ASSUME NEW r \in Reads, ReturnRead(r) PROVE StoreInv'
  <2>1. phase = "up" /\ reading' = [reading EXCEPT ![r] = NoRead]
        /\ UNCHANGED <<row, memory, phase, queue, sent, answer, storeCrashes>>
    BY <1>8 DEF ReturnRead
  <2>2. ChainInv' /\ PhaseInv' /\ RowFollowsMemory'
    BY <1>0, <2>1, ChainUnchanged DEF PhaseInv, RowFollowsMemory
  <2>4. Elements(memory)' = Elements(memory) /\ Elements(queue)' = Elements(queue)
    BY <2>1 DEF Elements
  <2>5. \A q \in Reads : reading'[q] = IF q = r THEN NoRead ELSE reading[q]
    BY <1>0, <2>1 DEF StoreTypeOK
  <2>6. ReadInv'
    BY <1>0, <2>1, <2>4, <2>5 DEF ReadInv
  <2> QED
    BY <1>t, <2>2, <2>6 DEF StoreInv
<1>9. CASE UNCHANGED storeVars
  BY <1>0, <1>t, <1>9, ChainUnchanged, ReadUnchanged
     DEF storeVars, StoreInv, PhaseInv, RowFollowsMemory
<1> QED
  BY <1>1, <1>2, <1>3, <1>4, <1>5, <1>6, <1>7, <1>8, <1>9 DEF StoreNext

\* StoreInv holds in every reachable state.
LEMMA StoreInvariant == StoreSpec => []StoreInv
<1>1. StoreInit => StoreInv
  BY StoreInitInv
<1>2. StoreInv /\ [StoreNext]_storeVars => StoreInv'
  BY StoreInvStep
<1> QED
  BY <1>1, <1>2, PTL DEF StoreSpec

-----------------------------------------------------------------------------
(* The theorems *)

\* Every reachable state of the store is well typed: PostgresStateStore with any
\* transactions, reads and restarts (store.ts:75-132).
THEOREM StoreTypeCorrect == StoreSpec => []StoreTypeOK
<1>1. StoreInv => StoreTypeOK
  BY DEF StoreInv
<1> QED
  BY <1>1, StoreInvariant, PTL

\* While the panel runs the row is its copy, or one change that was not acknowledged
\* ahead of it (store.ts:119-129).
THEOREM RowIsOneAhead == StoreSpec => []RowFollowsMemory
<1>1. StoreInv => RowFollowsMemory
  BY DEF StoreInv
<1> QED
  BY <1>1, StoreInvariant, PTL

\* A read that has waited for the chain sees every change asked for before it that was
\* not refused (store.ts:115-118).
THEOREM ReadsAreCurrent == StoreSpec => []ReadsSeeEarlierChanges
<1>1. StoreInv => ReadsSeeEarlierChanges
  BY DEF StoreInv, ReadInv, ReadsSeeEarlierChanges, Awaits
<1> QED
  BY <1>1, StoreInvariant, PTL

\* The answer to the first transaction of the chain is an answer of the serial store.
LEMMA SettleAnswers ==
  ASSUME StoreTypeOK, ChainInv, queue # <<>>, NEW a \in {"ok", "error"}, Settle(a)
  PROVE  /\ Head(queue) \in Changes /\ answer[Head(queue)] = "none"
         /\ Panel!Answered({Head(queue)}, a)
<1>1. Head(queue) \in Changes /\ answer[Head(queue)] = "none"
  BY SettleFacts
<1>2. answer \in [Changes -> {"none", "ok", "error"}]
  BY DEF StoreTypeOK
<1>3. answer' = [answer EXCEPT ![Head(queue)] = a]
  BY DEF Settle
<1>4. answer' = [c \in Changes |-> IF c \in {Head(queue)} THEN a ELSE answer[c]]
  BY <1>1, <1>2, <1>3
<1> QED
  BY <1>1, <1>4 DEF Panel!Answered

\* A restart is a recovery of the serial store.
LEMMA DeathIsRecovery ==
  ASSUME StoreInv, StoreDies PROVE Panel!Recover
<1> DEFINE log == IF phase = "up" THEN memory ELSE row
           cs == Elements(queue)
<1>0. StoreTypeOK /\ ChainInv /\ PhaseInv /\ RowFollowsMemory /\ AppliedInv
  BY DEF StoreInv
<1>1. /\ row' = row \/ (sent /\ row' = Draft)
      /\ phase' = "down" /\ queue' = <<>>
      /\ answer' = [c \in Changes |-> IF c \in cs THEN "error" ELSE answer[c]]
  BY DEF StoreDies
<1>2. cs \subseteq Changes
  BY <1>0 DEF StoreTypeOK, Elements
<1>3. cs \in SUBSET {c \in Changes : answer[c] = "none"} /\ Panel!Answered(cs, "error")
  BY <1>0, <1>1, <1>2 DEF ChainInv, Panel!Answered
<1>4. log' = row'
  BY <1>1
<1>5. \/ log' = log
      \/ \E c \in Changes :
           answer'[c] # "ok" /\ c \notin Elements(log) /\ log' = Append(log, c)
  <2>1. CASE phase # "up"
    BY <1>0, <1>1, <1>4, <2>1 DEF PhaseInv
  <2>2. CASE phase = "up" /\ row' = row
    <3>1. CASE row = memory
      BY <1>4, <2>2, <3>1
    <3>2. CASE \E c \in Changes : answer[c] # "ok" /\ c \notin Elements(memory)
                                   /\ row = Append(memory, c)
      BY <1>1, <1>4, <2>2, <3>2
    <3> QED
      BY <1>0, <2>2, <3>1, <3>2 DEF RowFollowsMemory
  <2>3. CASE phase = "up" /\ sent /\ row' = Draft
    <3>1. queue # <<>> /\ Head(queue) \in Changes /\ Head(queue) \in cs
      BY <1>0, <2>3, TailElements DEF ChainInv, StoreTypeOK
    <3>2. answer'[Head(queue)] = "error" /\ Head(queue) \notin Elements(memory)
      BY <1>0, <1>1, <3>1 DEF AppliedInv, ChainInv
    <3> QED
      BY <1>4, <2>3, <3>1, <3>2 DEF Draft
  <2> QED
    BY <1>1, <2>1, <2>2, <2>3
<1> QED
  BY <1>3, <1>5 DEF Panel!Recover, Panel!Apply, Panel!Applied, Elements

\* Every step is a step of the serial store, or one that it does not see.
LEMMA StoreStepIsSerial ==
  ASSUME StoreInv, [StoreNext]_storeVars
  PROVE  [Panel!SerialNext]_<<IF phase = "up" THEN memory ELSE row, answer>>
<1> DEFINE log == IF phase = "up" THEN memory ELSE row
<1>0. StoreTypeOK /\ ChainInv /\ PhaseInv /\ AppliedInv
  BY DEF StoreInv
<1>1. CASE SelectRow
  BY <1>1 DEF SelectRow
<1>2. CASE WriteRow
  BY <1>0, <1>2 DEF WriteRow, PhaseInv
<1>3. ASSUME NEW c \in Changes, Transact(c) PROVE UNCHANGED <<log, answer>>
  BY <1>3 DEF Transact
<1>4. CASE ComputeDraft
  <2>1. CASE UNCHANGED <<phase, answer>>
    BY <1>4, <2>1 DEF ComputeDraft
  <2>2. CASE Settle("error")
    <3>1. queue # <<>> /\ UNCHANGED log
      BY <1>4, <2>2 DEF ComputeDraft, Settle
    <3> QED
      BY <1>0, <2>2, <3>1, SettleAnswers DEF Panel!SerialNext, Panel!Reject
  <2> QED
    BY <1>4, <2>1, <2>2 DEF ComputeDraft
<1>5. CASE Update
  <2>0. sent /\ queue # <<>> /\ phase = "up"
    BY <1>0, <1>5 DEF Update, ChainInv, PhaseInv
  <2>1. CASE memory' = Draft /\ Settle("ok")
    <3>1. log' = Append(log, Head(queue))
      BY <2>0, <2>1 DEF Settle, Draft
    <3>2. Head(queue) \in Changes /\ answer[Head(queue)] = "none"
          /\ Panel!Answered({Head(queue)}, "ok")
      BY <1>0, <2>0, <2>1, SettleAnswers
    <3>3. ~Panel!Applied(Head(queue))
      BY <1>0, <2>0, <3>2 DEF AppliedInv, Elements, Panel!Applied
    <3> QED
      BY <3>1, <3>2, <3>3 DEF Panel!SerialNext, Panel!Acknowledge, Panel!Apply
  <2>2. CASE Settle("error") /\ UNCHANGED memory
    <3>1. UNCHANGED log
      BY <2>0, <2>2 DEF Settle
    <3> QED
      BY <1>0, <2>0, <2>2, <3>1, SettleAnswers DEF Panel!SerialNext, Panel!Reject
  <2> QED
    BY <1>5, <2>1, <2>2 DEF Update
<1>6. CASE StoreDies
  BY <1>6, DeathIsRecovery DEF Panel!SerialNext
<1>7. ASSUME NEW r \in Reads, CallRead(r) \/ ReturnRead(r) PROVE UNCHANGED <<log, answer>>
  BY <1>7 DEF CallRead, ReturnRead
<1>8. CASE UNCHANGED storeVars
  BY <1>8 DEF storeVars
<1> QED
  BY <1>1, <1>2, <1>3, <1>4, <1>5, <1>6, <1>7, <1>8 DEF StoreNext

\* The store is the serial one, whatever writes fail and whenever the panel dies: no
\* acknowledged change is lost and none is applied twice (store.ts:75-132).
THEOREM StoreImplementsSerialStore == StoreSpec => StoreIsSerial
<1>1. StoreInit => Panel!SerialInit
  BY DEF StoreInit, Panel!SerialInit
<1>2. StoreInv /\ [StoreNext]_storeVars
        => [Panel!SerialNext]_<<IF phase = "up" THEN memory ELSE row, answer>>
  BY StoreStepIsSerial
<1> QED
  BY <1>1, <1>2, StoreInvariant, PTL DEF StoreSpec, StoreIsSerial, Panel!SerialSpec

-----------------------------------------------------------------------------
(* The newest point of a curve *)

\* The types of what PostgreSQL's answers depend on.
SampledTyped ==
  /\ lead \in Leads \cap Int /\ dbLead \in Leads \cap Int
  /\ now \in 0..MaxTime /\ nextSample \in Nat /\ agentRestarts \in Nat
  /\ heartbeats \in Seq(Points) /\ rows \subseteq Points /\ newest \subseteq Points

\* Until the agent restarts, its samples are SAMPLE apart: those on their way, those that
\* were stored before them, and the next one.
SamplesApart ==
  agentRestarts = 0 =>
    /\ \A i \in DOMAIN heartbeats :
         /\ heartbeats[i].at + SAMPLE <= nextSample
         /\ \A j \in DOMAIN heartbeats : i < j => heartbeats[i].at + SAMPLE <= heartbeats[j].at
         /\ \A q \in rows : q.at + SAMPLE <= heartbeats[i].at
    /\ \A q \in rows :
         /\ q.at + SAMPLE <= nextSample
         /\ \A r \in rows : q = r \/ q.at + SAMPLE <= r.at \/ r.at + SAMPLE <= q.at

\* The last point stays until the database finds it a day old.
NewestStays == \A p \in newest : p.at < now /\ (p.at >= DatabaseNow - WINDOW => p \in rows)

MetricInv == SampledTyped /\ SamplesApart /\ NewestStays

\* Whoever waits for the next sample adds one that is apart from all others.
LEMMA SampleKeeps ==
  ASSUME MetricInv, Sample
  PROVE  MetricInv'
<1>1. PICK u \in Usages : heartbeats' = Append(heartbeats, [at |-> now, usage |-> u])
  BY DEF Sample
<1> DEFINE p == [at |-> now, usage |-> u]
<1>2. p \in Points /\ p.at = now
  BY DEF MetricInv, SampledTyped, Points
<1> HIDE DEF p
<1>3. /\ now \in Nat /\ nextSample \in Nat /\ now >= nextSample /\ nextSample' = now + SAMPLE
      /\ UNCHANGED <<lead, dbLead, now, rows, newest, agentRestarts>>
      /\ SAMPLE \in Nat /\ heartbeats \in Seq(Points)
  BY MetricAssumption DEF Sample, clocks, stored, MetricInv, SampledTyped
<1>4. /\ heartbeats' = Append(heartbeats, p) /\ heartbeats' \in Seq(Points)
      /\ DOMAIN heartbeats' = DOMAIN heartbeats \cup {Len(heartbeats) + 1}
      /\ \A i \in DOMAIN heartbeats : heartbeats'[i] = heartbeats[i] /\ i < Len(heartbeats) + 1
      /\ heartbeats'[Len(heartbeats) + 1] = p
  BY <1>1, <1>2, <1>3 DEF p
<1>5. SampledTyped'
  BY <1>3, <1>4 DEF MetricInv, SampledTyped
<1>6. ASSUME agentRestarts = 0
      PROVE  /\ \A i \in DOMAIN heartbeats' :
                  /\ heartbeats'[i].at + SAMPLE <= nextSample'
                  /\ \A j \in DOMAIN heartbeats' :
                       i < j => heartbeats'[i].at + SAMPLE <= heartbeats'[j].at
                  /\ \A q \in rows : q.at + SAMPLE <= heartbeats'[i].at
             /\ \A q \in rows : q.at + SAMPLE <= nextSample'
  <2>1. /\ \A i \in DOMAIN heartbeats : heartbeats[i].at \in Nat
        /\ \A q \in rows : q.at \in Nat
    <3>1. \A q \in Points : q.at \in Nat
      BY DEF Points
    <3>2. (\A i \in DOMAIN heartbeats : heartbeats[i] \in Points) /\ rows \subseteq Points
      BY <1>3 DEF MetricInv, SampledTyped
    <3> QED BY <3>1, <3>2
  <2>2. /\ \A i \in DOMAIN heartbeats : heartbeats[i].at + SAMPLE <= now
        /\ \A q \in rows : q.at + SAMPLE <= now
    BY <1>3, <1>6, <2>1 DEF MetricInv, SamplesApart
  <2>3. ASSUME NEW i \in DOMAIN heartbeats'
        PROVE  /\ heartbeats'[i].at + SAMPLE <= nextSample'
               /\ \A q \in rows : q.at + SAMPLE <= heartbeats'[i].at
    <3>1. CASE i \in DOMAIN heartbeats
      BY <1>3, <1>4, <1>6, <2>1, <2>2, <3>1 DEF MetricInv, SamplesApart
    <3>2. CASE i = Len(heartbeats) + 1
      BY <1>2, <1>3, <1>4, <2>2, <3>2
    <3> QED BY <1>4, <3>1, <3>2
  <2>4. ASSUME NEW i \in DOMAIN heartbeats', NEW j \in DOMAIN heartbeats', i < j
        PROVE  heartbeats'[i].at + SAMPLE <= heartbeats'[j].at
    <3>1. i \in DOMAIN heartbeats
      BY <1>3, <1>4, <2>4
    <3>2. CASE j \in DOMAIN heartbeats
      BY <1>4, <1>6, <2>4, <3>1, <3>2 DEF MetricInv, SamplesApart
    <3>3. CASE j = Len(heartbeats) + 1
      BY <1>2, <1>4, <2>2, <3>1, <3>3
    <3> QED BY <1>4, <3>2, <3>3
  <2>5. \A q \in rows : q.at + SAMPLE <= nextSample'
    BY <1>3, <2>1, <2>2
  <2> QED BY <2>3, <2>4, <2>5
<1>7. SamplesApart'
  BY <1>3, <1>6 DEF MetricInv, SamplesApart
<1>8. NewestStays'
  BY <1>3 DEF MetricInv, NewestStays, DatabaseNow
<1> QED BY <1>5, <1>7, <1>8 DEF MetricInv

\* The point that is stored is the next of those on their way; the others stay apart.
LEMMA ReceiveKeeps ==
  ASSUME MetricInv, ReceiveSample
  PROVE  MetricInv'
<1> DEFINE p == Head(heartbeats)
<1>1. /\ heartbeats # <<>> /\ heartbeats \in Seq(Points) /\ p.at < now
      /\ heartbeats' = Tail(heartbeats) /\ newest' = {p}
      /\ UNCHANGED <<lead, dbLead, now, nextSample, agentRestarts>>
      /\ rows' = {q \in Upserted(p) : q.at >= DatabaseNow - WINDOW} \/ rows' = Upserted(p)
      /\ now \in Nat /\ rows \subseteq Points
  BY DEF ReceiveSample, AppendMetrics, clocks, MetricInv, SampledTyped
<1>2. /\ p = heartbeats[1] /\ p \in Points /\ 1 \in DOMAIN heartbeats
      /\ Tail(heartbeats) \in Seq(Points)
      /\ \A i \in DOMAIN Tail(heartbeats) :
           i + 1 \in DOMAIN heartbeats /\ 1 < i + 1 /\ Tail(heartbeats)[i] = heartbeats[i + 1]
                                       /\ i \in Nat
  BY <1>1
<1> HIDE DEF p
<1>3. p.at \in Nat /\ \A q \in Points : q.at \in Nat
  BY <1>2 DEF Points
<1>4. rows' \subseteq rows \cup {p} /\ rows' \subseteq Points
  BY <1>1, <1>2 DEF Upserted
<1>5. p.at >= DatabaseNow - WINDOW => p \in rows'
  BY <1>1 DEF Upserted
<1>6. SampledTyped'
  BY <1>1, <1>2, <1>4 DEF MetricInv, SampledTyped
<1>7. NewestStays'
  BY <1>1, <1>5 DEF NewestStays, DatabaseNow
<1>8. ASSUME agentRestarts = 0
      PROVE  /\ \A i \in DOMAIN heartbeats' :
                  /\ heartbeats'[i].at + SAMPLE <= nextSample
                  /\ \A j \in DOMAIN heartbeats' :
                       i < j => heartbeats'[i].at + SAMPLE <= heartbeats'[j].at
                  /\ \A q \in rows' : q.at + SAMPLE <= heartbeats'[i].at
             /\ \A q \in rows' : q.at + SAMPLE <= nextSample
             /\ \A q, r \in rows' : q = r \/ q.at + SAMPLE <= r.at \/ r.at + SAMPLE <= q.at
  <2>1. /\ \A i \in DOMAIN heartbeats :
             /\ heartbeats[i].at + SAMPLE <= nextSample
             /\ \A j \in DOMAIN heartbeats : i < j => heartbeats[i].at + SAMPLE <= heartbeats[j].at
             /\ \A q \in rows : q.at + SAMPLE <= heartbeats[i].at
        /\ \A q \in rows :
             /\ q.at + SAMPLE <= nextSample
             /\ \A r \in rows : q = r \/ q.at + SAMPLE <= r.at \/ r.at + SAMPLE <= q.at
    BY <1>8 DEF MetricInv, SamplesApart
  <2>2. p.at + SAMPLE <= nextSample /\ \A q \in rows : q.at + SAMPLE <= p.at
    BY <1>2, <2>1
  <2>3. ASSUME NEW i \in DOMAIN heartbeats'
        PROVE  /\ heartbeats'[i].at + SAMPLE <= nextSample
               /\ \A q \in rows' : q.at + SAMPLE <= heartbeats'[i].at
    <3>1. i + 1 \in DOMAIN heartbeats /\ 1 < i + 1 /\ heartbeats'[i] = heartbeats[i + 1]
      BY <1>1, <1>2, <2>3
    <3>2. p.at + SAMPLE <= heartbeats'[i].at
      BY <1>2, <2>1, <3>1
    <3> QED BY <1>4, <2>1, <3>1, <3>2
  <2>4. ASSUME NEW i \in DOMAIN heartbeats', NEW j \in DOMAIN heartbeats', i < j
        PROVE  heartbeats'[i].at + SAMPLE <= heartbeats'[j].at
    <3>1. /\ i + 1 \in DOMAIN heartbeats /\ j + 1 \in DOMAIN heartbeats /\ i + 1 < j + 1
          /\ heartbeats'[i] = heartbeats[i + 1] /\ heartbeats'[j] = heartbeats[j + 1]
      BY <1>1, <1>2, <2>4
    <3> QED BY <2>1, <3>1
  <2>5. \A q \in rows' : q.at + SAMPLE <= nextSample
    BY <1>4, <2>1, <2>2
  <2>6. \A q, r \in rows' : q = r \/ q.at + SAMPLE <= r.at \/ r.at + SAMPLE <= q.at
    BY <1>4, <2>1, <2>2
  <2> QED BY <2>3, <2>4, <2>5, <2>6
<1>9. SamplesApart'
  BY <1>1, <1>8 DEF SamplesApart
<1> QED BY <1>6, <1>7, <1>9 DEF MetricInv

\* The invariant holds whatever the clock, the agent and its heartbeats do.
LEMMA MetricInvariant == MetricSpec => []MetricInv
<1>1. MetricInit => MetricInv
  BY MetricAssumption DEF MetricInit, MetricInv, SampledTyped, SamplesApart, NewestStays
<1>2. MetricInv /\ [MetricNext]_metricVars => MetricInv'
  <2> SUFFICES ASSUME MetricInv, [MetricNext]_metricVars PROVE MetricInv'
    OBVIOUS
  <2>1. CASE ClockTicks
    <3>1. now' = now + 1 /\ now' \in 0..MaxTime /\ now \in Nat
          /\ UNCHANGED <<lead, dbLead, nextSample, heartbeats, rows, newest, agentRestarts>>
      BY <2>1, MetricAssumption DEF ClockTicks, clocks, stored, MetricInv, SampledTyped
    <3>2. SampledTyped' /\ SamplesApart'
      BY <3>1 DEF MetricInv, SampledTyped, SamplesApart
    <3>3. (\A p \in newest : p.at \in Nat) /\ dbLead \in Int
      BY DEF MetricInv, SampledTyped, Points
    <3>4. NewestStays'
      BY <3>1, <3>3, MetricAssumption DEF MetricInv, NewestStays, DatabaseNow
    <3> QED BY <3>2, <3>4 DEF MetricInv
  <2>2. CASE AgentRestarts
    <3>1. /\ agentRestarts' = agentRestarts + 1 /\ agentRestarts \in Nat /\ nextSample' = 0
          /\ heartbeats' \in {heartbeats, <<>>}
          /\ UNCHANGED <<lead, dbLead, now, rows, newest>>
      BY <2>2 DEF AgentRestarts, clocks, stored, MetricInv, SampledTyped
    <3>2. heartbeats' \in Seq(Points)
      <4>1. <<>> \in Seq(Points)
        OBVIOUS
      <4>2. heartbeats \in Seq(Points)
        BY DEF MetricInv, SampledTyped
      <4> QED BY <3>1, <4>1, <4>2
    <3>3. SampledTyped'
      BY <3>1, <3>2 DEF MetricInv, SampledTyped
    <3>4. SamplesApart' /\ NewestStays'
      BY <3>1 DEF MetricInv, SamplesApart, NewestStays, DatabaseNow
    <3> QED BY <3>3, <3>4 DEF MetricInv
  <2>3. CASE UNCHANGED metricVars
    BY <2>3 DEF metricVars, clocks, stored, MetricInv, SampledTyped, SamplesApart, NewestStays,
                DatabaseNow
  <2> QED BY <2>1, <2>2, <2>3, SampleKeeps, ReceiveKeeps DEF MetricNext
<1> QED BY <1>1, <1>2, PTL DEF MetricSpec

-----------------------------------------------------------------------------
\* Whole steps of size m that fit in d.
LEMMA StepsThatFit ==
  ASSUME NEW m \in Nat \ {0}, NEW d \in Nat, NEW n \in Nat, d < m * n
  PROVE  \E k \in 0..(n - 1) : m * k <= d /\ d < m * k + m
<1> DEFINE k == d \div m
<1>1. k \in Nat /\ d = m * k + (d % m) /\ 0 <= d % m /\ d % m < m
  OBVIOUS
<1>2. m * k <= d /\ d < m * k + m
  BY <1>1
<1>3. k < n
  OBVIOUS
<1> HIDE DEF k
<1>4. k \in 0..(n - 1)
  BY <1>1, <1>3
<1> QED BY <1>2, <1>4

\* In a stretch of n times m, points that are m apart and not less than m before its
\* end are fewer than n.
LEMMA PointsThatFit ==
  ASSUME NEW m \in Nat \ {0}, NEW n \in Nat \ {0}, NEW e \in Nat, NEW S,
         \A q \in S : q.at \in Nat /\ q.at + m <= e /\ e - q.at < m * n,
         \A q, r \in S : q = r \/ q.at + m <= r.at \/ r.at + m <= q.at
  PROVE  Cardinality(S) < n
<1> DEFINE f == [q \in S |-> CHOOSE k \in 0..(n - 1) : m * k <= e - q.at /\ e - q.at < m * k + m]
<1>1. ASSUME NEW q \in S
      PROVE  f[q] \in 1..(n - 1) /\ m * f[q] <= e - q.at /\ e - q.at < m * f[q] + m
  <2>1. e - q.at \in Nat /\ e - q.at < m * n /\ e - q.at >= m
    OBVIOUS
  <2>2. \E k \in 0..(n - 1) : m * k <= e - q.at /\ e - q.at < m * k + m
    BY <2>1, StepsThatFit
  <2>3. f[q] \in 0..(n - 1) /\ m * f[q] <= e - q.at /\ e - q.at < m * f[q] + m
    BY <2>2
  <2>4. f[q] # 0
    <3> HIDE DEF f
    <3> DEFINE g == m * f[q]
    <3>1. e - q.at < g + m /\ e - q.at \in Nat /\ e - q.at >= m
      BY <2>1, <2>3
    <3>2. f[q] = 0 => g = 0
      OBVIOUS
    <3> HIDE DEF g
    <3>3. g # 0
      BY <3>1
    <3> QED BY <3>2, <3>3
  <2> HIDE DEF f
  <2> QED BY <2>3, <2>4
<1>2. f \in [S -> 1..(n - 1)]
  <2>1. \A q \in S : f[q] \in 1..(n - 1)
    BY <1>1
  <2> QED BY <2>1
<1>3. ASSUME NEW q \in S, NEW r \in S, f[q] = f[r]
      PROVE  q = r
  <2> HIDE DEF f
  <2> DEFINE g == m * f[q]
  <2>1. /\ g <= e - q.at /\ e - q.at < g + m /\ g <= e - r.at /\ e - r.at < g + m
    BY <1>1, <1>3
  <2>2. g \in Nat /\ q.at \in Nat /\ r.at \in Nat
    BY <1>1
  <2> HIDE DEF g
  <2>3. ~(q.at + m <= r.at) /\ ~(r.at + m <= q.at)
    BY <2>1, <2>2
  <2> QED BY <2>3
<1>4. f \in Injection(S, 1..(n - 1))
  <2> HIDE DEF f
  <2> QED BY <1>2, <1>3 DEF Injection, IsInjective
<1>5. IsFiniteSet(1..(n - 1)) /\ Cardinality(1..(n - 1)) = n - 1
  BY FS_Interval
<1>6. IsFiniteSet(S) /\ Cardinality(S) <= n - 1
  <2> HIDE DEF f
  <2> QED BY <1>4, <1>5, FS_Injection
<1>7. Cardinality(S) \in Nat
  BY <1>6, FS_CardinalityType
<1> QED BY <1>6, <1>7

\* A range that starts at the horizon is one of both days.
LEMMA HorizonIsLater ==
  ASSUME now \in Int, lead \in Int, dbLead \in Int, WINDOW \in Nat, NEW e \in Int,
         NEW since \in Horizon..e
  PROVE  /\ since \in Int /\ since <= e
         /\ since >= PanelNow - WINDOW /\ since >= DatabaseNow - WINDOW
<1>1. CASE lead < dbLead
  BY <1>1 DEF Horizon, PanelNow, DatabaseNow
<1>2. CASE ~(lead < dbLead)
  BY <1>2 DEF Horizon, PanelNow, DatabaseNow
<1> QED BY <1>1, <1>2

\* PostgreSQL's answer to any range of the last day holds the newest point, although it
\* keeps the oldest points of the range, as long as the agent has not restarted and its clock
\* is not so far ahead of the control plane's that the day up to its newest sample has room
\* for more samples than an answer may have (store.ts:158, 171-172, index.ts:50-54, 85).
THEOREM NewestIsServed == MetricSpec => []NewestPointServed
<1>1. MetricInv => NewestPointServed
  <2> SUFFICES ASSUME MetricInv, agentRestarts = 0, lead + WINDOW <= SAMPLE * LIMIT,
                      NEW p \in newest, NEW since \in Horizon..p.at
               PROVE  p \in PostgresAnswer(since)
    BY DEF NewestPointServed
  <2> DEFINE S == {q \in RowsSince(since) : q.at < p.at}
  <2>1. p.at < now /\ p.at \in Nat /\ now \in Nat /\ since \in Int /\ since <= p.at
        /\ since >= PanelNow - WINDOW /\ since >= DatabaseNow - WINDOW
        /\ WINDOW \in Nat /\ lead \in Int /\ dbLead \in Int
    <3>1. p \in Points /\ now \in Nat /\ WINDOW \in Nat /\ lead \in Int /\ dbLead \in Int
      BY MetricAssumption DEF MetricInv, SampledTyped
    <3>2. p.at < now /\ p.at \in Nat
      BY <3>1 DEF MetricInv, NewestStays, Points
    <3> QED BY <3>1, <3>2, HorizonIsLater
  <2>2. p \in rows /\ p \in RowsSince(since)
    BY <2>1 DEF MetricInv, NewestStays, RowsSince, DatabaseNow
  <2>3. SAMPLE \in Nat \ {0} /\ LIMIT \in Nat \ {0}
    BY MetricAssumption
  <2>4. \A q \in S : q \in rows /\ q.at \in Nat /\ q.at >= since /\ q.at < p.at
    BY DEF RowsSince, MetricInv, SampledTyped, Points
  <2> HIDE DEF S
  <2>5. \A q, r \in rows : q = r \/ q.at + SAMPLE <= r.at \/ r.at + SAMPLE <= q.at
    BY DEF MetricInv, SamplesApart
  <2>6. ASSUME NEW q \in S
        PROVE  q.at \in Nat /\ q.at + SAMPLE <= p.at /\ p.at - q.at < SAMPLE * LIMIT
    <3> DEFINE L == SAMPLE * LIMIT
    <3>1. L \in Nat /\ lead + WINDOW <= L
      BY <2>3
    <3> HIDE DEF L
    <3>2. p.at - q.at < L
      BY <2>1, <2>4, <3>1 DEF PanelNow
    <3>3. q.at + SAMPLE <= p.at
      BY <2>1, <2>2, <2>3, <2>4, <2>5
    <3> QED BY <2>4, <3>2, <3>3 DEF L
  <2>7. \A q, r \in S : q = r \/ q.at + SAMPLE <= r.at \/ r.at + SAMPLE <= q.at
    BY <2>4, <2>5
  <2>8. Cardinality(S) < LIMIT
    BY <2>1, <2>3, <2>6, <2>7, PointsThatFit
  <2> QED BY <2>2, <2>8 DEF PostgresAnswer, S
<1> QED BY <1>1, MetricInvariant, PTL

-----------------------------------------------------------------------------
(* Filtering and ordering a sequence of points *)

\* A set of numbers that is not empty has a least one.
LEMMA LeastNumber ==
  ASSUME NEW T \in SUBSET Nat, T # {}
  PROVE  \E n \in T : \A m \in T : n <= m
<1> DEFINE R == OpToRel(<, Nat)
<1>1. IsWellFoundedOn(R, Nat)
  BY NatLessThanWellFounded
<1>2. \A x, y \in Nat : x < y => <<x, y>> \in R
  BY DEF OpToRel
<1> HIDE DEF R
<1>3. PICK n \in T : \A m \in T : ~(<<m, n>> \in R)
  BY <1>1, WFMin
<1>4. ASSUME NEW m \in T
      PROVE  n <= m
  <2>1. m \in Nat /\ n \in Nat /\ ~(m < n)
    BY <1>2, <1>3
  <2> QED BY <2>1
<1> QED BY <1>4

\* Each point is later than those before it.
Ascending(s) == \A i, j \in DOMAIN s : i < j => s[i].at < s[j].at

\* What the filter has kept of the first n elements.
KeptOf(s, K, g, n) ==
  g[n] = IF n = 0 THEN <<>>
         ELSE IF s[n] \in K THEN Append(g[n - 1], s[n]) ELSE g[n - 1]

\* The recursion of the filter defines a function.
LEMMA KeptIsDefined ==
  ASSUME NEW S, NEW s \in Seq(S), NEW K
  PROVE  \E g : /\ g = [n \in 0..Len(s) |->
                         IF n = 0 THEN <<>>
                         ELSE IF s[n] \in K THEN Append(g[n - 1], s[n]) ELSE g[n - 1]]
                /\ Kept(s, K) = g[Len(s)]
<1> DEFINE L == Len(s)
           Built(n) == \E g \in [0..n -> Seq(S)] : \A m \in 0..n : KeptOf(s, K, g, m)
           T == {n \in 0..L : ~Built(n)}
<1>0. L \in Nat /\ DOMAIN s = 1..L
  OBVIOUS
<1>1. Built(0)
  <2> DEFINE g == [m \in 0..0 |-> <<>>]
  <2>1. g \in [0..0 -> Seq(S)] /\ \A m \in 0..0 : KeptOf(s, K, g, m)
    BY DEF KeptOf
  <2> HIDE DEF g
  <2> QED BY <2>1
<1>2. ASSUME NEW n \in 0..L, n # 0, Built(n - 1)
      PROVE  Built(n)
  <2>1. PICK g \in [0..(n - 1) -> Seq(S)] : \A m \in 0..(n - 1) : KeptOf(s, K, g, m)
    BY <1>2
  <2> DEFINE next == IF s[n] \in K THEN Append(g[n - 1], s[n]) ELSE g[n - 1]
             h == [m \in 0..n |-> IF m = n THEN next ELSE g[m]]
  <2>2. n \in 1..L /\ n - 1 \in 0..(n - 1) /\ s[n] \in S
    BY <1>0, <1>2
  <2>3. next \in Seq(S)
    BY <2>1, <2>2
  <2>4. h \in [0..n -> Seq(S)]
    <3> HIDE DEF next
    <3> QED BY <1>2, <2>1, <2>3
  <2>5. h[n] = next /\ \A m \in 0..(n - 1) : h[m] = g[m]
    <3> HIDE DEF next
    <3> QED BY <2>2
  <2>6. ASSUME NEW m \in 0..n
        PROVE  KeptOf(s, K, h, m)
    <3> HIDE DEF h
    <3>1. CASE m = n
      BY <1>2, <2>2, <2>5, <3>1 DEF KeptOf
    <3>2. CASE m # n
      <4>1. m \in 0..(n - 1) /\ (m # 0 => m - 1 \in 0..(n - 1))
        BY <2>2, <3>2
      <4> HIDE DEF next
      <4> QED BY <2>1, <2>5, <4>1 DEF KeptOf
    <3> QED BY <3>1, <3>2
  <2> HIDE DEF h
  <2> QED BY <2>4, <2>6
<1>3. Built(L)
  <2> HIDE DEF Built
  <2> SUFFICES ASSUME ~Built(L) PROVE FALSE
    OBVIOUS
  <2>1. T \in SUBSET Nat /\ T # {}
    BY <1>0
  <2>2. PICK n \in T : \A m \in T : n <= m
    BY <2>1, LeastNumber
  <2>3. n # 0 /\ n \in 0..L /\ n - 1 \in 0..L /\ n - 1 \notin T
    BY <1>0, <1>1, <2>2
  <2> QED BY <1>2, <2>2, <2>3
<1>4. PICK g \in [0..L -> Seq(S)] : \A m \in 0..L : KeptOf(s, K, g, m)
  BY <1>3
<1>5. g = [n \in 0..L |-> IF n = 0 THEN <<>>
                          ELSE IF s[n] \in K THEN Append(g[n - 1], s[n]) ELSE g[n - 1]]
  BY <1>4 DEF KeptOf
<1> DEFINE kept == CHOOSE f : f = [n \in 0..L |-> IF n = 0 THEN <<>>
                          ELSE IF s[n] \in K THEN Append(f[n - 1], s[n]) ELSE f[n - 1]]
<1>6. kept = [n \in 0..L |-> IF n = 0 THEN <<>>
                             ELSE IF s[n] \in K THEN Append(kept[n - 1], s[n]) ELSE kept[n - 1]]
  BY <1>5, Zenon
<1>7. Kept(s, K) = kept[L]
  BY Zenon DEF Kept
<1> HIDE DEF kept
<1> QED BY <1>6, <1>7

\* The filter keeps the elements of K, in their order.
LEMMA KeptAscends ==
  ASSUME NEW S, NEW s \in Seq(S), NEW K, Ascending(s)
  PROVE  Kept(s, K) \in Seq(S) /\ Ascending(Kept(s, K)) /\ Elements(Kept(s, K)) = Elements(s) \cap K
<1> DEFINE L == Len(s)
           Before(n) == {s[i] : i \in 1..n}
<1>0. L \in Nat /\ DOMAIN s = 1..L
  OBVIOUS
<1>1. PICK g : /\ g = [n \in 0..L |->
                        IF n = 0 THEN <<>>
                        ELSE IF s[n] \in K THEN Append(g[n - 1], s[n]) ELSE g[n - 1]]
               /\ Kept(s, K) = g[L]
  BY KeptIsDefined
<1> DEFINE Right(n) == g[n] \in Seq(S) /\ Ascending(g[n]) /\ Elements(g[n]) = Before(n) \cap K
           T == {n \in 0..L : ~Right(n)}
<1>2. Right(0)
  <2>1. g[0] = <<>>
    BY <1>0, <1>1
  <2> QED BY <2>1 DEF Ascending, Elements
<1>3. ASSUME NEW n \in 0..L, n # 0, Right(n - 1)
      PROVE  Right(n)
  <2> DEFINE f == g[n - 1]
  <2>1. /\ n \in 1..L /\ n - 1 \in 0..L /\ s[n] \in S
        /\ 1..n = 1..(n - 1) \cup {n} /\ n \notin 1..(n - 1)
    BY <1>0, <1>3
  <2>2. g[n] = IF s[n] \in K THEN Append(f, s[n]) ELSE f
    BY <1>1, <1>3
  <2>3. f \in Seq(S) /\ Ascending(f) /\ Elements(f) = Before(n - 1) \cap K
    BY <1>3
  <2>4. Before(n) = Before(n - 1) \cup {s[n]}
    BY <2>1
  <2> HIDE DEF f
  <2>5. CASE s[n] \notin K
    BY <2>2, <2>3, <2>4, <2>5
  <2>6. CASE s[n] \in K
    <3> DEFINE e == s[n]
               a == Append(f, e)
    <3>1. g[n] = a /\ e \in S
      BY <2>1, <2>2, <2>6
    <3>2. /\ a \in Seq(S) /\ Len(f) \in Nat /\ DOMAIN f = 1..Len(f)
          /\ DOMAIN a = DOMAIN f \cup {Len(f) + 1} /\ a[Len(f) + 1] = e
          /\ \A i \in DOMAIN f : a[i] = f[i]
      <4> HIDE DEF e
      <4> QED BY <2>3, <3>1
    <3>3. \A i \in DOMAIN f : f[i].at < e.at
      <4>1. \A x \in Before(n - 1) : x.at < e.at
        BY <1>0, <2>1 DEF Ascending
      <4>2. \A i \in DOMAIN f : f[i] \in Elements(f)
        BY DEF Elements
      <4> HIDE DEF Before, e
      <4> QED BY <2>3, <4>1, <4>2
    <3> HIDE DEF a, e
    <3>4. Ascending(a)
      <4> SUFFICES ASSUME NEW i \in DOMAIN a, NEW j \in DOMAIN a, i < j
                   PROVE  a[i].at < a[j].at
        BY DEF Ascending
      <4>1. i \in DOMAIN f
        BY <3>2
      <4>2. CASE j \in DOMAIN f
        BY <2>3, <3>2, <4>1, <4>2 DEF Ascending
      <4>3. CASE j = Len(f) + 1
        BY <3>2, <3>3, <4>1, <4>3
      <4> QED BY <3>2, <4>2, <4>3
    <3>5. Elements(a) = Elements(f) \cup {e}
      BY <3>2 DEF Elements
    <3>6. Elements(a) = Before(n) \cap K
      <4> HIDE DEF Before
      <4> QED BY <2>3, <2>4, <2>6, <3>5 DEF e
    <3> QED BY <3>1, <3>2, <3>4, <3>6
  <2> QED BY <2>5, <2>6
<1>4. Right(L)
  <2> HIDE DEF Right
  <2> SUFFICES ASSUME ~Right(L) PROVE FALSE
    OBVIOUS
  <2>1. T \in SUBSET Nat /\ T # {}
    BY <1>0
  <2>2. PICK n \in T : \A m \in T : n <= m
    BY <2>1, LeastNumber
  <2>3. n # 0 /\ n \in 0..L /\ n - 1 \in 0..L /\ n - 1 \notin T
    BY <1>0, <1>2, <2>2
  <2> QED BY <1>3, <2>2, <2>3
<1>5. Elements(s) = Before(L)
  BY <1>0 DEF Elements
<1> QED BY <1>1, <1>4, <1>5

\* As many elements as places, and those before a place are the earlier ones.
LEMMA PlacesCount ==
  ASSUME NEW S, NEW s \in Seq(S), Ascending(s), \A x \in S : x.at \in Int
  PROVE  /\ IsFiniteSet(Elements(s)) /\ Cardinality(Elements(s)) = Len(s)
         /\ \A k \in DOMAIN s : /\ s[k] \in Elements(s)
                                /\ Cardinality({q \in Elements(s) : q.at < s[k].at}) = k - 1
<1>0. Len(s) \in Nat /\ DOMAIN s = 1..Len(s) /\ \A i \in DOMAIN s : s[i].at \in Int
  OBVIOUS
<1>1. ASSUME NEW n \in 0..Len(s)
      PROVE  LET E == {s[i] : i \in 1..n} IN IsFiniteSet(E) /\ Cardinality(E) = n
  <2> DEFINE E == {s[i] : i \in 1..n}
             f == [i \in 1..n |-> s[i]]
  <2>1. \A i, j \in 1..n : s[i] = s[j] => i = j
    BY <1>0 DEF Ascending
  <2>2. ExistsBijection(1..n, E)
    <3>1. f \in Bijection(1..n, E)
      BY <2>1 DEF Bijection, Injection, Surjection, IsInjective
    <3> QED BY <3>1 DEF ExistsBijection
  <2>3. IsFiniteSet(1..n) /\ Cardinality(1..n) = n
    BY FS_Interval
  <2> HIDE DEF E, f
  <2>4. IsFiniteSet(E) /\ Cardinality(E) = n
    BY <2>2, <2>3, FS_Bijection
  <2> QED BY <2>4 DEF E
<1>2. Elements(s) = {s[i] : i \in 1..Len(s)}
  BY <1>0 DEF Elements
<1>3. ASSUME NEW k \in DOMAIN s
      PROVE  s[k] \in Elements(s) /\ Cardinality({q \in Elements(s) : q.at < s[k].at}) = k - 1
  <2>1. {q \in Elements(s) : q.at < s[k].at} = {s[i] : i \in 1..(k - 1)}
    <3>1. \A i \in DOMAIN s : s[i].at < s[k].at <=> i \in 1..(k - 1)
      BY <1>0 DEF Ascending
    <3>2. 1..(k - 1) \subseteq DOMAIN s
      BY <1>0
    <3> QED BY <3>1, <3>2 DEF Elements
  <2>2. k - 1 \in 0..Len(s)
    BY <1>0
  <2> QED BY <1>1, <2>1, <2>2 DEF Elements
<1>4. Len(s) \in 0..Len(s)
  BY <1>0
<1> QED BY <1>1, <1>2, <1>3, <1>4

\* Rows in the order of time are the sequence that has them in that order.
LEMMA OrderedIs ==
  ASSUME NEW S, NEW s \in Seq(S), Ascending(s), \A x \in S : x.at \in Int
  PROVE  Ordered(Elements(s)) = s
<1> DEFINE E == Elements(s)
           At(k, p) == Cardinality({q \in E : q.at < p.at}) = k - 1
<1>1. /\ Cardinality(E) = Len(s) /\ Len(s) \in Nat /\ DOMAIN s = 1..Len(s)
      /\ \A k \in DOMAIN s : s[k] \in E /\ At(k, s[k])
  <2>1. /\ Cardinality(Elements(s)) = Len(s)
        /\ \A k \in DOMAIN s : /\ s[k] \in Elements(s)
                               /\ Cardinality({q \in Elements(s) : q.at < s[k].at}) = k - 1
    BY PlacesCount
  <2> QED BY <2>1
<1>2. ASSUME NEW k \in DOMAIN s, NEW p \in E, At(k, p)
      PROVE  p = s[k]
  <2>1. PICK j \in DOMAIN s : p = s[j]
    BY DEF Elements
  <2>2. At(j, s[j])
    BY <1>1
  <2>3. j - 1 = k - 1 /\ j \in Int /\ k \in Int
    BY <1>1, <1>2, <2>1, <2>2
  <2> QED BY <2>1, <2>3
<1>3. \A k \in DOMAIN s : (CHOOSE p \in E : At(k, p)) = s[k]
  <2> HIDE DEF At, E
  <2> QED BY <1>1, <1>2
<1>4. Ordered(E) = [k \in DOMAIN s |-> CHOOSE p \in E : At(k, p)]
  BY <1>1 DEF Ordered
<1>5. s = [k \in DOMAIN s |-> s[k]]
  OBVIOUS
<1> HIDE DEF At, E
<1> QED BY <1>3, <1>4, <1>5 DEF E

-----------------------------------------------------------------------------
(* The curve in memory and in the table *)

\* The types of what is kept in memory.
StoredTyped == points \in Seq(Points) /\ prunedAt \in 0..MaxTime /\ IsFiniteSet(rows)

\* Samples arrive in the order they were taken in, each after what was stored before it.
InOrder ==
  /\ \A i \in DOMAIN heartbeats :
       /\ heartbeats[i].at <= now
       /\ \A j \in DOMAIN heartbeats : i < j => heartbeats[i].at <= heartbeats[j].at
       /\ \A x \in Elements(points) : x.at <= heartbeats[i].at
  /\ \A x \in Elements(points) : x.at <= now

\* What memory holds of the database's last day is in the table.
PointsAreRows == \A x \in Elements(points) : x.at >= DatabaseNow - WINDOW => x \in rows

\* What memory lacks of the control plane's last day came before as many points as memory may hold.
MissingAreCovered ==
  \A r \in rows \ Elements(points) :
    r.at >= PanelNow - WINDOW => Len(points) = LIMIT /\ \A x \in Elements(points) : r.at < x.at

CurveInv ==
  /\ StoredTyped /\ Ascending(points) /\ InOrder /\ PointsAreRows /\ MissingAreCovered

\* The last elements of an ascending sequence are its latest, LIMIT of them if any is left
\* out.
LEMMA TrimmedAscends ==
  ASSUME NEW s \in Seq(Points), Ascending(s)
  PROVE  /\ Trimmed(s) \in Seq(Points) /\ Ascending(Trimmed(s))
         /\ Elements(Trimmed(s)) \subseteq Elements(s)
         /\ s # <<>> => s[Len(s)] \in Elements(Trimmed(s))
         /\ Len(Trimmed(s)) = Least(LIMIT, Len(s))
         /\ \A y \in Elements(s) \ Elements(Trimmed(s)) :
              Len(Trimmed(s)) = LIMIT /\ \A x \in Elements(Trimmed(s)) : y.at < x.at
<1> DEFINE L == Len(s)
           n == Least(LIMIT, L)
           d == L - n
           t == Trimmed(s)
<1>1. L \in Nat /\ LIMIT \in Nat \ {0} /\ DOMAIN s = 1..L
  BY MetricAssumption
<1>2. /\ n \in 0..L /\ n <= LIMIT
      /\ (L > LIMIT => n = LIMIT) /\ (L <= LIMIT => n = L) /\ (L > 0 => n > 0)
  <2> HIDE DEF L
  <2>1. CASE LIMIT < L
    BY <1>1, <2>1 DEF Least
  <2>2. CASE ~(LIMIT < L)
    BY <1>1, <2>2 DEF Least
  <2> QED BY <2>1, <2>2
<1> HIDE DEF L, n
<1>3. d \in 0..L /\ L - d = n /\ d + 1 \in 1..(L + 1) /\ L \in d..L /\ L - n + 1 = d + 1
  BY <1>1, <1>2
<1>4. t = SubSeq(s, d + 1, L)
  BY <1>3 DEF Trimmed, LastOf, n, L
<1> HIDE DEF d, t
<1>5. t \in Seq(Points) /\ Len(t) = n /\ DOMAIN t = 1..n /\ \A i \in 1..n : t[i] = s[d + i]
  <2> DEFINE m == d + 1
  <2>1. m \in 1..(L + 1) /\ L \in (m - 1)..L /\ L - m + 1 = n /\ m + n = L + 1
        /\ \A i \in 1..n : m + i - 1 = d + i
    BY <1>1, <1>2, <1>3
  <2> HIDE DEF m
  <2>2. /\ SubSeq(s, m, L) \in Seq(Points)
        /\ Len(SubSeq(s, m, L)) = IF m <= L THEN L - m + 1 ELSE 0
        /\ \A i \in 1..(L - m + 1) : SubSeq(s, m, L)[i] = s[m + i - 1]
    BY <2>1, SubSeqProperties DEF L
  <2>3. m <= L \/ n = 0
    BY <1>1, <1>2, <1>3, <2>1
  <2>4. t = SubSeq(s, m, L)
    BY <1>4 DEF m
  <2>5. t \in Seq(Points) /\ Len(t) = n /\ \A i \in 1..n : t[i] = s[d + i]
    BY <2>1, <2>2, <2>3, <2>4
  <2> QED BY <2>5
<1>6. \A i \in 1..n : d + i \in 1..L
  BY <1>1, <1>2, <1>3
<1>7. Ascending(t)
  <2> SUFFICES ASSUME NEW i \in 1..n, NEW j \in 1..n, i < j PROVE t[i].at < t[j].at
    BY <1>5 DEF Ascending
  <2>1. d + i \in DOMAIN s /\ d + j \in DOMAIN s /\ d + i < d + j
    BY <1>1, <1>2, <1>3, <1>6
  <2> QED BY <1>5, <2>1 DEF Ascending
<1>8. Elements(t) \subseteq Elements(s)
  BY <1>1, <1>5, <1>6 DEF Elements
<1>9. s # <<>> => s[L] \in Elements(t)
  <2> SUFFICES ASSUME s # <<>> PROVE s[L] \in Elements(t)
    OBVIOUS
  <2>1. L > 0
    BY <1>1 DEF L
  <2>2. n \in 1..n /\ d + n = L
    BY <1>1, <1>2, <1>3, <2>1
  <2> QED BY <1>5, <2>2 DEF Elements
<1>10. ASSUME NEW y \in Elements(s) \ Elements(t)
       PROVE  n = LIMIT /\ \A x \in Elements(t) : y.at < x.at
  <2>1. PICK k \in 1..L : y = s[k]
    BY <1>1 DEF Elements
  <2>2. k <= d
    <3> SUFFICES ASSUME k > d PROVE FALSE
      BY <1>3, <2>1
    <3> DEFINE i == k - d
    <3>1. i \in 1..n /\ d + i = k
      BY <1>1, <1>2, <1>3, <2>1
    <3> HIDE DEF i
    <3>2. y = t[i]
      BY <1>5, <2>1, <3>1
    <3> QED BY <1>5, <3>1, <3>2 DEF Elements
  <2>3. n = LIMIT
    BY <1>1, <1>2, <1>3, <2>1, <2>2
  <2>4. ASSUME NEW i \in 1..n
        PROVE  y.at < t[i].at
    <3>1. k \in DOMAIN s /\ d + i \in DOMAIN s /\ k < d + i
      BY <1>1, <1>2, <1>3, <1>6, <2>1, <2>2
    <3> QED BY <1>5, <2>1, <3>1 DEF Ascending
  <2>5. \A x \in Elements(t) : y.at < x.at
    BY <1>5, <2>4 DEF Elements
  <2> QED BY <2>3, <2>5
<1> QED BY <1>5, <1>7, <1>8, <1>9, <1>10 DEF n, L, t

\* An element more at the end of an ascending sequence.
LEMMA AppendAscends ==
  ASSUME NEW S, NEW s \in Seq(S), Ascending(s), NEW p \in S, \A x \in Elements(s) : x.at < p.at
  PROVE  /\ Append(s, p) \in Seq(S) /\ Ascending(Append(s, p))
         /\ Elements(Append(s, p)) = Elements(s) \cup {p}
         /\ Len(Append(s, p)) = Len(s) + 1 /\ Append(s, p) # <<>>
         /\ Append(s, p)[Len(Append(s, p))] = p
<1> DEFINE a == Append(s, p)
<1>1. /\ a \in Seq(S) /\ Len(s) \in Nat /\ DOMAIN s = 1..Len(s) /\ Len(a) = Len(s) + 1
      /\ DOMAIN a = DOMAIN s \cup {Len(s) + 1} /\ a[Len(s) + 1] = p /\ a # <<>>
      /\ \A i \in DOMAIN s : a[i] = s[i]
  OBVIOUS
<1> HIDE DEF a
<1>2. Ascending(a)
  <2> SUFFICES ASSUME NEW i \in DOMAIN a, NEW j \in DOMAIN a, i < j
               PROVE  a[i].at < a[j].at
    BY DEF Ascending
  <2>1. i \in DOMAIN s
    BY <1>1
  <2>2. CASE j \in DOMAIN s
    BY <1>1, <2>1, <2>2 DEF Ascending
  <2>3. CASE j = Len(s) + 1
    BY <1>1, <2>1, <2>3 DEF Elements
  <2> QED BY <1>1, <2>2, <2>3
<1>3. Elements(a) = Elements(s) \cup {p}
  BY <1>1 DEF Elements
<1> QED BY <1>1, <1>2, <1>3 DEF a

\* What the store does with the next sample keeps the curves together.
LEMMA ReceiveKeepsCurve ==
  ASSUME SampledTyped, CurveInv, ReceiveSample
  PROVE  CurveInv'
<1> DEFINE p == Head(heartbeats)
           K == {q \in Since(PanelNow - WINDOW) : q.at # p.at}
           kept == Kept(points, K)
           a == Append(kept, p)
<1>1. /\ heartbeats # <<>> /\ heartbeats \in Seq(Points) /\ p.at < now
      /\ heartbeats' = Tail(heartbeats) /\ points' = Trimmed(a) /\ now' = now
      /\ lead' = lead /\ dbLead' = dbLead
      /\ rows' = {q \in Upserted(p) : q.at >= DatabaseNow - WINDOW} \/ rows' = Upserted(p)
      /\ prunedAt' \in {now, prunedAt}
  BY DEF ReceiveSample, AppendMetrics, InMemory, clocks, SampledTyped
<1>2. /\ p = heartbeats[1] /\ p \in Points /\ 1 \in DOMAIN heartbeats
      /\ \A i \in DOMAIN Tail(heartbeats) :
           i + 1 \in DOMAIN heartbeats /\ 1 < i + 1 /\ Tail(heartbeats)[i] = heartbeats[i + 1]
                                       /\ i \in Nat
  BY <1>1
<1>3. /\ points \in Seq(Points) /\ Ascending(points) /\ rows \subseteq Points /\ IsFiniteSet(rows)
      /\ now \in Nat /\ WINDOW \in Nat /\ LIMIT \in Nat \ {0}
      /\ now \in 0..MaxTime /\ prunedAt \in 0..MaxTime
      /\ \A x \in Points : x.at \in Nat
      /\ PanelNow \in Int /\ DatabaseNow \in Int
  BY MetricAssumption
  DEF SampledTyped, CurveInv, StoredTyped, Points, PanelNow, DatabaseNow
<1>4. Elements(points) \subseteq Points
  BY <1>3 DEF Elements
<1>5. /\ \A x \in Elements(points) : x.at <= p.at /\ x.at <= now
      /\ \A i \in DOMAIN heartbeats :
           p.at <= heartbeats[i].at \/ ~(1 < i)
      /\ \A i \in DOMAIN heartbeats : heartbeats[i].at <= now
  BY <1>2 DEF CurveInv, InOrder
<1>6. \A x \in Points : x \in K <=> x.at >= PanelNow - WINDOW /\ x.at # p.at
  BY DEF Since
<1> HIDE DEF p, K, kept, a
<1>7. kept \in Seq(Points) /\ Ascending(kept) /\ Elements(kept) = Elements(points) \cap K
  BY <1>3, KeptAscends DEF kept
<1>8. \A x \in Elements(kept) : x.at < p.at
  BY <1>2, <1>3, <1>4, <1>5, <1>6, <1>7
<1>9. /\ a \in Seq(Points) /\ Ascending(a) /\ Elements(a) = Elements(kept) \cup {p}
      /\ Len(a) = Len(kept) + 1 /\ a # <<>> /\ a[Len(a)] = p
  BY <1>2, <1>7, <1>8, AppendAscends DEF a
<1>10. /\ points' \in Seq(Points) /\ Ascending(points') /\ Elements(points') \subseteq Elements(a)
       /\ p \in Elements(points') /\ Len(points') = Least(LIMIT, Len(a))
       /\ \A y \in Elements(a) \ Elements(points') :
            Len(points') = LIMIT /\ \A x \in Elements(points') : y.at < x.at
  BY <1>1, <1>9, TrimmedAscends
<1>11. /\ rows' \subseteq {q \in rows : q.at # p.at} \cup {p}
       /\ \A q \in rows : q.at # p.at /\ q.at >= DatabaseNow - WINDOW => q \in rows'
       /\ p.at >= DatabaseNow - WINDOW => p \in rows'
  BY <1>1 DEF Upserted
<1>12. StoredTyped'
  <2>1. IsFiniteSet(rows \cup {p})
    BY <1>3, FS_AddElement
  <2>2. IsFiniteSet(rows')
    BY <1>11, <2>1, FS_Subset
  <2>3. prunedAt' \in 0..MaxTime
    BY <1>1, <1>3
  <2> QED BY <1>10, <2>2, <2>3 DEF StoredTyped
<1>13. \A x \in Elements(points') : x = p \/ (x \in Elements(points) /\ x \in K)
  BY <1>7, <1>9, <1>10
<1>14. InOrder'
  <2>1. ASSUME NEW i \in DOMAIN heartbeats'
        PROVE  /\ heartbeats'[i].at <= now
               /\ \A j \in DOMAIN heartbeats' : i < j => heartbeats'[i].at <= heartbeats'[j].at
               /\ \A x \in Elements(points') : x.at <= heartbeats'[i].at
    <3>1. /\ i + 1 \in DOMAIN heartbeats /\ 1 < i + 1 /\ heartbeats'[i] = heartbeats[i + 1]
          /\ i \in Nat
      BY <1>1, <1>2
    <3>2. heartbeats'[i].at <= now
      BY <1>5, <3>1
    <3>3. ASSUME NEW j \in DOMAIN heartbeats', i < j
          PROVE  heartbeats'[i].at <= heartbeats'[j].at
      <4>1. /\ j + 1 \in DOMAIN heartbeats /\ i + 1 < j + 1
            /\ heartbeats'[j] = heartbeats[j + 1]
        BY <1>1, <1>2, <3>1, <3>3
      <4> QED BY <3>1, <4>1 DEF CurveInv, InOrder
    <3>4. ASSUME NEW x \in Elements(points')
          PROVE  x.at <= heartbeats'[i].at
      <4>1. CASE x = p
        BY <1>5, <3>1, <4>1
      <4>2. CASE x \in Elements(points)
        BY <3>1, <4>2 DEF CurveInv, InOrder
      <4> QED BY <1>13, <4>1, <4>2
    <3> QED BY <3>2, <3>3, <3>4
  <2>2. \A x \in Elements(points') : x.at <= now
    BY <1>1, <1>2, <1>3, <1>5, <1>13
  <2> QED BY <1>1, <2>1, <2>2 DEF InOrder
<1>15. PointsAreRows'
  <2>1. \A x \in Elements(points) : x.at >= DatabaseNow - WINDOW => x \in rows
    BY DEF CurveInv, PointsAreRows
  <2>2. \A x \in Elements(points') : x.at >= DatabaseNow - WINDOW => x \in rows'
    BY <1>4, <1>6, <1>11, <1>13, <2>1
  <2> QED BY <1>1, <2>2 DEF PointsAreRows, DatabaseNow
<1>16. ASSUME NEW r \in rows' \ Elements(points'), r.at >= PanelNow - WINDOW
       PROVE  Len(points') = LIMIT /\ \A x \in Elements(points') : r.at < x.at
  <2>1. r \in rows /\ r.at # p.at /\ r \in Points /\ r \in K
    BY <1>3, <1>6, <1>10, <1>11, <1>16
  <2>2. CASE r \in Elements(points)
    BY <1>7, <1>9, <1>10, <1>16, <2>1, <2>2
  <2>3. CASE r \notin Elements(points)
    <3>1. Len(points) = LIMIT /\ \A x \in Elements(points) : r.at < x.at
      BY <1>16, <2>1, <2>3 DEF CurveInv, MissingAreCovered
    <3> DEFINE z == points[LIMIT]
    <3>2. LIMIT \in DOMAIN points /\ z \in Elements(points)
      <4>1. DOMAIN points = 1..Len(points) /\ LIMIT \in 1..LIMIT
        BY <1>3
      <4> QED BY <3>1, <4>1 DEF Elements
    <3>3. r.at < p.at
      BY <1>2, <1>3, <1>4, <1>5, <2>1, <3>1, <3>2
    <3>4. \A x \in Elements(points') : r.at < x.at
      BY <1>13, <3>1, <3>3
    <3>5. Elements(points) \subseteq Elements(kept) \cup {z}
      <4> SUFFICES ASSUME NEW x \in Elements(points), x \notin Elements(kept)
                   PROVE  x = z
        OBVIOUS
      <4>1. x.at = p.at
        <5>1. x \in Points /\ r.at < x.at /\ x \notin K
          BY <1>4, <1>7, <3>1
        <5>2. x.at >= PanelNow - WINDOW
          BY <1>3, <1>16, <2>1, <5>1
        <5> QED BY <1>6, <5>1, <5>2
      <4>2. PICK i \in DOMAIN points : x = points[i]
        BY DEF Elements
      <4>3. i = LIMIT \/ i < LIMIT
        BY <1>3, <3>1
      <4>4. CASE i < LIMIT
        <5>1. x.at < z.at /\ z.at <= p.at
          BY <1>3, <1>5, <3>2, <4>2, <4>4 DEF Ascending
        <5>2. x.at \in Nat /\ z.at \in Nat /\ p.at \in Nat
          BY <1>2, <1>3, <1>4, <3>2
        <5> QED BY <4>1, <5>1, <5>2
      <4> QED BY <4>2, <4>3, <4>4
    <3> HIDE DEF z
    <3>6. LIMIT <= Len(kept) + 1
      <4>1. \A x \in Points : x.at \in Int
        BY <1>3
      <4>2. IsFiniteSet(Elements(kept)) /\ Cardinality(Elements(kept)) = Len(kept)
        BY <1>7, <4>1, PlacesCount
      <4>3. Cardinality(Elements(points)) = LIMIT
        BY <1>3, <3>1, <4>1, PlacesCount
      <4>4. /\ IsFiniteSet(Elements(kept) \cup {z})
            /\ Cardinality(Elements(kept) \cup {z}) <= Len(kept) + 1
        <5> DEFINE E == Elements(kept)
        <5>1. Len(kept) \in Nat /\ IsFiniteSet(E) /\ Cardinality(E) = Len(kept)
          BY <1>7, <4>2
        <5> HIDE DEF E
        <5>2. /\ IsFiniteSet(E \cup {z})
              /\ Cardinality(E \cup {z}) = IF z \in E THEN Cardinality(E) ELSE Cardinality(E) + 1
          BY <5>1, FS_AddElement
        <5>3. IsFiniteSet(E \cup {z}) /\ Cardinality(E \cup {z}) <= Len(kept) + 1
          BY <5>1, <5>2
        <5> QED BY <5>3 DEF E
      <4>5. Cardinality(Elements(points)) <= Cardinality(Elements(kept) \cup {z})
        BY <3>5, <4>4, FS_Subset
      <4>6. Cardinality(Elements(kept) \cup {z}) \in Nat /\ Len(kept) \in Nat
        BY <1>7, <4>4, FS_CardinalityType
      <4> QED BY <1>3, <4>3, <4>4, <4>5, <4>6
    <3>7. Len(points') = LIMIT
      <4>1. Len(kept) \in Nat
        BY <1>7
      <4>2. LIMIT <= Len(a) /\ Len(a) \in Nat
        BY <1>9, <3>6, <4>1
      <4> QED BY <1>3, <1>10, <4>2 DEF Least
    <3> QED BY <3>4, <3>7
  <2> QED BY <2>2, <2>3
<1>17. MissingAreCovered'
  BY <1>1, <1>16 DEF MissingAreCovered, PanelNow
<1> QED BY <1>10, <1>12, <1>14, <1>15, <1>17 DEF CurveInv

\* Both stores hold the same curve, as far as they must, whatever the clock, the agent and
\* its heartbeats do.
LEMMA CurveStep ==
  ASSUME SampledTyped, CurveInv, [MetricNext]_metricVars
  PROVE  CurveInv'
<1>0. /\ now \in Nat /\ WINDOW \in Nat /\ rows \subseteq Points /\ points \in Seq(Points)
      /\ lead \in Int /\ dbLead \in Int
      /\ \A x \in Points : x.at \in Nat
  BY MetricAssumption DEF SampledTyped, CurveInv, StoredTyped, Points
<1>1. Elements(points) \subseteq Points
  BY <1>0 DEF Elements
<1>2. CASE ClockTicks
  <2>1. now' = now + 1 /\ UNCHANGED <<lead, dbLead, heartbeats, points, rows, prunedAt>>
    BY <1>2 DEF ClockTicks, clocks, stored
  <2>2. ASSUME NEW x \in Points
        PROVE  /\ x.at >= DatabaseNow' - WINDOW => x.at >= DatabaseNow - WINDOW
               /\ x.at >= PanelNow' - WINDOW => x.at >= PanelNow - WINDOW
    BY <1>0, <2>1 DEF DatabaseNow, PanelNow
  <2>3. PointsAreRows'
    BY <1>1, <2>1, <2>2 DEF CurveInv, PointsAreRows
  <2>4. MissingAreCovered'
    BY <1>0, <2>1, <2>2 DEF CurveInv, MissingAreCovered
  <2>5. InOrder'
    <3>1. \A i \in DOMAIN heartbeats : heartbeats[i].at \in Nat
      <4>1. \A i \in DOMAIN heartbeats : heartbeats[i] \in Points
        BY DEF SampledTyped
      <4> QED BY <1>0, <4>1
    <3>2. \A x \in Elements(points) : x.at \in Nat
      BY <1>0, <1>1
    <3> QED BY <1>0, <2>1, <3>1, <3>2 DEF CurveInv, InOrder
  <2> QED BY <2>1, <2>3, <2>4, <2>5 DEF CurveInv, StoredTyped
<1>3. CASE Sample
  <2>1. UNCHANGED <<lead, dbLead, now, points, rows, prunedAt>>
    BY <1>3 DEF Sample, clocks, stored
  <2>2. PICK u \in Usages : heartbeats' = Append(heartbeats, [at |-> now, usage |-> u])
    BY <1>3 DEF Sample
  <2> DEFINE p == [at |-> now, usage |-> u]
             h == Append(heartbeats, p)
  <2>3. heartbeats' = h /\ p.at = now
    BY <2>2
  <2> HIDE DEF p
  <2>4. /\ DOMAIN h = DOMAIN heartbeats \cup {Len(heartbeats) + 1} /\ Len(heartbeats) \in Nat
        /\ \A i \in DOMAIN heartbeats : h[i] = heartbeats[i] /\ i \in 1..Len(heartbeats)
        /\ h[Len(heartbeats) + 1] = p
    BY DEF SampledTyped
  <2> HIDE DEF h
  <2>5. /\ \A i \in DOMAIN heartbeats :
             /\ heartbeats[i].at <= now
             /\ \A j \in DOMAIN heartbeats : i < j => heartbeats[i].at <= heartbeats[j].at
             /\ \A x \in Elements(points) : x.at <= heartbeats[i].at
        /\ \A x \in Elements(points) : x.at <= now
    BY DEF CurveInv, InOrder
  <2>6. ASSUME NEW i \in DOMAIN h
        PROVE  /\ h[i].at <= now
               /\ \A j \in DOMAIN h : i < j => h[i].at <= h[j].at
               /\ \A x \in Elements(points) : x.at <= h[i].at
    <3>1. CASE i \in DOMAIN heartbeats
      <4>1. ASSUME NEW j \in DOMAIN h, i < j
            PROVE  h[i].at <= h[j].at
        BY <2>3, <2>4, <2>5, <3>1, <4>1
      <4> QED BY <2>4, <2>5, <3>1, <4>1
    <3>2. CASE i = Len(heartbeats) + 1
      <4>1. \A j \in DOMAIN h : ~(i < j)
        BY <2>4, <3>2
      <4> QED BY <1>0, <2>3, <2>4, <2>5, <3>2, <4>1
    <3> QED BY <2>4, <3>1, <3>2
  <2>7. InOrder'
    BY <2>1, <2>3, <2>5, <2>6 DEF InOrder
  <2> QED BY <2>1, <2>7 DEF CurveInv, StoredTyped, PointsAreRows, MissingAreCovered, DatabaseNow,
                            PanelNow
<1>4. CASE AgentRestarts
  <2>1. /\ heartbeats' \in {heartbeats, <<>>}
        /\ UNCHANGED <<lead, dbLead, now, points, rows, prunedAt>>
    BY <1>4 DEF AgentRestarts, clocks, stored
  <2>2. InOrder'
    BY <2>1 DEF CurveInv, InOrder
  <2> QED BY <2>1, <2>2 DEF CurveInv, StoredTyped, PointsAreRows, MissingAreCovered, DatabaseNow,
                            PanelNow
<1>5. CASE UNCHANGED metricVars
  BY <1>5
  DEF metricVars, clocks, stored, CurveInv, StoredTyped, InOrder, PointsAreRows, MissingAreCovered,
      DatabaseNow, PanelNow
<1> QED BY <1>2, <1>3, <1>4, <1>5, ReceiveKeepsCurve DEF MetricNext

\* Any range that both stores keep: if the answer is not cut off, it is what memory holds.
LEMMA SameCurve ==
  ASSUME SampledTyped, CurveInv, NEW since \in Horizon..now,
         Cardinality(RowsSince(since)) <= LIMIT
  PROVE  PostgresCurve(since) = MemoryCurve(since)
<1> DEFINE m == MemoryCurve(since)
           A == RowsSince(since)
<1>1. /\ now \in Nat /\ WINDOW \in Nat /\ rows \subseteq Points /\ points \in Seq(Points)
      /\ Ascending(points) /\ IsFiniteSet(rows) /\ LIMIT \in Nat \ {0}
      /\ \A x \in Points : x.at \in Nat
  BY MetricAssumption DEF SampledTyped, CurveInv, StoredTyped, Points
<1>2. /\ Elements(points) \subseteq Points /\ since \in Int
      /\ since >= PanelNow - WINDOW /\ since >= DatabaseNow - WINDOW
      /\ PanelNow \in Int /\ DatabaseNow \in Int
  <2>1. now \in Int /\ lead \in Int /\ dbLead \in Int
    BY <1>1 DEF SampledTyped
  <2>2. PanelNow \in Int /\ DatabaseNow \in Int
    BY <2>1 DEF PanelNow, DatabaseNow
  <2>3. since \in Int /\ since >= PanelNow - WINDOW /\ since >= DatabaseNow - WINDOW
    BY <1>1, <2>1, HorizonIsLater
  <2> QED BY <1>1, <2>2, <2>3 DEF Elements
<1>3. m \in Seq(Points) /\ Ascending(m) /\ Elements(m) = Elements(points) \cap Since(since)
  BY <1>1, KeptAscends DEF MemoryCurve
<1>4. \A x \in Points : x.at >= since =>
        x.at >= PanelNow - WINDOW /\ x.at >= DatabaseNow - WINDOW
  BY <1>1, <1>2
<1>5. Elements(m) \subseteq A
  BY <1>2, <1>3, <1>4 DEF CurveInv, PointsAreRows, Since, RowsSince
<1>6. IsFiniteSet(A) /\ Cardinality(A) \in Nat
  <2>1. A \subseteq rows
    BY DEF RowsSince
  <2> HIDE DEF A
  <2> QED BY <1>1, <2>1, FS_Subset, FS_CardinalityType
<1>7. ASSUME NEW r \in A, r \notin Elements(m)
      PROVE  FALSE
  <2>1. r \in rows /\ r.at >= since /\ r \in Points /\ r \notin Elements(points)
    BY <1>1, <1>3, <1>7 DEF RowsSince, Since
  <2>2. Len(points) = LIMIT /\ \A x \in Elements(points) : r.at < x.at
    BY <1>4, <2>1 DEF CurveInv, MissingAreCovered
  <2>3. Elements(points) \subseteq A
    <3> SUFFICES ASSUME NEW x \in Elements(points) PROVE x \in A
      OBVIOUS
    <3>1. x \in Points /\ x.at >= since
      BY <1>1, <1>2, <2>1, <2>2
    <3> QED BY <1>4, <3>1 DEF CurveInv, PointsAreRows, RowsSince
  <2> HIDE DEF A
  <2>4. IsFiniteSet(Elements(points)) /\ Cardinality(Elements(points)) = LIMIT
    <3>1. \A x \in Points : x.at \in Int
      BY <1>1
    <3> QED BY <1>1, <2>2, <3>1, PlacesCount
  <2> DEFINE E == Elements(points)
  <2>5. IsFiniteSet(E) /\ Cardinality(E) = LIMIT /\ r \notin E /\ E \cup {r} \subseteq A
    BY <1>7, <2>1, <2>3, <2>4
  <2> HIDE DEF E
  <2>6. Cardinality(E \cup {r}) = LIMIT + 1
    BY <2>5, FS_AddElement
  <2>7. Cardinality(E \cup {r}) <= Cardinality(A)
    BY <1>6, <2>5, FS_Subset
  <2>8. Cardinality(A) <= LIMIT
    BY DEF A
  <2> QED BY <1>1, <1>6, <2>6, <2>7, <2>8
<1>8. A = Elements(m)
  BY <1>5, <1>7
<1>9. PostgresAnswer(since) = A
  <2> SUFFICES ASSUME NEW p \in A
               PROVE  Cardinality({q \in A : q.at < p.at}) < LIMIT
    BY DEF PostgresAnswer
  <2> DEFINE B == {q \in A : q.at < p.at}
  <2>1. B \subseteq A /\ p \notin B
    <3>1. p.at \in Nat
      BY <1>1 DEF RowsSince
    <3> QED BY <3>1
  <2>2. Cardinality(A) <= LIMIT
    OBVIOUS
  <2> HIDE DEF A, B
  <2>3. /\ Cardinality(B) <= Cardinality(A) /\ IsFiniteSet(B)
        /\ Cardinality(B) = Cardinality(A) => B = A
    BY <1>6, <2>1, FS_Subset
  <2>4. Cardinality(B) \in Nat
    BY <2>3, FS_CardinalityType
  <2>5. Cardinality(B) < LIMIT
    BY <1>1, <1>6, <2>1, <2>2, <2>3, <2>4
  <2> QED BY <2>5 DEF B
<1>10. Ordered(Elements(m)) = m
  <2>1. \A x \in Points : x.at \in Int
    BY <1>1
  <2> HIDE DEF m
  <2> QED BY <1>3, <2>1, OrderedIs
<1> HIDE DEF m, A
<1>11. PostgresCurve(since) = m
  BY <1>8, <1>9, <1>10 DEF PostgresCurve
<1> QED BY <1>11 DEF m

\* The invariants of the samples and of what is stored hold together.
LEMMA CurveInvariant == MetricSpec => [](MetricInv /\ CurveInv)
<1>1. MetricInit => CurveInv
  <2>1. /\ <<>> \in Seq(Points) /\ DOMAIN <<>> = {} /\ IsFiniteSet({})
    BY FS_EmptySet
  <2> QED BY <2>1, MetricAssumption
          DEF MetricInit, CurveInv, StoredTyped, Ascending, InOrder, PointsAreRows, Elements,
              MissingAreCovered
<1>2. MetricInv /\ CurveInv /\ [MetricNext]_metricVars => CurveInv'
  BY CurveStep DEF MetricInv
<1> QED BY <1>1, <1>2, MetricInvariant, PTL DEF MetricSpec

\* The curve keeps its types in both stores (types.ts, MetricPoint).
THEOREM MetricTypeCorrect == MetricSpec => []MetricTypeOK
<1>1. MetricInv /\ CurveInv => MetricTypeOK
  BY DEF MetricInv, CurveInv, SampledTyped, StoredTyped, MetricTypeOK
<1> QED BY <1>1, CurveInvariant, PTL

\* The panel shows the same curve with either store, whatever range of what both keep is
\* asked for and whatever the three clocks say, unless the range holds more points than an
\* answer may have: memory trims when it appends and PostgreSQL when it answers
\* (store.ts:55-68, 133-186).
THEOREM CurvesStayEqual == MetricSpec => []CurvesAgree
<1>1. MetricInv /\ CurveInv => CurvesAgree
  BY SameCurve DEF MetricInv, CurvesAgree
<1> QED BY <1>1, CurveInvariant, PTL
=============================================================================
