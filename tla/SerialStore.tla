---------------------------- MODULE SerialStore ----------------------------
(***************************************************************************)
(* What the control plane expects of its store (apps/api/src/store.ts):    *)
(* the changes are applied one after the other, each at most once, and one *)
(* that was acknowledged is never lost.  A change that was refused, or     *)
(* never answered, may have been applied all the same.                     *)
(***************************************************************************)
EXTENDS Integers, Sequences

CONSTANT Changes

VARIABLES
  log,    \* the changes that make up the state, in the order of their effects
  answer  \* to the caller of each change: none yet, ok, error

SerialInit == log = <<>> /\ answer = [c \in Changes |-> "none"]

Applied(c) == \E n \in DOMAIN log : log[n] = c
Apply(c) == ~Applied(c) /\ log' = Append(log, c)
Answered(cs, a) == answer' = [c \in Changes |-> IF c \in cs THEN a ELSE answer[c]]

Acknowledge(c) == answer[c] = "none" /\ Apply(c) /\ Answered({c}, "ok")
Reject(c) == answer[c] = "none" /\ Answered({c}, "error") /\ UNCHANGED log

\* The store was restarted: some callers get no answer, and one change that was not
\* acknowledged may have been applied.
Recover ==
  /\ \E cs \in SUBSET {c \in Changes : answer[c] = "none"} : Answered(cs, "error")
  /\ \/ UNCHANGED log
     \/ \E c \in Changes : answer'[c] # "ok" /\ Apply(c)

SerialNext == Recover \/ \E c \in Changes : Acknowledge(c) \/ Reject(c)

SerialSpec == SerialInit /\ [][SerialNext]_<<log, answer>>
=============================================================================
