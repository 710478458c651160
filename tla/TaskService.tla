---------------------------- MODULE TaskService -----------------------------
(***************************************************************************)
(* What task delivery promises, without connections, queues or retries: an *)
(* accepted task stays open until it is settled; success is only announced *)
(* for work that was carried out; and a task is carried out at most once   *)
(* in each life of the agent process ("at-least-once without duplicating a *)
(* completed operation", docs/decisions/0001-task-delivery.md).            *)
(***************************************************************************)
EXTENDS Integers

CONSTANT Tasks

VARIABLES
  outcome,   \* what the panel shows of each task
  done,      \* how often each task was carried out
  lives      \* agent processes that have ended

vars == <<outcome, done, lives>>

Init ==
  /\ outcome = [t \in Tasks |-> "none"]
  /\ done = [t \in Tasks |-> 0]
  /\ lives = 0

Accept(t) ==
  /\ outcome[t] = "none"
  /\ outcome' = [outcome EXCEPT ![t] = "open"]
  /\ UNCHANGED <<done, lives>>

Perform(t) ==
  /\ outcome[t] # "none"
  /\ done[t] <= lives
  /\ done' = [done EXCEPT ![t] = @ + 1]
  /\ UNCHANGED <<outcome, lives>>

Succeed(t) ==
  /\ outcome[t] = "open"
  /\ done[t] > 0
  /\ outcome' = [outcome EXCEPT ![t] = "succeeded"]
  /\ UNCHANGED <<done, lives>>

\* A failure, or a sweep that gives up several tasks at once.
GiveUp(S) ==
  /\ \A t \in S : outcome[t] = "open"
  /\ outcome' = [t \in Tasks |-> IF t \in S THEN "failed" ELSE outcome[t]]
  /\ UNCHANGED <<done, lives>>

\* A repeated acknowledgement opens a settled task again.
Reopen(t) ==
  /\ outcome[t] \in {"succeeded", "failed"}
  /\ outcome' = [outcome EXCEPT ![t] = "open"]
  /\ UNCHANGED <<done, lives>>

EndLife ==
  /\ lives' = lives + 1
  /\ UNCHANGED <<outcome, done>>

Next ==
  \/ \E t \in Tasks : Accept(t) \/ Perform(t) \/ Succeed(t) \/ Reopen(t)
  \/ \E S \in SUBSET Tasks : GiveUp(S)
  \/ EndLife

Spec == Init /\ [][Next]_vars
=============================================================================
