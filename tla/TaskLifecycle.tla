--------------------------- MODULE TaskLifecycle ---------------------------
(***************************************************************************)
(* What the tasks table promises its readers, whoever writes it: a task    *)
(* moves along ALLOWED_TRANSITIONS only, and every change of its state is  *)
(* recorded by exactly one audit event, written in the same transaction.   *)
(* IngestionTasks implements this specification.                           *)
(***************************************************************************)
EXTENDS Naturals

CONSTANT Tasks

VARIABLES
    state,    \* state[t]: the task's TaskState
    events    \* events[t]: audit events that record a change of t's state

vars == <<state, events>>

TaskState == {"queued", "running", "succeeded", "failed"}

Terminal == {"succeeded", "failed"}

ALLOWED_TRANSITIONS ==
    [s \in TaskState |->
        CASE s = "queued"  -> {"running", "failed"}
          [] s = "running" -> {"succeeded", "failed"}
          [] OTHER         -> {}]

TypeOK ==
    /\ state \in [Tasks -> TaskState]
    /\ events \in [Tasks -> Nat]

Init ==
    /\ state = [t \in Tasks |-> "queued"]
    /\ events = [t \in Tasks |-> 0]

\* transition_task followed by the audited UPDATE of the row.
Transition(t, target) ==
    /\ target \in ALLOWED_TRANSITIONS[state[t]]
    /\ state' = [state EXCEPT ![t] = target]
    /\ events' = [events EXCEPT ![t] = @ + 1]

Next == \E t \in Tasks : \E target \in TaskState : Transition(t, target)

Spec == Init /\ [][Next]_vars
=============================================================================
