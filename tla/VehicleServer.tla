---------------------------- MODULE VehicleServer ----------------------------
(***************************************************************************)
(* What the code of one vehicle action sees of SMARCActionServer, which    *)
(* ActionServer models in full: a goal request, a cancel request and the   *)
(* execution of each goal run in threads of their own.  Here a goal        *)
(* request comes once the one before has been handed over to its           *)
(* execution, so the execution of a goal that is canceling may still       *)
(* overlap with the next goal.                                             *)
(***************************************************************************)
CONSTANT Goals

VARIABLES
    handle,         \* goal -> status of its goal handle
    base,           \* _base_goal_handle, as a set of at most one goal
    cancel_due,     \* goals whose cancel callback has run and is not yet answered
    execution       \* goal -> what its execution callback does next

handleVars == <<handle, base, cancel_due, execution>>

Cancelable == {"ACCEPTED", "EXECUTING"}
LiveStatus       == Cancelable \cup {"CANCELING"}

ServerInit ==
    /\ handle = [g \in Goals |-> "UNKNOWN"]
    /\ base = {} /\ cancel_due = {}
    /\ execution = [g \in Goals |-> "none"]

LiveGoals    == {g \in Goals : handle[g] \in LiveStatus}
IsValidGoal  == \E g \in base : handle[g] \in Cancelable
AllHandedOver == \A g \in LiveGoals : execution[g] # "none"

\* _wrap_goal_callback: the callback of the action runs only while no valid goal is there.
TakeGoal(g, accepted) ==
    /\ handle[g] = "UNKNOWN" /\ AllHandedOver
    /\ ~IsValidGoal
    /\ handle' = [handle EXCEPT ![g] = IF accepted THEN "ACCEPTED" ELSE "REJECTED"]
    /\ UNCHANGED <<base, cancel_due, execution>>

RejectGoal(g) ==
    /\ handle[g] = "UNKNOWN" /\ AllHandedOver
    /\ IsValidGoal
    /\ handle' = [handle EXCEPT ![g] = "REJECTED"]
    /\ UNCHANGED <<base, cancel_due, execution>>

\* _handle_accepted_callback: a cancel accepted before the lock section aborts the goal;
\* one accepted after it leaves the goal to its execution.
HandOver(g) ==
    /\ g \in LiveGoals /\ execution[g] = "none"
    /\ base' = {g}
    /\ \/ /\ execution' = [execution EXCEPT ![g] = "start"]
          /\ handle' = [handle EXCEPT ![g] = IF @ = "ACCEPTED" THEN "EXECUTING" ELSE @]
       \/ /\ handle[g] = "CANCELING"
          /\ execution' = [execution EXCEPT ![g] = "over"]
          /\ handle' = [handle EXCEPT ![g] = "ABORTED"]
    /\ UNCHANGED cancel_due

\* The callback of the action runs first, and agrees; rclpy makes the goal canceling later.
TakeCancel(g) ==
    /\ handle[g] \in Cancelable /\ g \notin cancel_due
    /\ cancel_due' = cancel_due \cup {g}
    /\ UNCHANGED <<handle, base, execution>>

AcceptCancel(g) ==
    /\ g \in cancel_due
    /\ cancel_due' = cancel_due \ {g}
    /\ handle' = [handle EXCEPT ![g] = IF @ \in Cancelable THEN "CANCELING" ELSE @]
    /\ UNCHANGED <<base, execution>>

Advance(g, from, to) ==
    /\ execution[g] = from
    /\ execution' = [execution EXCEPT ![g] = to]
    /\ UNCHANGED <<handle, base, cancel_due>>

\* The execution callback makes the goal "to", legal in the statuses "legal", and is over;
\* rclpy aborts a goal that is still live then.
EndExecution(g, legal, to) ==
    /\ execution' = [execution EXCEPT ![g] = "over"]
    /\ handle' = [handle EXCEPT ![g] =
                    IF @ \in legal THEN to ELSE IF @ \in LiveStatus THEN "ABORTED" ELSE @]
    /\ UNCHANGED <<base, cancel_due>>

ServerTypeOK ==
    /\ handle \in [Goals -> LiveStatus \cup
                            {"UNKNOWN", "REJECTED", "SUCCEEDED", "ABORTED", "CANCELED"}]
    /\ base \subseteq Goals /\ cancel_due \subseteq Goals
    /\ execution \in [Goals -> {"none", "start", "points", "test", "inner", "target", "over"}]
=============================================================================
