----------------------------- MODULE ActionClient -----------------------------
(***************************************************************************)
(* BTActionClient on SMARCActionClient: one state, one goal handle, and    *)
(* the callbacks rclpy runs when something arrives from the action server. *)
(* The node of the behaviour tree has one thread: each callback and each   *)
(* call from the tree is one step.  No callback asks which goal it is for. *)
(***************************************************************************)
EXTENDS ActionChannels

VARIABLES
    state,              \* ActionClientState
    goal_handle,        \* _goal_handle: the goal of the last goal response
    wanted_results,     \* goals whose result was asked for and has not come
    settled             \* auxiliary: goals whose rejection or result has come

clientVars == <<state, goal_handle, wanted_results, settled>>

ActionClientState == {"DISCONNECTED", "READY", "SENT", "ACCEPTED", "REJECTED",
                      "RUNNING", "DONE", "CANCELLED", "CANCELLING", "ERROR"}

\* A_ActionClient._running_states, and preserve_state of _setup.
RunningStates == {"SENT", "ACCEPTED", "RUNNING", "CANCELLING"}

ClientInit ==
    /\ state = "DISCONNECTED"
    /\ goal_handle = None
    /\ wanted_results = {}
    /\ settled = {}

ClientTypeOK ==
    /\ state \in ActionClientState
    /\ goal_handle \in Goals \cup {None}
    /\ wanted_results \subseteq Goals
    /\ settled \subseteq Goals

----------------------------------------------------------------------------
(* Callbacks *)

\* Mutant: the result is not asked for.
GoalResponseOnly(m) ==
    /\ m \in goal_responses
    /\ goal_responses' = goal_responses \ {m}
    /\ goal_handle' = m.goal
    /\ state' = IF m.accepted THEN "ACCEPTED" ELSE "REJECTED"
    /\ settled' = IF m.accepted THEN settled ELSE settled \cup {m.goal}
    /\ UNCHANGED <<wanted_results, goal_requests, cancel_requests, cancel_responses, feedbacks, calls>>

\* _wrap_goal_response_callback; an accepted goal's result is asked for.
GoalResponse(m) ==
    /\ m \in goal_responses
    /\ goal_responses' = goal_responses \ {m}
    /\ goal_handle' = m.goal
    /\ IF m.accepted
       THEN /\ state' = "ACCEPTED"
            /\ wanted_results' = wanted_results \cup {m.goal}
            /\ UNCHANGED settled
       ELSE /\ state' = "REJECTED"
            /\ settled' = settled \cup {m.goal}
            /\ UNCHANGED wanted_results
    /\ UNCHANGED <<goal_requests, cancel_requests, cancel_responses, feedbacks, calls>>

\* Mutant: any result that is not a failure counts as success.
OutcomeBlind(success, canceled) == IF canceled THEN "CANCELLED" ELSE "DONE"

\* Mutant: the server's spelling of the status.
OutcomeMisspelt(success, canceled) ==
    IF success THEN "DONE" ELSE IF canceled THEN "CANCELED" ELSE "ERROR"

\* result_callback of BTActionClient.
Outcome(success, canceled) ==
    IF success THEN "DONE" ELSE IF canceled THEN "CANCELLED" ELSE "ERROR"

ResultCallback(g, success, canceled) ==
    /\ g \in wanted_results
    /\ wanted_results' = wanted_results \ {g}
    /\ state' = Outcome(success, canceled)
    /\ settled' = settled \cup {g}
    /\ UNCHANGED <<goal_handle, channels>>

Feedback(g) ==
    /\ g \in feedbacks
    /\ feedbacks' = feedbacks \ {g}
    /\ state' = "RUNNING"
    /\ UNCHANGED <<goal_handle, wanted_results, settled,
                   goal_requests, goal_responses, cancel_requests, cancel_responses, calls>>

\* A cancel that no goal obeys leaves the state as it is.
CancelResponse(m) ==
    /\ m \in cancel_responses
    /\ cancel_responses' = cancel_responses \ {m}
    /\ state' = IF m.canceling THEN "CANCELLED" ELSE state
    /\ UNCHANGED <<goal_handle, wanted_results, settled,
                   goal_requests, goal_responses, cancel_requests, feedbacks, calls>>

----------------------------------------------------------------------------
(* Calls from the tree: what they send, and the state they leave *)

\* cancel_goal: nothing is sent while there is no handle.
SendCancelOfHandle ==
    IF goal_handle # None THEN SendCancel(goal_handle) ELSE UNCHANGED <<cancel_requests, calls>>

StateAfterCancel == IF goal_handle # None THEN "CANCELLING" ELSE state

\* _setup: wait_for_server, then READY or DISCONNECTED unless a goal is under way.
StateAfterSetup(found) ==
    IF state \in RunningStates THEN state ELSE IF found THEN "READY" ELSE "DISCONNECTED"

=============================================================================
