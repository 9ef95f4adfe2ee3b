---------------------------- MODULE ActionProtocol ----------------------------
(***************************************************************************)
(* One action of the behaviour tree end to end: an A_ActionClient leaf,    *)
(* ticked, preempted and rebuilt as the tree pleases, the BTActionClient   *)
(* it drives, and the GentlerActionServer that runs the goals.             *)
(***************************************************************************)
EXTENDS ActionServer, ActionClient

ASSUME ActionProtocolAssumption == Goals \subseteq Nat \ {0}

VARIABLES
    leaf,               \* py_trees status of the A_ActionClient leaf
    goal_started,       \* _goal_start_time is set
    sent,               \* goals sent so far; goals are numbered in that order
    abandoned           \* auxiliary: a goal was ever sent before the earlier ones were settled

leafVars == <<leaf, goal_started, sent, abandoned>>
apVars   == <<channels, serverVars, clientVars, leafVars>>

LeafInit ==
    /\ leaf = "INVALID"
    /\ goal_started = FALSE
    /\ sent = 0
    /\ abandoned = FALSE

ProtocolInit == Init /\ ClientInit /\ LeafInit

LeafOK ==
    /\ leaf \in {"INVALID", "RUNNING", "SUCCESS", "FAILURE"}
    /\ goal_started \in BOOLEAN
    /\ sent \in Nat
    /\ abandoned \in BOOLEAN

----------------------------------------------------------------------------
(* The callbacks of the client's node *)

Callback ==
    /\ \/ \E m \in goal_responses : GoalResponse(m)
       \/ \E g \in feedbacks : Feedback(g)
       \/ \E m \in cancel_responses : CancelResponse(m)
       \/ \E g \in Goals : result[g] # None /\ ResultCallback(g, result[g] = "success", status[g] = "CANCELED")
    /\ UNCHANGED <<serverVars, leafVars>>

----------------------------------------------------------------------------
(* A_ActionClient.  A tick of a leaf that is not RUNNING calls initialise, which     *)
(* forgets the start time and cancels a goal still under way, and then update; a     *)
(* tick that ends the leaf calls terminate, which makes the client READY.  The task  *)
(* handler calls of the leaf are in the module TaskHandler.                          *)

\* A FAILURE leaf is stopped (Halt) before its sequence ticks it again.
Ticked == leaf # "FAILURE"

GoalStarted == leaf = "RUNNING" /\ goal_started

\* initialise finds the client in a running state; update then only reports.
InitialiseBusy ==
    /\ leaf \in {"INVALID", "SUCCESS"}
    /\ state \in RunningStates
    /\ SendCancelOfHandle
    /\ state' = StateAfterCancel
    /\ leaf' = "RUNNING"
    /\ goal_started' = FALSE
    /\ UNCHANGED <<goal_requests, goal_responses, cancel_responses, feedbacks,
                   serverVars, goal_handle, wanted_results, settled, sent, abandoned>>

\* update in READY: the task's params, or the emergency's level, go out as a goal.
TickReady ==
    /\ Ticked
    /\ state = "READY"
    /\ sent + 1 \in Goals
    /\ sent' = sent + 1
    /\ RequestGoal(sent')
    /\ state' = "SENT"
    /\ leaf' = "RUNNING"
    /\ goal_started' = TRUE
    /\ abandoned' = (abandoned \/ ~(1 .. sent \subseteq settled))
    /\ UNCHANGED <<goal_handle, wanted_results, settled>>

\* The task's timeout: cancel, FAILURE, terminate.
TickTimeout ==
    /\ GoalStarted
    /\ state \in RunningStates
    /\ SendCancelOfHandle
    /\ state' = "READY"
    /\ leaf' = "FAILURE"
    /\ UNCHANGED <<goal_requests, goal_responses, cancel_responses, feedbacks,
                   serverVars, goal_handle, wanted_results, settled, goal_started, sent, abandoned>>

TickCancelled ==
    /\ Ticked
    /\ state = "CANCELLED"
    /\ state' = "READY"
    /\ leaf' = "RUNNING"
    /\ goal_started' = GoalStarted
    /\ UNCHANGED <<channels, serverVars, goal_handle, wanted_results, settled, sent, abandoned>>

TickFailed ==
    /\ Ticked
    /\ state \in {"DISCONNECTED", "ERROR", "REJECTED"}
    /\ state' = "READY"
    /\ leaf' = "FAILURE"
    /\ goal_started' = GoalStarted
    /\ UNCHANGED <<channels, serverVars, goal_handle, wanted_results, settled, sent, abandoned>>

TickDone ==
    /\ Ticked
    /\ state = "DONE"
    /\ state' = "READY"
    /\ leaf' = "SUCCESS"
    /\ goal_started' = GoalStarted
    /\ UNCHANGED <<channels, serverVars, goal_handle, wanted_results, settled, sent, abandoned>>

\* terminate(INVALID): something before the leaf in the tree failed or took over.
Halt ==
    /\ leaf # "INVALID"
    /\ IF state \in RunningStates THEN SendCancelOfHandle ELSE UNCHANGED <<cancel_requests, calls>>
    /\ state' = "READY"
    /\ leaf' = "INVALID"
    /\ UNCHANGED <<goal_requests, goal_responses, cancel_responses, feedbacks,
                   serverVars, goal_handle, wanted_results, settled, goal_started, sent, abandoned>>

\* The tree is built, or rebuilt around the same client by _update_task_handler_tree:
\* a new leaf, and _setup; the old leaf is not stopped.
Rebuild ==
    /\ leaf' = "INVALID"
    /\ goal_started' = FALSE
    /\ \E found \in BOOLEAN : state' = StateAfterSetup(found)
    /\ UNCHANGED <<channels, serverVars, goal_handle, wanted_results, settled, sent, abandoned>>

Tick == InitialiseBusy \/ TickReady \/ TickTimeout \/ TickCancelled \/ TickFailed \/ TickDone

ClientStep == Callback \/ Tick \/ Halt \/ Rebuild

----------------------------------------------------------------------------
Unmoved == UNCHANGED <<clientVars, leafVars>>

ProtocolNext == (ServerNext /\ Unmoved) \/ ClientStep

ProtocolSpec == ProtocolInit /\ [][ProtocolNext]_apVars

\* The server's threads run, what was sent arrives and is called back, the tree ticks.
ProtocolFairness ==
    /\ WF_apVars(CancelThread /\ Unmoved)
    /\ \A g \in Goals : WF_apVars(RequestThread(g) /\ Unmoved) /\ WF_apVars(LoopThread(g) /\ Unmoved)
    /\ WF_apVars(Callback)
    /\ WF_apVars(Tick)

FairProtocolSpec == ProtocolSpec /\ ProtocolFairness

----------------------------------------------------------------------------
(* Properties *)

\* Every variable of the leaf, the client and the server has its type.
ProtocolTypeOK == TypeOK /\ ClientTypeOK /\ LeafOK

\* A tree that waits for the outcome of a goal before it sends the next is told the
\* truth: the client is DONE only if the goal it sent last succeeded.
PatientClientIsDoneTruly ==
    ~abandoned /\ state = "DONE" => sent \in Goals /\ status[sent] = "SUCCEEDED"

\* ... and has the server to itself: its requests never overlap and one loop runs.
PatientClientIsAlone == ~abandoned => ~overlapped /\ OneGoalAtATime

\* The outcome of the goal sent last reaches the client, once its feedback has.
Untold == ~abandoned /\ sent \in Goals \ settled /\ result[sent] # None /\ feedbacks = {}

OutcomeIsTold == Untold ~> (abandoned \/ state \notin {"SENT", "ACCEPTED", "RUNNING"})

\* What initialise says ("if previously running, get the client ready for a new run"):
\* a client whose old goal is being cancelled does not stay that way.
CancellingEnds == (state = "CANCELLING") ~> (state # "CANCELLING")

=============================================================================
