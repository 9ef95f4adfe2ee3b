------------------------------ MODULE ProxOpsBT ------------------------------
(***************************************************************************)
(* The tree for the proximity operations of Evolo: inspect a target for a  *)
(* time, else intercept it, else patrol for a time until it is found.  It  *)
(* starts and stops a backend that tracks the target.                      *)
(***************************************************************************)
EXTENDS ActionTree

CONSTANTS
    InspectTimeout,     \* timeout_s of the goals' inspect section, 0 for none
    PatrolTimeout,      \* and of their loiter_patrol section
    NotStarted          \* Python's None in a start time

ASSUME ProxOpsBTAssumption ==
    /\ InspectTimeout \in Nat /\ PatrolTimeout \in Nat
    /\ NotStarted \notin Nat

VARIABLES
    inspection_age,             \* the clock since _inspection_started_time_s
    patrol_age,                 \* the clock since _patrol_started_time_s
    inspection_stop_sent, patrol_stop_sent,
    backend,                    \* what the backend was last told, START or STOP
    patrol_timed_out,           \* the patrol ended the last goal (auxiliary)
    left                        \* since the inspection started another action ran (auxiliary)

proxOpsVars == <<inspection_age, patrol_age, inspection_stop_sent, patrol_stop_sent, backend,
                 patrol_timed_out, left>>

ProxOpsBranches == <<"inspect", "intercept", "loiter_patrol">>

ProxOpsInit ==
    /\ inspection_age = NotStarted /\ patrol_age = NotStarted
    /\ inspection_stop_sent = FALSE /\ patrol_stop_sent = FALSE
    /\ backend = "STOP"
    /\ patrol_timed_out = FALSE /\ left = FALSE

\* Mutant: the flags of what was sent stay.
ResetTimers ==
    /\ inspection_age' = NotStarted /\ patrol_age' = NotStarted
    /\ UNCHANGED <<inspection_stop_sent, patrol_stop_sent>>

\* _reset_states also forgets the last status of the backend: see the conditions.
ResetProxOps ==
    /\ inspection_age' = NotStarted /\ patrol_age' = NotStarted
    /\ inspection_stop_sent' = FALSE /\ patrol_stop_sent' = FALSE

----------------------------------------------------------------------------
(* The conditions.  Those on the backend's status find it fresh and fit, or not, at each   *)
(* look: a new one may have come, the last one may be too old or forgotten.                *)

InspectionTimedOut ==
    InspectTimeout > 0 /\ inspection_age # NotStarted /\ inspection_age >= InspectTimeout

PatrolTimedOut == PatrolTimeout > 0 /\ patrol_age # NotStarted /\ patrol_age > PatrolTimeout

\* _publish_backend_stop_reset_once
StopForInspection ==
    /\ inspection_stop_sent' = TRUE
    /\ backend' = IF inspection_stop_sent THEN backend ELSE "STOP"
    /\ UNCHANGED <<inspection_age, patrol_age, patrol_stop_sent>>

StopForPatrol ==
    /\ patrol_stop_sent' = TRUE
    /\ backend' = IF patrol_stop_sent THEN backend ELSE "STOP"
    /\ UNCHANGED <<inspection_age, patrol_age, inspection_stop_sent>>

KeepTimers ==
    UNCHANGED <<inspection_age, patrol_age, inspection_stop_sent, patrol_stop_sent, backend>>

Inspect ==
    \/ /\ InspectionTimedOut /\ PostHolds("inspect")
       /\ StopForInspection
       /\ UNCHANGED <<patrol_timed_out, left>>
    \/ ~InspectionTimedOut /\ PostFails("inspect") /\ UNCHANGED proxOpsVars
    \/ PreFails("inspect") /\ UNCHANGED proxOpsVars
    \/ /\ PreHolds("inspect")
       /\ IF inspection_age = NotStarted THEN inspection_age' = 0 /\ left' = FALSE
          ELSE UNCHANGED <<inspection_age, left>>
       /\ UNCHANGED <<patrol_age, inspection_stop_sent, patrol_stop_sent, backend,
                      patrol_timed_out>>

Intercept ==
    \/ (PostHolds("intercept") \/ PostFails("intercept") \/ PreFails("intercept"))
       /\ UNCHANGED proxOpsVars
    \/ /\ PreHolds("intercept")
       /\ inspection_age' = NotStarted /\ patrol_age' = NotStarted
       /\ UNCHANGED <<inspection_stop_sent, patrol_stop_sent, backend, patrol_timed_out, left>>

Patrol ==
    \/ (PostHolds("loiter_patrol") \/ PostFails("loiter_patrol")) /\ UNCHANGED proxOpsVars
    \/ /\ ~PatrolTimedOut /\ PreHolds("loiter_patrol")
       /\ patrol_age' = IF PatrolTimeout > 0 /\ patrol_age = NotStarted THEN 0 ELSE patrol_age
       /\ UNCHANGED <<inspection_age, inspection_stop_sent, patrol_stop_sent, backend,
                      patrol_timed_out, left>>
    \/ /\ PatrolTimedOut /\ PreFails("loiter_patrol")
       /\ StopForPatrol
       /\ UNCHANGED <<patrol_timed_out, left>>

\* _set_goal: a client that is neither ready nor busy looks for its server again.
SetProxOpsGoal(b) ==
    /\ At(b, "set")
    /\ IF client[b] \in {"READY", "BUSY"}
       THEN /\ Go(b, "act")
            /\ UNCHANGED <<order, root, leaf_status, client, owed, goal, outcome, user_failure>>
       ELSE \/ /\ client' = [client EXCEPT ![b] = "READY"] /\ Go(b, "act")
               /\ UNCHANGED <<order, root, leaf_status, owed, goal, outcome, user_failure>>
            \/ /\ client' = [client EXCEPT ![b] = "FAILED"] /\ Go(b, "failed")
               /\ UNCHANGED <<order, root, leaf_status, owed, goal, outcome, user_failure>>
    /\ left' = (left \/ (b # "inspect" /\ at' = <<b, "act">>))
    /\ KeepTimers /\ UNCHANGED patrol_timed_out

ProxOpsActEnds(b) ==
    /\ \/ At(b, "succeeded") /\ BranchHolds(b)
       \/ At(b, "failed") /\ BranchFails(b)
    /\ UNCHANGED proxOpsVars

----------------------------------------------------------------------------
(* The loop and its callbacks *)

ProxOpsLoopInner ==
    IF InspectionTimedOut
    THEN /\ LoopReturns("success")
         /\ inspection_age' = NotStarted /\ patrol_age' = NotStarted
         /\ inspection_stop_sent' = FALSE /\ patrol_stop_sent' = FALSE
         /\ backend' = IF inspection_stop_sent THEN backend ELSE "STOP"
         /\ UNCHANGED <<patrol_timed_out, left>>
    ELSE IF root = "FAILURE" \/ PatrolTimedOut
    THEN /\ LoopReturns("failure")
         /\ ResetProxOps
         /\ backend' = IF PatrolTimedOut /\ ~patrol_stop_sent THEN "STOP" ELSE backend
         /\ patrol_timed_out' = PatrolTimedOut
         /\ UNCHANGED left
    ELSE LoopReturns("running") /\ UNCHANGED proxOpsVars

OnProxOpsGoal ==
    /\ \E accepted \in BOOLEAN : GoalReceived(accepted)
    /\ ResetProxOps
    /\ UNCHANGED <<backend, patrol_timed_out, left>>

OnProxOpsCancel ==
    /\ CancelReceived
    /\ ResetProxOps
    /\ UNCHANGED <<backend, patrol_timed_out, left>>

\* A start time is tested and then read: a cancel in between leaves None to subtract from,
\* and the loop raises.
CancelBetweenReads ==
    /\ \/ At("inspect", "post") /\ inspection_age # NotStarted
       \/ At("loiter_patrol", "pre") /\ patrol_age # NotStarted
       \/ LoopAt("ticked") /\ (inspection_age # NotStarted \/ patrol_age # NotStarted)
    /\ goal = "executing"
    /\ goal' = "asked" /\ at' = <<NoBranch, "raised">>
    /\ ResetLeaves /\ ResetProxOps
    /\ UNCHANGED <<order, root, leaf_status, owed, outcome, user_failure, backend,
                   patrol_timed_out, left>>

Raised ==
    /\ LoopRaised
    /\ patrol_timed_out' = FALSE
    /\ UNCHANGED left
    /\ KeepTimers

\* prepare_loop tells the backend to reset and to start.
PrepareProxOps ==
    /\ Prepare /\ ResetProxOps
    /\ backend' = "START"
    /\ patrol_timed_out' = FALSE /\ left' = FALSE

Clock ==
    /\ \/ inspection_age # NotStarted /\ inspection_age < InspectTimeout
       \/ patrol_age # NotStarted /\ patrol_age <= PatrolTimeout
    /\ inspection_age' = IF inspection_age = NotStarted \/ inspection_age = InspectTimeout
                         THEN inspection_age ELSE inspection_age + 1
    /\ patrol_age' = IF patrol_age = NotStarted \/ patrol_age > PatrolTimeout
                     THEN patrol_age ELSE patrol_age + 1
    /\ UNCHANGED <<treeVars, inspection_stop_sent, patrol_stop_sent, backend, patrol_timed_out,
                   left>>

ProxOpsNext ==
    \/ TreeSteps /\ UNCHANGED proxOpsVars
    \/ Clock \/ Inspect \/ Intercept \/ Patrol
    \/ \E b \in Branches : SetProxOpsGoal(b) \/ ProxOpsActEnds(b)
    \/ OnProxOpsGoal \/ OnProxOpsCancel \/ CancelBetweenReads
    \/ PrepareProxOps \/ ProxOpsLoopInner \/ Raised

ProxOpsSpec == TreeInit(ProxOpsBranches) /\ ProxOpsInit /\ [][ProxOpsNext]_<<treeVars, proxOpsVars>>

----------------------------------------------------------------------------
(* Properties *)

ProxOpsTypeOK ==
    /\ inspection_age \in (0 .. InspectTimeout) \cup {NotStarted}
    /\ patrol_age \in (0 .. PatrolTimeout + 1) \cup {NotStarted}
    /\ inspection_stop_sent \in BOOLEAN /\ patrol_stop_sent \in BOOLEAN
    /\ backend \in {"START", "STOP"}

\* A goal that a timeout has ended, of the inspection or of the patrol, leaves the backend
\* stopped, although the command is sent once only and the timers can be reset meanwhile.
TimeoutsStopTheBackend ==
    goal = "none" /\ (outcome = "success" \/ patrol_timed_out) => backend = "STOP"

\* What the comment of _loop_inner calls the only measure of success: the target was inspected
\* for the time asked for, and nothing else was done meanwhile.
InspectedLongEnough == outcome = "success" => ~left
=============================================================================
