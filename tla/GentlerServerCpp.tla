--------------------------- MODULE GentlerServerCpp ---------------------------
(***************************************************************************)
(* The C++ action server: the main thread spins the node and later shuts   *)
(* the server down, an execution thread runs the loop of one goal, and a   *)
(* new goal takes the place of the one before it.                          *)
(*                                                                         *)
(* spin_with_graceful_shutdown executes one callback at a time on the main *)
(* thread and calls request_shutdown there, so the callbacks and the       *)
(* shutdown follow one another; the execution thread steps in between.     *)
(* rclcpp (external) makes a goal executing before handle_accepted, and    *)
(* refuses illegal goal transitions by throwing.                           *)
(***************************************************************************)
EXTENDS Naturals

CONSTANTS
    Goals,
    PreemptActiveGoal,  \* config_.preempt_active_goal
    None

ASSUME GentlerServerCppAssumption == PreemptActiveGoal \in BOOLEAN /\ None \notin Goals

VARIABLES
    status,             \* goal -> state of its goal handle
    result,             \* goal -> what its result says
    main,               \* what the main thread is at: [at, goal]
    loop,               \* goal -> where its execution is
    verdict,            \* what loop_inner_ last returned
    active,             \* active_goal_handle_
    stop_requested,
    terminated          \* an exception left the execution thread: the process is gone

cppVars == <<status, result, main, loop, verdict, active, stop_requested, terminated>>

Active   == {"EXECUTING", "CANCELING"}
Terminal == {"SUCCEEDED", "ABORTED", "CANCELED"}
Idle     == [at |-> "spin", goal |-> None]
LoopDone == {"none", "done"}

CppInit ==
    /\ status = [g \in Goals |-> "UNKNOWN"]
    /\ result = [g \in Goals |-> None]
    /\ main = Idle
    /\ loop = [g \in Goals |-> "none"]
    /\ verdict = "RUNNING"
    /\ active = None
    /\ stop_requested = FALSE
    /\ terminated = FALSE

\* The goal ends with a result.
End(g, to) ==
    /\ status' = [status EXCEPT ![g] = to]
    /\ result' = [result EXCEPT ![g] = IF to = "SUCCEEDED" THEN "success" ELSE "failure"]

----------------------------------------------------------------------------
(* The main thread *)

MainAt(at) == main.at = at /\ ~terminated

\* Mutant: the goal becomes the active one before the user has looked at it.
HandleGoalTakesOver(g) ==
    /\ main.at \in {"spin", "flush"} /\ ~terminated
    /\ status[g] = "UNKNOWN"
    /\ active' = g
    /\ main' = [at |-> IF stop_requested THEN "reject" ELSE "goal", goal |-> g]
    /\ UNCHANGED <<status, result, loop, verdict, stop_requested, terminated>>

\* handle_goal up to the user's callback: without preemption an active goal keeps others
\* out.  While the server stops all goals are refused.
HandleGoal(g) ==
    /\ main.at \in {"spin", "flush"} /\ ~terminated
    /\ status[g] = "UNKNOWN"
    /\ LET busy == active # None /\ status[active] \in Active
           closed == stop_requested \/ (~PreemptActiveGoal /\ busy)
       IN main' = [at |-> IF closed THEN "reject" ELSE "goal", goal |-> g]
    /\ UNCHANGED <<status, result, loop, verdict, active, stop_requested, terminated>>

Reject ==
    /\ status' = [status EXCEPT ![main.goal] = "REJECTED"]
    /\ main' = [at |-> IF stop_requested THEN "flush" ELSE "spin", goal |-> None]
    /\ UNCHANGED <<result, loop, verdict, active, stop_requested, terminated>>

TurnAway == MainAt("reject") /\ Reject

\* The user's callback refuses, or throws, which counts the same.
RefuseGoal == MainAt("goal") /\ Reject

AcceptGoal ==
    /\ MainAt("goal")
    /\ status' = [status EXCEPT ![main.goal] = "EXECUTING"]
    /\ main' = [main EXCEPT !.at = "accepted"]
    /\ UNCHANGED <<result, loop, verdict, active, stop_requested, terminated>>

HandleAccepted ==
    /\ MainAt("accepted")
    /\ active' = main.goal
    /\ main' = [main EXCEPT !.at = "join"]
    /\ UNCHANGED <<status, result, loop, verdict, stop_requested, terminated>>

\* Mutant: the new thread does not wait for the old one.
ExecuteAtOnce ==
    /\ MainAt("join")
    /\ loop' = [loop EXCEPT ![main.goal] = "prepare"]
    /\ main' = Idle
    /\ UNCHANGED <<status, result, verdict, active, stop_requested, terminated>>

Joinable == \A g \in Goals : loop[g] \in LoopDone

\* The end of handle_accepted: stop_execution_thread, then a thread for the new goal
Execute ==
    /\ MainAt("join") /\ Joinable
    /\ loop' = [loop EXCEPT ![main.goal] = "prepare"]
    /\ main' = Idle
    /\ UNCHANGED <<status, result, verdict, active, stop_requested, terminated>>

\* handle_cancel for a goal that rclcpp found to be executing
HandleCancel(g) ==
    /\ MainAt("spin")
    /\ status[g] = "EXECUTING"
    /\ main' = [at |-> "cancel", goal |-> g]
    /\ UNCHANGED <<status, result, loop, verdict, active, stop_requested, terminated>>

\* The user agreed: the goal is canceling, unless it has ended meanwhile.
AcceptCancel ==
    /\ MainAt("cancel")
    /\ status' = [status EXCEPT ![main.goal] = IF @ = "EXECUTING" THEN "CANCELING" ELSE @]
    /\ main' = Idle
    /\ UNCHANGED <<result, loop, verdict, active, stop_requested, terminated>>

RefuseCancel ==
    /\ MainAt("cancel")
    /\ main' = Idle
    /\ UNCHANGED <<status, result, loop, verdict, active, stop_requested, terminated>>

\* request_shutdown: the flag, the active goal, its end, the thread
RequestShutdown ==
    /\ MainAt("spin") /\ ~stop_requested
    /\ stop_requested' = TRUE
    /\ main' = [main EXCEPT !.at = "stop"]
    /\ UNCHANGED <<status, result, loop, verdict, active, terminated>>

TakeActiveGoal ==
    /\ MainAt("stop")
    /\ active' = None
    /\ main' = [at |-> "abort", goal |-> active]
    /\ UNCHANGED <<status, result, loop, verdict, stop_requested, terminated>>

\* abort throws when the goal has ended since it was looked at, which is caught.
AbortActiveGoal ==
    /\ MainAt("abort")
    /\ IF main.goal # None /\ status[main.goal] \in Active
       THEN End(main.goal, "ABORTED")
       ELSE UNCHANGED <<status, result>>
    /\ main' = [at |-> "stopping", goal |-> None]
    /\ UNCHANGED <<loop, verdict, active, stop_requested, terminated>>

JoinAndFlush ==
    /\ MainAt("stopping") /\ Joinable
    /\ main' = [main EXCEPT !.at = "flush"]
    /\ UNCHANGED <<status, result, loop, verdict, active, stop_requested, terminated>>

----------------------------------------------------------------------------
(* The execution thread of a goal *)

LoopAt(g, at) == loop[g] = at /\ ~terminated
GoTo(g, at)   == loop' = [loop EXCEPT ![g] = at]

\* prepare_loop_
Prepare(g) ==
    /\ LoopAt(g, "prepare")
    /\ GoTo(g, "top")
    /\ UNCHANGED <<status, result, main, verdict, active, stop_requested, terminated>>

\* The top of the loop, at the stop flag
Top(g) ==
    /\ LoopAt(g, "top")
    /\ GoTo(g, IF stop_requested THEN "done" ELSE "lock")
    /\ UNCHANGED <<status, result, main, verdict, active, stop_requested, terminated>>

\* Mutant: the loop of a goal that was replaced goes on.
LockUnchecked(g) ==
    /\ LoopAt(g, "lock")
    /\ GoTo(g, "test")
    /\ UNCHANGED <<status, result, main, verdict, active, stop_requested, terminated>>

\* Under the lock: a goal that is not the active one any more was preempted.
Lock(g) ==
    /\ LoopAt(g, "lock")
    /\ IF active = g
       THEN GoTo(g, "test") /\ UNCHANGED <<status, result>>
       ELSE /\ GoTo(g, "done")
            /\ IF ~stop_requested /\ status[g] \in Active
               THEN End(g, "ABORTED")
               ELSE UNCHANGED <<status, result>>
    /\ UNCHANGED <<main, verdict, active, stop_requested, terminated>>

Test(g) ==
    /\ LoopAt(g, "test")
    /\ GoTo(g, IF status[g] = "CANCELING" THEN "canceled" ELSE "inner")
    /\ UNCHANGED <<status, result, main, verdict, active, stop_requested, terminated>>

\* Mutant: a goal that the shutdown has aborted is called canceled.
CanceledAnyway(g) ==
    /\ LoopAt(g, "canceled")
    /\ End(g, "CANCELED") /\ GoTo(g, "reset")
    /\ UNCHANGED <<main, verdict, active, stop_requested, terminated>>

\* canceled() throws when the shutdown has aborted the goal.
Canceled(g) ==
    /\ LoopAt(g, "canceled")
    /\ IF status[g] = "CANCELING"
       THEN End(g, "CANCELED") /\ GoTo(g, "reset")
       ELSE GoTo(g, "caught") /\ UNCHANGED <<status, result>>
    /\ UNCHANGED <<main, verdict, active, stop_requested, terminated>>

Inner(g, loop_status) ==
    /\ LoopAt(g, "inner")
    /\ verdict' = loop_status
    /\ GoTo(g, "after")
    /\ UNCHANGED <<status, result, main, active, stop_requested, terminated>>

\* A callback of the user threw.
Throw(g) ==
    /\ LoopAt(g, "prepare") \/ LoopAt(g, "inner")
    /\ GoTo(g, "caught")
    /\ UNCHANGED <<status, result, main, verdict, active, stop_requested, terminated>>

After(g) ==
    /\ LoopAt(g, "after")
    /\ GoTo(g, IF stop_requested THEN "done" ELSE IF verdict = "RUNNING" THEN "top" ELSE "end")
    /\ UNCHANGED <<status, result, main, verdict, active, stop_requested, terminated>>

\* succeed() or abort(), legal for an active goal
EndLoop(g) ==
    /\ LoopAt(g, "end")
    /\ IF status[g] \in Active
       THEN End(g, IF verdict = "SUCCESS" THEN "SUCCEEDED" ELSE "ABORTED") /\ GoTo(g, "reset")
       ELSE GoTo(g, "caught") /\ UNCHANGED <<status, result>>
    /\ UNCHANGED <<main, verdict, active, stop_requested, terminated>>

\* After the catch clauses: is_active()
Caught(g) ==
    /\ LoopAt(g, "caught")
    /\ GoTo(g, IF status[g] \in Active THEN "abort" ELSE "reset")
    /\ UNCHANGED <<status, result, main, verdict, active, stop_requested, terminated>>

\* And abort(), which nobody catches: a shutdown in between ends the process.
Abort(g) ==
    /\ LoopAt(g, "abort")
    /\ IF status[g] \in Active
       THEN End(g, "ABORTED") /\ GoTo(g, "reset") /\ UNCHANGED terminated
       ELSE terminated' = TRUE /\ UNCHANGED <<status, result, loop>>
    /\ UNCHANGED <<main, verdict, active, stop_requested>>

Reset(g) ==
    /\ LoopAt(g, "reset")
    /\ active' = IF active = g THEN None ELSE active
    /\ GoTo(g, "done")
    /\ UNCHANGED <<status, result, main, verdict, stop_requested, terminated>>

----------------------------------------------------------------------------
\* The steps that run no callback of the user
MainThread ==
    \/ TurnAway \/ HandleAccepted \/ Execute
    \/ TakeActiveGoal \/ AbortActiveGoal \/ JoinAndFlush

LoopThread(g) ==
    \/ Top(g) \/ Lock(g) \/ Test(g) \/ Canceled(g) \/ After(g)
    \/ EndLoop(g) \/ Caught(g) \/ Abort(g) \/ Reset(g)

Requests ==
    \/ \E g \in Goals : HandleGoal(g) \/ HandleCancel(g)
    \/ RequestShutdown

\* A user that does anything
UserOnMain == AcceptGoal \/ RefuseGoal \/ AcceptCancel \/ RefuseCancel
UserOnLoop(g) ==
    \/ Prepare(g)
    \/ \E loop_status \in {"RUNNING", "SUCCESS", "FAILURE"} : Inner(g, loop_status)
    \/ Throw(g)

CppNext ==
    \/ MainThread \/ Requests \/ UserOnMain
    \/ \E g \in Goals : LoopThread(g) \/ UserOnLoop(g)

\* Both threads are scheduled and the callbacks of the user return.
CppFairness ==
    /\ WF_cppVars(MainThread \/ UserOnMain)
    /\ \A g \in Goals : WF_cppVars(LoopThread(g) \/ UserOnLoop(g))

CppSpec == CppInit /\ [][CppNext]_cppVars /\ CppFairness

----------------------------------------------------------------------------
(* Properties *)

\* Every variable holds a value of the kind the code, or rclcpp, gives it.
CppTypeOK ==
    /\ status \in [Goals -> {"UNKNOWN", "REJECTED"} \cup Active \cup Terminal]
    /\ result \in [Goals -> {"success", "failure", None}]
    /\ main.goal \in Goals \cup {None}
    /\ active \in Goals \cup {None}
    /\ active # None => status[active] \notin {"UNKNOWN", "REJECTED"}
    /\ verdict \in {"RUNNING", "SUCCESS", "FAILURE"}
    /\ stop_requested \in BOOLEAN /\ terminated \in BOOLEAN

\* The members of the user are driven by one loop at a time, although a new goal may be
\* accepted while the old one runs.
OneLoopRuns == \A g, h \in Goals : loop[g] \notin LoopDone /\ loop[h] \notin LoopDone => g = h

\* A goal that was replaced by another, or taken by the shutdown, ends.
ReplacedGoalsEnd ==
    \A g \in Goals : (status[g] \in Active /\ loop[g] # "none" /\ active # g)
                        ~> (status[g] \in Terminal \/ terminated)

\* Whatever the two threads do, each goal goes through its life as a client of the action
\* may expect: this server implements GoalLifecycle.
Phase(g) ==
    CASE status[g] = "UNKNOWN"   -> IF main.goal = g THEN "sent" ELSE "unsent"
      [] status[g] = "REJECTED"  -> "rejected"
      [] status[g] = "EXECUTING" -> "accepted"
      [] status[g] = "CANCELING" -> "canceling"
      [] status[g] = "SUCCEEDED" -> "succeeded"
      [] status[g] = "ABORTED"   -> "aborted"
      [] status[g] = "CANCELED"  -> "canceled"

Lifecycle == INSTANCE GoalLifecycle WITH phase <- [g \in Goals |-> Phase(g)], result <- result

CppGoalsFollowTheirLifecycle == Lifecycle!Spec
=============================================================================
