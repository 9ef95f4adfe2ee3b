----------------------------- MODULE ActionServer -----------------------------
(***************************************************************************)
(* GentlerActionServer on SMARCActionServer: the server every vehicle      *)
(* action is built from.  The node runs a MultiThreadedExecutor and the    *)
(* server's callbacks are in a ReentrantCallbackGroup, so a goal request,  *)
(* a cancel request and the execution loops each have a thread, and every  *)
(* step below may fall between any two steps of another one.               *)
(*                                                                         *)
(* rclpy (external) runs a goal request as: goal callback, response to the *)
(* client, handle-accepted callback; refuses illegal goal transitions by   *)
(* raising, which ends that thread only; and aborts a goal whose execution *)
(* callback returns or raises without having ended it.                     *)
(***************************************************************************)
EXTENDS ActionChannels

CONSTANT Raising        \* whether the user's callbacks may raise: BOOLEAN, or {FALSE}

ASSUME ActionServerAssumption == FALSE \in Raising /\ Raising \subseteq BOOLEAN

VARIABLES
    status,             \* goal -> status of its goal handle
    request,            \* goal -> where the thread of its request is
    base_goal_handle,   \* _base_goal_handle
    cancelling,         \* cancel requests whose callback is due
    loop,               \* goal whose request started it -> the goal it runs, where it is
    user_failure,       \* _user_failure
    result,             \* goal -> what its result's success field tells, None until it is set
    overlapped          \* auxiliary: a goal request was ever sent while another was being handled

serverVars == <<status, request, base_goal_handle, cancelling, loop, user_failure, result, overlapped>>
asVars     == <<channels, serverVars>>

Active   == {"ACCEPTED", "EXECUTING", "CANCELING"}
Terminal == {"SUCCEEDED", "ABORTED", "CANCELED"}
Status   == {"UNKNOWN"} \cup Active \cup Terminal

RequestStep == {"none", "callback", "accepted", "locked", "served", "rejected", "raised"}
LoopStep    == {"none", "prepare", "test", "inner", "done"}

ServerInit ==
    /\ status = [g \in Goals |-> "UNKNOWN"]
    /\ request = [g \in Goals |-> "none"]
    /\ base_goal_handle = None
    /\ cancelling = {}
    /\ loop = [g \in Goals |-> [goal |-> g, at |-> "none"]]
    /\ user_failure = FALSE
    /\ result = [g \in Goals |-> None]
    /\ overlapped = FALSE

Init == ChannelsInit /\ ServerInit

----------------------------------------------------------------------------
(* A goal request *)

BeingHandled(g) == g \in goal_requests \/ request[g] \in {"callback", "accepted", "locked"}

\* is_valid_goal: active and not being cancelled.
IsValidGoal(g) == g # None /\ status[g] \in {"ACCEPTED", "EXECUTING"}

Respond(g, accepted) ==
    goal_responses' = goal_responses \cup {[goal |-> g, accepted |-> accepted]}

\* Mutant: the base goal is not looked at.
TakeGoalRequestUnchecked(g) ==
    /\ g \in goal_requests
    /\ goal_requests' = goal_requests \ {g}
    /\ request' = [request EXCEPT ![g] = "callback"]
    /\ UNCHANGED <<goal_responses, cancel_requests, cancel_responses, feedbacks, calls,
                   status, base_goal_handle, cancelling, loop, user_failure, result, overlapped>>

\* _wrap_goal_callback: the base goal is looked at under the lock, which is
\* released before the goal callback runs.
TakeGoalRequest(g) ==
    /\ g \in goal_requests
    /\ goal_requests' = goal_requests \ {g}
    /\ IF IsValidGoal(base_goal_handle)
       THEN request' = [request EXCEPT ![g] = "rejected"] /\ Respond(g, FALSE)
       ELSE request' = [request EXCEPT ![g] = "callback"] /\ UNCHANGED goal_responses
    /\ UNCHANGED <<cancel_requests, cancel_responses, feedbacks, calls,
                   status, base_goal_handle, cancelling, loop, user_failure, result, overlapped>>

AcceptGoal(g) ==
    /\ request[g] = "callback"
    /\ ~user_failure
    /\ status' = [status EXCEPT ![g] = "ACCEPTED"]
    /\ request' = [request EXCEPT ![g] = "accepted"]
    /\ Respond(g, TRUE)
    /\ UNCHANGED <<goal_requests, cancel_requests, cancel_responses, feedbacks, calls,
                   base_goal_handle, cancelling, loop, user_failure, result, overlapped>>

\* The user's callback returned False or, when raised, threw an exception.
RefuseGoal(g, raised) ==
    /\ request[g] = "callback"
    /\ user_failure' = (user_failure \/ raised)
    /\ request' = [request EXCEPT ![g] = "rejected"]
    /\ Respond(g, FALSE)
    /\ UNCHANGED <<goal_requests, cancel_requests, cancel_responses, feedbacks, calls,
                   status, base_goal_handle, cancelling, loop, result, overlapped>>

\* Mutant: the lock section aborts the old goal, as its comment says.
HandleAcceptedAbortsOld(g) ==
    /\ request[g] = "accepted"
    /\ request' = [request EXCEPT ![g] = "locked"]
    /\ base_goal_handle' = g
    /\ status' = IF base_goal_handle # None /\ status[base_goal_handle] \in Active
                 THEN [status EXCEPT ![base_goal_handle] = "ABORTED"] ELSE status
    /\ UNCHANGED <<channels, cancelling, loop, user_failure, result, overlapped>>

\* The lock section of _handle_accepted_callback.  The handle is replaced before it
\* is looked at, so what is aborted is the new goal, if a cancel came before.
HandleAccepted(g) ==
    /\ request[g] = "accepted"
    /\ request' = [request EXCEPT ![g] = "locked"]
    /\ base_goal_handle' = g
    /\ status' = IF IsValidGoal(g) THEN status ELSE [status EXCEPT ![g] = "ABORTED"]
    /\ UNCHANGED <<channels, cancelling, loop, user_failure, result, overlapped>>

\* After the lock: self._base_goal_handle.execute(), whichever goal that is by now.
\* A goal that is executing or over cannot be executed: execute() raises.
Execute(g) ==
    /\ request[g] = "locked"
    /\ LET b == base_goal_handle IN
       \/ /\ status[b] \in {"ACCEPTED", "CANCELING"}
          /\ request' = [request EXCEPT ![g] = "served"]
          /\ status' = [status EXCEPT ![b] = IF @ = "ACCEPTED" THEN "EXECUTING" ELSE @]
          /\ loop' = [loop EXCEPT ![g] = [goal |-> b, at |-> "prepare"]]
       \/ /\ status[b] \notin {"ACCEPTED", "CANCELING"}
          /\ request' = [request EXCEPT ![g] = "raised"]
          /\ UNCHANGED <<status, loop>>
    /\ UNCHANGED <<channels, base_goal_handle, cancelling, user_failure, result, overlapped>>

----------------------------------------------------------------------------
(* A cancel request *)

AnswerCancel(m, canceling) ==
    cancel_responses' = cancel_responses \cup
        {[goal |-> m.goal, call |-> m.call, canceling |-> canceling]}

Cancelable(g) == status[g] \in {"ACCEPTED", "EXECUTING"}

TakeCancelRequest(m) ==
    /\ m \in cancel_requests
    /\ cancel_requests' = cancel_requests \ {m}
    /\ IF Cancelable(m.goal)
       THEN cancelling' = cancelling \cup {m} /\ UNCHANGED cancel_responses
       ELSE AnswerCancel(m, FALSE) /\ UNCHANGED cancelling
    /\ UNCHANGED <<goal_requests, goal_responses, feedbacks, calls,
                   status, request, base_goal_handle, loop, user_failure, result, overlapped>>

\* Mutant: a goal that ended during the callback is canceling again.
AcceptCancelUnchecked(m) ==
    /\ m \in cancelling
    /\ cancelling' = cancelling \ {m}
    /\ status' = [status EXCEPT ![m.goal] = "CANCELING"]
    /\ AnswerCancel(m, TRUE)
    /\ UNCHANGED <<goal_requests, goal_responses, cancel_requests, feedbacks, calls,
                   request, base_goal_handle, loop, user_failure, result, overlapped>>

\* The user's callback agreed; the goal may have ended meanwhile.
AcceptCancel(m) ==
    /\ m \in cancelling
    /\ cancelling' = cancelling \ {m}
    /\ IF Cancelable(m.goal)
       THEN status' = [status EXCEPT ![m.goal] = "CANCELING"] /\ AnswerCancel(m, TRUE)
       ELSE UNCHANGED status /\ AnswerCancel(m, FALSE)
    /\ UNCHANGED <<goal_requests, goal_responses, cancel_requests, feedbacks, calls,
                   request, base_goal_handle, loop, user_failure, result, overlapped>>

RefuseCancel(m, raised) ==
    /\ m \in cancelling
    /\ cancelling' = cancelling \ {m}
    /\ user_failure' = (user_failure \/ raised)
    /\ AnswerCancel(m, FALSE)
    /\ UNCHANGED <<goal_requests, goal_responses, cancel_requests, feedbacks, calls,
                   status, request, base_goal_handle, loop, result, overlapped>>

----------------------------------------------------------------------------
(* The execution callback; h names the goal request whose thread started it *)

MoveLoop(h, from, to) ==
    /\ loop[h].at = from
    /\ loop' = [loop EXCEPT ![h].at = to]

\* Mutant: a goal being cancelled ends canceled, whatever its loop reports.
EndGoalAsCanceled(g, from, to, success) ==
    /\ status' = [status EXCEPT ![g] =
                    IF @ = "CANCELING" THEN "CANCELED" ELSE IF @ \in from THEN to ELSE @]
    /\ result' = [result EXCEPT ![g] = IF @ # None THEN @
                        ELSE IF success /\ status[g] \in from THEN "success" ELSE "failure"]

\* The loop calls succeed(), abort() or canceled(), legal in the statuses "from", and
\* its callback is over: where the call raised, rclpy aborts the goal if it is active
\* and the result is an empty one.  A result once set stays.
EndGoal(g, from, to, success) ==
    /\ status' = [status EXCEPT ![g] =
                    IF @ \in from THEN to ELSE IF @ \in Active THEN "ABORTED" ELSE @]
    /\ result' = [result EXCEPT ![g] = IF @ # None THEN @
                        ELSE IF success /\ status[g] \in from THEN "success" ELSE "failure"]

Prepare(h) ==
    /\ MoveLoop(h, "prepare", "test")
    /\ UNCHANGED <<channels, status, request, base_goal_handle, cancelling,
                   user_failure, result, overlapped>>

\* Mutant: the loop does not look at the cancel request.
ContinueLoopBlindly(h) ==
    /\ MoveLoop(h, "test", "inner")
    /\ UNCHANGED <<channels, status, request, base_goal_handle, cancelling,
                   user_failure, result, overlapped>>

\* The while condition: the goal's own cancel request is all it looks at.
ContinueLoop(h) ==
    /\ status[loop[h].goal] # "CANCELING"
    /\ MoveLoop(h, "test", "inner")
    /\ UNCHANGED <<channels, status, request, base_goal_handle, cancelling,
                   user_failure, result, overlapped>>

\* Mutant: the client library's spelling of the status.
CancelNormalMisspelt(h) ==
    /\ status[loop[h].goal] = "CANCELING"
    /\ MoveLoop(h, "test", "done")
    /\ EndGoal(loop[h].goal, {"CANCELING"}, "CANCELLED", FALSE)
    /\ UNCHANGED <<channels, request, base_goal_handle, cancelling, user_failure, overlapped>>

\* Mutant: the loop is cancelled but not left.
CancelNormalWithoutReturn(h) ==
    /\ status[loop[h].goal] = "CANCELING"
    /\ MoveLoop(h, "test", "inner")
    /\ EndGoal(loop[h].goal, {"CANCELING"}, "CANCELED", FALSE)
    /\ UNCHANGED <<channels, request, base_goal_handle, cancelling, user_failure, overlapped>>

CancelNormal(h) ==
    /\ status[loop[h].goal] = "CANCELING"
    /\ MoveLoop(h, "test", "done")
    /\ EndGoal(loop[h].goal, {"CANCELING"}, "CANCELED", FALSE)
    /\ UNCHANGED <<channels, request, base_goal_handle, cancelling, user_failure, overlapped>>

\* loop_inner returned None: feedback, and another turn.
GiveFeedback(h) ==
    /\ MoveLoop(h, "inner", "test")
    /\ feedbacks' = feedbacks \cup {loop[h].goal}
    /\ UNCHANGED <<goal_requests, goal_responses, cancel_requests, cancel_responses, calls,
                   status, request, base_goal_handle, cancelling, user_failure, result, overlapped>>

\* loop_inner returned its verdict.
FinishLoop(h, success) ==
    /\ MoveLoop(h, "inner", "done")
    /\ EndGoal(loop[h].goal, {"EXECUTING", "CANCELING"},
               IF success THEN "SUCCEEDED" ELSE "ABORTED", success)
    /\ UNCHANGED <<channels, request, base_goal_handle, cancelling, user_failure, overlapped>>

\* prepare_loop, create_rate, loop_inner or give_feedback raised.  canceled() raises in
\* its turn unless a cancel was requested, and then _user_failure is not set.
CancelForever(h) ==
    /\ TRUE \in Raising
    /\ MoveLoop(h, "prepare", "done") \/ MoveLoop(h, "inner", "done")
    /\ user_failure' = (user_failure \/ status[loop[h].goal] = "CANCELING")
    /\ EndGoal(loop[h].goal, {"CANCELING"}, "CANCELED", FALSE)
    /\ UNCHANGED <<channels, request, base_goal_handle, cancelling, overlapped>>

----------------------------------------------------------------------------
(* What the clients do, any clients *)

RequestGoal(g) ==
    /\ request[g] = "none" /\ g \notin goal_requests
    /\ goal_requests' = goal_requests \cup {g}
    /\ overlapped' = (overlapped \/ \E h \in Goals : BeingHandled(h))
    /\ UNCHANGED <<goal_responses, cancel_requests, cancel_responses, feedbacks, calls,
                   status, request, base_goal_handle, cancelling, loop, user_failure, result>>

RequestCancel(g) ==
    /\ SendCancel(g)
    /\ UNCHANGED <<goal_requests, goal_responses, cancel_responses, feedbacks, serverVars>>

----------------------------------------------------------------------------
RequestThread(g) ==
    \/ TakeGoalRequest(g)
    \/ AcceptGoal(g)
    \/ \E raised \in Raising : RefuseGoal(g, raised)
    \/ HandleAccepted(g)
    \/ Execute(g)

CancelThread ==
    \/ \E m \in cancel_requests : TakeCancelRequest(m)
    \/ \E m \in cancelling : AcceptCancel(m) \/ \E raised \in Raising : RefuseCancel(m, raised)

LoopThread(h) ==
    \/ Prepare(h)
    \/ ContinueLoop(h)
    \/ CancelNormal(h)
    \/ GiveFeedback(h)
    \/ \E success \in BOOLEAN : FinishLoop(h, success)
    \/ CancelForever(h)

ServerNext == CancelThread \/ \E g \in Goals : RequestThread(g) \/ LoopThread(g)

ClientsNext == \E g \in Goals : RequestGoal(g) \/ RequestCancel(g)

Next == ServerNext \/ ClientsNext

Spec == Init /\ [][Next]_asVars

\* Every thread of the executor is scheduled, and user callbacks return.
ServerFairness ==
    /\ WF_asVars(CancelThread)
    /\ \A g \in Goals : WF_asVars(RequestThread(g)) /\ WF_asVars(LoopThread(g))

FairSpec == Spec /\ ServerFairness

----------------------------------------------------------------------------
(* Properties *)

\* Every variable holds a value of the kind the code, or rclpy, gives it.
TypeOK ==
    /\ ChannelsOK
    /\ status \in [Goals -> Status]
    /\ request \in [Goals -> RequestStep]
    /\ base_goal_handle \in Goals \cup {None}
    /\ cancelling \subseteq [goal : Goals, call : 1 .. MaxCancels]
    /\ loop \in [Goals -> [goal : Goals, at : LoopStep]]
    /\ user_failure \in BOOLEAN
    /\ result \in [Goals -> {"success", "failure", None}]
    /\ overlapped \in BOOLEAN

Running(h) == loop[h].at \in {"prepare", "test", "inner"}

\* A result is set only when the goal is over, and says success exactly when the
\* goal's status does, however cancels and failures crossed the end of the loop.
ResultMatchesStatus ==
    \A g \in Goals : result[g] # None =>
        /\ status[g] \in Terminal
        /\ result[g] = "success" <=> status[g] = "SUCCEEDED"

\* No loop drives the vehicle for a goal that is over.
LoopsServeActiveGoals ==
    ~overlapped => \A h \in Goals : Running(h) => status[loop[h].goal] \in {"EXECUTING", "CANCELING"}

\* Whatever the interleaving, each goal goes through its life as a client of the
\* action may expect: this server implements GoalLifecycle.
PhaseOfHandle == [ACCEPTED |-> "accepted", EXECUTING |-> "accepted", CANCELING |-> "canceling",
                  SUCCEEDED |-> "succeeded", ABORTED |-> "aborted", CANCELED |-> "canceled"]

Phase(g) ==
    IF status[g] # "UNKNOWN" THEN PhaseOfHandle[status[g]]
    ELSE IF request[g] = "rejected" THEN "rejected"
    ELSE IF BeingHandled(g) THEN "sent" ELSE "unsent"

Lifecycle == INSTANCE GoalLifecycle WITH phase <- [g \in Goals |-> Phase(g)], result <- result

GoalsFollowTheirLifecycle == Lifecycle!Spec

\* At most one goal is executed, unless it is being cancelled, while clients wait
\* with a goal request until the one before has been handled.
OneGoalExecutes ==
    ~overlapped => \A g, h \in Goals : status[g] = "EXECUTING" /\ status[h] = "EXECUTING" => g = h

\* A cancel request that was answered with the goal in goals_canceling ends the goal.
CancelEndsGoal ==
    \A g \in Goals :
        (~overlapped /\ \E m \in cancel_responses : m.goal = g /\ m.canceling)
            ~> (overlapped \/ status[g] \in Terminal)

\* The loops of two goals never run together: "This server only allows one goal at a time"
\* of _handle_accepted_callback.  A server on its own breaks it, see PatientClientIsAlone.
OneGoalAtATime ==
    \A h, k \in Goals : Running(h) /\ Running(k) => loop[h].goal = loop[k].goal

=============================================================================
