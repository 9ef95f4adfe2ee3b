---------------------------- MODULE TaskHandler ----------------------------
(***************************************************************************)
(* WaraPSTaskHandler (wasp_bt/waraps/waraps_task_handler.py): the queue of *)
(* tasks a vehicle was asked to execute, its mission watchdog, its         *)
(* emergency flag and its picture of the vehicle's health.                 *)
(*                                                                         *)
(* The node runs under rclpy.spin with one thread, so a callback is one    *)
(* atomic step.  Commands come from the MQTT bridge in any order; the      *)
(* methods at the end are called by the behaviour tree between callbacks.  *)
(* A callback that raises ends rclpy.spin and with it the node (node_up).  *)
(***************************************************************************)
EXTENDS Integers, Sequences, SequencesExt

CONSTANTS
    Uuids,              \* task-uuids that commands may carry
    Names,              \* action names, parsed from the servers' heartbeats
    MissionTimeouts,    \* numbers a start-tst command may give as its timeout
    RefusedTimeouts,    \* values of the timeout that float() refuses
    DefaultTimeout,     \* timeout of a start-tst command that names none
    LivelinessTimeout,  \* task_liveliness_timeout
    ParamsGiven,        \* whether a start-task command has task params: BOOLEAN or {TRUE}
    Commands,           \* stored start-tst commands: "complete", or without "tst-uuid"
    None,               \* Python's None
    Unparsable,         \* a timeout that is text
    MaxTime,            \* bound: the clock stops here
    MaxTasks,           \* bound: tasks in the queue
    MaxStarts           \* bound: tasks in the queue and in past_tasks

ASSUME TaskHandlerAssumption ==
    /\ MissionTimeouts \subseteq Int
    /\ DefaultTimeout \in Int
    /\ LivelinessTimeout \in Nat
    /\ RefusedTimeouts \subseteq {None, Unparsable}
    /\ ParamsGiven \subseteq BOOLEAN
    /\ Commands \subseteq {"complete", "no-tst-uuid"}
    /\ MaxTime \in Nat
    /\ MaxTasks \in Nat
    /\ MaxStarts \in Nat
    /\ None \notin Int
    /\ Unparsable \notin Int
    /\ None # Unparsable

VARIABLES
    node_up, now,
    tasks_available,    \* name -> time of its last heartbeat
    tasks_executing, past_tasks,
    aborted_flag, emergency_flag,
    health_status, health_last_time,
    mission_start_time, mission_timeout, mission_status, mission_command

queues   == <<tasks_executing, past_tasks>>
flags    == <<aborted_flag, emergency_flag>>
health   == <<health_status, health_last_time>>
watchdog == <<mission_start_time, mission_timeout>>
mission  == <<mission_status, mission_command>>
thVars   == <<node_up, now, tasks_available, queues, flags, health, watchdog, mission>>

LiveStatus    == {"started", "running", "paused", "resumed"}
StoppedStatus == {"aborted", "enough"}
WaraPSTaskStates == LiveStatus \cup StoppedStatus \cup {"error", "finished"}

Healths == {"READY", "WAITING", "ERROR"}

\* has_params: the command's task object has the key "params".
Task == [uuid : Uuids, name : Names, status : WaraPSTaskStates, has_params : BOOLEAN]

Timeouts == Int \cup {None, Unparsable}

----------------------------------------------------------------------------
Init ==
    /\ node_up = TRUE
    /\ now = 0
    /\ tasks_available = [n \in {} |-> 0]
    /\ tasks_executing = << >>
    /\ past_tasks = << >>
    /\ aborted_flag = FALSE
    /\ emergency_flag = FALSE
    /\ health_status = "ERROR"
    /\ health_last_time = None
    /\ mission_start_time = None
    /\ mission_timeout = None
    /\ mission_status = None
    /\ mission_command = None

\* Time passes between callbacks.
Elapse ==
    /\ now < MaxTime
    /\ now' = now + 1
    /\ UNCHANGED <<node_up, tasks_available, queues, flags, health, watchdog, mission>>

NewTask(u, n, p) == [uuid |-> u, name |-> n, status |-> "started", has_params |-> p]

WithStatus(tasks, s) == [i \in 1 .. Len(tasks) |-> [tasks[i] EXCEPT !.status = s]]

\* The index of the first task with this uuid, where a loop over the queue stops.
IsFirst(i, u) ==
    /\ i \in 1 .. Len(tasks_executing)
    /\ tasks_executing[i].uuid = u
    /\ \A j \in 1 .. i - 1 : tasks_executing[j].uuid # u

Room(k) ==
    /\ Len(tasks_executing) + k <= MaxTasks
    /\ Len(tasks_executing) + Len(past_tasks) + k <= MaxStarts

----------------------------------------------------------------------------
(* Heartbeats of the action servers, and the two periodic ones of the node. *)

\* _action_hb_callback: a new server is added, a known one refreshed.
ActionHeartbeat(n) ==
    /\ node_up
    /\ tasks_available' = [m \in DOMAIN tasks_available \cup {n} |->
                             IF m = n THEN now ELSE tasks_available[m]]
    /\ UNCHANGED <<node_up, now, queues, flags, health, watchdog, mission>>

\* lvl_2_heartbeat drops the servers that were silent for too long.
Lvl2Heartbeat ==
    tasks_available' =
        [n \in {m \in DOMAIN tasks_available :
                  now - tasks_available[m] <= LivelinessTimeout} |-> tasks_available[n]]

\* The watchdog condition of lvl_3_heartbeat; it raises TypeError on a timeout
\* that is no number.
Armed   == mission_start_time # None /\ mission_timeout # None
Overrun ==
    /\ Armed
    /\ mission_timeout # Unparsable
    /\ now - mission_start_time > mission_timeout

Lvl3Crash ==
    /\ Armed /\ ~emergency_flag /\ mission_timeout = Unparsable
    /\ node_up' = FALSE
    /\ UNCHANGED <<emergency_flag, watchdog>>

\* Mutant: a mission whose head is paused is let off.
Lvl3TimeoutUnlessPaused ==
    /\ ~emergency_flag /\ Overrun
    /\ emergency_flag' = (tasks_executing = << >> \/ tasks_executing[1].status # "paused")
    /\ UNCHANGED <<node_up, watchdog>>

Lvl3Timeout ==
    /\ ~emergency_flag /\ Overrun
    /\ emergency_flag' = TRUE
    /\ UNCHANGED <<node_up, watchdog>>

Lvl3MissionOver ==
    /\ Armed /\ ~emergency_flag /\ mission_timeout # Unparsable /\ ~Overrun
    /\ tasks_executing = << >>
    /\ mission_start_time' = None
    /\ mission_timeout' = None
    /\ UNCHANGED <<node_up, emergency_flag>>

Lvl3Idle ==
    /\ \/ emergency_flag
       \/ ~Armed
       \/ mission_timeout # Unparsable /\ ~Overrun /\ tasks_executing # << >>
    /\ UNCHANGED <<node_up, emergency_flag, watchdog>>

Lvl3Heartbeat == Lvl3Crash \/ Lvl3Timeout \/ Lvl3MissionOver \/ Lvl3Idle

\* wara_ps_lvl_2_comms, the timer callback that runs both.
Lvl2Comms ==
    /\ node_up
    /\ Lvl2Heartbeat
    /\ Lvl3Heartbeat
    /\ UNCHANGED <<now, queues, aborted_flag, health, mission>>

\* _vehicle_health_cb
VehicleHealth(h) ==
    /\ node_up
    /\ health_last_time' = now
    /\ health_status' = h
    /\ UNCHANGED <<node_up, now, tasks_available, queues, flags, watchdog, mission>>

----------------------------------------------------------------------------
(* Commands on single tasks: _handle_exec_command.  Rejected commands,     *)
(* "ping" and "query-task" only answer.                                    *)

\* Mutant: only the health is looked at.
MayStartInEmergency == health_status = "READY"

MayStart == ~emergency_flag /\ health_status = "READY"

\* n is the name after a "custom-task" was resolved.
StartTask(u, n, p) ==
    /\ node_up /\ MayStart
    /\ n \in DOMAIN tasks_available
    /\ \A i \in 1 .. Len(tasks_executing) : tasks_executing[i].uuid # u
    /\ Room(1)
    /\ tasks_executing' = Append(tasks_executing, NewTask(u, n, p))
    /\ UNCHANGED <<node_up, now, tasks_available, past_tasks, flags, health, watchdog, mission>>

\* Mutant: a status that is no member of WaraPSTaskStates.
SignalledStatusMisspelt(s) ==
    CASE s = "$abort" -> "aborted"
      [] s = "$enough" -> "enough"
      [] s = "$pause" -> "paused"
      [] s = "$continue" -> "continued"

SignalledStatus(s) ==
    CASE s = "$abort" -> "aborted"
      [] s = "$enough" -> "enough"
      [] s = "$pause" -> "paused"
      [] s = "$continue" -> "resumed"

\* Mutant: the task is marked and filed but stays in the queue.
StopTaskWithoutPop(u, s) ==
    /\ node_up
    /\ s \in {"$abort", "$enough"}
    /\ \E i \in 1 .. Len(tasks_executing) :
         /\ IsFirst(i, u)
         /\ past_tasks' =
              Append(past_tasks, [tasks_executing[i] EXCEPT !.status = SignalledStatus(s)])
         /\ tasks_executing' = [tasks_executing EXCEPT ![i].status = SignalledStatus(s)]
    /\ aborted_flag' = TRUE
    /\ Room(1)
    /\ UNCHANGED <<node_up, now, tasks_available, emergency_flag, health, watchdog, mission>>

\* signal-task with $abort or $enough: the task moves to past_tasks.
StopTask(u, s) ==
    /\ node_up
    /\ s \in {"$abort", "$enough"}
    /\ \E i \in 1 .. Len(tasks_executing) :
         /\ IsFirst(i, u)
         /\ past_tasks' =
              Append(past_tasks, [tasks_executing[i] EXCEPT !.status = SignalledStatus(s)])
         /\ tasks_executing' = RemoveAt(tasks_executing, i)
    /\ aborted_flag' = TRUE
    /\ UNCHANGED <<node_up, now, tasks_available, emergency_flag, health, watchdog, mission>>

PauseTask(u) ==
    /\ node_up
    /\ \E i \in 1 .. Len(tasks_executing) :
         /\ IsFirst(i, u)
         /\ tasks_executing' = [tasks_executing EXCEPT ![i].status = "paused"]
    /\ UNCHANGED <<node_up, now, tasks_available, past_tasks, flags, health, watchdog, mission>>

\* The loop of $continue looks for a task that is paused as well.
ContinueTask(u) ==
    /\ node_up
    /\ \E i \in 1 .. Len(tasks_executing) :
         LET waits(j) == tasks_executing[j].uuid = u /\ tasks_executing[j].status = "paused"
         IN /\ waits(i)
            /\ \A j \in 1 .. i - 1 : ~waits(j)
            /\ tasks_executing' = [tasks_executing EXCEPT ![i].status = "resumed"]
    /\ UNCHANGED <<node_up, now, tasks_available, past_tasks, flags, health, watchdog, mission>>

----------------------------------------------------------------------------
(* Commands on the whole unit: _handle_tst_command.                        *)

\* signal-unit with $abort or $enough, which go on when the queue is empty too.
StopUnit(s) ==
    /\ node_up
    /\ s \in {"$abort", "$enough"}
    /\ past_tasks' = past_tasks \o WithStatus(tasks_executing, SignalledStatus(s))
    /\ tasks_executing' = << >>
    /\ aborted_flag' = TRUE
    /\ emergency_flag' = (emergency_flag \/ s = "$abort")
    /\ UNCHANGED <<node_up, now, tasks_available, health, watchdog, mission>>

\* signal-unit with $pause or $continue, whatever the status of each task.
MarkUnit(s) ==
    /\ node_up
    /\ s \in {"$pause", "$continue"}
    /\ tasks_executing' = WithStatus(tasks_executing, SignalledStatus(s))
    /\ UNCHANGED <<node_up, now, tasks_available, past_tasks, flags, health, watchdog, mission>>

\* signal-unit with $cancel_abort
CancelAbort ==
    /\ node_up
    /\ emergency_flag' = FALSE
    /\ mission_start_time' = None
    /\ mission_timeout' = None
    /\ UNCHANGED <<node_up, now, tasks_available, queues, aborted_flag, health, mission>>

\* Mutant: the new mission goes to the head of the queue.
StartTstAtHead(kids, timeout, command) ==
    /\ node_up /\ MayStart
    /\ timeout \in Int
    /\ \A i \in 1 .. Len(kids) : kids[i][2] \in DOMAIN tasks_available
    /\ Room(Len(kids))
    /\ mission_command' = command
    /\ mission_timeout' = timeout
    /\ mission_start_time' = now
    /\ tasks_executing' =
         [i \in 1 .. Len(kids) |-> NewTask(kids[i][1], kids[i][2], TRUE)] \o tasks_executing
    /\ UNCHANGED <<node_up, now, tasks_available, past_tasks, flags, health, mission_status>>

\* start-tst, accepted.  kids is the sequence of <<task-uuid, name>> of its
\* children; the uuids are not compared with those in the queue.
StartTst(kids, timeout, command) ==
    /\ node_up /\ MayStart
    /\ timeout \in Int
    /\ \A i \in 1 .. Len(kids) : kids[i][2] \in DOMAIN tasks_available
    /\ Room(Len(kids))
    /\ mission_command' = command
    /\ mission_timeout' = timeout
    /\ mission_start_time' = now
    /\ tasks_executing' =
         tasks_executing \o [i \in 1 .. Len(kids) |-> NewTask(kids[i][1], kids[i][2], TRUE)]
    /\ UNCHANGED <<node_up, now, tasks_available, past_tasks, flags, health, mission_status>>

\* start-tst, rejected for its timeout (float() refuses text and null) or for a
\* child that is malformed or not available.  mission_command and
\* mission_timeout are already replaced when the check fails.
RejectTst(timeout, command) ==
    /\ node_up /\ MayStart
    /\ mission_command' = command
    /\ mission_timeout' = timeout
    /\ UNCHANGED <<node_up, now, tasks_available, queues, flags, health,
                   mission_start_time, mission_status>>

----------------------------------------------------------------------------
(* Stops and resets that come from outside the command topics.             *)

\* _bigredbutton_cb, _emptybigredbutton_cb; abort() calls the first.
BigRedButton ==
    /\ node_up
    /\ emergency_flag' = TRUE
    /\ past_tasks' = past_tasks \o WithStatus(tasks_executing, "aborted")
    /\ tasks_executing' = << >>
    /\ UNCHANGED <<node_up, now, tasks_available, aborted_flag, health, watchdog, mission>>

\* _reset_emergency_cb
ResetEmergency ==
    /\ node_up
    /\ emergency_flag' = FALSE
    /\ UNCHANGED <<node_up, now, tasks_available, queues, aborted_flag, health, watchdog, mission>>

----------------------------------------------------------------------------
(* Methods the behaviour tree calls.                                       *)

ClearTaskQueue ==
    /\ node_up
    /\ tasks_executing' = << >>
    /\ UNCHANGED <<node_up, now, tasks_available, past_tasks, flags, health, watchdog, mission>>

ClearCurrentTask ==
    /\ node_up
    /\ tasks_executing # << >>
    /\ tasks_executing' = Tail(tasks_executing)
    /\ UNCHANGED <<node_up, now, tasks_available, past_tasks, flags, health, watchdog, mission>>

SetCurrentTaskStatus(s) ==
    /\ node_up
    /\ tasks_executing # << >>
    /\ tasks_executing' = [tasks_executing EXCEPT ![1].status = s]
    /\ UNCHANGED <<node_up, now, tasks_available, past_tasks, flags, health, watchdog, mission>>

SetMissionStatus(s) ==
    /\ node_up
    /\ mission_status' = s
    /\ UNCHANGED <<node_up, now, tasks_available, queues, flags, health, watchdog, mission_command>>

\* get_current_task_params: the key "params" of the head's task is taken for granted.
ParamsRaise == tasks_executing # << >> /\ ~tasks_executing[1].has_params

GetCurrentTaskParams ==
    /\ node_up
    /\ node_up' = ~ParamsRaise
    /\ UNCHANGED <<now, tasks_available, queues, flags, health, watchdog, mission>>

\* publish_feedback_to_tst quotes mission_command["tst"]["tst-uuid"], which
\* raises when there is no such command or it lacks the key.
FeedbackRaises == tasks_executing # << >> /\ mission_command # "complete"

PublishFeedbackToTst ==
    /\ node_up
    /\ node_up' = ~FeedbackRaises
    /\ UNCHANGED <<now, tasks_available, queues, flags, health, watchdog, mission>>

\* The tree clears the flag in C_AbortedPreviousTask and A_TaskAbortedFlagReset.
ResetAbortedFlag ==
    /\ node_up
    /\ aborted_flag' = FALSE
    /\ UNCHANGED <<node_up, now, tasks_available, queues, emergency_flag, health, watchdog, mission>>

RemoveAvailableTask(n) ==
    /\ node_up
    /\ tasks_available' = [m \in DOMAIN tasks_available \ {n} |-> tasks_available[m]]
    /\ UNCHANGED <<node_up, now, queues, flags, health, watchdog, mission>>

----------------------------------------------------------------------------
Missions == UNION {[1 .. k -> Uuids \X Names] : k \in 0 .. MaxTasks}

ExecCommand ==
    \E u \in Uuids :
        \/ \E n \in Names, p \in ParamsGiven : StartTask(u, n, p)
        \/ \E s \in {"$abort", "$enough"} : StopTask(u, s)
        \/ PauseTask(u)
        \/ ContinueTask(u)

TstCommand ==
    \/ \E s \in {"$abort", "$enough"} : StopUnit(s)
    \/ \E s \in {"$pause", "$continue"} : MarkUnit(s)
    \/ CancelAbort
    \/ \E t \in MissionTimeouts \cup {DefaultTimeout}, c \in Commands :
          \/ \E kids \in Missions : StartTst(kids, t, c)
          \/ RejectTst(t, c)
    \/ \E t \in RefusedTimeouts, c \in Commands : RejectTst(t, c)

Callback ==
    \/ \E n \in Names : ActionHeartbeat(n)
    \/ Lvl2Comms
    \/ \E h \in Healths : VehicleHealth(h)
    \/ ExecCommand
    \/ TstCommand
    \/ BigRedButton
    \/ ResetEmergency

TreeCall ==
    \/ ClearTaskQueue
    \/ ClearCurrentTask
    \/ \E s \in {"started", "running"} : SetCurrentTaskStatus(s)
    \/ GetCurrentTaskParams
    \/ \E s \in {None, "error"} : SetMissionStatus(s)
    \/ mission_status = "error" /\ PublishFeedbackToTst
    \/ ResetAbortedFlag
    \/ \E n \in Names : RemoveAvailableTask(n)

Next == Elapse \/ Callback \/ TreeCall

Spec == Init /\ [][Next]_thVars

\* rclpy.spin serves every timer, and time passes.
Fairness == WF_thVars(Lvl2Comms) /\ WF_thVars(Elapse)

FairSpec == Spec /\ Fairness

----------------------------------------------------------------------------
(* Properties *)

\* Every variable holds a value of the kind the code gives it.
TypeOK ==
    /\ node_up \in BOOLEAN
    /\ now \in 0 .. MaxTime
    /\ DOMAIN tasks_available \subseteq Names
    /\ \A n \in DOMAIN tasks_available : tasks_available[n] \in 0 .. now
    /\ tasks_executing \in Seq(Task)
    /\ past_tasks \in Seq(Task)
    /\ aborted_flag \in BOOLEAN
    /\ emergency_flag \in BOOLEAN
    /\ health_status \in Healths
    /\ health_last_time \in 0 .. now \cup {None}
    /\ mission_start_time \in 0 .. now \cup {None}
    /\ mission_timeout \in Timeouts
    /\ mission_status \in {None, "error"}
    /\ mission_command \in Commands \cup {None}

\* A task in the queue can still be worked on and a task in past_tasks cannot:
\* a stop signal, whichever of the four ways it comes in by, both marks the task
\* and moves it, and nothing revives it.
StoppedTasksLeave ==
    /\ \A i \in 1 .. Len(tasks_executing) : tasks_executing[i].status \in LiveStatus
    /\ \A i \in 1 .. Len(past_tasks) : past_tasks[i].status \in StoppedStatus

\* An emergency finds work in the queue only when the watchdog raised it: every
\* other source of the flag empties the queue in the same callback, and no command
\* refills it while the flag is up.
EmergencyLeavesOnlyOverrunWork == emergency_flag /\ tasks_executing # << >> => Overrun

\* Of the old queue a callback keeps some tasks, in their order; what it adds comes
\* behind them, and only while the vehicle is ready and in no emergency.
Kept(keep, i) == CHOOSE j \in keep : Cardinality({k \in keep : k <= j}) = i

FifoStep ==
    \E keep \in SUBSET DOMAIN tasks_executing :
        /\ Len(tasks_executing') >= Cardinality(keep)
        /\ \A i \in 1 .. Cardinality(keep) :
             LET old == tasks_executing[Kept(keep, i)]
                 new == tasks_executing'[i]
             IN  <<old.uuid, old.name>> = <<new.uuid, new.name>>
        /\ \A i \in Cardinality(keep) + 1 .. Len(tasks_executing') :
             MayStart /\ tasks_executing'[i].status = "started"

QueueIsFifo == [][FifoStep]_thVars

\* A mission with work left that is over its time meets the emergency flag, and meets
\* it again when a reset lowered the flag while the limit is still passed.  It goes
\* free of it only where its work ends, the node ends, or a command sets its timers
\* anew: CancelAbort and every start-tst, the refused ones (RejectTst) included.
OverrunIsStopped ==
    Overrun /\ tasks_executing # << >>
        ~> (emergency_flag \/ tasks_executing = << >> \/ ~Overrun \/ ~node_up)

\* What the comment in _exec_command_cb and _tst_command_cb says ("a single malformed
\* command can never crash the node").
NodeSurvives == node_up

=============================================================================
