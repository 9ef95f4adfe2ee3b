# Verification of the SMaRC2 mission execution stack

This directory holds TLA+ models of the parts of `src/smarc2` that decide *what a
vehicle does next*: the task handler that takes commands from the operator, the
behaviour tree that turns its queue into goals, the action protocol between
the tree and the servers that move the vehicle, and the nodes around them that keep
state of their own: the geofence, the captain of the DJI drone, SAM's health
checker, the trees of ALARS and of the proximity operations, the recovery and
the emergency action, the C++ server. TLC checks the models on small
instances; TLAPS proves every safety property and refinement that the passing runs check, for every
instance. Liveness stays with TLC.

`PROJECT.json` lists components, runs, mutants, the map from definitions to source
lines, findings, hazards and theorems. Paths below are relative to
`src/smarc2/behaviours/smarc/` unless they start with another directory.

## 1. Inventory

### Mission execution

| component | state it keeps | operations | talks to |
|---|---|---|---|
| Task handler, `wasp_bt/wasp_bt/waraps/waraps_task_handler.py` | queue `tasks_executing`, `past_tasks`, available tasks with the time of their last heartbeat, abort and emergency flags, health of the vehicle, mission command, timers of the mission watchdog | exec and TST commands (start, stop, pause, continue, cancel-abort), action heartbeats, level 2 and 3 heartbeats, health messages, big red button, reset service, the calls the tree makes | operator (MQTT bridge), action servers (heartbeats), behaviour tree (direct calls) |
| Behaviour tree, `wasp_bt/wasp_bt/bt/{ros_bt,actions,conditions}.py` | which leaves exist, status of each, the health timer, the tasks the tree was built for | setup, rebuild when the available tasks change, tick | task handler, action clients |
| Action client, `SMARCActionClient` in `smarc_action_base/smarc_action_base/smarc_action_base.py` and the leaf `A_ActionClient` of `wasp_bt` | state (READY, SENT, ACCEPTED, RUNNING, DONE, ...), the last goal handle | send, cancel, and the callbacks for goal response, feedback, result, cancel response | the leaf, the server |
| Action server, `SMARCActionServer` and `GentlerActionServer` | base goal handle, sticky user failure, one loop per accepted goal | goal, accepted and cancel callbacks, the execution loop, the vehicle's user callbacks | the client, the vehicle |
| C++ action server, `smarc_action_base_cpp/src/gentler_action_server.cpp`, and its wait action | active goal, stop flag, one execution thread; timeout and start of the wait | goal, accepted and cancel callbacks, shutdown, the loop | the client, the user callbacks |

### Vehicle nodes

| component | state it keeps | operations | talks to |
|---|---|---|---|
| Geofence node, `smarc_basic/smarc_basic/geofence_node.py` | fences, islands, ceiling, floor, position and its age | start, stop and cancel of fences, half-second check, check service, polygon timer | captain (status), planners (service) |
| DJI captain, `vehicles/hardware/dji/dji_captain/dji_captain/dji_captain.py` | set points of velocity and of position, one joystick timer, control, last pose, sensors heard of, geofence status, health | set points, joystick tick, remote control, control mode, position, health timer | drone (PSDK), geofence node, task handler (health) |
| SAM's health checker, `vehicles/hardware/sam/sam_health_checker` | stamps of the last messages per topic, ready and fault per source | subscribers, one timer per topic, output timer | task handler (health) |
| ALARS tree, `behaviours/alars/alars/alars_bt.py` | counts of failed searches and recoveries, success of a recovery, the leaves' clients | goal, cancel, prepare, tick | recovery, vulture and search actions |
| ALARS recovery, `behaviours/alars/alars/alars_recover_action_server.py` | points of the flight and an index | goal, cancel, prepare, loop | captain |
| Tree of the proximity operations, `behaviours/evolo/prox_ops_bt` | start of the inspection and of the patrol, what was sent to the backend | goal, cancel, prepare, tick | tracking backend, intercept, inspect and patrol actions |
| Emergency actions of SAM, Lolo and Evolo | `abort_active`, shared by all goals | goal, cancel, loop | actuators; called by the emergency branch of `wasp_bt` |

The rest is listed in `PROJECT.json` with the reason why it is not modelled.
Controllers, path planners, estimators and detectors compute over continuous
state. Bridges and drivers forward bytes. Descriptions, launch files, examples
and simulation do not decide anything.

### What is hard here

* **Callbacks between ticks.** The tree's node is single threaded, so a callback never
  runs inside a tick. But any number of callbacks run between two ticks, and the tree
  decides on what it read before them.
* **Threads in the server.** Goal request, cancel request and loop run on threads of a
  `MultiThreadedExecutor`, in a `ReentrantCallbackGroup`, with one lock that covers only
  parts of the goal callback and the accepted callback.
* **Messages that overtake one another.** Goal response, feedback, result and cancel
  response reach the client in any order, also after the next goal was sent.
* **Time.** A watchdog on the mission, a time-out of health messages and of heartbeats.
* **Exceptions.** An exception in a callback of the tree's node ends the node. An
  exception on a thread of the server ends that thread only.
* **State shared by callbacks.** In the vehicle nodes the goal callback, the cancel callback
  and the loop of one action write the same members, with no lock: the fences, the
  counters of the trees, the flight of the recovery, the flag of the emergency, the wait's timeout.
  The cancel callback runs *before* the goal is canceling.
* **Values nobody checked.** A goal or a command is taken by the names of its fields; a value that cannot be used
  raises later, in a tick or a timer.
* **Stale values.** Positions, set points, statuses and counts are kept after what they tell of is over, and
  are judged by the age of their stamps, if at all.

### What makes each component correct

* Task handler: a stopped task leaves the queue and never returns; the emergency flag
  leaves no work in the queue, but for the mission the watchdog stopped; tasks are
  worked on in the order they came; a mission with work left that is over its time is
  stopped; no command stops the node.
* Tree: one leaf runs, it is the leaf of the head of the queue, an emergency takes the
  vehicle from it; a rebuild loses no goal.
* Server: each goal has one life, ends once, and its result is true; one goal at a
  time drives the vehicle; an accepted cancel ends the goal.
* Client and leaf: SUCCESS means that the goal the leaf sent succeeded; the outcome
  reaches the leaf; a preempted goal is cancelled.
* C++ server: the same lifecycle as the Python one; one loop runs although goals replace one
  another; a goal that is replaced, or caught by the shutdown, ends.
* Geofence and captain: a verdict is the truth about the point and the fence; limits come in
  pairs; the drone's health follows the fence. No joystick command without control or on an old set
  point; after a pause the drone starts slowly.
* SAM's health: trouble is reported (but for a topic heard once, see section 3), faults are for good and an error
  without one is taken back only when the source that was late has come.
* Trees of ALARS and of the proximity operations: the outcome of a goal is what *its own* actions did;
  a timeout leaves the backend stopped.
* Recovery: success is told after the whole flight. Emergency: a cancel stops the commands.

## 2. Modules

| module | models | proved about in |
|---|---|---|
| `TaskHandler` | the task handler, one action per callback branch and per call of the tree | `TaskHandlerProofs` |
| `WaspBT` | the tree around the task handler (EXTENDS `TaskHandler`) | `WaspBTProofs` |
| `ActionChannels` | what is in flight between client and server (external: rclpy and DDS) | `ActionServerProofs` |
| `ActionServer` | base server and gentler server | `ActionServerProofs` |
| `GoalLifecycle` | the abstract specification: what a server promises of each goal | `ActionServerProofs` |
| `ActionClient` | the client's callbacks | `ActionServerProofs` |
| `ActionProtocol` | leaf, client and server composed | `ActionServerProofs` |
| `GentlerServerCpp` | the C++ server; implements `GoalLifecycle` | `GentlerServerCppProofs` |
| `WaitActionCpp` | the wait action as its user (EXTENDS `GentlerServerCpp`) | `GentlerServerCppProofs` |
| `Geofence` | the geofence node | `GeofencedDroneProofs` |
| `GeofencedDrone` | the captain's position and health around it (EXTENDS `Geofence`) | `GeofencedDroneProofs` |
| `DjiMotion` | the captain's set points, joystick timer and control | `GeofencedDroneProofs` |
| `SamHealth` | SAM's rate and value checks | `VehicleNodesProofs` |
| `ActionTree` | what two trees share: branches, the leaf `A_ActionClient` of the action base, the loop that ticks | `AlarsProxOpsProofs` |
| `AlarsBT`, `ProxOpsBT` | the two trees (EXTEND `ActionTree`) | `AlarsProxOpsProofs` |
| `VehicleServer` | what the code of one vehicle action sees of `ActionServer` | `VehicleActionProofs` |
| `RecoverServer`, `EmergencyServer` | two such actions (EXTEND `VehicleServer`) | `VehicleActionProofs` |
| `MCTaskHandler`, `MCWaspBT`, `MCActionProtocol`, `MCDrone` | values of constants and views for TLC | |
| `MCVehicleNodes`, `MCGentlerServerCpp` | values, and the choice of one node or user per behaviour | `VehicleNodesProofs`, `GentlerServerCppProofs` |

How state and actions correspond to the code:

* **TaskHandler.** Each variable has the name of the attribute. A task is a record
  of its uuid, its name, its status and whether it has parameters. `health_last_time`
  and `now` are whole seconds. `StartTask`, `StopTask`, `PauseTask`, `ContinueTask` are
  the branches of `_handle_exec_command`; `StopUnit`, `MarkUnit`, `CancelAbort`,
  `StartTst`, `RejectTst` those of `_handle_tst_command`. A command that changes nothing
  (ping, an unknown uuid) is no action. `Lvl3Heartbeat` is the watchdog.
  `Lvl2Comms` is the timer that calls both heartbeats. `node_up` is FALSE after a
  callback raised: rclpy's `spin` has then ended.
* **WaspBT.** A tick is a series of steps, one for each call that changes the task
  handler; `tip` says where it is, and no callback runs unless it is `"idle"`. The
  tree is followed in the order of its composites (emergency, health, tasks); a leaf
  that a composite leaves is halted. `State(c)` is any state client `c` can be
  in when the leaf reads it, given whether it was ever made ready and whether it ever
  sent a goal: an over-approximation of the client of `ActionClient`.
* **ActionServer.** A goal request passes through `TakeGoalRequest`, `AcceptGoal` or
  `RefuseGoal`, `HandleAccepted` (the lock section) and `Execute` (after it). A loop is at
  `prepare`, `test` or `inner`. The threads of different requests interleave at these
  points. `loop[h].goal` is the goal the loop of request `h` really runs: the code
  calls `execute()` on whatever the base handle is by then.
* **ActionClient, ActionProtocol.** One action per callback, one per branch of the
  leaf's `update`, `initialise` and `terminate`, and the rebuild. Goals
  are numbered in the order they are sent.
* **GentlerServerCpp.** The executable spins one callback at a time, so the callbacks and
  `request_shutdown` are steps of one main thread (`main`); the execution thread steps in
  between, at each access to what both threads touch (`loop`). `terminated`: an
  exception left the execution thread and the process is gone. **WaitActionCpp** gives the four
  user callbacks; a reset between the two reads of `loop_inner` is a choice of what it reads.
* **Geofence.** `writes` is what a callback of an action server has still to assign: they
  are in reentrant groups of a `MultiThreadedExecutor`, and a check of the timer or the
  service (`check`, one read of an attribute per step) reads in between. Polygons are given by
  their corners; `IsPointInsidePolygon` counts crossings as the code does, and the properties
  compare it with `InHull`, the definition by half-planes. `broken` is a server whose callback raised.
* **GeofencedDrone.** `received` are the sensors heard of, with `"gps"` for the first fix, which sets the UTM label. Until
  then no position is published, and `_publish_static_tf` sends no map frame, for which the health waits; so no drone is ready
  without a label. Once it has come, the drone may be ready before the first verdict on it: for as long as
  `HealthFollowsFence` grants any other change (`settled`). Half seconds; `due` holds the timers (position, check, health)
  that have not run in this one, in any order.
* **DjiMotion.** Half seconds, and the ages of the stamps of set points, negative for a clock that is
  ahead. `joy_timer` is the kind of set point the running timer was started for.
* **SamHealth.** Periods of the timers. `stamps` are the deques of ages. `suspects` are the
  sources that may do anything; the rest come once in a period with good values. Trouble (`InTrouble`) is what the parameters
  call so, not what the code finds: a silent topic is one whose *newest* message is older than the time-out, after how
  many messages it may be. `PassedOver` names the two kinds of silence that the code does not look at,
  the exceptions of `TroubleIsReported`; `SilenceIsReported` has none and is violated.
* **ActionTree.** A tick goes node by node (`at`), because the cancel callback and the
  clients' callbacks run on other threads in between. `owed` are goals whose answers may still come, also those of
  leaves that were stopped. **AlarsBT** and **ProxOpsBT** add the conditions,
  with their side effects, and what follows a leaf. Positions, estimates and the status of the backend have ages in
  the code: each look at them finds any value. A node of the tick that raises ends the loop at `"raised"`, where the handler
  of the server takes over (`LoopRaised`). In **AlarsBT** such a node is one that meets a `bad_value` of the goal; one is enough, as the
  first ends the goal. A local search whose goal cannot be set counts as failed. In **ProxOpsBT** it is one that a cancel overtakes.
* **VehicleServer.** `handle` is the status of each goal, `base` the base goal handle, `cancel_due` the cancels
  whose callback ran and whose answer is due, `execution` the point of each execution. **RecoverServer**:
  one step per access to `_wp_index` and `_points`. **EmergencyServer**: `sees_cancel`
  is TRUE for Lolo and Evolo, whose loops look at the cancel request, FALSE for SAM.

Some variables are auxiliary; their declarations say so. `overlapped` (ActionServer, Geofence),
`abandoned` (ActionProtocol), `disturbed` (Geofence), `meddled` (RecoverServer, WaitActionCpp) and
`overruled` (EmergencyServer) record
that callbacks crossed in a way in which the code keeps no promise; properties that hold only otherwise name them.
Without `overlapped` two goal requests, both tested before either is stored, run two loops. Without
`abandoned` the result of an abandoned goal turns the client DONE while the next goal runs. Without `meddled` a
cancel that empties the flight makes the recovery succeed at once. `settled`, `quiet`, `pause`,
`trouble`, `lifted`, `failed_searches`, `left`, `asked`, `visited`, `waited` and `published_after` remember what happened, for
the properties to compare the outcome with.

## 3. Runs

Passing runs:

| run | question | properties |
|---|---|---|
| `task_handler` | queue, flags and watchdog under every order of commands, heartbeats, health messages, buttons and tree calls | `TypeOK`, `StoppedTasksLeave`, `EmergencyLeavesOnlyOverrunWork`, `QueueIsFifo`, `OverrunIsStopped` (liveness) |
| `action_server` | two goal requests, two cancels, their loops, user callbacks that refuse or raise | `TypeOK`, `ResultMatchesStatus`, `LoopsServeActiveGoals`, `OneGoalExecutes`, `CancelEndsGoal` (liveness), `GoalsFollowTheirLifecycle` (refinement) |
| `action_protocol` | leaf, client and server end to end, preemption, time-out and rebuild included | `ProtocolTypeOK`, `PatientClientIsDoneTruly`, `PatientClientIsAlone`, `OutcomeIsTold` (liveness) |
| `wasp_bt` | the whole tree around the task handler, with two kinds of mission leaf, a health node that falls silent, heartbeats that lapse and rebuilds around a running leaf | `BTTypeOK`, `OneLeafRuns`, `RunningLeafIsOfTheHead`, `EmergencyStopsWork`, `UsesTaskHandler` (refinement) |
| `cpp_server` | the C++ server with preemption, a shutdown at any point and either a user that does anything or the wait action | `ServerTypeOK`, `OneLoopRuns`, `ReplacedGoalsEnd` (liveness), `CppGoalsFollowTheirLifecycle` (refinement), `UndisturbedWaitsAreWhole` |
| `drone` | captain and geofence node with all their timers: does the health follow the fence, within which time? | `DroneTypeOK`, `HealthFollowsFence` |
| `vehicle_nodes` | seven nodes, each under every interleaving of its own callbacks, timers and threads | `NodesTypeOK`, and per node: `SerialLimitsArePaired`, `VerdictsAreRight` (geofence); `DeadManSwitch`, `OnlyInControl`, `SmoothStart` (captain); `TroubleIsReported`, `ErrorIsFinal` (SAM); `OutcomesAreEarned` (ALARS); `TimeoutsStopTheBackend` (proximity operations); `UndisturbedRecoveriesAreWhole` (recovery); `CancelledAbortsStop` (emergency) |

The seven nodes of `vehicle_nodes` share no state and exchange no message in the model, so their product says
nothing that each alone does not: `node` is chosen in `Init`, and only that node moves. The state space is the sum
of seven, and each property is about the node it names. `user` in `cpp_server` is the same device.

Runs that find the code at odds with what it says of itself, each quoted in
`findings`:

| run | what TLC finds |
|---|---|
| `malformed_command_crash` | A start-tst command with a timeout that is no number is refused, but the timeout stays; the next heartbeat raises. |
| `client_stuck_cancelling` | A late feedback makes `initialise` cancel a goal that is over; the client stays in CANCELLING. |
| `goals_stay_reachable` | A heartbeat that lapses removes the leaf of a running goal; nothing can cancel that goal. |
| `inspected_long_enough` | The time of an inspection runs on while a patrol does; the goal succeeds after it. |
| `silence_is_reported` | A topic of SAM that was heard once and never again is no fault; the health is READY. |

`malformed_command_crash` and `silence_is_reported` need only commands, messages and timers; the others need a
certain order of messages, ticks or threads, which is why they are hard to meet in a test.

The models also contain behaviour of this kind that no property of a run is about. Each stands under `hazards` with a note:

* A heartbeat after the last task of a mission was stopped or cleared still looks at the mission's time, and raises the
  emergency flag over an empty queue (`Lvl3Timeout`); the comment in `waraps_task_handler.py:259-260` says that the
  test is done "only if there is a mission running". `OverrunIsStopped` asks nothing of an empty queue.
* A goal of ALARS whose number of retries is no number raises in a tick and fails without a search (`PreRaises`,
  `bad_value`); the log in `alars_bt.py:199` says the actions check the values. `OutcomesAreEarned` is about usable values.
* The limits a command sets anew under a running mission, the leaf that is preempted before the goal response, the
  timer of the geofence that raises, the position that is published without its age, the altitude that is never too old
  after one of no bottom, the local search that is counted without being sent: the code promises nothing to check them against.

### Bounds

* `task_handler`: 2 uuids, 1 action name, at most 2 tasks in the queue and in `past_tasks` together, 2 seconds,
  timeouts 0 and 1, and two values of the timeout that `float()` refuses. Two tasks
  are enough for an order and for removal from the middle; the clock passes each
  timeout, the liveliness limit included. The clock stops at `MaxTime`; the
  heartbeats do not.
* `action_server`: 2 goals and 2 cancel requests. Two is the least number at which
  requests overlap, and at which one goal can be taken for the other.
* `action_protocol`: 2 goals, 1 cancel request, callbacks that do not raise. One
  goal is the one preempted, the other the next one. Where a cancel has already been
  sent, the leaf cannot send another: that step is not taken.
* `wasp_bt`: one ordinary task and get-ready, 1 uuid, a queue of 1, and no bound on the tasks
  started one after another that the search could meet. A mission is over its time at
  once (its timeout is -1), so the watchdog matters. There are two instants, and each limit is 0, so that what
  was last heard at the first is too old at the second. `CONSTRAINT GetReadyOrTime`: the second instant is not
  looked at with get-ready in the game, which would make the states several times as many; get-ready is checked
  at the first instant, with any other step, and time with the ordinary task.
  `VIEW MCView` identifies states that differ only in what no step reads
  again: `past_tasks`, when an overrun mission began, the set-up time once health was
  heard, how the root ended, the readiness of clients without a leaf.
* `cpp_server`: 3 goals, so that a goal is replaced by one that is replaced itself; preemption on
  (off is the special case in which an active goal keeps others out); timeouts -1, 0 and 1, and a clock that
  stops at `LongAgo` = 1, the longest wait.
* `drone`: one fence with limits, three points (in it, under its floor, beyond it), one goal
  (set and cancelled or stopped needs a second, which `vehicle_nodes` has for the geofence by itself), ages up to 2 half
  seconds. `Settling` = 4 half seconds is what position, check and health take one after another when each just
  missed the one before. `VIEW WithoutAuxiliary` leaves out what no step and no property of the run reads.
* `vehicle_nodes`: 2 goals of each server, the least number that overlaps; the geofence with two triangles, one
  in the other, of which each may be a fence or an island. `MaxSuspects` = 1: one source of SAM is late, silent or bad, the
  others are good, for which every pattern of its messages is met. `MaxOwed` = 1: of the
  goals that stopped leaves have left behind, the last is followed. One retry, one range, timeouts of 1 and 2
  (3 for the patrol in `inspected_long_enough`): each limit is reached, and passed where the code can
  pass it. Set points are too old after 2 half seconds, and stamps 1 ahead.
* Counters that only matter up to a limit stay there: ages, `trouble` (`TooLong` = 3), `quiet`, `pause`, `published_after`.
* The violation runs take the same bounds, or less.

Deadlock is checked in `drone`, whose timers go on for ever. It is not in the others: a node may stop
(`node_up`, `alive`, `terminated`), and the bounded
models stop when goals, cancels or time are used up.

### Fairness

* `TaskHandler`: weak fairness of `Lvl2Comms` (a ROS timer on a node that spins) and of the
  clock. None of commands.
* `ActionServer`: weak fairness of the thread of each request, of the cancel thread and of
  each loop: the executor has a free thread for each ready callback. A loop may answer
  "go on" for ever; it is the cancel that must end it.
* `ActionProtocol`: also of the client's callbacks (what was sent arrives) and of the
  tick, which is a timer. None of preemption and rebuild.
* `GentlerServerCpp`: weak fairness of the main thread and of the execution thread of each goal: both are
  scheduled by the operating system and the user callbacks return. None of requests and of the shutdown. The
  loop may answer "running" for ever.
* `WaspBT`, `drone` and `vehicle_nodes`: only safety is checked. That time does not pass before the timers that are due have
  run is a guard of `Tick`, `SamTick` and `TimePasses`, not fairness.

### Assumptions

* Messages are not lost or duplicated, but keep no order. (ROS 2 services and
  reliable topics.)
* The node of `wasp_bt` runs on one thread, as its `main` builds it. Servers run on a
  `MultiThreadedExecutor`, as theirs do.
* rclpy refuses a goal transition that is not in its state machine by raising; an
  exception ends the coroutine it is raised in; a goal whose execution callback returned
  without ending it is aborted. rclcpp makes a goal executing before `handle_accepted`, and throws where rclpy raises.
* py_trees: a Sequence or Selector without memory ticks its children in order and halts
  those after the one that decides; a Sequence with memory goes on with its running child.
* The clients of the ALARS tree and of the proximity operations send a goal after the result of the one before.
  In `VehicleServer` a goal request comes when the one before has been handed to its execution; requests that
  overlap are the subject of `ActionServer`.
* A timer runs once in its period, and clocks agree up to `FutureTolerance`.

## 4. Proofs

`tlapm` checks every theorem for all values of the constants that satisfy the `ASSUME`s of the modules, which
only say what kind of value each constant is, unless a paragraph says more. No proof bounds the number of
goals, tasks, messages or seconds. Each argument is the same: an inductive invariant, given here with what it
adds to the property and why that is needed, holds at first and is preserved by each action.

**Task handler** (`TaskHandlerProofs`). `TypeCorrect`, `StoppedTasksLeaveHolds` and `EmergencyHolds` follow
from `IInv == ScalarsOK /\ QueuesOK /\ EmergencyLeavesOnlyOverrunWork`. The strengthening is in `QueuesOK`: it
types the queue by *live* and `past_tasks` by *stopped* tasks, so one fact carries both the types and
`StoppedTasksLeave` through each step that marks and moves tasks. `RemoveAtLemma` and `WithStatusLemma` say
what the two operations on a queue preserve. The emergency conjunct needs the case that the watchdog raised
the flag: `Overrun` then lasts, as time does not go back and each reset of the timers lowers the flag or finds
it down. `QueueIsFifoHolds` is about single steps: each keeps all places of the queue, all but one, or none,
and adds at most one task at the end. The property chooses a set of kept places; `KeptOfAll` and
`KeptOfOthers` show that the lengths before and after leave only one choice.

**Tree of wasp_bt** (`WaspBTProofs`). Assumption: `WaspBTAssumption`; the emergency action and the get-ready
task have different names, as the tree gives them (`ros_bt.py`). `TreeUsesTaskHandler` is the refinement: each
step of a tick makes one call of the task handler or none. With it `HandlerKeepsItsPromises` carries over what
is proved of the task handler. `BTInv == IInv /\ KindsOK /\ LeavesOK /\ HeadOK /\ EmergencyOK` says, for each
place a tick can be at, which leaves may run there (within a tick a mission leaf of the tick before may still
run while the emergency leaf is ticked: `OneLeafRuns` is true only between ticks), that the leaf being ticked
is that of the head of the queue, and how a tick can get to the mission although the flag is up.
`BTTypeCorrect`, `OneLeafAtATime`, `HeadLeafRuns` and `EmergenciesStopWork` follow.

**Action server and protocol** (`ActionServerProofs`). Assumptions: `ActionChannelsAssumption`,
`ActionServerAssumption`; any set of goals, callbacks that may raise. For the protocol
`ActionProtocolAssumption`: goals are numbered.

* `GoalsInv` relates the thread of a request to the goal's status, says that the base goal has been through
  the lock section, and that a goal that ended under a running loop has its result. It implies `TypeOK` and
  `ResultMatchesStatus`, and it makes each step a step of `GoalLifecycle` or a stutter: `ImplementsLifecycle`.
  `LoopsOK` is needed because two loops may run one goal: the second to end it must find that it is over, and
  that its result is not set again.
* `SerialInv` adds, for requests that do not overlap, that the base goal is the goal being handled and that
  each loop runs its own goal: `ActiveGoalsAreServed`, `OneGoalIsExecuted`.
* `ProtocolInv` puts leaf and client around it. A result that reaches the client says nothing of *which* goal
  it is of, so `AnswersOK` follows each goal on its way: answered once, its result asked for once, settled
  after that. `PatientOK` says that a patient leaf has settled every goal but the last; then the requests do
  not overlap and `SerialInv` applies (`PatienceIsAlone`), and a result that comes is that of the last goal
  (`PatienceIsRewarded`). `Moves(g)` sums up what any step of the server does to one request and its answer,
  so that the conjuncts about the client are proved once for all server steps. `TreesGoalsFollowLifecycle`:
  the composition still implements `GoalLifecycle`.

**C++ server and wait** (`GentlerServerCppProofs`). `CppInv == StepsOK /\ MainOK /\ ResultsOK /\ OneLoopRuns`.
`MainOK` ties the place of the main thread to the goal it holds: a goal is accepted only after the thread of
the one before was joined, which is why `OneLoop` holds. `ImplementsLifecycle` is the refinement that the
Python server has, too. For `WaitsAreWhole`, `WaitInv` adds, as long as no other callback has meddled, that
the members of the wait are those of the goal whose loop runs.

**Geofence, captain** (`GeofencedDroneProofs`).

* `GeofenceInv`: what makes `LimitsArePaired` inductive is `PairedOK`. While a callback writes, the limits are
  *not* a pair; they are one once the rest of its list is written.
* `UndisturbedVerdicts` has the hypothesis `CrossingsTell`: at the points asked about, the count of crossings
  agrees with `InHull`. That is a fact of plane geometry about given polygons. TLC evaluates it as
  `CrossingsAssumption` in `MCDrone` and `MCVehicleNodes`; polygons that are not convex, or whose corners run
  clockwise, do not satisfy it, for `InHull` does not define their inside, and the theorem is not about them.
  `ReadSoFar` says what a check that is half done has established.
* `HealthKeepsUp` has the hypotheses that the captain accepts a position of
  one and a status of two half seconds, and `Settling >= 4`. It speaks of no UTM label: a ready drone has one (`Labelled`). `FollowInv` has a conjunct for each stage of the
  way from the sensor to the health: `PositionFollows`, `CheckFollows`, `StatusFollows`, `ReportFollows`, each
  of which may take half a second more than the one before. With three half seconds TLC finds the order of
  timers in which the last stage is missed.
* `MotionInv` bounds how long ago the last set point was accepted: by its age (`QuietOK`) and, for a timer
  that runs, by whether it has run in this half second (`TimerOK`, `RampOK`): `DeadManSwitchWorks`,
  `StartsSmoothly`. `ControlOK` gives `CommandsInControl`.

**SAM's health** (`VehicleNodesProofs`). `SamInv`: the newest stamp is the least age (`StampsOK`) and an error
has a fault behind it or is that of the initial time-out (`ErrorOK`): as faults stay, the one that is taken back had
none (`ErrorsAreFinal`). `TroubleGetsReported` has the hypotheses
`MaxSuspects <= 1` and `SamTimeout >= 1`, the bounds of the property itself, and the exception `PassedOver` of the property. `GoodOK` says that the sources
that are no suspects never get old, `OneKindOK` that only the suspect is in trouble, in one kind of trouble,
and `ReportedOK` how far the report of trouble that is not passed over has come after each period.

**Trees of ALARS and of the proximity operations** (`AlarsProxOpsProofs`). `TreeInv`, of the loop that both
share, says where the leaf that runs may be relative to the node being ticked; any order of the branches will
do. `AlarsInv` adds that a branch under way still passes its limit (`CountsOK`), needed because its counter
goes up only when it ends, and that no state of the tree claims more than the goal has earned, and that a tick raises only on a bad
value (`EarnedOK`): `AlarsOutcomesAreEarned`. `ProxOpsInv` adds that a stop marked as sent is the last thing that was sent
(`BackendOK`): `ProxOpsTimeoutsStop`.

**Recovery and emergency** (`VehicleActionProofs`). `HandleInv` relates an execution to the status of its
goal, for both. `RecoveryOK`: of a live goal that nobody meddled with, the members of the node are its own,
and it has been at the points before the index (`RecoveriesAreWhole`). `FlagOK` and `PublishedOK`: after the
cancel callback the flag stays down, and what is published after it is at most one command, by a loop that had
already tested (`CancelledAbortsDoStop`).

**All nodes side by side** (`VehicleNodesProofs`). `NodesRunAlone` projects a behaviour of `MCVehicleNodes`
onto each node: it is one of the node's own specification. So the properties of the run `vehicle_nodes`, which
are proved of each node alone, hold in it; `NodesTypeCorrect` states it for the types.

What stays with TLC: the four liveness properties, `OverrunIsStopped`, `CancelEndsGoal`, `OutcomeIsTold` and
`ReplacedGoalsEnd` (they need fairness, hence `ENABLED`, which the prover does not handle). The
counterexamples of the violation runs are TLC's, too.

## 5. Not modelled, and why

* Texts, formats and publications, but for the ones that can raise or that a property is about.
* The contents of goals and parameters, but for those a module names (polygons and limits, timeouts, retries).
* `current_time` reads the clock twice and may be up to a second off; the model
  counts whole seconds that are read at once.
* The availability of a server in the world: each look for one finds it or not.
* What the vehicle's own loops do where no module of their own has them: a loop goes on, succeeds, fails or raises.
* The captain's transforms and odometry, battery and load cell (any value of either is one of the health's tests)
  and the telemetry it publishes as it came.
* The Python wait and trigger actions, the simple C++ server, the log action: users that
  `ActionServer` and `GentlerServerCpp` take as any answer.
* `sam_value_health_node`, which no launch file starts.
* Control laws (PID, MPC, Dubins paths), search patterns, estimation and detection: the
  greater part of the code by lines. They compute over real numbers and matrices, where TLC
  and TLAPS have nothing to say that a faithful model could carry.
* Bridges, drivers, message definitions, launch files, simulation, examples, system
  identification: input and output, no decisions.

## 6. Plan

1. *(done)* `TaskHandler` and its proofs; `ActionServer`, `GoalLifecycle` and their
   proofs; `ActionClient`, `ActionProtocol`; `WaspBT`.
2. *(done)* `Geofence`, `GeofencedDrone`, `DjiMotion`, `SamHealth`; `GentlerServerCpp`,
   `WaitActionCpp`; `ActionTree`, `AlarsBT`, `ProxOpsBT`; `VehicleServer`, `RecoverServer`, `EmergencyServer`.
3. *(done)* Proofs of every safety invariant, action property and refinement that the passing runs check, in eight
   modules (section 4).
4. What is left: invariants for the hazards that have no property yet, where the code promises something to check them
   against, each checked first and then proved. The liveness properties stay with TLC.
