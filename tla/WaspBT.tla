-------------------------------- MODULE WaspBT --------------------------------
(***************************************************************************)
(* The behaviour tree of wasp_bt (bt/ros_bt.py, actions.py, conditions.py) *)
(* around the task handler of module TaskHandler.                          *)
(*                                                                         *)
(*   S_Root                    Sequence, no memory                         *)
(*     A_Heartbeat             always succeeds                             *)
(*     F_HandleEmergency       no emergency | emergency leaf or A_Chilling *)
(*     F_Health_Handler        health node alive and not ERROR | A_Abort   *)
(*     F_Task_Handler          abort seen | leaf of the head | A_Chilling  *)
(*                                                                         *)
(* A tick runs in the one thread of the node: callbacks wait for its end.  *)
(* It is a series of steps here, one per call that changes the task        *)
(* handler; tip says where the tick is.                                    *)
(*                                                                         *)
(* What the callbacks of the action clients do between two ticks is read   *)
(* by the tick only as the state of a client, so it is chosen when it is   *)
(* read (State); ActionProtocol has the callbacks themselves.  BUSY is any *)
(* of _running_states, FAILED any of _failure_states.                      *)
(***************************************************************************)
EXTENDS TaskHandler

CONSTANTS
    Emergency,          \* the emergency action
    GetReady,           \* the name of the get-ready task
    HealthTimeout       \* bt_health_timeout

ASSUME WaspBTAssumption ==
    /\ Emergency \notin Names /\ Emergency # GetReady
    /\ None \notin Names \cup {Emergency}
    /\ HealthTimeout \in Nat

Clients   == Names \cup {Emergency}
TaskNames == DOMAIN tasks_available \ {GetReady}

VARIABLES
    tip,                \* where the tick is; "idle" between ticks, "off" before setup
    cur,                \* the client whose leaf is ticked
    root,               \* status of S_Root
    start_time,         \* C_HealthNodeAlive.start_time
    tree,               \* clients that have a leaf
    last_available,     \* _last_available_tasks
    leaf,               \* status of the A_ActionClient leaf
    timed,              \* leaves with a task_timeout and a _goal_start_time
    ready,              \* clients that were READY when the tree last had to do with them
    contacted           \* clients that ever sent a goal: their servers may answer

nodeVars   == <<tip, cur, root>>
treeVars   == <<start_time, tree, last_available>>
clientVars == <<leaf, timed, ready, contacted>>
btVars     == <<thVars, nodeVars, treeVars, clientVars>>

\* The states a client may be in when it is looked at: a goal response, feedback, a
\* result or a cancel response, of any goal ever sent, may have come.
State(c) ==
    (IF c \in ready THEN {"READY"} ELSE {})
        \cup (IF c \in contacted THEN {"BUSY", "DONE", "CANCELLED", "FAILED"} ELSE {})
        \cup (IF {c} \cap (ready \cup contacted) = {} THEN {"FAILED"} ELSE {})

Tips == {"off", "idle", "rebuilt", "health", "tasks",
         "leaf", "update", "params", "clear", "failed", "chill", "chilled", "held"}

BTInit ==
    /\ Init
    /\ tip = "off" /\ cur = None /\ root = "INVALID"
    /\ start_time = None /\ tree = {} /\ last_available = {}
    /\ leaf = [c \in Clients |-> "INVALID"]
    /\ timed = {}
    /\ ready = {}
    /\ contacted = {}

----------------------------------------------------------------------------
(* Building the tree *)

\* _setup of each client when its leaf is chosen (it is found or has no leaf) and
\* again when the leaf is set up: one that is found may be READY, unless it is busy
\* or lost by then.  A get-ready server that is not found is dropped from the
\* available tasks.
SetUp(clients, found) ==
    /\ \E r \in SUBSET found : ready' = (ready \ clients) \cup r
    /\ IF GetReady \in clients \ found
       THEN RemoveAvailableTask(GetReady)
       ELSE UNCHANGED thVars

\* BT.setup
Setup ==
    /\ tip = "off"
    /\ node_up
    /\ tip' = "idle"
    /\ start_time' = now
    /\ LET clients == TaskNames \cup (Clients \cap {Emergency, GetReady})
       IN \E found \in SUBSET clients : SetUp(clients, found) /\ tree' = found
    /\ last_available' = TaskNames
    /\ UNCHANGED <<cur, root, leaf, timed, contacted>>

\* _update_task_handler_tree: new leaves around the clients; the old leaves are not
\* stopped.
Rebuild ==
    /\ tip = "idle"
    /\ node_up
    /\ last_available # TaskNames
    /\ tip' = "rebuilt"
    /\ LET clients == TaskNames \cup (Names \cap {GetReady})
       IN \E found \in SUBSET clients :
            SetUp(clients, found) /\ tree' = found \cup (tree \cap {Emergency})
    /\ last_available' = TaskNames
    /\ leaf' = [c \in Clients |-> IF c = Emergency THEN leaf[c] ELSE "INVALID"]
    /\ timed' = timed \cap {Emergency}
    /\ UNCHANGED <<cur, root, start_time, contacted>>

----------------------------------------------------------------------------
(* The tick above the leaves *)

\* Mutant: only a leaf that failed is stopped.
HaltFailed(cs) ==
    LET stopped == {c \in cs : leaf[c] = "FAILURE"}
    IN  /\ leaf' = [c \in Clients |-> IF c \in stopped THEN "INVALID" ELSE leaf[c]]
        /\ ready' = ready \cup stopped
        /\ timed' = timed \ stopped
        /\ UNCHANGED contacted

\* terminate(INVALID), for the leaves a composite stops: a busy client is told to
\* cancel its goal, and every client gets ready.
Halt(cs) ==
    LET stopped == {c \in cs : leaf[c] # "INVALID"}
    IN  /\ leaf' = [c \in Clients |-> IF c \in stopped THEN "INVALID" ELSE leaf[c]]
        /\ ready' = ready \cup stopped
        /\ timed' = timed \ stopped
        /\ UNCHANGED contacted

EndTick(status) == tip' = "idle" /\ root' = status /\ cur' = None

\* A child below F_Task_Handler, the last child of S_Root, is RUNNING; or one below
\* F_HandleEmergency is, and S_Root stops the rest.
Running ==
    IF cur = Emergency
    THEN tip' = "held" /\ root' = "RUNNING" /\ UNCHANGED cur
    ELSE EndTick("RUNNING")

\* A_Heartbeat succeeded.  S_Root, unless it was RUNNING, first stops all its children;
\* then C_NoEmergencyAbortSignalDetected succeeds and stops an emergency leaf that
\* runs, or fails and leaves the tick to the emergency leaf, or to A_Chilling in its
\* place.
StartTick ==
    /\ \/ tip = "idle" /\ last_available = TaskNames
       \/ tip = "rebuilt"
    /\ tip' = IF ~emergency_flag THEN "health"
              ELSE IF Emergency \in tree THEN "leaf" ELSE "chill"
    /\ cur' = IF emergency_flag THEN Emergency ELSE None
    /\ Halt(IF root # "RUNNING" THEN Clients
            ELSE {c \in {Emergency} : ~emergency_flag /\ leaf[c] = "RUNNING"})
    /\ UNCHANGED <<thVars, root, treeVars>>

\* Mutant: the children behind the one that runs are not stopped.
HoldOnly ==
    /\ tip = "held"
    /\ EndTick(root)
    /\ UNCHANGED <<thVars, treeVars, clientVars>>

\* S_Root got no SUCCESS from the emergency or the health child: it stops the rest.
Hold ==
    /\ tip = "held"
    /\ Halt(Names)
    /\ EndTick(root)
    /\ UNCHANGED <<thVars, treeVars>>

Silent ==
    IF health_last_time = None
    THEN now - start_time > HealthTimeout
    ELSE now - health_last_time > HealthTimeout

\* C_HealthNodeAlive is RUNNING until the first report or the timeout.
HealthUnknown ==
    /\ tip = "health"
    /\ health_last_time = None /\ ~Silent
    /\ tip' = "held"
    /\ root' = "RUNNING"
    /\ UNCHANGED <<thVars, cur, treeVars, clientVars>>

\* Mutant: A_Abort raises the flag only.
HealthBadKeepsQueue ==
    /\ tip = "health"
    /\ \/ Silent
       \/ health_last_time # None /\ health_status = "ERROR"
    /\ emergency_flag' = TRUE
    /\ tip' = "tasks"
    /\ UNCHANGED <<node_up, now, tasks_available, queues, aborted_flag, health, watchdog, mission,
                   cur, root, treeVars, clientVars>>

\* A_Abort
HealthBad ==
    /\ tip = "health"
    /\ \/ Silent
       \/ health_last_time # None /\ health_status = "ERROR"
    /\ BigRedButton
    /\ tip' = "tasks"
    /\ UNCHANGED <<cur, root, treeVars, clientVars>>

\* F_Task_Handler is reached behind A_Abort, or in good health.
AtTasks ==
    \/ tip = "tasks"
    \/ tip = "health" /\ health_last_time # None /\ ~Silent /\ health_status # "ERROR"

\* S_BreatheAfterAbort
Breathe ==
    /\ AtTasks
    /\ aborted_flag
    /\ ResetAbortedFlag
    /\ Halt(Names)
    /\ EndTick("SUCCESS")
    /\ UNCHANGED treeVars

\* Mutant: the status of the head is not looked at.
ReachesAnyStatus(n) ==
    /\ n \in tree
    /\ mission_status # "error"
    /\ health_status \in IF n = GetReady THEN {"READY", "WAITING"} ELSE {"READY"}
    /\ tasks_executing # << >>
    /\ tasks_executing[1].name = n

\* The conditions before the leaf of n in S_<task>, F_Tasks and S_Mission.
Reaches(n) ==
    /\ n \in tree
    /\ mission_status # "error"
    /\ health_status \in IF n = GetReady THEN {"READY", "WAITING"} ELSE {"READY"}
    /\ tasks_executing # << >>
    /\ tasks_executing[1].name = n
    /\ tasks_executing[1].status \in {"started", "resumed", "running"}

\* The leaf of the head is reached.  The others are stopped, and so is this one when
\* it had failed, before it is ticked.
ReachLeaf ==
    /\ AtTasks
    /\ ~aborted_flag
    /\ \E n \in Names :
         /\ Reaches(n)
         /\ cur' = n
         /\ Halt({m \in Names : m # n \/ leaf[m] = "FAILURE"})
    /\ tip' = "leaf"
    /\ UNCHANGED <<thVars, root, treeVars>>

ReachNoLeaf ==
    /\ AtTasks
    /\ ~aborted_flag
    /\ \A n \in Names : ~Reaches(n)
    /\ Halt(Names)
    /\ tip' = "chill"
    /\ cur' = None
    /\ UNCHANGED <<thVars, root, treeVars>>

AfterChill ==
    /\ Running
    /\ UNCHANGED <<treeVars, clientVars>>

Chill ==
    /\ tip = "chill"
    /\ mission_status = None
    /\ AfterChill
    /\ UNCHANGED thVars

ChillAfterError ==
    /\ tip = "chill"
    /\ mission_status = "error"
    /\ IF FeedbackRaises
       THEN PublishFeedbackToTst /\ UNCHANGED tip
       ELSE ClearTaskQueue /\ tip' = "chilled"
    /\ UNCHANGED <<cur, root, treeVars, clientVars>>

ForgetError ==
    /\ tip = "chilled"
    /\ SetMissionStatus(None)
    /\ AfterChill

----------------------------------------------------------------------------
(* The leaf: A_ActionClient of the client cur *)

\* initialise, which a leaf that is RUNNING skips.  It tells a busy client to cancel
\* its goal; the client stays busy.
Initialise ==
    /\ tip = "leaf"
    /\ leaf[cur] # "RUNNING"
    /\ leaf' = [leaf EXCEPT ![cur] = "RUNNING"]
    /\ IF tasks_executing = << >> THEN UNCHANGED thVars ELSE SetCurrentTaskStatus("started")
    /\ tip' = "update"
    /\ UNCHANGED <<cur, root, treeVars, timed, ready, contacted>>

\* update, of a client in state s
UpdateIn(s) ==
    /\ \/ tip = "update"
       \/ tip = "leaf" /\ leaf[cur] = "RUNNING"
    /\ s \in State(cur)

LeafRuns ==
    /\ Running
    /\ UNCHANGED <<treeVars, leaf>>

UpdateCancelled ==
    /\ UpdateIn("CANCELLED")
    /\ ready' = ready \cup {cur}
    /\ LeafRuns
    /\ UNCHANGED <<thVars, timed, contacted>>

\* send_goal
Send ==
    /\ ready' = ready \ {cur}
    /\ contacted' = contacted \cup {cur}

\* In an emergency the goal is {"level": 1}, for whichever server cur is of.
UpdateEmergency ==
    /\ UpdateIn("READY")
    /\ emergency_flag
    /\ Send
    /\ LeafRuns
    /\ UNCHANGED <<thVars, timed>>

\* Otherwise the head is marked, and its params are read next.
UpdateStart ==
    /\ UpdateIn("READY")
    /\ ~emergency_flag
    /\ SetCurrentTaskStatus("running")
    /\ tip' = "params"
    /\ UNCHANGED <<cur, root, treeVars, clientVars>>

\* The params, with or without a timeout, are sent.
SendParams ==
    /\ tip = "params"
    /\ ~ParamsRaise
    /\ GetCurrentTaskParams
    /\ Send
    /\ timed' \in {timed, timed \cup {cur}}
    /\ LeafRuns

LackParams ==
    /\ tip = "params"
    /\ ParamsRaise
    /\ GetCurrentTaskParams
    /\ UNCHANGED <<nodeVars, treeVars, clientVars>>

UpdateRunning ==
    /\ UpdateIn("BUSY")
    /\ ready' = ready \ {cur}
    /\ LeafRuns
    /\ UNCHANGED <<thVars, timed, contacted>>

\* The leaf ends: terminate makes the client READY.
LeafEnds(status) ==
    /\ leaf' = [leaf EXCEPT ![cur] = status]
    /\ ready' = ready \cup {cur}
    /\ timed' = timed \ {cur}
    /\ UNCHANGED <<cur, root, treeVars, contacted>>

\* Mutant: a status py_trees does not have.
LeafFailsMisspelt ==
    /\ IF tasks_executing = << >> THEN UNCHANGED thVars ELSE ClearCurrentTask
    /\ LeafEnds("FAILED")
    /\ tip' = "failed"

\* What both ways to fail have in common: the head is cleared.
LeafFails ==
    /\ IF tasks_executing = << >> THEN UNCHANGED thVars ELSE ClearCurrentTask
    /\ LeafEnds("FAILURE")
    /\ tip' = "failed"

\* The task's timeout; the goal is cancelled.
UpdateTimeout == UpdateIn("BUSY") /\ cur \in timed /\ LeafFails

UpdateFailed == UpdateIn("FAILED") /\ LeafFails

\* terminate(FAILURE) sets the mission status.  A mission leaf that fails leaves the
\* rest of the tick to A_Chilling; the emergency leaf fails the root.
Failed ==
    /\ tip = "failed"
    /\ SetMissionStatus("error")
    /\ tip' = IF cur = Emergency THEN "held" ELSE "chill"
    /\ root' = IF cur = Emergency THEN "FAILURE" ELSE root
    /\ UNCHANGED <<cur, treeVars, clientVars>>

UpdateDone ==
    /\ UpdateIn("DONE")
    /\ LeafEnds("SUCCESS")
    /\ tip' = IF cur = Emergency THEN "health" ELSE "clear"
    /\ UNCHANGED thVars

\* A_ClearCurrentTask, RUNNING.
Clear ==
    /\ tip = "clear"
    /\ ClearCurrentTask
    /\ EndTick("RUNNING")
    /\ UNCHANGED <<treeVars, clientVars>>

----------------------------------------------------------------------------
Update ==
    \/ UpdateCancelled \/ UpdateEmergency \/ UpdateStart \/ SendParams \/ LackParams
    \/ UpdateRunning \/ UpdateTimeout \/ UpdateFailed \/ UpdateDone

TickStep ==
    /\ node_up
    /\ \/ StartTick \/ Hold
       \/ HealthUnknown \/ HealthBad
       \/ Breathe \/ ReachLeaf \/ ReachNoLeaf \/ Clear
       \/ Chill \/ ChillAfterError \/ ForgetError
       \/ Initialise \/ Update \/ Failed

TaskHandlerStep ==
    /\ tip \in {"off", "idle"}
    /\ Callback \/ Elapse
    /\ UNCHANGED <<nodeVars, treeVars, clientVars>>

BTNext ==
    \/ Setup
    \/ Rebuild
    \/ TickStep
    \/ TaskHandlerStep

BTSpec == BTInit /\ [][BTNext]_btVars

----------------------------------------------------------------------------
(* Properties *)

\* Every variable of the tree holds a value of the kind the code gives it.
BTTypeOK ==
    /\ TypeOK
    /\ tip \in Tips
    /\ cur \in Clients \cup {None}
    /\ root \in {"INVALID", "RUNNING", "SUCCESS", "FAILURE"}
    /\ start_time \in 0 .. now \cup {None}
    /\ tree \subseteq Clients
    /\ last_available \subseteq Names
    /\ leaf \in [Clients -> {"INVALID", "RUNNING", "SUCCESS", "FAILURE"}]
    /\ timed \subseteq Clients
    /\ ready \subseteq Clients
    /\ contacted \subseteq Clients

\* The tree drives the task handler by the calls TaskHandler allows it, and in no
\* other way: what holds of every behaviour of TaskHandler holds in the tree.
UsesTaskHandler == Spec

\* Between ticks at most one leaf runs: whoever takes over in the tree, the emergency
\* included, the leaf that had the vehicle before was stopped in the same tick.
OneLeafRuns ==
    tip = "idle" => \A c, d \in Clients : leaf[c] = "RUNNING" /\ leaf[d] = "RUNNING" => c = d

\* A mission leaf that runs after a tick is that of the head of the queue, which says so.
RunningLeafIsOfTheHead ==
    [][tip # "idle" /\ tip' = "idle" =>
         \A n \in Names : leaf'[n] = "RUNNING" =>
            /\ tasks_executing' # << >>
            /\ tasks_executing'[1].name = n
            /\ tasks_executing'[1].status \in {"started", "resumed", "running"}]_btVars

\* A tick that ends in an emergency, its own abort included, leaves no mission leaf
\* running, unless the emergency action has just succeeded.
EmergencyStopsWork ==
    [][tip # "idle" /\ tip' = "idle" /\ emergency_flag' /\ leaf'[Emergency] # "SUCCESS" =>
         \A n \in Names : leaf'[n] # "RUNNING"]_btVars

\* What the comment on the client cache says ("Keep action client instances alive across
\* tree rebuilds so in-flight goals and cancel handles remain reachable"): no leaf
\* leaves the tree while it runs.
GoalsStayReachable == [][\A c \in tree \ tree' : leaf[c] # "RUNNING"]_btVars

=============================================================================
