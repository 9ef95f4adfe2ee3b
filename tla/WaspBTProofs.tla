---------------------------- MODULE WaspBTProofs ----------------------------
(***************************************************************************)
(* Theorems about the behaviour tree of wasp_bt, for any actions, tasks    *)
(* and times: it drives the task handler by its methods only, one leaf     *)
(* runs at a time, that of the head of the queue, and none in an           *)
(* emergency.                                                              *)
(***************************************************************************)
EXTENDS WaspBT, TaskHandlerProofs

\* The names, as the provers need them.
LEMMA BTConstants ==
    /\ Emergency \notin Names /\ None \notin Clients /\ Emergency \in Clients
    /\ Names \subseteq Clients /\ Clients \ {Emergency} = Names
    /\ GetReady \in Clients => GetReady \in Names
BY WaspBTAssumption DEF Clients

----------------------------------------------------------------------------
(* The task handler under the tree *)

\* An update of the leaf marks the head, reads its params or clears it, or leaves the task
\* handler alone.
LEMMA UpdateIsStep == ASSUME Update PROVE [Next]_thVars
<1>1. CASE UpdateCancelled \/ UpdateEmergency \/ UpdateRunning \/ UpdateDone
  BY <1>1 DEF UpdateCancelled, UpdateEmergency, UpdateRunning, UpdateDone
<1>2. CASE UpdateStart
  BY <1>2 DEF UpdateStart, Next, TreeCall
<1>3. CASE SendParams \/ LackParams
  BY <1>3 DEF SendParams, LackParams, Next, TreeCall
<1>4. CASE UpdateTimeout \/ UpdateFailed
  BY <1>4 DEF UpdateTimeout, UpdateFailed, LeafFails, Next, TreeCall
<1> QED
  BY <1>1, <1>2, <1>3, <1>4 DEF Update

\* A step of the tree is a call of one of the task handler's methods, or none.
LEMMA TreeStepIsStep == ASSUME [BTNext]_btVars PROVE [Next]_thVars
<1>1. CASE Setup \/ Rebuild
  <2>1. ASSUME NEW clients, NEW found, SetUp(clients, found), GetReady \in clients => GetReady \in Names
        PROVE  [Next]_thVars
    BY <2>1 DEF SetUp, Next, TreeCall
  <2>2. GetReady \in TaskNames \cup (Clients \cap {Emergency, GetReady}) => GetReady \in Names
    BY BTConstants DEF TaskNames
  <2>3. GetReady \in TaskNames \cup (Names \cap {GetReady}) => GetReady \in Names
    BY DEF TaskNames
  <2> QED
    BY <1>1, <2>1, <2>2, <2>3 DEF Setup, Rebuild
<1>2. CASE StartTick \/ Hold \/ HealthUnknown \/ ReachLeaf \/ ReachNoLeaf \/ Chill
  BY <1>2 DEF StartTick, Hold, HealthUnknown, ReachLeaf, ReachNoLeaf, Chill
<1>3. CASE HealthBad
  BY <1>3 DEF HealthBad, Next, Callback
<1>4. CASE Breathe \/ Clear
  BY <1>4 DEF Breathe, Clear, Next, TreeCall
<1>5. CASE ChillAfterError \/ ForgetError \/ Failed
  BY <1>5 DEF ChillAfterError, ForgetError, Failed, Next, TreeCall
<1>6. CASE Initialise
  BY <1>6 DEF Initialise, Next, TreeCall
<1>7. CASE TaskHandlerStep
  BY <1>7 DEF TaskHandlerStep, Next
<1>8. CASE UNCHANGED btVars
  BY <1>8 DEF btVars
<1> QED
  BY <1>1, <1>2, <1>3, <1>4, <1>5, <1>6, <1>7, <1>8, UpdateIsStep DEF BTNext, TickStep

----------------------------------------------------------------------------
(* The invariant *)

Runs(c) == leaf[c] = "RUNNING"

AtLeaf  == {"leaf", "update", "params"}

\* The values of the tree's own variables; a leaf is ticked of a client.
KindsOK ==
    /\ tip \in Tips
    /\ cur \in Clients \cup {None}
    /\ tip \in AtLeaf \cup {"clear", "failed"} => cur \in Clients
    /\ root \in {"INVALID", "RUNNING", "SUCCESS", "FAILURE"}
    /\ start_time \in 0 .. now \cup {None}
    /\ tree \subseteq Clients
    /\ last_available \subseteq Names
    /\ leaf \in [Clients -> {"INVALID", "RUNNING", "SUCCESS", "FAILURE"}]
    /\ timed \subseteq Clients
    /\ ready \subseteq Clients
    /\ contacted \subseteq Clients

\* Which leaves may run, by where the tick is.  Behind the emergency leaf or in its place, a
\* mission leaf of the last tick may run until the tick has got past it.
LeavesOK ==
    /\ \A m, n \in Names : Runs(m) /\ Runs(n) => m = n
    /\ tip \in {"idle", "rebuilt"} => \A c, d \in Clients : Runs(c) /\ Runs(d) => c = d
    /\ tip \in {"health", "tasks"} => ~Runs(Emergency)
    /\ tip \in AtLeaf /\ cur # Emergency => \A c \in Clients : Runs(c) => c = cur
    /\ tip = "off" \/ (tip \in {"clear", "failed", "chill", "chilled"} /\ cur # Emergency) =>
            \A c \in Clients : ~Runs(c)
    /\ tip = "clear" => cur # Emergency

\* The mission leaf that is ticked is that of the head, which may be worked on.
HeadOK ==
    tip \in AtLeaf /\ cur # Emergency =>
        /\ tasks_executing # << >>
        /\ tasks_executing[1].name = cur
        /\ tasks_executing[1].status \in {"started", "resumed", "running"}

\* The tick gets to the mission in an emergency only when the emergency action has succeeded,
\* or by its own abort, which leaves no task.
EmergencyOK ==
    emergency_flag =>
        /\ tip = "health" => leaf[Emergency] = "SUCCESS"
        /\ tip = "tasks" => tasks_executing = << >>
        /\ tip \in AtLeaf /\ cur # Emergency => leaf[Emergency] = "SUCCESS"

BTInv == IInv /\ KindsOK /\ LeavesOK /\ HeadOK /\ EmergencyOK

----------------------------------------------------------------------------
(* What the steps do to the leaves *)

\* The leaves that a composite stops run no longer; the others stay as they are.
LEMMA HaltStops ==
    ASSUME KindsOK, NEW cs \in SUBSET Clients, Halt(cs)
    PROVE  /\ leaf' \in [Clients -> {"INVALID", "RUNNING", "SUCCESS", "FAILURE"}]
           /\ \A c \in Clients : leaf'[c] = IF c \in cs THEN "INVALID" ELSE leaf[c]
           /\ ready' \subseteq Clients /\ timed' \subseteq Clients /\ contacted' \subseteq Clients
BY DEF Halt, KindsOK

\* No leaf but cur's is touched by its update.
LEMMA LeafOfCur ==
    ASSUME KindsOK, cur \in Clients, NEW status \in {"RUNNING", "SUCCESS", "FAILURE"},
           leaf' = [leaf EXCEPT ![cur] = status]
    PROVE  /\ leaf' \in [Clients -> {"INVALID", "RUNNING", "SUCCESS", "FAILURE"}]
           /\ \A c \in Clients : leaf'[c] = IF c = cur THEN status ELSE leaf[c]
BY DEF KindsOK

\* Time never goes back, and tasks are of known names.
LEMMA TimeGoesOn ==
    ASSUME IInv, [Next]_thVars
    PROVE  now \in 0 .. now' /\ (\A t \in 0 .. now : t \in 0 .. now') /\ TaskNames \subseteq Names
<1>1. now' = now \/ now' = now + 1
  BY DEF Next, Elapse, Callback, TreeCall, ActionHeartbeat, Lvl2Comms, VehicleHealth, ExecCommand,
         StartTask, StopTask, PauseTask, ContinueTask, TstCommand, StopUnit, MarkUnit, CancelAbort,
         StartTst, RejectTst, BigRedButton, ResetEmergency, ClearTaskQueue, ClearCurrentTask,
         SetCurrentTaskStatus, GetCurrentTaskParams, SetMissionStatus, PublishFeedbackToTst,
         ResetAbortedFlag, RemoveAvailableTask, thVars
<1>2. now \in Nat /\ DOMAIN tasks_available \subseteq Names
  BY TaskHandlerAssumption DEF IInv, ScalarsOK
<1> QED
  BY <1>1, <1>2 DEF TaskNames

\* The variables of the tree keep their kinds.
LEMMA KindsKept == ASSUME IInv, KindsOK, [BTNext]_btVars PROVE KindsOK'
<1>0. start_time \in 0 .. now' \cup {None} /\ now \in 0 .. now' /\ TaskNames \subseteq Names
  BY TreeStepIsStep, TimeGoesOn DEF KindsOK
<1>1. ASSUME NEW clients, NEW found \in SUBSET clients, clients \subseteq Clients, SetUp(clients, found)
      PROVE  ready' \subseteq Clients /\ found \subseteq Clients
  BY <1>1 DEF SetUp, KindsOK
<1>2. CASE Setup
  <2>1. TaskNames \cup (Clients \cap {Emergency, GetReady}) \subseteq Clients
    BY <1>0, BTConstants
  <2>2. ready' \subseteq Clients /\ tree' \subseteq Clients
    BY <1>1, <1>2, <2>1 DEF Setup
  <2>3. start_time' \in 0 .. now'
    BY <1>0, <1>2 DEF Setup
  <2> QED
    BY <1>0, <1>2, <2>2, <2>3 DEF Setup, KindsOK, Tips, AtLeaf
<1>3. CASE Rebuild
  <2>1. TaskNames \cup (Names \cap {GetReady}) \subseteq Clients
    BY <1>0, BTConstants
  <2>2. ready' \subseteq Clients /\ tree' \subseteq Clients
    BY <1>1, <1>3, <2>1 DEF Rebuild, KindsOK
  <2>3. leaf' \in [Clients -> {"INVALID", "RUNNING", "SUCCESS", "FAILURE"}]
    BY <1>3 DEF Rebuild, KindsOK
  <2> QED
    BY <1>0, <1>3, <2>2, <2>3 DEF Rebuild, KindsOK, Tips, AtLeaf
<1>4. ASSUME NEW cs \in SUBSET Clients, Halt(cs), UNCHANGED treeVars,
             tip' \in Tips, root' \in {"INVALID", "RUNNING", "SUCCESS", "FAILURE"},
             cur' \in Clients \cup {None}, tip' \in AtLeaf \cup {"clear", "failed"} => cur' \in Clients
      PROVE  KindsOK'
  BY <1>0, <1>4, HaltStops DEF KindsOK, treeVars
<1>5. CASE StartTick
  <2>1. PICK cs \in SUBSET Clients : Halt(cs)
    BY <1>5, BTConstants DEF StartTick
  <2> QED
    BY <1>4, <1>5, <2>1, BTConstants DEF StartTick, Tips, AtLeaf, KindsOK
<1>6. CASE Hold \/ Breathe
  BY <1>4, <1>6, BTConstants DEF Hold, Breathe, EndTick, Tips, AtLeaf, KindsOK
<1>7. CASE ReachLeaf
  <2>1. PICK n \in Names : cur' = n /\ Halt({m \in Names : m # n \/ leaf[m] = "FAILURE"})
    BY <1>7 DEF ReachLeaf
  <2>2. {m \in Names : m # n \/ leaf[m] = "FAILURE"} \in SUBSET Clients
    BY BTConstants
  <2> QED
    BY <1>4, <1>7, <2>1, <2>2, BTConstants DEF ReachLeaf, Tips, AtLeaf, KindsOK
<1>8. CASE ReachNoLeaf
  BY <1>4, <1>8, BTConstants DEF ReachNoLeaf, Tips, AtLeaf, KindsOK
<1>9. ASSUME UNCHANGED <<treeVars, clientVars>>,
             tip' \in Tips, root' \in {"INVALID", "RUNNING", "SUCCESS", "FAILURE"},
             cur' \in {cur, None}, tip' \in AtLeaf \cup {"clear", "failed"} => cur' \in Clients
      PROVE  KindsOK'
  BY <1>0, <1>9 DEF KindsOK, treeVars, clientVars
<1>10. CASE HealthUnknown \/ HealthBad \/ Clear \/ Failed \/ UNCHANGED btVars \/ TaskHandlerStep
  BY <1>9, <1>10 DEF HealthUnknown, HealthBad, Clear, EndTick, Failed, btVars, nodeVars, TaskHandlerStep,
                     Tips, AtLeaf, KindsOK
<1>11. CASE Chill \/ ChillAfterError \/ ForgetError
  BY <1>9, <1>11 DEF Chill, ChillAfterError, ForgetError, AfterChill, Running, EndTick, Tips, AtLeaf, KindsOK
<1>12. CASE Initialise
  BY <1>0, <1>12, LeafOfCur DEF Initialise, Tips, AtLeaf, KindsOK, treeVars
<1>13. CASE Update
  <2>0. cur \in Clients
    BY <1>13 DEF Update, UpdateCancelled, UpdateEmergency, UpdateStart, SendParams, LackParams,
                 UpdateRunning, UpdateTimeout, UpdateFailed, UpdateDone, UpdateIn, AtLeaf, KindsOK
  <2>1. ASSUME UNCHANGED <<treeVars, leaf>>, ready' \subseteq Clients, timed' \subseteq Clients,
               contacted' \subseteq Clients, Running \/ UNCHANGED nodeVars
        PROVE  KindsOK'
    BY <1>0, <2>0, <2>1 DEF Running, EndTick, KindsOK, treeVars, nodeVars, Tips, AtLeaf
  <2>2. CASE UpdateCancelled \/ UpdateEmergency \/ UpdateRunning \/ SendParams \/ LackParams
    BY <2>0, <2>1, <2>2 DEF UpdateCancelled, UpdateEmergency, UpdateRunning, SendParams, LackParams,
                            Send, LeafRuns, KindsOK, clientVars
  <2>3. CASE UpdateStart
    BY <1>9, <2>0, <2>3 DEF UpdateStart, Tips, KindsOK
  <2>4. ASSUME NEW status \in {"SUCCESS", "FAILURE"}, LeafEnds(status), tip' \in Tips
        PROVE  KindsOK'
    BY <1>0, <2>0, <2>4, LeafOfCur DEF LeafEnds, KindsOK, treeVars
  <2>5. CASE UpdateTimeout \/ UpdateFailed \/ UpdateDone
    BY <2>4, <2>5 DEF UpdateTimeout, UpdateFailed, LeafFails, UpdateDone, Tips
  <2> QED
    BY <1>13, <2>2, <2>3, <2>5 DEF Update
<1> QED
  BY <1>2, <1>3, <1>5, <1>6, <1>7, <1>8, <1>10, <1>11, <1>12, <1>13 DEF BTNext, TickStep

\* The leaves that run, by where the tick has got to.
LEMMA LeavesKept == ASSUME IInv, KindsOK, LeavesOK, [BTNext]_btVars PROVE LeavesOK'
<1>1. CASE Setup
  BY <1>1 DEF Setup, LeavesOK, Runs, AtLeaf
<1>2. CASE Rebuild
  <2>1. \A c \in Clients : leaf'[c] = IF c = Emergency THEN leaf[c] ELSE "INVALID"
    BY <1>2 DEF Rebuild
  <2> QED
    BY <1>2, <2>1, BTConstants DEF Rebuild, LeavesOK, Runs, AtLeaf
<1>3. CASE StartTick
  <2>1. CASE root # "RUNNING"
    <3>1. \A c \in Clients : leaf'[c] = "INVALID"
      BY <1>3, <2>1, HaltStops DEF StartTick
    <3> QED
      BY <1>3, <3>1, BTConstants DEF StartTick, LeavesOK, Runs, AtLeaf
  <2>2. CASE root = "RUNNING"
    <3>1. PICK cs \in SUBSET Clients : /\ Halt(cs)
                                      /\ cs = {c \in {Emergency} : ~emergency_flag /\ leaf[c] = "RUNNING"}
      BY <1>3, <2>2, BTConstants DEF StartTick
    <3>2. \A c \in Clients : leaf'[c] = IF c \in cs THEN "INVALID" ELSE leaf[c]
      BY <3>1, HaltStops
    <3>3. ~emergency_flag => leaf'[Emergency] # "RUNNING"
      BY <3>1, <3>2, BTConstants
    <3>4. \A c, d \in Clients : leaf'[c] = "RUNNING" /\ leaf'[d] = "RUNNING" => c = d
      BY <1>3, <3>2 DEF StartTick, LeavesOK, Runs
    <3> QED
      BY <1>3, <3>3, <3>4, BTConstants DEF StartTick, LeavesOK, Runs, AtLeaf
  <2> QED
    BY <2>1, <2>2
<1>4. ASSUME Halt(Names)
      PROVE  \A c \in Clients : leaf'[c] = IF c \in Names THEN "INVALID" ELSE leaf[c]
  BY <1>4, HaltStops, BTConstants
<1>5. CASE Hold \/ Breathe \/ ReachNoLeaf
  <2>1. /\ tip' \in {"idle", "chill"} /\ (tip' = "chill" => tip \in {"health", "tasks"})
        /\ \A c \in Clients : leaf'[c] = IF c \in Names THEN "INVALID" ELSE leaf[c]
    BY <1>4, <1>5 DEF Hold, Breathe, ReachNoLeaf, EndTick, AtTasks
  <2> QED
    BY <2>1, BTConstants DEF LeavesOK, Runs, AtLeaf
<1>6. CASE ReachLeaf
  <2>1. PICK n \in Names : cur' = n /\ Halt({m \in Names : m # n \/ leaf[m] = "FAILURE"})
    BY <1>6 DEF ReachLeaf
  <2>2. \A c \in Clients : leaf'[c] = "RUNNING" => c = n \/ (c = Emergency /\ leaf[c] = "RUNNING")
    BY <2>1, HaltStops, BTConstants
  <2>3. ~Runs(Emergency) /\ tip' = "leaf"
    BY <1>6 DEF ReachLeaf, AtTasks, LeavesOK
  <2> QED
    BY <2>1, <2>2, <2>3, BTConstants DEF LeavesOK, Runs, AtLeaf
<1>7. CASE HealthUnknown \/ HealthBad \/ Clear \/ Failed
  BY <1>7 DEF HealthUnknown, HealthBad, Clear, EndTick, Failed, clientVars, LeavesOK, Runs, AtLeaf
<1>8. CASE UNCHANGED btVars \/ TaskHandlerStep
  BY <1>8 DEF btVars, TaskHandlerStep, nodeVars, clientVars, LeavesOK, Runs
<1>9. CASE Chill \/ ChillAfterError \/ ForgetError
  BY <1>9 DEF Chill, ChillAfterError, ForgetError, AfterChill, Running, EndTick, clientVars,
              LeavesOK, Runs, AtLeaf
<1>10. CASE Initialise
  <2>1. /\ tip = "leaf" /\ tip' = "update" /\ cur' = cur /\ cur \in Clients
        /\ \A c \in Clients : leaf'[c] = IF c = cur THEN "RUNNING" ELSE leaf[c]
    BY <1>10, LeafOfCur DEF Initialise, KindsOK, AtLeaf
  <2> QED
    BY <2>1, BTConstants DEF LeavesOK, Runs, AtLeaf
<1>11. CASE Update
  <2>0. tip \in AtLeaf /\ cur \in Clients
    BY <1>11 DEF Update, UpdateCancelled, UpdateEmergency, UpdateStart, SendParams, LackParams,
                 UpdateRunning, UpdateTimeout, UpdateFailed, UpdateDone, UpdateIn, AtLeaf, KindsOK
  <2>1. CASE UpdateCancelled \/ UpdateEmergency \/ UpdateRunning \/ SendParams
    <3>1. leaf' = leaf /\ IF cur = Emergency THEN tip' = "held" ELSE tip' = "idle"
      BY <2>1 DEF UpdateCancelled, UpdateEmergency, UpdateRunning, SendParams, LeafRuns, Running, EndTick
    <3> QED
      BY <2>0, <3>1 DEF LeavesOK, Runs, AtLeaf
  <2>2. CASE UpdateStart \/ LackParams
    BY <2>0, <2>2 DEF UpdateStart, LackParams, nodeVars, clientVars, LeavesOK, Runs, AtLeaf
  <2>3. CASE UpdateTimeout \/ UpdateFailed \/ UpdateDone
    <3>1. PICK status \in {"SUCCESS", "FAILURE"} : LeafEnds(status)
      BY <2>3 DEF UpdateTimeout, UpdateFailed, LeafFails, UpdateDone
    <3>2. cur' = cur /\ \A c \in Clients : leaf'[c] = IF c = cur THEN status ELSE leaf[c]
      BY <2>0, <3>1, LeafOfCur DEF LeafEnds
    <3>3. tip' = "failed" \/ (tip' = "health" /\ cur = Emergency) \/ (tip' = "clear" /\ cur # Emergency)
      BY <2>3 DEF UpdateTimeout, UpdateFailed, LeafFails, UpdateDone
    <3> QED
      BY <2>0, <3>1, <3>2, <3>3, BTConstants DEF LeavesOK, Runs, AtLeaf
  <2> QED
    BY <1>11, <2>1, <2>2, <2>3 DEF Update
<1> QED
  BY <1>1, <1>2, <1>3, <1>5, <1>6, <1>7, <1>8, <1>9, <1>10, <1>11 DEF BTNext, TickStep

\* Marking the head changes its status only.
LEMMA MarkedHead ==
    ASSUME IInv, NEW s, SetCurrentTaskStatus(s)
    PROVE  /\ tasks_executing # << >> /\ tasks_executing' # << >>
           /\ tasks_executing'[1].name = tasks_executing[1].name
           /\ tasks_executing'[1].status = s
<1>1. /\ tasks_executing # << >> /\ tasks_executing \in Seq(Tasks(LiveStatus))
      /\ tasks_executing' = [tasks_executing EXCEPT ![1].status = s]
  BY DEF SetCurrentTaskStatus, IInv, QueuesOK
<1>2. 1 \in DOMAIN tasks_executing /\ tasks_executing[1] \in Tasks(LiveStatus)
  BY <1>1
<1>3. tasks_executing'[1] = [tasks_executing[1] EXCEPT !.status = s] /\ 1 \in DOMAIN tasks_executing'
  BY <1>1, <1>2
<1> QED
  BY <1>1, <1>2, <1>3 DEF Tasks

\* The task that the tick reached stays at the head until the tick is over.
LEMMA HeadKept == ASSUME IInv, KindsOK, HeadOK, [BTNext]_btVars PROVE HeadOK'
<1>1. CASE tip' \notin AtLeaf \/ cur' = Emergency
  BY <1>1 DEF HeadOK
<1>2. CASE ReachLeaf
  BY <1>2 DEF ReachLeaf, Reaches, HeadOK, thVars, queues
<1>3. CASE Initialise
  <2>1. tip \in AtLeaf /\ cur' = cur
    BY <1>3 DEF Initialise, AtLeaf
  <2>2. CASE tasks_executing = << >>
    BY <1>1, <2>1, <2>2 DEF HeadOK
  <2>3. CASE tasks_executing # << >>
    BY <1>3, <2>1, <2>3, MarkedHead DEF Initialise, HeadOK
  <2> QED
    BY <2>2, <2>3
<1>4. CASE UpdateStart
  BY <1>4, MarkedHead DEF UpdateStart, UpdateIn, HeadOK, AtLeaf
<1>5. CASE LackParams
  BY <1>5 DEF LackParams, GetCurrentTaskParams, nodeVars, queues, HeadOK
<1>6. CASE UNCHANGED btVars
  BY <1>6 DEF btVars, nodeVars, thVars, queues, HeadOK
<1>7. CASE Setup \/ Rebuild \/ TaskHandlerStep \/ StartTick \/ Hold \/ Breathe \/ ReachNoLeaf
  BY <1>1, <1>7 DEF Setup, Rebuild, TaskHandlerStep, StartTick, Hold, Breathe, ReachNoLeaf, EndTick,
                    nodeVars, AtLeaf
<1>8. CASE HealthUnknown \/ HealthBad \/ Clear \/ Failed
  BY <1>1, <1>8 DEF HealthUnknown, HealthBad, Clear, EndTick, Failed, AtLeaf
<1>9. CASE Chill \/ ChillAfterError \/ ForgetError
  BY <1>1, <1>9 DEF Chill, ChillAfterError, ForgetError, AfterChill, Running, EndTick, AtLeaf
<1>10. CASE UpdateCancelled \/ UpdateEmergency \/ UpdateRunning \/ SendParams
  BY <1>1, <1>10 DEF UpdateCancelled, UpdateEmergency, UpdateRunning, SendParams, LeafRuns, Running,
                     EndTick, AtLeaf
<1>11. CASE UpdateTimeout \/ UpdateFailed \/ UpdateDone
  BY <1>1, <1>11 DEF UpdateTimeout, UpdateFailed, LeafFails, UpdateDone, AtLeaf
<1> QED
  BY <1>2, <1>3, <1>4, <1>5, <1>6, <1>7, <1>8, <1>9, <1>10, <1>11 DEF BTNext, TickStep, Update

\* A tick that finds the flag up, or raises it, gets to the mission behind a success of the
\* emergency action only.
LEMMA AnsweredKept ==
    ASSUME IInv, KindsOK, LeavesOK, EmergencyOK, [BTNext]_btVars PROVE EmergencyOK'
<1>1. CASE tip' \notin AtLeaf \cup {"health", "tasks"} \/ (tip' \in AtLeaf /\ cur' = Emergency)
  BY <1>1 DEF EmergencyOK, AtLeaf
<1>2. CASE StartTick
  BY <1>2 DEF StartTick, EmergencyOK, AtLeaf, thVars, flags
<1>3. CASE HealthBad
  BY <1>3 DEF HealthBad, BigRedButton, EmergencyOK, AtLeaf
<1>4. CASE ReachLeaf
  <2>1. PICK n \in Names : Reaches(n) /\ Halt({m \in Names : m # n \/ leaf[m] = "FAILURE"})
    BY <1>4 DEF ReachLeaf
  <2>2. leaf'[Emergency] = leaf[Emergency]
    BY <2>1, HaltStops, BTConstants
  <2>3. tasks_executing # << >> /\ tip \in {"health", "tasks"} /\ tip' = "leaf"
    BY <1>4, <2>1 DEF ReachLeaf, Reaches, AtTasks
  <2> QED
    BY <1>4, <2>2, <2>3 DEF ReachLeaf, EmergencyOK, AtLeaf, thVars, flags
<1>5. CASE Initialise
  <2>1. /\ tip = "leaf" /\ tip' = "update" /\ cur' = cur /\ cur \in Clients
        /\ \A c \in Clients : leaf'[c] = IF c = cur THEN "RUNNING" ELSE leaf[c]
    BY <1>5, LeafOfCur DEF Initialise, KindsOK, AtLeaf
  <2>2. emergency_flag' = emergency_flag
    BY <1>5 DEF Initialise, SetCurrentTaskStatus, thVars, flags
  <2> QED
    BY <2>1, <2>2, BTConstants DEF EmergencyOK, AtLeaf
<1>6. CASE UpdateStart \/ LackParams
  <2>1. tip \in AtLeaf /\ tip' \in AtLeaf /\ UNCHANGED <<leaf, cur, emergency_flag>>
    BY <1>6 DEF UpdateStart, UpdateIn, SetCurrentTaskStatus, LackParams, GetCurrentTaskParams, nodeVars,
                clientVars, flags, AtLeaf
  <2> QED
    BY <2>1 DEF EmergencyOK, AtLeaf
<1>7. CASE UpdateDone
  <2>1. CASE cur = Emergency
    <3>1. cur \in Clients /\ leaf' = [leaf EXCEPT ![cur] = "SUCCESS"] /\ tip' = "health"
      BY <1>7, <2>1, BTConstants DEF UpdateDone, LeafEnds
    <3>2. leaf'[Emergency] = "SUCCESS"
      BY <2>1, <3>1, LeafOfCur, BTConstants
    <3> QED
      BY <3>1, <3>2 DEF EmergencyOK, AtLeaf
  <2>2. CASE cur # Emergency
    BY <1>1, <1>7, <2>2 DEF UpdateDone, AtLeaf
  <2> QED
    BY <2>1, <2>2
<1>8. CASE UNCHANGED btVars
  BY <1>8 DEF btVars, nodeVars, thVars, queues, flags, clientVars, EmergencyOK
<1>9. CASE Setup \/ Rebuild \/ TaskHandlerStep \/ Hold \/ Breathe \/ ReachNoLeaf
  BY <1>1, <1>9 DEF Setup, Rebuild, TaskHandlerStep, Hold, Breathe, ReachNoLeaf, EndTick, nodeVars, AtLeaf
<1>10. CASE HealthUnknown \/ Clear \/ Failed \/ Chill \/ ChillAfterError \/ ForgetError
  BY <1>1, <1>10 DEF HealthUnknown, Clear, Failed, Chill, ChillAfterError, ForgetError, AfterChill,
                     Running, EndTick, AtLeaf
<1>11. CASE UpdateCancelled \/ UpdateEmergency \/ UpdateRunning \/ SendParams
  BY <1>1, <1>11 DEF UpdateCancelled, UpdateEmergency, UpdateRunning, SendParams, LeafRuns, Running,
                     EndTick, AtLeaf
<1>12. CASE UpdateTimeout \/ UpdateFailed
  BY <1>1, <1>12 DEF UpdateTimeout, UpdateFailed, LeafFails, AtLeaf
<1> QED
  BY <1>2, <1>3, <1>4, <1>5, <1>6, <1>7, <1>8, <1>9, <1>10, <1>11, <1>12 DEF BTNext, TickStep, Update

----------------------------------------------------------------------------
(* Theorems *)

\* The node starts with an empty queue and a tree that has not been set up.
LEMMA InitBTInv == BTInit => BTInv
<1> SUFFICES ASSUME BTInit PROVE BTInv
  OBVIOUS
<1>1. IInv
  BY InitIInv DEF BTInit
<1>2. KindsOK
  BY DEF BTInit, KindsOK, Tips, AtLeaf
<1>3. LeavesOK
  BY BTConstants DEF BTInit, LeavesOK, Runs, AtLeaf
<1>4. HeadOK /\ EmergencyOK
  BY DEF BTInit, HeadOK, EmergencyOK, AtLeaf
<1> QED
  BY <1>1, <1>2, <1>3, <1>4 DEF BTInv

\* Every step of the tree keeps the invariant; what the task handler needs of it is that the
\* tree calls its methods only.
LEMMA NextBTInv == BTInv /\ [BTNext]_btVars => BTInv'
BY TreeStepIsStep, NextKeepsIInv, KindsKept, LeavesKept, HeadKept, AnsweredKept DEF BTInv

\* The invariant of the tree around the task handler.
THEOREM BTInvHolds == BTSpec => []BTInv
BY InitBTInv, NextBTInv, PTL DEF BTSpec

\* The tree drives the task handler by its methods and in no other way.
THEOREM TreeUsesTaskHandler == BTSpec => UsesTaskHandler
<1>1. BTInit => Init
  BY DEF BTInit
<1>2. [BTNext]_btVars => [Next]_thVars
  BY TreeStepIsStep
<1> QED
  BY <1>1, <1>2, PTL DEF BTSpec, UsesTaskHandler, Spec

\* So what was proved of the task handler alone holds under the tree: stopped tasks stay
\* out of the queue, an emergency leaves only the overrun mission in it, the rest is
\* worked on in its order.
THEOREM HandlerKeepsItsPromises ==
    BTSpec => /\ [](StoppedTasksLeave /\ EmergencyLeavesOnlyOverrunWork)
              /\ QueueIsFifo
BY TreeUsesTaskHandler, StoppedTasksLeaveHolds, EmergencyHolds, QueueIsFifoHolds, PTL
   DEF UsesTaskHandler

\* Every variable of the tree holds a value of the kind the code gives it.
THEOREM BTTypeCorrect == BTSpec => []BTTypeOK
<1>1. BTInv => BTTypeOK
  BY IInvImplies DEF BTInv, KindsOK, BTTypeOK
<1> QED
  BY <1>1, BTInvHolds, PTL

\* Between ticks at most one leaf runs, whoever took over in the tree.
THEOREM OneLeafAtATime == BTSpec => []OneLeafRuns
<1>1. BTInv => OneLeafRuns
  BY DEF BTInv, LeavesOK, Runs, OneLeafRuns
<1> QED
  BY <1>1, BTInvHolds, PTL

\* How a tick can end: with no mission leaf that runs, or with that of the head alone, behind
\* the emergency action's success if there is an emergency.
LEMMA TickEnds ==
    ASSUME BTInv, [BTNext]_btVars, tip # "idle", tip' = "idle"
    PROVE  \/ \A n \in Names : leaf'[n] # "RUNNING"
           \/ /\ tip \in AtLeaf /\ cur # Emergency
              /\ leaf' = leaf
              /\ UNCHANGED <<queues, emergency_flag>>
<1> DEFINE NoneRuns == \A n \in Names : leaf'[n] # "RUNNING"
<1> USE DEF BTInv
<1>1. CASE Setup
  BY <1>1, BTConstants DEF Setup, LeavesOK, Runs
<1>2. CASE Hold \/ Breathe
  <2>1. Halt(Names)
    BY <1>2 DEF Hold, Breathe
  <2> QED
    BY <2>1, HaltStops, BTConstants
<1>3. CASE Clear \/ Chill \/ ForgetError
  <2>1. leaf' = leaf /\ tip \in {"clear", "chill", "chilled"} /\ cur # Emergency
    BY <1>3 DEF Clear, Chill, ForgetError, AfterChill, Running, clientVars, LeavesOK
  <2> QED
    BY <2>1, BTConstants DEF LeavesOK, Runs
<1>4. CASE ChillAfterError
  <2>1. leaf' = leaf /\ tip = "chill" /\ tip' # "idle"
    BY <1>4 DEF ChillAfterError, clientVars
  <2> QED
    BY <2>1
<1>5. CASE UpdateCancelled \/ UpdateEmergency \/ UpdateRunning \/ SendParams
  BY <1>5 DEF UpdateCancelled, UpdateEmergency, UpdateRunning, SendParams, UpdateIn, LeafRuns, Running,
              GetCurrentTaskParams, AtLeaf, thVars, flags, queues
<1>6. CASE Rebuild \/ TaskHandlerStep \/ StartTick \/ ReachLeaf \/ ReachNoLeaf \/ UNCHANGED btVars
  BY <1>6 DEF Rebuild, TaskHandlerStep, StartTick, ReachLeaf, ReachNoLeaf, nodeVars, btVars
<1>7. CASE HealthUnknown \/ HealthBad \/ Initialise \/ Failed
  BY <1>7 DEF HealthUnknown, HealthBad, Initialise, Failed
<1>8. CASE UpdateStart \/ LackParams \/ UpdateTimeout \/ UpdateFailed \/ UpdateDone
  BY <1>8 DEF UpdateStart, LackParams, UpdateTimeout, UpdateFailed, LeafFails, UpdateDone, nodeVars
<1> QED
  BY <1>1, <1>2, <1>3, <1>4, <1>5, <1>6, <1>7, <1>8 DEF BTNext, TickStep, Update

\* A mission leaf that runs after a tick is that of the head of the queue, which says so.
THEOREM HeadLeafRuns == BTSpec => RunningLeafIsOfTheHead
<1>1. ASSUME BTInv, [BTNext]_btVars, tip # "idle", tip' = "idle",
             NEW n \in Names, leaf'[n] = "RUNNING"
      PROVE  /\ tasks_executing' # << >>
             /\ tasks_executing'[1].name = n
             /\ tasks_executing'[1].status \in {"started", "resumed", "running"}
  <2>1. /\ tip \in AtLeaf /\ cur # Emergency
        /\ leaf' = leaf /\ UNCHANGED queues
    BY <1>1, TickEnds
  <2>2. n = cur
    BY <1>1, <2>1, BTConstants DEF BTInv, LeavesOK, Runs
  <2> QED
    BY <1>1, <2>1, <2>2 DEF BTInv, HeadOK, queues
<1>2. BTInv /\ [BTNext]_btVars =>
        [tip # "idle" /\ tip' = "idle" =>
            \A n \in Names : leaf'[n] = "RUNNING" =>
                /\ tasks_executing' # << >>
                /\ tasks_executing'[1].name = n
                /\ tasks_executing'[1].status \in {"started", "resumed", "running"}]_btVars
  BY <1>1
<1> QED
  BY <1>2, BTInvHolds, PTL DEF BTSpec, RunningLeafIsOfTheHead

\* A tick that ends in an emergency leaves no mission leaf running, unless the emergency action
\* has just succeeded.
THEOREM EmergenciesStopWork == BTSpec => EmergencyStopsWork
<1>1. ASSUME BTInv, [BTNext]_btVars, tip # "idle", tip' = "idle", emergency_flag',
             leaf'[Emergency] # "SUCCESS"
      PROVE  \A n \in Names : leaf'[n] # "RUNNING"
  BY <1>1, TickEnds DEF BTInv, EmergencyOK
<1>2. BTInv /\ [BTNext]_btVars =>
        [tip # "idle" /\ tip' = "idle" /\ emergency_flag' /\ leaf'[Emergency] # "SUCCESS" =>
            \A n \in Names : leaf'[n] # "RUNNING"]_btVars
  BY <1>1
<1> QED
  BY <1>2, BTInvHolds, PTL DEF BTSpec, EmergencyStopsWork
=============================================================================
