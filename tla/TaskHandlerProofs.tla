------------------------- MODULE TaskHandlerProofs -------------------------
(***************************************************************************)
(* Theorems about TaskHandler, for any number of tasks, names and ticks.   *)
(***************************************************************************)
EXTENDS TaskHandler, SequenceTheorems, FiniteSetTheorems, TLAPS

\* Removing one element leaves the others, in their order.
LEMMA RemoveAtLemma ==
    ASSUME NEW S, NEW s \in Seq(S), NEW i \in 1 .. Len(s)
    PROVE  /\ RemoveAt(s, i) \in Seq(S)
           /\ Len(RemoveAt(s, i)) = Len(s) - 1
           /\ \A j \in 1 .. Len(s) - 1 :
                RemoveAt(s, i)[j] = IF j < i THEN s[j] ELSE s[j + 1]
<1> DEFINE a == SubSeq(s, 1, i - 1)
           b == SubSeq(s, i + 1, Len(s))
<1>1. /\ a \in Seq(S)
      /\ Len(a) = i - 1
      /\ \A j \in 1 .. i - 1 : a[j] = s[j]
  BY SubSeqProperties
<1>2. /\ b \in Seq(S)
      /\ Len(b) = Len(s) - i
      /\ \A j \in 1 .. Len(s) - i : b[j] = s[i + j]
  BY SubSeqProperties
<1>3. RemoveAt(s, i) = a \o b
  BY DEF RemoveAt
<1> HIDE DEF a, b
<1>4. /\ a \o b \in Seq(S)
      /\ Len(a \o b) = Len(a) + Len(b)
      /\ \A j \in 1 .. Len(a) + Len(b) :
            (a \o b)[j] = IF j <= Len(a) THEN a[j] ELSE b[j - Len(a)]
  BY <1>1, <1>2, ConcatProperties
<1>5. \A j \in 1 .. Len(s) - 1 : (a \o b)[j] = IF j < i THEN s[j] ELSE s[j + 1]
  <2> SUFFICES ASSUME NEW j \in 1 .. Len(s) - 1
               PROVE  (a \o b)[j] = IF j < i THEN s[j] ELSE s[j + 1]
    OBVIOUS
  <2>1. CASE j < i
    BY <1>1, <1>2, <1>4, <2>1
  <2>2. CASE ~(j < i)
    <3>1. (a \o b)[j] = b[j - (i - 1)]
      BY <1>1, <1>2, <1>4, <2>2
    <3>2. b[j - (i - 1)] = s[i + (j - (i - 1))]
      BY <1>2, <2>2
    <3> QED
      BY <2>2, <3>1, <3>2
  <2> QED
    BY <2>1, <2>2
<1> QED
  BY <1>1, <1>2, <1>3, <1>4, <1>5

\* The two lists by the status their tasks may have.
Tasks(St) == [uuid : Uuids, name : Names, status : St, has_params : BOOLEAN]

\* Marking every task of a queue with a status keeps the length.
LEMMA WithStatusLemma ==
    ASSUME NEW St, NEW q \in Seq(Tasks(St)), NEW New, NEW s \in New
    PROVE  WithStatus(q, s) \in Seq(Tasks(New))
<1>1. \A i \in 1 .. Len(q) : [q[i] EXCEPT !.status = s] \in Tasks(New)
  <2> SUFFICES ASSUME NEW i \in 1 .. Len(q)
               PROVE  [q[i] EXCEPT !.status = s] \in Tasks(New)
    OBVIOUS
  <2>1. q[i] \in Tasks(St)
    BY ElementOfSeq
  <2> QED
    BY <2>1 DEF Tasks
<1>2. WithStatus(q, s) = [i \in 1 .. Len(q) |-> [q[i] EXCEPT !.status = s]]
  BY DEF WithStatus
<1>3. Len(q) \in Nat
  BY LenProperties
<1> QED
  BY <1>1, <1>2, <1>3

\* Marking one task keeps the queue's type.
LEMMA ExceptStatusLemma ==
    ASSUME NEW St, NEW q \in Seq(Tasks(St)), NEW i \in 1 .. Len(q), NEW s \in St
    PROVE  [q EXCEPT ![i].status = s] \in Seq(Tasks(St))
<1>1. q[i] \in Tasks(St)
  BY ElementOfSeq
<1>2. [q[i] EXCEPT !.status = s] \in Tasks(St)
  BY <1>1 DEF Tasks
<1>3. [q EXCEPT ![i] = [q[i] EXCEPT !.status = s]] \in Seq(Tasks(St))
  BY <1>2, ExceptSeq
<1> QED
  BY <1>3

----------------------------------------------------------------------------
(* The inductive invariant *)

ScalarsOK ==
    /\ node_up \in BOOLEAN
    /\ now \in 0 .. MaxTime
    /\ DOMAIN tasks_available \subseteq Names
    /\ \A n \in DOMAIN tasks_available : tasks_available[n] \in 0 .. now
    /\ aborted_flag \in BOOLEAN
    /\ emergency_flag \in BOOLEAN
    /\ health_status \in Healths
    /\ health_last_time \in 0 .. now \cup {None}
    /\ mission_start_time \in 0 .. now \cup {None}
    /\ mission_timeout \in Timeouts
    /\ mission_status \in {None, "error"}
    /\ mission_command \in Commands \cup {None}

QueuesOK ==
    /\ tasks_executing \in Seq(Tasks(LiveStatus))
    /\ past_tasks \in Seq(Tasks(StoppedStatus))

IInv == ScalarsOK /\ QueuesOK /\ EmergencyLeavesOnlyOverrunWork

\* The invariant gives the properties that TLC checks.
LEMMA IInvImplies == IInv => TypeOK /\ StoppedTasksLeave
<1> SUFFICES ASSUME IInv PROVE TypeOK /\ StoppedTasksLeave
  OBVIOUS
<1>1. Tasks(LiveStatus) \subseteq Task /\ Tasks(StoppedStatus) \subseteq Task
  BY DEF Tasks, Task, WaraPSTaskStates, LiveStatus, StoppedStatus
<1>2. tasks_executing \in Seq(Task) /\ past_tasks \in Seq(Task)
  BY <1>1, SeqMonotonic DEF IInv, QueuesOK
<1>3. TypeOK
  BY <1>2 DEF IInv, ScalarsOK, TypeOK
<1>4. ASSUME NEW i \in 1 .. Len(tasks_executing)
      PROVE  tasks_executing[i].status \in LiveStatus
  <2>1. tasks_executing[i] \in Tasks(LiveStatus)
    BY ElementOfSeq DEF IInv, QueuesOK
  <2> QED
    BY <2>1 DEF Tasks
<1>5. ASSUME NEW i \in 1 .. Len(past_tasks)
      PROVE  past_tasks[i].status \in StoppedStatus
  <2>1. past_tasks[i] \in Tasks(StoppedStatus)
    BY ElementOfSeq DEF IInv, QueuesOK
  <2> QED
    BY <2>1 DEF Tasks
<1> QED
  BY <1>3, <1>4, <1>5 DEF StoppedTasksLeave

\* The invariant holds at first.
LEMMA InitIInv == Init => IInv
<1> SUFFICES ASSUME Init PROVE IInv
  OBVIOUS
<1>1. ScalarsOK
  <2>1. DOMAIN tasks_available = {}
    BY DEF Init
  <2>2. now = 0 /\ now \in 0 .. MaxTime
    BY TaskHandlerAssumption DEF Init
  <2> QED
    BY <2>1, <2>2 DEF Init, ScalarsOK, Healths, Timeouts
<1>2. QueuesOK
  BY EmptySeq DEF Init, QueuesOK
<1>3. EmergencyLeavesOnlyOverrunWork
  BY DEF Init, EmergencyLeavesOnlyOverrunWork
<1> QED
  BY <1>1, <1>2, <1>3 DEF IInv

\* A step that touches neither the clock, the emergency flag nor the watchdog and
\* fills no empty queue keeps the property of the emergency.
LEMMA EmergencyKept ==
    ASSUME EmergencyLeavesOnlyOverrunWork,
           UNCHANGED <<now, emergency_flag, watchdog>>,
           tasks_executing = << >> => tasks_executing' = << >>
    PROVE  EmergencyLeavesOnlyOverrunWork'
  BY DEF EmergencyLeavesOnlyOverrunWork, Overrun, Armed, watchdog

\* The same for a step after which there is no emergency or no task.
LEMMA EmergencyOver ==
    ASSUME ~emergency_flag' \/ tasks_executing' = << >>
    PROVE  EmergencyLeavesOnlyOverrunWork'
  BY DEF EmergencyLeavesOnlyOverrunWork

\* The clock keeps the invariant: an overrun mission stays overrun.
LEMMA ElapseKeepsIInv == IInv /\ Elapse => IInv'
<1> SUFFICES ASSUME IInv, Elapse PROVE IInv'
  OBVIOUS
<1>1. ScalarsOK'
  BY TaskHandlerAssumption
     DEF IInv, ScalarsOK, Elapse, flags, health, watchdog, mission, Healths, Timeouts
<1>2. QueuesOK'
  BY DEF IInv, QueuesOK, Elapse, queues
<1>3. EmergencyLeavesOnlyOverrunWork'
  BY TaskHandlerAssumption
     DEF IInv, ScalarsOK, EmergencyLeavesOnlyOverrunWork, Overrun, Armed, Elapse, queues, flags,
         watchdog, Timeouts
<1> QED
  BY <1>1, <1>2, <1>3 DEF IInv

(* One lemma for each group of callbacks. *)

\* Steps that leave the queues alone.
LEMMA QueuesUntouched ==
    ASSUME IInv, UNCHANGED queues
    PROVE  QueuesOK'
  BY DEF IInv, QueuesOK, queues

\* Heartbeats, the watchdog among them, and health messages keep the invariant.
LEMMA HeartbeatsKeepIInv ==
    ASSUME IInv
    PROVE  /\ \A n \in Names : ActionHeartbeat(n) => IInv'
           /\ \A n \in Names : RemoveAvailableTask(n) => IInv'
           /\ \A h \in Healths : VehicleHealth(h) => IInv'
           /\ Lvl2Comms => IInv'
<1>1. ASSUME NEW n \in Names, ActionHeartbeat(n) PROVE IInv'
  <2>1. ScalarsOK'
    <3>1. /\ DOMAIN tasks_available' = DOMAIN tasks_available \cup {n}
          /\ \A m \in DOMAIN tasks_available' :
                tasks_available'[m] = IF m = n THEN now ELSE tasks_available[m]
      BY <1>1 DEF ActionHeartbeat
    <3>2. now \in 0 .. now
      BY DEF IInv, ScalarsOK
    <3>3. \A m \in DOMAIN tasks_available' : tasks_available'[m] \in 0 .. now
      BY <3>1, <3>2 DEF IInv, ScalarsOK
    <3> QED
      BY <1>1, <3>1, <3>3
         DEF IInv, ScalarsOK, ActionHeartbeat, flags, health, watchdog, mission
  <2>2. EmergencyLeavesOnlyOverrunWork'
    BY <1>1, EmergencyKept DEF IInv, ActionHeartbeat, queues, flags
  <2> QED
    BY <1>1, <2>1, <2>2, QueuesUntouched DEF IInv, ActionHeartbeat
<1>2. ASSUME NEW n \in Names, RemoveAvailableTask(n) PROVE IInv'
  <2>1. ScalarsOK'
    <3>1. /\ DOMAIN tasks_available' = DOMAIN tasks_available \ {n}
          /\ \A m \in DOMAIN tasks_available' : tasks_available'[m] = tasks_available[m]
      BY <1>2 DEF RemoveAvailableTask
    <3> QED
      BY <1>2, <3>1
         DEF IInv, ScalarsOK, RemoveAvailableTask, flags, health, watchdog, mission
  <2>2. EmergencyLeavesOnlyOverrunWork'
    BY <1>2, EmergencyKept DEF IInv, RemoveAvailableTask, queues, flags
  <2> QED
    BY <1>2, <2>1, <2>2, QueuesUntouched DEF IInv, RemoveAvailableTask
<1>3. ASSUME NEW h \in Healths, VehicleHealth(h) PROVE IInv'
  <2>1. ScalarsOK'
    BY <1>3 DEF IInv, ScalarsOK, VehicleHealth, flags, watchdog, mission
  <2>2. EmergencyLeavesOnlyOverrunWork'
    BY <1>3, EmergencyKept DEF IInv, VehicleHealth, queues, flags
  <2> QED
    BY <1>3, <2>1, <2>2, QueuesUntouched DEF IInv, VehicleHealth
<1>4. ASSUME Lvl2Comms PROVE IInv'
  <2>1. /\ node_up' \in BOOLEAN
        /\ emergency_flag' \in BOOLEAN
        /\ mission_start_time' \in 0 .. now \cup {None}
        /\ mission_timeout' \in Timeouts
    <3>1. CASE Lvl3Crash
      BY <3>1 DEF IInv, ScalarsOK, Lvl3Crash, watchdog
    <3>2. CASE Lvl3Timeout
      BY <3>2 DEF IInv, ScalarsOK, Lvl3Timeout, watchdog
    <3>3. CASE Lvl3MissionOver
      BY <3>3 DEF IInv, ScalarsOK, Lvl3MissionOver, Timeouts
    <3>4. CASE Lvl3Idle
      BY <3>4 DEF IInv, ScalarsOK, Lvl3Idle, watchdog
    <3> QED
      BY <1>4, <3>1, <3>2, <3>3, <3>4 DEF Lvl2Comms, Lvl3Heartbeat
  <2>2. /\ DOMAIN tasks_available' \subseteq DOMAIN tasks_available
        /\ \A m \in DOMAIN tasks_available' : tasks_available'[m] = tasks_available[m]
    BY <1>4 DEF Lvl2Comms, Lvl2Heartbeat
  <2>3. ScalarsOK'
    BY <1>4, <2>1, <2>2 DEF IInv, ScalarsOK, Lvl2Comms, health, mission
  <2>4. EmergencyLeavesOnlyOverrunWork'
    <3> USE <1>4 DEF Lvl2Comms, queues
    <3>1. CASE Lvl3Crash
      BY <3>1, EmergencyKept DEF IInv, Lvl3Crash
    <3>2. CASE Lvl3Timeout
      BY <3>2 DEF Lvl3Timeout, EmergencyLeavesOnlyOverrunWork, Overrun, Armed, watchdog
    <3>3. CASE Lvl3MissionOver
      BY <3>3, EmergencyOver DEF Lvl3MissionOver
    <3>4. CASE Lvl3Idle
      BY <3>4, EmergencyKept DEF IInv, Lvl3Idle
    <3> QED
      BY <3>1, <3>2, <3>3, <3>4 DEF Lvl3Heartbeat
  <2> QED
    BY <1>4, <2>3, <2>4, QueuesUntouched DEF IInv, Lvl2Comms
<1> QED
  BY <1>1, <1>2, <1>3, <1>4

\* The four places that stop tasks.
LEMMA StopsKeepIInv ==
    ASSUME IInv
    PROVE  /\ \A u \in Uuids, s \in {"$abort", "$enough"} : StopTask(u, s) => IInv'
           /\ \A s \in {"$abort", "$enough"} : StopUnit(s) => IInv'
           /\ BigRedButton => IInv'
<1> DEFINE Live == Tasks(LiveStatus)
           Stopped == Tasks(StoppedStatus)
<1>1. \A s \in {"$abort", "$enough"} : SignalledStatus(s) \in StoppedStatus
  BY DEF SignalledStatus, StoppedStatus
<1>2. tasks_executing \in Seq(Live) /\ past_tasks \in Seq(Stopped)
  BY DEF IInv, QueuesOK
<1>3. ASSUME NEW s \in StoppedStatus
      PROVE  past_tasks \o WithStatus(tasks_executing, s) \in Seq(Stopped)
  <2>1. WithStatus(tasks_executing, s) \in Seq(Stopped)
    BY <1>2, WithStatusLemma
  <2> QED
    BY <1>2, <2>1, ConcatProperties
<1>4. ASSUME NEW u \in Uuids, NEW s \in {"$abort", "$enough"}, StopTask(u, s) PROVE IInv'
  <2>1. PICK i \in 1 .. Len(tasks_executing) :
          /\ past_tasks' =
               Append(past_tasks, [tasks_executing[i] EXCEPT !.status = SignalledStatus(s)])
          /\ tasks_executing' = RemoveAt(tasks_executing, i)
    BY <1>4 DEF StopTask
  <2>2. tasks_executing' \in Seq(Live)
    BY <1>2, <2>1, RemoveAtLemma
  <2>3. [tasks_executing[i] EXCEPT !.status = SignalledStatus(s)] \in Stopped
    <3>1. tasks_executing[i] \in Live
      BY <1>2, ElementOfSeq
    <3> QED
      BY <1>1, <3>1 DEF Tasks
  <2>4. past_tasks' \in Seq(Stopped)
    BY <1>2, <2>1, <2>3, AppendProperties
  <2>5. ScalarsOK'
    BY <1>4 DEF IInv, ScalarsOK, StopTask, health, watchdog, mission
  <2>6. EmergencyLeavesOnlyOverrunWork'
    <3>1. tasks_executing # << >>
      BY <1>2, <2>1, EmptySeq
    <3> QED
      BY <1>4, <3>1, EmergencyKept DEF IInv, StopTask
  <2> QED
    BY <2>2, <2>4, <2>5, <2>6 DEF IInv, QueuesOK
<1>5. ASSUME NEW s \in {"$abort", "$enough"}, StopUnit(s) PROVE IInv'
  <2>1. QueuesOK'
    BY <1>1, <1>3, <1>5, EmptySeq DEF StopUnit, QueuesOK
  <2>2. ScalarsOK'
    BY <1>5 DEF IInv, ScalarsOK, StopUnit, health, watchdog, mission
  <2>3. EmergencyLeavesOnlyOverrunWork'
    BY <1>5, EmergencyOver DEF StopUnit
  <2> QED
    BY <2>1, <2>2, <2>3 DEF IInv
<1>6. ASSUME BigRedButton PROVE IInv'
  <2>1. QueuesOK'
    BY <1>3, <1>6, EmptySeq DEF BigRedButton, QueuesOK, StoppedStatus
  <2>2. ScalarsOK'
    BY <1>6 DEF IInv, ScalarsOK, BigRedButton, health, watchdog, mission
  <2>3. EmergencyLeavesOnlyOverrunWork'
    BY <1>6, EmergencyOver DEF BigRedButton
  <2> QED
    BY <2>1, <2>2, <2>3 DEF IInv
<1> QED
  BY <1>4, <1>5, <1>6

\* Steps that mark tasks but stop none.
LEMMA MarksKeepIInv ==
    ASSUME IInv
    PROVE  /\ \A u \in Uuids : PauseTask(u) => IInv'
           /\ \A u \in Uuids : ContinueTask(u) => IInv'
           /\ \A s \in {"$pause", "$continue"} : MarkUnit(s) => IInv'
           /\ \A s \in {"started", "running"} : SetCurrentTaskStatus(s) => IInv'
<1>1. tasks_executing \in Seq(Tasks(LiveStatus))
  BY DEF IInv, QueuesOK
<1>2. ASSUME NEW i \in 1 .. Len(tasks_executing), NEW s \in LiveStatus
      PROVE  [tasks_executing EXCEPT ![i].status = s] \in Seq(Tasks(LiveStatus))
  BY <1>1, ExceptStatusLemma
<1>3. \A i \in 1 .. Len(tasks_executing) : tasks_executing # << >>
  BY <1>1, EmptySeq
<1>4. ASSUME NEW u \in Uuids, PauseTask(u) PROVE IInv'
  <2>1. QueuesOK'
    BY <1>2, <1>4 DEF PauseTask, LiveStatus, IInv, QueuesOK
  <2>2. ScalarsOK'
    BY <1>4 DEF IInv, ScalarsOK, PauseTask, flags, health, watchdog, mission
  <2>3. EmergencyLeavesOnlyOverrunWork'
    BY <1>3, <1>4, EmergencyKept DEF IInv, PauseTask, flags
  <2> QED
    BY <2>1, <2>2, <2>3 DEF IInv
<1>5. ASSUME NEW u \in Uuids, ContinueTask(u) PROVE IInv'
  <2>1. QueuesOK'
    BY <1>2, <1>5 DEF ContinueTask, LiveStatus, IInv, QueuesOK
  <2>2. ScalarsOK'
    BY <1>5 DEF IInv, ScalarsOK, ContinueTask, flags, health, watchdog, mission
  <2>3. EmergencyLeavesOnlyOverrunWork'
    BY <1>3, <1>5, EmergencyKept DEF IInv, ContinueTask, flags
  <2> QED
    BY <2>1, <2>2, <2>3 DEF IInv
<1>6. ASSUME NEW s \in {"$pause", "$continue"}, MarkUnit(s) PROVE IInv'
  <2>1. SignalledStatus(s) \in LiveStatus
    BY DEF SignalledStatus, LiveStatus
  <2>2. QueuesOK'
    BY <1>1, <1>6, <2>1, WithStatusLemma DEF MarkUnit, IInv, QueuesOK
  <2>3. ScalarsOK'
    BY <1>6 DEF IInv, ScalarsOK, MarkUnit, flags, health, watchdog, mission
  <2>4. tasks_executing = << >> => tasks_executing' = << >>
    BY <1>6 DEF MarkUnit, WithStatus
  <2>5. EmergencyLeavesOnlyOverrunWork'
    BY <1>6, <2>4, EmergencyKept DEF IInv, MarkUnit, flags
  <2> QED
    BY <2>2, <2>3, <2>5 DEF IInv
<1>7. ASSUME NEW s \in {"started", "running"}, SetCurrentTaskStatus(s) PROVE IInv'
  <2>1. 1 \in 1 .. Len(tasks_executing)
    BY <1>1, <1>7, EmptySeq DEF SetCurrentTaskStatus
  <2>2. QueuesOK'
    BY <1>2, <1>7, <2>1 DEF SetCurrentTaskStatus, LiveStatus, IInv, QueuesOK
  <2>3. ScalarsOK'
    BY <1>7 DEF IInv, ScalarsOK, SetCurrentTaskStatus, flags, health, watchdog, mission
  <2>4. EmergencyLeavesOnlyOverrunWork'
    BY <1>7, EmergencyKept DEF IInv, SetCurrentTaskStatus, flags
  <2> QED
    BY <2>2, <2>3, <2>4 DEF IInv
<1> QED
  BY <1>4, <1>5, <1>6, <1>7

\* A new task is live.
LEMMA NewTaskLive ==
    ASSUME NEW u \in Uuids, NEW n \in Names, NEW p \in BOOLEAN
    PROVE  NewTask(u, n, p) \in Tasks(LiveStatus)
  BY DEF NewTask, Tasks, LiveStatus

\* Steps that add tasks: they need a vehicle without emergency.
LEMMA StartsKeepIInv ==
    ASSUME IInv
    PROVE  /\ \A u \in Uuids, n \in Names, p \in BOOLEAN : StartTask(u, n, p) => IInv'
           /\ \A kids \in Missions, t \in Int, c \in Commands : StartTst(kids, t, c) => IInv'
           /\ \A t \in Timeouts, c \in Commands : RejectTst(t, c) => IInv'
<1>1. tasks_executing \in Seq(Tasks(LiveStatus))
  BY DEF IInv, QueuesOK
<1>2. ASSUME NEW u \in Uuids, NEW n \in Names, NEW p \in BOOLEAN, StartTask(u, n, p)
      PROVE  IInv'
  <2>1. QueuesOK'
    BY <1>1, <1>2, NewTaskLive, AppendProperties DEF StartTask, IInv, QueuesOK
  <2>2. ScalarsOK'
    BY <1>2 DEF IInv, ScalarsOK, StartTask, flags, health, watchdog, mission
  <2>3. EmergencyLeavesOnlyOverrunWork'
    BY <1>2, EmergencyOver DEF IInv, ScalarsOK, StartTask, MayStart, flags
  <2> QED
    BY <2>1, <2>2, <2>3 DEF IInv
<1>3. ASSUME NEW kids \in Missions, NEW t \in Int, NEW c \in Commands, StartTst(kids, t, c)
      PROVE  IInv'
  <2> DEFINE new == [i \in 1 .. Len(kids) |-> NewTask(kids[i][1], kids[i][2], TRUE)]
  <2>1. PICK k \in 0 .. MaxTasks : kids \in [1 .. k -> Uuids \X Names]
    BY DEF Missions
  <2>2. k \in Nat /\ Len(kids) = k
    BY <2>1, TaskHandlerAssumption
  <2>3. \A i \in 1 .. k : NewTask(kids[i][1], kids[i][2], TRUE) \in Tasks(LiveStatus)
    BY <2>1, NewTaskLive
  <2>4. new \in Seq(Tasks(LiveStatus))
    <3>1. new \in [1 .. k -> Tasks(LiveStatus)]
      BY <2>2, <2>3
    <3> HIDE DEF new
    <3> QED
      BY <2>2, <3>1
  <2>5. QueuesOK'
    BY <1>1, <1>3, <2>4, ConcatProperties DEF StartTst, IInv, QueuesOK
  <2>6. ScalarsOK'
    <3>1. now \in 0 .. now
      BY DEF IInv, ScalarsOK
    <3> QED
      BY <1>3, <3>1 DEF IInv, ScalarsOK, StartTst, flags, health, Timeouts
  <2>7. EmergencyLeavesOnlyOverrunWork'
    BY <1>3, EmergencyOver DEF IInv, ScalarsOK, StartTst, MayStart, flags
  <2> QED
    BY <2>5, <2>6, <2>7 DEF IInv
<1>4. ASSUME NEW t \in Timeouts, NEW c \in Commands, RejectTst(t, c) PROVE IInv'
  <2>1. QueuesOK'
    BY <1>4, QueuesUntouched DEF RejectTst
  <2>2. ScalarsOK'
    BY <1>4 DEF IInv, ScalarsOK, RejectTst, flags, health
  <2>3. EmergencyLeavesOnlyOverrunWork'
    BY <1>4, EmergencyOver DEF IInv, ScalarsOK, RejectTst, MayStart, flags
  <2> QED
    BY <2>1, <2>2, <2>3 DEF IInv
<1> QED
  BY <1>2, <1>3, <1>4

\* Steps that lower a flag, drop tasks or touch the mission's status.
LEMMA ResetsKeepIInv ==
    ASSUME IInv
    PROVE  /\ CancelAbort => IInv'
           /\ ResetEmergency => IInv'
           /\ ClearTaskQueue => IInv'
           /\ ClearCurrentTask => IInv'
           /\ \A s \in {None, "error"} : SetMissionStatus(s) => IInv'
           /\ GetCurrentTaskParams => IInv'
           /\ PublishFeedbackToTst => IInv'
           /\ ResetAbortedFlag => IInv'
<1>1. ASSUME CancelAbort PROVE IInv'
  <2>1. ScalarsOK'
    BY <1>1 DEF IInv, ScalarsOK, CancelAbort, health, mission, Timeouts
  <2>2. EmergencyLeavesOnlyOverrunWork'
    BY <1>1, EmergencyOver DEF CancelAbort
  <2> QED
    BY <1>1, <2>1, <2>2, QueuesUntouched DEF IInv, CancelAbort
<1>2. ASSUME ResetEmergency PROVE IInv'
  <2>1. ScalarsOK'
    BY <1>2 DEF IInv, ScalarsOK, ResetEmergency, health, watchdog, mission
  <2>2. EmergencyLeavesOnlyOverrunWork'
    BY <1>2, EmergencyOver DEF ResetEmergency
  <2> QED
    BY <1>2, <2>1, <2>2, QueuesUntouched DEF IInv, ResetEmergency
<1>3. ASSUME ClearTaskQueue PROVE IInv'
  <2>1. ScalarsOK'
    BY <1>3 DEF IInv, ScalarsOK, ClearTaskQueue, flags, health, watchdog, mission
  <2>2. QueuesOK'
    BY <1>3, EmptySeq DEF IInv, QueuesOK, ClearTaskQueue
  <2>3. EmergencyLeavesOnlyOverrunWork'
    BY <1>3, EmergencyOver DEF ClearTaskQueue
  <2> QED
    BY <2>1, <2>2, <2>3 DEF IInv
<1>4. ASSUME ClearCurrentTask PROVE IInv'
  <2>1. ScalarsOK'
    BY <1>4 DEF IInv, ScalarsOK, ClearCurrentTask, flags, health, watchdog, mission
  <2>2. QueuesOK'
    BY <1>4, HeadTailProperties DEF IInv, QueuesOK, ClearCurrentTask
  <2>3. EmergencyLeavesOnlyOverrunWork'
    BY <1>4, EmergencyKept DEF IInv, ClearCurrentTask, flags
  <2> QED
    BY <2>1, <2>2, <2>3 DEF IInv
<1>5. ASSUME NEW s \in {None, "error"}, SetMissionStatus(s) PROVE IInv'
  <2>1. ScalarsOK'
    BY <1>5 DEF IInv, ScalarsOK, SetMissionStatus, flags, health, watchdog
  <2>2. EmergencyLeavesOnlyOverrunWork'
    BY <1>5, EmergencyKept DEF IInv, SetMissionStatus, queues, flags
  <2> QED
    BY <1>5, <2>1, <2>2, QueuesUntouched DEF IInv, SetMissionStatus
<1>6. ASSUME PublishFeedbackToTst PROVE IInv'
  <2>1. ScalarsOK'
    BY <1>6 DEF IInv, ScalarsOK, PublishFeedbackToTst, flags, health, watchdog, mission
  <2>2. EmergencyLeavesOnlyOverrunWork'
    BY <1>6, EmergencyKept DEF IInv, PublishFeedbackToTst, queues, flags
  <2> QED
    BY <1>6, <2>1, <2>2, QueuesUntouched DEF IInv, PublishFeedbackToTst
<1>7. ASSUME ResetAbortedFlag PROVE IInv'
  <2>1. ScalarsOK'
    BY <1>7 DEF IInv, ScalarsOK, ResetAbortedFlag, health, watchdog, mission
  <2>2. EmergencyLeavesOnlyOverrunWork'
    BY <1>7, EmergencyKept DEF IInv, ResetAbortedFlag, queues
  <2> QED
    BY <1>7, <2>1, <2>2, QueuesUntouched DEF IInv, ResetAbortedFlag
<1>8. ASSUME GetCurrentTaskParams PROVE IInv'
  <2>1. ScalarsOK'
    BY <1>8 DEF IInv, ScalarsOK, GetCurrentTaskParams, flags, health, watchdog, mission
  <2>2. EmergencyLeavesOnlyOverrunWork'
    BY <1>8, EmergencyKept DEF IInv, GetCurrentTaskParams, queues, flags
  <2> QED
    BY <1>8, <2>1, <2>2, QueuesUntouched DEF IInv, GetCurrentTaskParams
<1> QED
  BY <1>1, <1>2, <1>3, <1>4, <1>5, <1>6, <1>7, <1>8

\* Every step keeps the invariant.
LEMMA NextKeepsIInv == IInv /\ [Next]_thVars => IInv'
<1> SUFFICES ASSUME IInv, [Next]_thVars PROVE IInv'
  OBVIOUS
<1>1. CASE Elapse
  BY <1>1, ElapseKeepsIInv
<1>2. CASE ExecCommand
  BY <1>2, StartsKeepIInv, StopsKeepIInv, MarksKeepIInv, TaskHandlerAssumption DEF ExecCommand
<1>3. CASE TstCommand
  <2>1. MissionTimeouts \cup {DefaultTimeout} \subseteq Int
    BY TaskHandlerAssumption
  <2>2. Int \subseteq Timeouts /\ RefusedTimeouts \subseteq Timeouts
    BY TaskHandlerAssumption DEF Timeouts
  <2> QED
    BY <1>3, <2>1, <2>2, StopsKeepIInv, MarksKeepIInv, StartsKeepIInv, ResetsKeepIInv
       DEF TstCommand
<1>4. CASE Callback
  BY <1>2, <1>3, <1>4, HeartbeatsKeepIInv, StopsKeepIInv, ResetsKeepIInv DEF Callback
<1>5. CASE TreeCall
  BY <1>5, HeartbeatsKeepIInv, MarksKeepIInv, ResetsKeepIInv DEF TreeCall
<1>6. CASE UNCHANGED thVars
  <2>1. ScalarsOK'
    BY <1>6 DEF IInv, ScalarsOK, thVars, flags, health, watchdog, mission
  <2>2. QueuesOK'
    BY <1>6, QueuesUntouched DEF thVars
  <2>3. EmergencyLeavesOnlyOverrunWork'
    BY <1>6, EmergencyKept DEF IInv, thVars, queues, flags
  <2> QED
    BY <2>1, <2>2, <2>3 DEF IInv
<1> QED
  BY <1>1, <1>4, <1>5, <1>6 DEF Next

\* The invariant holds whatever the operator, the servers and the tree do.
THEOREM InvariantHolds == Spec => []IInv
<1>1. Init => IInv
  BY InitIInv
<1>2. IInv /\ [Next]_thVars => IInv'
  BY NextKeepsIInv
<1> QED
  BY <1>1, <1>2, PTL DEF Spec

\* Every variable of the task handler keeps its type.
THEOREM TypeCorrect == Spec => []TypeOK
<1>1. IInv => TypeOK
  BY IInvImplies
<1> QED
  BY <1>1, InvariantHolds, PTL

\* No task in the queue is stopped and none in past_tasks is live, however many
\* commands, stops and tree calls came in whatever order.
THEOREM StoppedTasksLeaveHolds == Spec => []StoppedTasksLeave
<1>1. IInv => StoppedTasksLeave
  BY IInvImplies
<1> QED
  BY <1>1, InvariantHolds, PTL

\* Under an emergency there is work in the queue only if the watchdog raised it.
THEOREM EmergencyHolds == Spec => []EmergencyLeavesOnlyOverrunWork
<1>1. IInv => EmergencyLeavesOnlyOverrunWork
  BY DEF IInv
<1> QED
  BY <1>1, InvariantHolds, PTL

----------------------------------------------------------------------------
(* The order of the queue *)

\* Of a set of indices of which j is the i-th, Kept picks j.
LEMMA KeptIs ==
    ASSUME NEW n \in Nat, NEW keep \in SUBSET (1 .. n), NEW i \in Nat, NEW j \in keep,
           Cardinality({k \in keep : k <= j}) = i
    PROVE  Kept(keep, i) = j
<1>1. ASSUME NEW a \in keep, NEW b \in keep, a < b
      PROVE  Cardinality({k \in keep : k <= a}) < Cardinality({k \in keep : k <= b})
  <2> DEFINE A == {k \in keep : k <= a}
             B == {k \in keep : k <= b}
  <2>1. IsFiniteSet(B)
    <3>1. IsFiniteSet(1 .. n)
      BY FS_Interval
    <3> QED
      BY <3>1, FS_Subset
  <2>2. A \subseteq B /\ b \in B /\ b \notin A
    <3>1. a \in Nat /\ b \in Nat /\ \A k \in keep : k \in Nat
      OBVIOUS
    <3>2. ASSUME NEW k \in A PROVE k \in B
      BY <1>1, <3>1
    <3>3. b \in B /\ b \notin A
      BY <1>1, <3>1
    <3> QED
      BY <3>2, <3>3
  <2>3. Cardinality(A) <= Cardinality(B) /\ Cardinality(A) # Cardinality(B)
    BY <2>1, <2>2, FS_Subset
  <2>4. Cardinality(A) \in Nat /\ Cardinality(B) \in Nat
    BY <2>1, <2>2, FS_Subset, FS_CardinalityType
  <2> QED
    BY <2>3, <2>4
<1>2. ASSUME NEW b \in keep, Cardinality({k \in keep : k <= b}) = i PROVE b = j
  BY <1>1, <1>2
<1> QED
  BY <1>2 DEF Kept

\* An interval from 1, and one without one of its elements, count as they should.
LEMMA Counts ==
    ASSUME NEW n \in Nat
    PROVE  /\ Cardinality(1 .. n) = n
           /\ \A d \in 1 .. n : Cardinality((1 .. n) \ {d}) = n - 1
<1>1. IsFiniteSet(1 .. n) /\ Cardinality(1 .. n) = n
  BY FS_Interval
<1>2. ASSUME NEW d \in 1 .. n PROVE Cardinality((1 .. n) \ {d}) = n - 1
  BY <1>1, FS_RemoveElement
<1> QED
  BY <1>1, <1>2

\* The i-th of all indices is i.
LEMMA KeptOfAll ==
    ASSUME NEW n \in Nat, NEW i \in 1 .. n
    PROVE  Kept(1 .. n, i) = i
<1>1. {k \in 1 .. n : k <= i} = 1 .. i
  OBVIOUS
<1>2. i \in Nat /\ Cardinality(1 .. i) = i
  BY Counts
<1>3. Cardinality({k \in 1 .. n : k <= i}) = i
  BY <1>1, <1>2
<1> QED
  BY <1>2, <1>3, KeptIs

\* The i-th of all indices but one is i before that one, and i + 1 from it on.
LEMMA KeptOfOthers ==
    ASSUME NEW n \in Nat, NEW d \in 1 .. n, NEW i \in 1 .. n - 1
    PROVE  Kept((1 .. n) \ {d}, i) = IF i < d THEN i ELSE i + 1
<1> DEFINE keep == (1 .. n) \ {d}
<1>1. keep \in SUBSET (1 .. n) /\ i \in Nat
  OBVIOUS
<1>2. CASE i < d
  <2>1. i \in keep /\ {k \in keep : k <= i} = 1 .. i
    BY <1>2
  <2>2. Cardinality({k \in keep : k <= i}) = i
    BY <1>1, <2>1, Counts
  <2> HIDE DEF keep
  <2>3. Kept(keep, i) = i
    BY <1>1, <2>1, <2>2, KeptIs
  <2> QED
    BY <1>2, <2>3 DEF keep
<1>3. CASE ~(i < d)
  <2>1. i + 1 \in keep /\ {k \in keep : k <= i + 1} = (1 .. i + 1) \ {d} /\ d \in 1 .. i + 1
    BY <1>3
  <2>2. Cardinality((1 .. i + 1) \ {d}) = (i + 1) - 1
    BY <1>1, <2>1, Counts
  <2>3. Cardinality({k \in keep : k <= i + 1}) = i
    BY <1>1, <2>1, <2>2
  <2> HIDE DEF keep
  <2>4. Kept(keep, i) = i + 1
    BY <1>1, <2>1, <2>3, KeptIs
  <2> QED
    BY <1>3, <2>4 DEF keep
<1> QED
  BY <1>2, <1>3

\* The indices of the queue.
LEMMA QueueDomain ==
    ASSUME IInv
    PROVE  /\ tasks_executing \in Seq(Tasks(LiveStatus))
           /\ Len(tasks_executing) \in Nat
           /\ DOMAIN tasks_executing = 1 .. Len(tasks_executing)
  BY LenProperties DEF IInv, QueuesOK

\* A step that keeps every task where it is, marks them at most, and adds only tasks that
\* may start, is first in, first out.
LEMMA FifoKeepsAll ==
    ASSUME IInv, NEW m \in Nat, Len(tasks_executing') = m, m >= Len(tasks_executing),
           \A i \in 1 .. Len(tasks_executing) :
               /\ tasks_executing'[i].uuid = tasks_executing[i].uuid
               /\ tasks_executing'[i].name = tasks_executing[i].name,
           \A i \in Len(tasks_executing) + 1 .. m :
               MayStart /\ tasks_executing'[i].status = "started"
    PROVE  FifoStep
<1> DEFINE n == Len(tasks_executing)
           keep == 1 .. n
<1>1. n \in Nat /\ keep \in SUBSET DOMAIN tasks_executing
  BY QueueDomain
<1>2. Cardinality(keep) = n /\ \A i \in 1 .. n : Kept(keep, i) = i
  BY <1>1, Counts, KeptOfAll
<1> HIDE DEF keep
<1> QED
  BY <1>1, <1>2 DEF FifoStep

\* A step that takes one task out, from whatever place, is first in, first out.
LEMMA FifoDropsOne ==
    ASSUME IInv, NEW d \in 1 .. Len(tasks_executing),
           Len(tasks_executing') = Len(tasks_executing) - 1,
           \A i \in 1 .. Len(tasks_executing) - 1 :
               tasks_executing'[i] = IF i < d THEN tasks_executing[i] ELSE tasks_executing[i + 1]
    PROVE  FifoStep
<1> DEFINE n == Len(tasks_executing)
           keep == (1 .. n) \ {d}
<1>1. n \in Nat /\ keep \in SUBSET DOMAIN tasks_executing
  BY QueueDomain
<1>2. Cardinality(keep) = n - 1
  BY <1>1, Counts
<1>3. \A i \in 1 .. n - 1 : Kept(keep, i) = IF i < d THEN i ELSE i + 1
  BY <1>1, KeptOfOthers
<1> HIDE DEF keep
<1>4. \A i \in 1 .. n - 1 : tasks_executing[Kept(keep, i)] = tasks_executing'[i]
  BY <1>1, <1>3
<1> HIDE DEF n
<1>5. Len(tasks_executing') = n - 1 /\ (n - 1) + 1 .. n - 1 = {}
  BY <1>1 DEF n
<1> QED
  BY <1>1, <1>2, <1>4, <1>5 DEF FifoStep

\* A step that empties the queue is first in, first out.
LEMMA FifoEmpties == tasks_executing' = << >> => FifoStep
<1> SUFFICES ASSUME tasks_executing' = << >> PROVE FifoStep
  OBVIOUS
<1>1. Cardinality({}) = 0
  BY FS_EmptySet
<1>2. Len(tasks_executing') = 0
  OBVIOUS
<1>3. {} \in SUBSET DOMAIN tasks_executing
  OBVIOUS
<1> QED
  BY <1>1, <1>2, <1>3 DEF FifoStep

\* Every step leaves the queue first in, first out.
LEMMA NextIsFifo == IInv /\ [Next]_thVars => [FifoStep]_thVars
<1> SUFFICES ASSUME IInv, Next PROVE FifoStep
  OBVIOUS
<1> DEFINE n == Len(tasks_executing)
<1>1. tasks_executing \in Seq(Tasks(LiveStatus)) /\ n \in Nat /\ DOMAIN tasks_executing = 1 .. n
  BY QueueDomain
<1>2. \A i \in 1 .. n : tasks_executing[i] \in Tasks(LiveStatus)
  BY <1>1, ElementOfSeq
<1> DEFINE Grows(m) ==
      /\ Len(tasks_executing') = m /\ m >= n
      /\ \A i \in 1 .. n : /\ tasks_executing'[i].uuid = tasks_executing[i].uuid
                           /\ tasks_executing'[i].name = tasks_executing[i].name
      /\ \A i \in n + 1 .. m : MayStart /\ tasks_executing'[i].status = "started"
<1>grows. ASSUME NEW m \in Nat, Grows(m) PROVE FifoStep
  BY <1>grows, FifoKeepsAll
<1>3. ASSUME tasks_executing' = tasks_executing PROVE FifoStep
  <2>1. Grows(n)
    BY <1>1, <1>3
  <2> QED
    BY <1>1, <1>grows, <2>1
<1>4. ASSUME NEW u \in Uuids, NEW m \in Names, NEW p \in ParamsGiven, StartTask(u, m, p)
      PROVE  FifoStep
  <2>1. /\ Len(tasks_executing') = n + 1
        /\ \A i \in 1 .. n : tasks_executing'[i] = tasks_executing[i]
        /\ tasks_executing'[n + 1] = NewTask(u, m, p)
    BY <1>1, <1>4, AppendProperties DEF StartTask
  <2>2. Grows(n + 1)
    BY <1>1, <1>4, <2>1 DEF StartTask, NewTask
  <2> QED
    BY <1>1, <1>grows, <2>2
<1>5. ASSUME NEW u, NEW s, StopTask(u, s) PROVE FifoStep
  <2>1. PICK i \in 1 .. n : tasks_executing' = RemoveAt(tasks_executing, i)
    BY <1>5 DEF StopTask, IsFirst
  <2> QED
    BY <1>1, <2>1, RemoveAtLemma, FifoDropsOne
<1>6. ASSUME NEW i \in 1 .. n, NEW s, tasks_executing' = [tasks_executing EXCEPT ![i].status = s]
      PROVE  FifoStep
  <2>1. Len(tasks_executing') = n /\ DOMAIN tasks_executing' = 1 .. n
    BY <1>1, <1>6
  <2>2. \A k \in 1 .. n : /\ tasks_executing'[k].uuid = tasks_executing[k].uuid
                          /\ tasks_executing'[k].name = tasks_executing[k].name
    BY <1>1, <1>2, <1>6 DEF Tasks
  <2>3. Grows(n)
    BY <1>1, <2>1, <2>2
  <2> QED
    BY <1>1, <1>grows, <2>3
<1>7. ASSUME NEW s, MarkUnit(s) PROVE FifoStep
  <2>1. tasks_executing' = [i \in 1 .. n |-> [tasks_executing[i] EXCEPT !.status = SignalledStatus(s)]]
    BY <1>7 DEF MarkUnit, WithStatus
  <2>2. Len(tasks_executing') = n
    BY <1>1, <2>1
  <2>3. \A k \in 1 .. n : /\ tasks_executing'[k].uuid = tasks_executing[k].uuid
                          /\ tasks_executing'[k].name = tasks_executing[k].name
    BY <1>1, <1>2, <2>1 DEF Tasks
  <2>4. Grows(n)
    BY <1>1, <2>2, <2>3
  <2> QED
    BY <1>1, <1>grows, <2>4
<1>8. ASSUME NEW kids \in Missions, NEW t, NEW c, StartTst(kids, t, c) PROVE FifoStep
  <2> DEFINE new == [i \in 1 .. Len(kids) |-> NewTask(kids[i][1], kids[i][2], TRUE)]
  <2>1. kids \in Seq(Uuids \X Names)
    BY TaskHandlerAssumption DEF Missions
  <2>2. Len(kids) \in Nat /\ \A i \in 1 .. Len(kids) : kids[i] \in Uuids \X Names
    BY <2>1, LenProperties, ElementOfSeq
  <2>3. \A i \in 1 .. Len(kids) : new[i] \in Tasks(LiveStatus) /\ new[i].status = "started"
    BY <2>2 DEF NewTask, Tasks, LiveStatus
  <2>4. new \in Seq(Tasks(LiveStatus)) /\ Len(new) = Len(kids)
    <3>1. new \in [1 .. Len(kids) -> Tasks(LiveStatus)]
      BY <2>3
    <3> HIDE DEF new
    <3> QED
      BY <2>2, <3>1
  <2>5. tasks_executing' = tasks_executing \o new /\ MayStart
    BY <1>8 DEF StartTst
  <2> HIDE DEF new
  <2>6. /\ Len(tasks_executing') = n + Len(kids)
        /\ \A i \in 1 .. n + Len(kids) :
              tasks_executing'[i] = IF i <= n THEN tasks_executing[i] ELSE new[i - n]
    <3>1. /\ Len(tasks_executing \o new) = n + Len(new)
          /\ \A i \in 1 .. n + Len(new) :
                (tasks_executing \o new)[i] = IF i <= n THEN tasks_executing[i] ELSE new[i - n]
      BY <1>1, <2>4, ConcatProperties
    <3> QED
      BY <2>4, <2>5, <3>1
  <2>7. \A i \in n + 1 .. n + Len(kids) : tasks_executing'[i].status = "started"
    BY <1>1, <2>2, <2>3, <2>6
  <2>8. Grows(n + Len(kids)) /\ n + Len(kids) \in Nat
    BY <1>1, <2>2, <2>5, <2>6, <2>7
  <2> QED
    BY <1>grows, <2>8
<1>9. CASE ClearCurrentTask
  <2>1. /\ Len(tasks_executing') = n - 1 /\ 1 \in 1 .. n
        /\ \A i \in 1 .. n - 1 : tasks_executing'[i] = tasks_executing[i + 1]
    BY <1>1, <1>9, HeadTailProperties, EmptySeq DEF ClearCurrentTask
  <2> QED
    BY <1>1, <2>1, FifoDropsOne
<1>10. ASSUME NEW s, StopUnit(s) \/ BigRedButton \/ ClearTaskQueue PROVE FifoStep
  BY <1>10, FifoEmpties DEF StopUnit, BigRedButton, ClearTaskQueue
<1>11. ASSUME NEW u, PauseTask(u) \/ ContinueTask(u) PROVE FifoStep
  BY <1>6, <1>11 DEF PauseTask, ContinueTask, IsFirst
<1>12. ASSUME NEW s, SetCurrentTaskStatus(s) PROVE FifoStep
  <2>1. 1 \in 1 .. n
    BY <1>1, <1>12, EmptySeq DEF SetCurrentTaskStatus
  <2> QED
    BY <1>6, <1>12, <2>1 DEF SetCurrentTaskStatus
<1>13. CASE ExecCommand
  BY <1>4, <1>5, <1>11, <1>13 DEF ExecCommand
<1>14. CASE TstCommand
  BY <1>3, <1>7, <1>8, <1>10, <1>14 DEF TstCommand, CancelAbort, RejectTst, queues
<1>15. CASE TreeCall
  BY <1>3, <1>9, <1>10, <1>12, <1>15
     DEF TreeCall, GetCurrentTaskParams, SetMissionStatus, PublishFeedbackToTst, ResetAbortedFlag,
         RemoveAvailableTask, queues
<1>16. CASE Callback
  BY <1>3, <1>10, <1>13, <1>14, <1>16
     DEF Callback, ActionHeartbeat, Lvl2Comms, VehicleHealth, ResetEmergency, queues
<1> QED
  BY <1>3, <1>15, <1>16 DEF Next, Elapse, queues

\* The tasks are worked on in the order they came, whatever is taken out of the queue and
\* marked in it.
THEOREM QueueIsFifoHolds == Spec => QueueIsFifo
<1>1. IInv /\ [Next]_thVars => [FifoStep]_thVars
  BY NextIsFifo
<1> QED
  BY <1>1, InvariantHolds, PTL DEF Spec, QueueIsFifo

=============================================================================
