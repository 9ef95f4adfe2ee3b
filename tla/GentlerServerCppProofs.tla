------------------------ MODULE GentlerServerCppProofs ------------------------
(***************************************************************************)
(* Proofs about the C++ server, for any set of goals, with preemption or   *)
(* without, and about its wait action, for any timeouts.  Spec is that of  *)
(* MCGentlerServerCpp: a user that does anything, or the wait action.      *)
(***************************************************************************)
EXTENDS MCGentlerServerCpp, TLAPS

MainStep == {"spin", "flush", "reject", "goal", "accepted", "join", "cancel", "stop", "abort",
             "stopping"}
LoopStep == {"none", "prepare", "top", "lock", "test", "canceled", "inner", "compare", "after",
             "end", "caught", "abort", "reset", "done"}

StepsOK ==
    /\ CppTypeOK
    /\ main \in [at : MainStep, goal : Goals \cup {None}]
    /\ loop \in [Goals -> LoopStep]

\* The goal that the main thread holds is as far as what it is at; a goal without a handle
\* has no execution.
MainOK ==
    /\ main.at \in {"reject", "goal"} => main.goal \in Goals /\ status[main.goal] = "UNKNOWN"
    /\ main.at \in {"accepted", "join"} =>
            main.goal \in Goals /\ status[main.goal] = "EXECUTING" /\ loop[main.goal] = "none"
    /\ main.at = "cancel" => main.goal \in Goals
    /\ main.at \in {"cancel", "abort"} /\ main.goal # None =>
            status[main.goal] \notin {"UNKNOWN", "REJECTED"}
    /\ main.at \in {"spin", "flush", "stop", "stopping"} => main.goal = None
    /\ \A g \in Goals : status[g] \in {"UNKNOWN", "REJECTED"} => loop[g] = "none"

\* A goal has its result from its end on.
ResultsOK ==
    \A g \in Goals : result[g] = IF status[g] \notin Terminal THEN None
                                 ELSE IF status[g] = "SUCCEEDED" THEN "success" ELSE "failure"

CppInv == StepsOK /\ MainOK /\ ResultsOK /\ OneLoopRuns

\* At first no goal has come and no loop runs.
LEMMA InitCpp == CppInit => CppInv
<1> SUFFICES ASSUME CppInit PROVE CppInv
  OBVIOUS
<1> USE GentlerServerCppAssumption DEF CppInit, Idle, Active, Terminal
<1>1. StepsOK
  BY DEF StepsOK, CppTypeOK, MainStep, LoopStep
<1>2. MainOK /\ ResultsOK
  BY DEF MainOK, ResultsOK
<1>3. OneLoopRuns
  BY DEF OneLoopRuns, LoopDone
<1> QED
  BY <1>1, <1>2, <1>3 DEF CppInv

\* A stuttering step keeps the invariant.
LEMMA StutterCpp == CppInv /\ UNCHANGED cppVars => CppInv'
BY DEF cppVars, CppInv, StepsOK, CppTypeOK, MainOK, ResultsOK, OneLoopRuns

\* The main thread keeps the invariant.
LEMMA MainKeeps == CppInv /\ (MainThread \/ UserOnMain) => CppInv'
<1> SUFFICES ASSUME CppInv, MainThread \/ UserOnMain PROVE CppInv'
  OBVIOUS
<1> USE GentlerServerCppAssumption
    DEF CppInv, StepsOK, CppTypeOK, MainOK, ResultsOK, OneLoopRuns, Idle, Active, Terminal,
        MainStep, LoopStep, LoopDone, MainAt
<1>1. CASE TurnAway \/ RefuseGoal
  BY <1>1 DEF TurnAway, RefuseGoal, Reject
<1>2. CASE AcceptGoal
  BY <1>2 DEF AcceptGoal
<1>3. CASE HandleAccepted
  BY <1>3 DEF HandleAccepted
<1>4. CASE Execute
  BY <1>4 DEF Execute, Joinable
<1>5. CASE AcceptCancel
  BY <1>5 DEF AcceptCancel
<1>6. CASE RefuseCancel
  BY <1>6 DEF RefuseCancel
<1>7. CASE TakeActiveGoal
  BY <1>7 DEF TakeActiveGoal
<1>8. CASE AbortActiveGoal
  BY <1>8 DEF AbortActiveGoal, End
<1>9. CASE JoinAndFlush
  BY <1>9 DEF JoinAndFlush
<1> QED
  BY <1>1, <1>2, <1>3, <1>4, <1>5, <1>6, <1>7, <1>8, <1>9 DEF MainThread, UserOnMain

\* The requests keep the invariant.
LEMMA RequestsKeep == CppInv /\ Requests => CppInv'
<1> SUFFICES ASSUME CppInv, Requests PROVE CppInv'
  OBVIOUS
<1> USE GentlerServerCppAssumption
    DEF CppInv, StepsOK, CppTypeOK, MainOK, ResultsOK, OneLoopRuns, Active, Terminal,
        MainStep, LoopStep, LoopDone, MainAt
<1>1. ASSUME NEW g \in Goals, HandleGoal(g) PROVE CppInv'
  BY <1>1 DEF HandleGoal
<1>2. ASSUME NEW g \in Goals, HandleCancel(g) PROVE CppInv'
  BY <1>2 DEF HandleCancel
<1>3. CASE RequestShutdown
  BY <1>3 DEF RequestShutdown
<1> QED
  BY <1>1, <1>2, <1>3 DEF Requests

\* The steps of a loop that leave the goal alone.
LEMMA LoopMoves ==
    ASSUME CppInv, NEW g \in Goals, loop[g] \notin LoopDone,
           NEW at \in LoopStep \ {"none"}, GoTo(g, at), verdict' \in {"RUNNING", "SUCCESS", "FAILURE"},
           active' \in {active, None}, terminated' \in BOOLEAN,
           UNCHANGED <<status, result, main, stop_requested>>
    PROVE  CppInv'
<1> USE DEF CppInv, MainOK
<1>1. StepsOK'
  BY DEF StepsOK, CppTypeOK, GoTo
<1>2. MainOK' /\ ResultsOK'
  BY DEF GoTo, ResultsOK, StepsOK, LoopStep, LoopDone
<1>3. OneLoopRuns'
  BY DEF GoTo, OneLoopRuns, StepsOK
<1> QED
  BY <1>1, <1>2, <1>3

\* The steps of a loop that end the goal.
LEMMA LoopEnds ==
    ASSUME CppInv, NEW g \in Goals, loop[g] \notin LoopDone, status[g] \in Active,
           NEW to \in Terminal, End(g, to), NEW at \in LoopStep \ {"none"}, GoTo(g, at),
           UNCHANGED <<main, verdict, active, stop_requested, terminated>>
    PROVE  CppInv'
<1> USE DEF CppInv, Active, Terminal
<1>1. StepsOK'
  BY DEF StepsOK, CppTypeOK, GoTo, End
<1>2. MainOK'
  BY DEF MainOK, GoTo, End, StepsOK, CppTypeOK, LoopDone
<1>3. ResultsOK'
  BY DEF End, ResultsOK, StepsOK, CppTypeOK
<1>4. OneLoopRuns'
  BY DEF GoTo, OneLoopRuns, StepsOK
<1> QED
  BY <1>1, <1>2, <1>3, <1>4

\* The execution thread keeps the invariant.
LEMMA LoopKeeps ==
    ASSUME CppInv, NEW g \in Goals, LoopThread(g) \/ UserOnLoop(g)
    PROVE  CppInv'
<1> USE DEF LoopAt, LoopDone, LoopStep, Terminal, CppInv, StepsOK, CppTypeOK
<1>1. CASE Prepare(g)
  BY <1>1, LoopMoves DEF Prepare
<1>2. CASE Top(g)
  BY <1>2, LoopMoves DEF Top
<1>3. CASE Lock(g)
  BY <1>3, LoopMoves, LoopEnds DEF Lock
<1>4. CASE Test(g)
  BY <1>4, LoopMoves DEF Test
<1>5. CASE Canceled(g)
  BY <1>5, LoopMoves, LoopEnds DEF Canceled, Active
<1>6. ASSUME NEW loop_status \in {"RUNNING", "SUCCESS", "FAILURE"}, Inner(g, loop_status)
      PROVE  CppInv'
  BY <1>6, LoopMoves DEF Inner
<1>7. CASE Throw(g)
  BY <1>7, LoopMoves DEF Throw
<1>8. CASE After(g)
  BY <1>8, LoopMoves DEF After
<1>9. CASE EndLoop(g)
  BY <1>9, LoopMoves, LoopEnds DEF EndLoop
<1>10. CASE Caught(g)
  BY <1>10, LoopMoves DEF Caught
<1>11. CASE Abort(g)
  <2>1. CASE status[g] \in Active
    BY <1>11, <2>1, LoopEnds DEF Abort
  <2>2. CASE status[g] \notin Active
    BY <1>11, <2>2 DEF Abort, MainOK, ResultsOK, OneLoopRuns
  <2> QED
    BY <2>1, <2>2
<1>12. CASE Reset(g)
  BY <1>12, LoopMoves DEF Reset
<1> QED
  BY <1>1, <1>2, <1>3, <1>4, <1>5, <1>6, <1>7, <1>8, <1>9, <1>10, <1>11, <1>12
     DEF LoopThread, UserOnLoop

\* The reads of the wait action, of which the server has none, keep it as well.
LEMMA WaitInnerKeeps ==
    ASSUME CppInv, NEW g \in Goals, LoopInnerFlags(g) \/ LoopInnerTimes(g)
    PROVE  CppInv'
<1> USE DEF LoopAt, LoopDone, LoopStep, CppInv, StepsOK, CppTypeOK
<1>1. CASE LoopInnerFlags(g)
  BY <1>1, LoopMoves DEF LoopInnerFlags, Inner
<1>2. CASE LoopInnerTimes(g)
  BY <1>2, LoopMoves DEF LoopInnerTimes
<1> QED
  BY <1>1, <1>2

----------------------------------------------------------------------------
(* The wait action *)

\* What the members of the wait action tell of the goal whose loop runs, as long as no other
\* callback has meddled with it.
WaitingOK(g) ==
    /\ timeout_s = asked[g] /\ has_timeout
    /\ loop[g] # "prepare" => has_started_waiting /\ elapsed = waited
    /\ loop[g] \in {"after", "end"} /\ verdict = "SUCCESS" => waited >= asked[g]

WaitInv ==
    /\ WaitTypeOK
    /\ user \in {"any", "wait"}
    /\ user = "any" => meddled
    /\ user = "wait" /\ main.at \in {"accepted", "join"} => timeout_s = asked[main.goal] /\ has_timeout
    /\ ~meddled => \A g \in Goals : loop[g] \notin LoopDone => WaitingOK(g)

\* At first the wait action has no goal to run.
LEMMA InitWait == Init => WaitInv
<1> SUFFICES ASSUME Init PROVE WaitInv
  OBVIOUS
<1>1. elapsed \in 0 .. LongAgo /\ waited \in 0 .. LongAgo /\ timeout_s \in Timeouts \cup {0}
  BY WaitActionCppAssumption DEF Init, WaitInit
<1>2. WaitTypeOK
  BY <1>1 DEF Init, WaitInit, WaitTypeOK
<1> QED
  BY <1>2 DEF Init, CppInit, WaitInit, WaitInv, Idle

\* A step of the server that moves no loop keeps what the wait action knows.
LEMMA WaitUntouched ==
    ASSUME CppInv, WaitInv, UNCHANGED <<user, waitVars, loop, verdict>>,
           main'.at \in {"accepted", "join"} =>
                main.at \in {"accepted", "join"} /\ main'.goal = main.goal
    PROVE  WaitInv'
BY DEF WaitInv, WaitTypeOK, WaitingOK, waitVars

\* The steps of the main thread, the goal callback of the wait action among them, keep what
\* the wait action knows.
LEMMA MainKeepsWait ==
    ASSUME CppInv, WaitInv, user = "wait", WaitOnMain, UNCHANGED user
    PROVE  WaitInv'
<1> USE DEF CppInv, MainOK, StepsOK, MainAt, Idle, MainStep
<1>1. CASE TurnAway /\ UNCHANGED waitVars
  BY <1>1, WaitUntouched DEF TurnAway, Reject
<1>2. CASE HandleAccepted /\ UNCHANGED waitVars
  BY <1>2, WaitUntouched DEF HandleAccepted
<1>3. CASE (TakeActiveGoal \/ AbortActiveGoal \/ JoinAndFlush) /\ UNCHANGED waitVars
  BY <1>3, WaitUntouched DEF TakeActiveGoal, AbortActiveGoal, JoinAndFlush
<1>4. CASE AcceptCancel /\ UNCHANGED waitVars
  BY <1>4, WaitUntouched DEF AcceptCancel
<1>5. CASE StartLoop
  BY <1>5 DEF StartLoop, Execute, Joinable, WaitInv, WaitTypeOK, WaitingOK, LoopDone
<1>6. CASE OnMalformedGoal
  BY <1>6, WaitUntouched DEF OnMalformedGoal, RefuseGoal, Reject
<1>7. ASSUME NEW t \in Timeouts, OnGoalReceived(t) PROVE WaitInv'
  BY <1>7 DEF OnGoalReceived, AcceptGoal, RefuseGoal, Reject, WaitInv, WaitTypeOK
<1> QED
  BY <1>1, <1>2, <1>3, <1>4, <1>5, <1>6, <1>7 DEF WaitOnMain

\* So do the steps of a loop that runs the wait action.
LEMMA LoopKeepsWait ==
    ASSUME CppInv, WaitInv, user = "wait", NEW g \in Goals, WaitOnLoop(g), UNCHANGED user
    PROVE  WaitInv'
<1>1. ASSUME UNCHANGED <<main, waitVars>>, UNCHANGED verdict, loop[g] \notin LoopDone,
             NEW at \in LoopStep \ {"none", "prepare"}, GoTo(g, at), 
             loop[g] # "prepare", at = "end" => loop[g] = "after" /\ verdict # "RUNNING",
             at # "after"
      PROVE  WaitInv'
  BY <1>1 DEF CppInv, OneLoopRuns, StepsOK, GoTo, WaitInv, WaitTypeOK, WaitingOK, waitVars
<1> USE DEF LoopAt, LoopDone, LoopStep
<1>2. CASE LoopThread(g) /\ UNCHANGED waitVars
  <2>1. CASE Top(g)
    BY <1>1, <1>2, <2>1 DEF Top
  <2>2. CASE Lock(g)
    BY <1>1, <1>2, <2>2 DEF Lock
  <2>3. CASE Test(g)
    BY <1>1, <1>2, <2>3 DEF Test
  <2>4. CASE Canceled(g)
    BY <1>1, <1>2, <2>4 DEF Canceled
  <2>5. CASE After(g)
    BY <1>1, <1>2, <2>5 DEF After
  <2>6. CASE EndLoop(g)
    BY <1>1, <1>2, <2>6 DEF EndLoop
  <2>7. CASE Caught(g)
    BY <1>1, <1>2, <2>7 DEF Caught
  <2>8. CASE Abort(g)
    BY <1>1, <1>2, <2>8, WaitUntouched DEF Abort
  <2>9. CASE Reset(g)
    BY <1>1, <1>2, <2>9 DEF Reset
  <2> QED
    BY <1>2, <2>1, <2>2, <2>3, <2>4, <2>5, <2>6, <2>7, <2>8, <2>9 DEF LoopThread
<1> USE DEF CppInv, OneLoopRuns, StepsOK, GoTo, WaitInv, WaitTypeOK, WaitingOK
<1>3. CASE PrepareLoop(g)
  BY <1>3, WaitActionCppAssumption DEF PrepareLoop, Prepare
<1>4. CASE LoopInnerFlags(g)
  BY <1>4 DEF LoopInnerFlags, Inner, waitVars
<1>5. CASE LoopInnerTimes(g)
  BY <1>5, WaitActionCppAssumption DEF LoopInnerTimes, waitVars
<1> QED
  BY <1>2, <1>3, <1>4, <1>5 DEF WaitOnLoop

\* Goal requests, cancels, the shutdown and time keep what the wait action knows.
LEMMA RequestsKeepWait ==
    ASSUME CppInv, WaitInv, user = "wait", UNCHANGED user,
           \/ Tick
           \/ RequestShutdown /\ UNCHANGED waitVars
           \/ \E g \in Goals : (HandleGoal(g) /\ UNCHANGED waitVars) \/ OnCancelReceived(g)
    PROVE  WaitInv'
<1>1. CASE Tick
  BY <1>1, WaitActionCppAssumption DEF Tick, cppVars, WaitInv, WaitTypeOK, WaitingOK,
     CppInv, StepsOK
<1>2. CASE RequestShutdown /\ UNCHANGED waitVars
  BY <1>2, WaitUntouched DEF RequestShutdown, CppInv, StepsOK
<1>3. ASSUME NEW g \in Goals, HandleGoal(g), UNCHANGED waitVars PROVE WaitInv'
  BY <1>3, WaitUntouched DEF HandleGoal
<1>4. ASSUME NEW g \in Goals, OnCancelReceived(g) PROVE WaitInv'
  <2>1. elapsed' \in 0 .. LongAgo
    BY <1>4, WaitActionCppAssumption DEF OnCancelReceived
  <2> QED
    BY <1>4, <2>1 DEF OnCancelReceived, HandleCancel, WaitInv, WaitTypeOK
<1> QED
  BY <1>1, <1>2, <1>3, <1>4

----------------------------------------------------------------------------
(* Every step *)

\* A step of either user is one of the server's steps, or one of the wait action alone.
LEMMA NextCpp == CppInv /\ WaitInv /\ [ByAny(CppNext) \/ ByWait(WaitNext)]_vars => CppInv' /\ WaitInv'
<1> SUFFICES ASSUME CppInv, WaitInv, [ByAny(CppNext) \/ ByWait(WaitNext)]_vars
             PROVE  CppInv' /\ WaitInv'
  OBVIOUS
<1>1. CASE ByAny(CppNext)
  <2>1. CppInv'
    BY <1>1, MainKeeps, RequestsKeep, LoopKeeps DEF ByAny, CppNext
  <2>2. WaitInv'
    BY <1>1 DEF ByAny, waitVars, WaitInv, WaitTypeOK
  <2> QED
    BY <2>1, <2>2
<1>2. CASE ByWait(WaitNext)
  <2>1. CASE WaitOnMain
    <3>1. CppInv'
      BY <2>1, MainKeeps DEF WaitOnMain, MainThread, UserOnMain, StartLoop, OnMalformedGoal,
         OnGoalReceived
    <3> QED
      BY <1>2, <2>1, <3>1, MainKeepsWait DEF ByWait
  <2>2. ASSUME NEW g \in Goals, WaitOnLoop(g) PROVE CppInv' /\ WaitInv'
    <3>1. CppInv'
      BY <2>2, LoopKeeps, WaitInnerKeeps DEF WaitOnLoop, UserOnLoop, PrepareLoop
    <3> QED
      BY <1>2, <2>2, <3>1, LoopKeepsWait DEF ByWait
  <2>3. ASSUME \/ Tick
               \/ RequestShutdown /\ UNCHANGED waitVars
               \/ \E g \in Goals : (HandleGoal(g) /\ UNCHANGED waitVars) \/ OnCancelReceived(g)
        PROVE  CppInv' /\ WaitInv'
    <3>1. CppInv'
      BY <2>3, RequestsKeep, StutterCpp DEF Requests, OnCancelReceived, Tick
    <3> QED
      BY <1>2, <2>3, <3>1, RequestsKeepWait DEF ByWait
  <2> QED
    BY <1>2, <2>1, <2>2, <2>3 DEF ByWait, WaitNext
<1>3. CASE UNCHANGED vars
  BY <1>3, StutterCpp DEF vars, waitVars, cppVars, WaitInv, WaitTypeOK, WaitingOK
<1> QED
  BY <1>1, <1>2, <1>3

\* A goal succeeds by the end of its loop only, on the verdict of its user.
LEMMA SuccessIsOfTheLoop ==
    ASSUME CppInv, NEW g \in Goals, status[g] # "SUCCEEDED", status'[g] = "SUCCEEDED",
           ByAny(CppNext) \/ ByWait(WaitNext)
    PROVE  loop[g] = "end" /\ verdict = "SUCCESS"
<1> USE DEF CppInv, StepsOK, CppTypeOK, Terminal, LoopAt, MainAt
<1>1. CASE MainThread \/ UserOnMain
  BY <1>1 DEF MainThread, UserOnMain, TurnAway, RefuseGoal, Reject, AcceptGoal, HandleAccepted,
     Execute, TakeActiveGoal, AbortActiveGoal, JoinAndFlush, AcceptCancel, RefuseCancel, End
<1>2. CASE Requests \/ Tick
  BY <1>2 DEF Requests, HandleGoal, HandleCancel, RequestShutdown, Tick, cppVars
<1>3. ASSUME NEW h \in Goals, LoopThread(h) \/ UserOnLoop(h) \/ LoopInnerFlags(h) \/ LoopInnerTimes(h)
      PROVE  loop[g] = "end" /\ verdict = "SUCCESS"
  BY <1>3 DEF LoopThread, UserOnLoop, Prepare, Top, Lock, Test, Canceled, Inner, Throw, After,
     EndLoop, Caught, Abort, Reset, End, LoopInnerFlags, LoopInnerTimes
<1> QED
  BY <1>1, <1>2, <1>3 DEF ByAny, ByWait, CppNext, WaitNext, WaitOnMain, StartLoop, OnMalformedGoal,
     OnGoalReceived, MainThread, UserOnMain, Requests, OnCancelReceived, WaitOnLoop, PrepareLoop,
     UserOnLoop

----------------------------------------------------------------------------
(* Every step is a step of GoalLifecycle or none *)

\* One goal's phase changes.
LEMMA PhaseStep ==
    ASSUME NEW g \in Goals, NEW p, \A h \in Goals : Phase(h)' = IF h = g THEN p ELSE Phase(h)
    PROVE  [h \in Goals |-> Phase(h)]' = [[h \in Goals |-> Phase(h)] EXCEPT ![g] = p]
  OBVIOUS

\* A goal changes its phase with its status: the others are where they were, as long as the
\* main thread takes no other goal that has no handle.
LEMMA StatusStep ==
    ASSUME CppInv, NEW g \in Goals, NEW to \in {"REJECTED"} \cup Active \cup Terminal,
           status' = [status EXCEPT ![g] = to],
           \A h \in Goals \ {g} : status[h] = "UNKNOWN" => (main'.goal = h <=> main.goal = h)
    PROVE  [h \in Goals |-> Phase(h)]' = [[h \in Goals |-> Phase(h)] EXCEPT ![g] =
                CASE to = "REJECTED"  -> "rejected"
                  [] to = "EXECUTING" -> "accepted"
                  [] to = "CANCELING" -> "canceling"
                  [] to = "SUCCEEDED" -> "succeeded"
                  [] to = "ABORTED"   -> "aborted"
                  [] to = "CANCELED"  -> "canceled"]
BY PhaseStep DEF CppInv, StepsOK, CppTypeOK, Phase, Active, Terminal

\* Steps that leave the handles and the results alone, and take no goal that has no handle.
LEMMA NoStatusStep ==
    ASSUME CppInv, UNCHANGED <<status, result>>,
           \A h \in Goals : status[h] = "UNKNOWN" => (main'.goal = h <=> main.goal = h)
    PROVE  UNCHANGED Lifecycle!vars
<1>1. \A h \in Goals : Phase(h)' = Phase(h)
  BY DEF CppInv, StepsOK, CppTypeOK, Phase, Active, Terminal
<1> QED
  BY <1>1 DEF Lifecycle!vars

\* A goal ends with its result.
LEMMA EndLifecycle ==
    ASSUME CppInv, NEW g \in Goals, NEW to \in Terminal, End(g, to),
           status[g] \in Active, to = "CANCELED" => status[g] = "CANCELING",
           \A h \in Goals \ {g} : status[h] = "UNKNOWN" => (main'.goal = h <=> main.goal = h)
    PROVE  Lifecycle!End(g)
<1> DEFINE p == CASE to = "SUCCEEDED" -> "succeeded"
                  [] to = "ABORTED"   -> "aborted"
                  [] to = "CANCELED"  -> "canceled"
<1>1. [h \in Goals |-> Phase(h)]' = [[h \in Goals |-> Phase(h)] EXCEPT ![g] = p]
  BY PhaseStep DEF CppInv, StepsOK, CppTypeOK, Phase, Active, Terminal, End
<1>2. Phase(g) = IF status[g] = "EXECUTING" THEN "accepted" ELSE "canceling"
  BY DEF Phase, Active
<1>3. p \in {"succeeded", "aborted", "canceled"} /\ (p = "canceled" => Phase(g) = "canceling")
  BY <1>2 DEF Terminal
<1>4. Phase(g)' = p /\ result[g] = None
  BY <1>1 DEF CppInv, ResultsOK, Active, Terminal
<1>5. result' = [result EXCEPT ![g] = IF Phase(g)' = "succeeded" THEN "success" ELSE "failure"]
  BY <1>4 DEF End, Terminal
<1> HIDE DEF p
<1> QED
  BY <1>1, <1>2, <1>3, <1>4, <1>5 DEF Lifecycle!End, Lifecycle!Become

\* The main thread sends, rejects, accepts and cancels goals, and aborts the active one.
LEMMA MainLifecycle ==
    ASSUME CppInv, MainThread \/ UserOnMain
    PROVE  Lifecycle!Next \/ UNCHANGED Lifecycle!vars
<1> USE GentlerServerCppAssumption DEF CppInv, MainOK, StepsOK, CppTypeOK, MainAt, Idle
<1>1. CASE TurnAway \/ RefuseGoal
  <2>1. Phase(main.goal) = "sent"
    BY <1>1 DEF TurnAway, RefuseGoal, Phase
  <2>2. Lifecycle!Reject(main.goal)
    BY <1>1, <2>1, StatusStep
       DEF TurnAway, RefuseGoal, Reject, Lifecycle!Reject, Lifecycle!Become
  <2> QED
    BY <1>1, <2>2 DEF TurnAway, RefuseGoal, Lifecycle!Next
<1>2. CASE AcceptGoal
  <2>1. Phase(main.goal) = "sent"
    BY <1>2 DEF AcceptGoal, Phase
  <2>2. Lifecycle!Accept(main.goal)
    BY <1>2, <2>1, StatusStep DEF AcceptGoal, Active, Lifecycle!Accept, Lifecycle!Become
  <2> QED
    BY <1>2, <2>2 DEF AcceptGoal, Lifecycle!Next
<1>3. CASE AcceptCancel
  <2>1. CASE status[main.goal] = "EXECUTING"
    <3>1. Phase(main.goal) = "accepted"
      BY <2>1 DEF Phase
    <3>2. status' = [status EXCEPT ![main.goal] = "CANCELING"]
      BY <1>3, <2>1 DEF AcceptCancel
    <3>3. /\ main.goal \in Goals /\ UNCHANGED result
          /\ \A h \in Goals \ {main.goal} : ~(main'.goal = h) /\ ~(main.goal = h)
      BY <1>3 DEF AcceptCancel
    <3>4. [h \in Goals |-> Phase(h)]' = [[h \in Goals |-> Phase(h)] EXCEPT ![main.goal] = "canceling"]
      BY <3>2, <3>3, StatusStep DEF Active
    <3>5. Lifecycle!Cancel(main.goal)
      BY <3>1, <3>3, <3>4 DEF Lifecycle!Cancel, Lifecycle!Become
    <3> QED
      BY <3>3, <3>5 DEF Lifecycle!Next
  <2>2. CASE status[main.goal] # "EXECUTING"
    BY <1>3, <2>2, NoStatusStep DEF AcceptCancel
  <2> QED
    BY <2>1, <2>2
<1>4. CASE AbortActiveGoal
  <2>1. CASE main.goal # None /\ status[main.goal] \in Active
    BY <1>4, <2>1, EndLifecycle DEF AbortActiveGoal, Active, Terminal, Lifecycle!Next
  <2>2. CASE ~(main.goal # None /\ status[main.goal] \in Active)
    BY <1>4, <2>2, NoStatusStep DEF AbortActiveGoal
  <2> QED
    BY <2>1, <2>2
<1>5. CASE HandleAccepted \/ Execute
  BY <1>5, NoStatusStep DEF HandleAccepted, Execute
<1>6. CASE RefuseCancel \/ TakeActiveGoal \/ JoinAndFlush
  BY <1>6, NoStatusStep DEF RefuseCancel, TakeActiveGoal, JoinAndFlush
<1> QED
  BY <1>1, <1>2, <1>3, <1>4, <1>5, <1>6 DEF MainThread, UserOnMain

\* A request of a goal, of a cancel or of the shutdown is a step of the life of a goal, or
\* none.
LEMMA RequestsLifecycle ==
    ASSUME CppInv, Requests
    PROVE  Lifecycle!Next \/ UNCHANGED Lifecycle!vars
<1> USE GentlerServerCppAssumption DEF CppInv, MainOK, StepsOK, CppTypeOK, MainAt, Idle
<1>1. ASSUME NEW g \in Goals, HandleGoal(g) PROVE Lifecycle!Next
  <2>1. main.goal = None
    BY <1>1 DEF HandleGoal
  <2>2. \A h \in Goals : Phase(h)' = IF h = g THEN "sent" ELSE Phase(h)
    BY <1>1, <2>1, GentlerServerCppAssumption DEF HandleGoal, Phase, Active, Terminal
  <2>3. Phase(g) = "unsent"
    BY <1>1, <2>1, GentlerServerCppAssumption DEF HandleGoal, Phase
  <2> QED
    BY <1>1, <2>2, <2>3, PhaseStep DEF HandleGoal, Lifecycle!Next, Lifecycle!Send, Lifecycle!Become
<1>2. ASSUME NEW g \in Goals, HandleCancel(g) PROVE UNCHANGED Lifecycle!vars
  BY <1>2, NoStatusStep DEF HandleCancel
<1>3. CASE RequestShutdown
  BY <1>3, NoStatusStep DEF RequestShutdown
<1> QED
  BY <1>1, <1>2, <1>3 DEF Requests

\* The execution thread ends its goal.
LEMMA LoopLifecycle ==
    ASSUME CppInv, NEW g \in Goals, LoopThread(g) \/ UserOnLoop(g) \/ LoopInnerFlags(g) \/ LoopInnerTimes(g)
    PROVE  Lifecycle!Next \/ UNCHANGED Lifecycle!vars
<1> USE NoStatusStep, EndLifecycle DEF LoopAt, Active, Terminal, Lifecycle!Next
<1>1. CASE Top(g) \/ Test(g) \/ After(g) \/ Caught(g) \/ Reset(g) \/ UserOnLoop(g)
  BY <1>1 DEF Top, Test, After, Caught, Reset, UserOnLoop, Prepare, Inner, Throw
<1>2. CASE Lock(g)
  BY <1>2 DEF Lock
<1>3. CASE Canceled(g)
  BY <1>3 DEF Canceled
<1>4. CASE EndLoop(g)
  BY <1>4 DEF EndLoop
<1>5. CASE Abort(g)
  BY <1>5 DEF Abort
<1>6. CASE LoopInnerFlags(g) \/ LoopInnerTimes(g)
  BY <1>6 DEF LoopInnerFlags, LoopInnerTimes, Inner
<1> QED
  BY <1>1, <1>2, <1>3, <1>4, <1>5, <1>6 DEF LoopThread

\* The two invariants hold of every behaviour.
THEOREM CppInvHolds == Spec => [](CppInv /\ WaitInv)
<1>1. Init => CppInv /\ WaitInv
  BY InitCpp, InitWait DEF Init
<1> QED
  BY <1>1, NextCpp, PTL DEF Spec

\* Every variable of the server and of its wait action keeps its type.
THEOREM TypeCorrect == Spec => []ServerTypeOK
<1>1. CppInv /\ WaitInv => ServerTypeOK
  BY DEF CppInv, StepsOK, WaitInv, ServerTypeOK
<1> QED
  BY <1>1, CppInvHolds, PTL

\* One loop runs at a time, although a new goal may be accepted while the old one runs: its
\* execution thread is joined before the next one is made.
THEOREM OneLoop == Spec => []OneLoopRuns
<1>1. CppInv => OneLoopRuns
  BY DEF CppInv
<1> QED
  BY <1>1, CppInvHolds, PTL

\* A wait that no other goal and no cancel meddles with is as long as its goal asked for.
THEOREM WaitsAreWhole == Spec => UndisturbedWaitsAreWhole
<1> DEFINE Whole == \A g \in Goals : status[g] # "SUCCEEDED" /\ status'[g] = "SUCCEEDED" /\ ~meddled
                        => waited >= asked[g]
<1>1. CppInv /\ WaitInv /\ [ByAny(CppNext) \/ ByWait(WaitNext)]_vars => [Whole]_<<cppVars, waitVars>>
  <2> SUFFICES ASSUME CppInv, WaitInv, [ByAny(CppNext) \/ ByWait(WaitNext)]_vars,
                      ~UNCHANGED <<cppVars, waitVars>>,
                      NEW g \in Goals, status[g] # "SUCCEEDED", status'[g] = "SUCCEEDED", ~meddled
               PROVE  waited >= asked[g]
    OBVIOUS
  <2>1. loop[g] = "end" /\ verdict = "SUCCESS"
    BY SuccessIsOfTheLoop DEF vars
  <2> QED
    BY <2>1 DEF WaitInv, WaitingOK, LoopDone
<1> QED
  BY <1>1, CppInvHolds, PTL DEF Spec, UndisturbedWaitsAreWhole

\* The C++ server implements the lifecycle of goals, whatever its user does.
THEOREM ImplementsLifecycle == Spec => CppGoalsFollowTheirLifecycle
<1>1. Init => Lifecycle!Init
  BY GentlerServerCppAssumption DEF Init, CppInit, Idle, Lifecycle!Init, Phase
<1>2. CppInv /\ [ByAny(CppNext) \/ ByWait(WaitNext)]_vars => [Lifecycle!Next]_Lifecycle!vars
  <2> SUFFICES ASSUME CppInv, [ByAny(CppNext) \/ ByWait(WaitNext)]_vars
               PROVE  Lifecycle!Next \/ UNCHANGED Lifecycle!vars
    OBVIOUS
  <2>1. CASE ByAny(CppNext)
    BY <2>1, MainLifecycle, RequestsLifecycle, LoopLifecycle DEF ByAny, CppNext
  <2>2. CASE ByWait(WaitNext)
    <3>1. CASE WaitOnMain
      BY <3>1, MainLifecycle
         DEF WaitOnMain, MainThread, UserOnMain, StartLoop, OnMalformedGoal, OnGoalReceived
    <3>2. ASSUME NEW g \in Goals, WaitOnLoop(g) PROVE Lifecycle!Next \/ UNCHANGED Lifecycle!vars
      BY <3>2, LoopLifecycle DEF WaitOnLoop, UserOnLoop, PrepareLoop
    <3>3. CASE RequestShutdown \/ \E g \in Goals : HandleGoal(g) \/ OnCancelReceived(g)
      BY <3>3, RequestsLifecycle DEF Requests, OnCancelReceived
    <3>4. CASE Tick
      BY <3>4, NoStatusStep DEF Tick, cppVars
    <3> QED
      BY <2>2, <3>1, <3>2, <3>3, <3>4 DEF ByWait, WaitNext
  <2>3. CASE UNCHANGED vars
    BY <2>3, NoStatusStep DEF vars, cppVars
  <2> QED
    BY <2>1, <2>2, <2>3
<1> QED
  BY <1>1, <1>2, CppInvHolds, PTL DEF Spec, CppGoalsFollowTheirLifecycle, Lifecycle!Spec
=============================================================================
