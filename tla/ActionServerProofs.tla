--------------------------- MODULE ActionServerProofs ---------------------------
(***************************************************************************)
(* Proofs about ActionServer, for any set of goals, any number of cancel   *)
(* requests and whatever the user's callbacks do, and about the leaf and   *)
(* the client of ActionProtocol that use it.                               *)
(***************************************************************************)
EXTENDS ActionProtocol, TLAPS

Handled == {"locked", "served", "raised"}

\* A goal has a handle from its acceptance on.
RequestsOK == \A g \in Goals :
    /\ g \in goal_requests => request[g] = "none"
    /\ request[g] \in {"none", "callback", "rejected"} <=> status[g] = "UNKNOWN"
    /\ request[g] = "accepted" => status[g] \in {"ACCEPTED", "CANCELING"}

\* The base goal has been through the lock section.
BaseOK ==
    /\ base_goal_handle # None => request[base_goal_handle] \in Handled
    /\ \A g \in Goals : request[g] \in Handled => base_goal_handle # None

\* A loop runs a goal that has been through the lock section, and a goal that ended
\* under a running loop has its result.
LoopsOK == \A h \in Goals :
    /\ loop[h].at # "none" => request[h] = "served" /\ request[loop[h].goal] \in Handled
    /\ Running(h) => \/ status[loop[h].goal] \in {"EXECUTING", "CANCELING"}
                     \/ result[loop[h].goal] # None

GoalsInv == TypeOK /\ RequestsOK /\ BaseOK /\ LoopsOK /\ ResultMatchesStatus

\* As long as requests have never overlapped, each is handled for itself: the base goal
\* stays its own until its loop has started, and is not valid while another comes in.
Serial ==
    /\ \A g, h \in Goals : BeingHandled(g) /\ BeingHandled(h) => g = h
    /\ \A g \in Goals : request[g] = "locked" => base_goal_handle = g
    /\ \A h \in Goals : loop[h].at # "none" => loop[h].goal = h
    /\ \A h \in Goals : Running(h) => status[loop[h].goal] \in {"EXECUTING", "CANCELING"}
    /\ \A g \in Goals : IsValidGoal(g) => base_goal_handle = g \/ request[g] = "accepted"
    /\ \A g \in Goals : request[g] \in {"callback", "accepted"} => ~IsValidGoal(base_goal_handle)

SerialInv == ~overlapped => Serial

----------------------------------------------------------------------------
(* The channels *)

GoalResponses   == [goal : Goals, accepted : BOOLEAN]
CancelRequests  == [goal : Goals, call : 1 .. MaxCancels]
CancelResponses == [goal : Goals, call : 1 .. MaxCancels, canceling : BOOLEAN]

\* An answer to a goal request is one the channel may hold.
LEMMA RespondOK ==
    ASSUME goal_responses \subseteq GoalResponses, NEW g \in Goals, NEW a \in BOOLEAN, Respond(g, a)
    PROVE  goal_responses' \subseteq GoalResponses
<1>1. [goal |-> g, accepted |-> a] \in GoalResponses
  BY DEF GoalResponses
<1> QED
  BY <1>1 DEF Respond

\* An answer to a cancel request is one the channel may hold.
LEMMA AnswerCancelOK ==
    ASSUME cancel_responses \subseteq CancelResponses, NEW m \in CancelRequests,
           NEW c \in BOOLEAN, AnswerCancel(m, c)
    PROVE  cancel_responses' \subseteq CancelResponses
<1>1. m.goal \in Goals /\ m.call \in 1 .. MaxCancels
  BY DEF CancelRequests
<1>2. [goal |-> m.goal, call |-> m.call, canceling |-> c] \in CancelResponses
  BY <1>1 DEF CancelResponses
<1> QED
  BY <1>2 DEF AnswerCancel

----------------------------------------------------------------------------
(* Every step keeps the invariant of the goals *)

\* The invariant of the goals holds at first.
LEMMA InitGoals == Init => GoalsInv
<1> SUFFICES ASSUME Init PROVE GoalsInv
  OBVIOUS
<1>1. \A g \in Goals : status[g] = "UNKNOWN" /\ request[g] = "none" /\ result[g] = None /\ loop[g].at = "none"
  BY DEF Init, ServerInit
<1>2. ChannelsOK
  BY ActionChannelsAssumption DEF Init, ChannelsInit, ChannelsOK
<1>3. TypeOK
  BY <1>2 DEF Init, ServerInit, TypeOK, Status, RequestStep, LoopStep
<1>4. RequestsOK /\ BaseOK
  BY <1>1 DEF Init, ServerInit, RequestsOK, BaseOK, Handled
<1>5. LoopsOK /\ ResultMatchesStatus
  BY <1>1 DEF LoopsOK, Running, ResultMatchesStatus
<1> QED
  BY <1>3, <1>4, <1>5 DEF GoalsInv

\* A stuttering step keeps the invariant.
LEMMA StutterGoals == GoalsInv /\ UNCHANGED asVars => GoalsInv'
BY
   DEF asVars, channels, serverVars, GoalsInv, TypeOK, ChannelsOK, RequestsOK, BaseOK,
       LoopsOK, ResultMatchesStatus, Running

\* TakeGoalRequest keeps the invariant of the goals.
LEMMA TakeGoalRequestKeeps ==
    ASSUME GoalsInv, NEW g \in Goals, TakeGoalRequest(g) PROVE GoalsInv'
<1>2. ChannelsOK'
  BY RespondOK DEF TakeGoalRequest, GoalsInv, TypeOK, ChannelsOK, GoalResponses
<1>3. TypeOK'
  BY <1>2 DEF TakeGoalRequest, GoalsInv, TypeOK, RequestStep
<1>4. RequestsOK' /\ BaseOK'
  BY ActionChannelsAssumption DEF TakeGoalRequest, GoalsInv, TypeOK, RequestsOK, BaseOK, Handled
<1>5. LoopsOK'
  BY DEF TakeGoalRequest, GoalsInv, TypeOK, RequestsOK, LoopsOK, Running, Handled, Respond
<1>6. ResultMatchesStatus'
  BY DEF TakeGoalRequest, GoalsInv, ResultMatchesStatus
<1> QED
  BY <1>3, <1>4, <1>5, <1>6 DEF GoalsInv

\* AcceptGoal keeps the invariant of the goals.
LEMMA AcceptGoalKeeps ==
    ASSUME GoalsInv, NEW g \in Goals, AcceptGoal(g) PROVE GoalsInv'
<1>2. ChannelsOK'
  BY RespondOK DEF AcceptGoal, GoalsInv, TypeOK, ChannelsOK, GoalResponses
<1>3. TypeOK'
  BY <1>2 DEF AcceptGoal, GoalsInv, TypeOK, Status, Active, RequestStep
<1>4. RequestsOK' /\ BaseOK'
  BY ActionChannelsAssumption DEF AcceptGoal, GoalsInv, TypeOK, RequestsOK, BaseOK, Handled
<1>5. LoopsOK'
  BY DEF AcceptGoal, GoalsInv, LoopsOK, Running, Handled
<1>6. ResultMatchesStatus'
  BY DEF AcceptGoal, GoalsInv, RequestsOK, ResultMatchesStatus, Terminal
<1> QED
  BY <1>3, <1>4, <1>5, <1>6 DEF GoalsInv

\* RefuseGoal keeps the invariant of the goals.
LEMMA RefuseGoalKeeps ==
    ASSUME GoalsInv, NEW g \in Goals, NEW raised \in BOOLEAN, RefuseGoal(g, raised) PROVE GoalsInv'
<1>2. ChannelsOK'
  BY RespondOK DEF RefuseGoal, GoalsInv, TypeOK, ChannelsOK, GoalResponses
<1>3. TypeOK'
  BY <1>2 DEF RefuseGoal, GoalsInv, TypeOK, RequestStep
<1>4. RequestsOK' /\ BaseOK'
  BY ActionChannelsAssumption DEF RefuseGoal, GoalsInv, RequestsOK, BaseOK, Handled
<1>5. LoopsOK'
  BY DEF RefuseGoal, GoalsInv, LoopsOK, Running, Handled
<1>6. ResultMatchesStatus'
  BY DEF RefuseGoal, GoalsInv, ResultMatchesStatus
<1> QED
  BY <1>3, <1>4, <1>5, <1>6 DEF GoalsInv

\* HandleAccepted keeps the invariant of the goals.
LEMMA HandleAcceptedKeeps ==
    ASSUME GoalsInv, NEW g \in Goals, HandleAccepted(g) PROVE GoalsInv'
<1>3. TypeOK'
  BY ActionChannelsAssumption
     DEF HandleAccepted, GoalsInv, TypeOK, ChannelsOK, channels, Terminal, Status, RequestStep
<1>4. RequestsOK' /\ BaseOK'
  BY ActionChannelsAssumption
     DEF HandleAccepted, GoalsInv, TypeOK, RequestsOK, BaseOK, Handled, channels
<1>5. LoopsOK'
  BY DEF HandleAccepted, GoalsInv, LoopsOK, Running, Handled
<1>6. ResultMatchesStatus'
  BY DEF HandleAccepted, GoalsInv, RequestsOK, ResultMatchesStatus, Terminal
<1> QED
  BY <1>3, <1>4, <1>5, <1>6 DEF GoalsInv

\* Execute keeps the invariant of the goals.
LEMMA ExecuteKeeps ==
    ASSUME GoalsInv, NEW g \in Goals, Execute(g) PROVE GoalsInv'
<1>3. TypeOK'
  BY ActionChannelsAssumption
     DEF Execute, GoalsInv, TypeOK, BaseOK, Handled, ChannelsOK, channels, Active, Terminal,
         Status, RequestStep, LoopStep
<1>4. RequestsOK' /\ BaseOK'
  BY ActionChannelsAssumption
     DEF Execute, GoalsInv, TypeOK, RequestsOK, BaseOK, Handled, channels
<1>5. LoopsOK'
  BY DEF Execute, GoalsInv, TypeOK, BaseOK, LoopsOK, Running, Handled
<1>6. ResultMatchesStatus'
  BY DEF Execute, GoalsInv, TypeOK, ResultMatchesStatus, Terminal
<1> QED
  BY <1>3, <1>4, <1>5, <1>6 DEF GoalsInv

\* TakeCancelRequest keeps the invariant of the goals.
LEMMA TakeCancelRequestKeeps ==
    ASSUME GoalsInv, NEW m \in cancel_requests, TakeCancelRequest(m) PROVE GoalsInv'
<1>1. m \in CancelRequests
  BY DEF GoalsInv, TypeOK, ChannelsOK, CancelRequests
<1>2. ChannelsOK'
  BY <1>1, AnswerCancelOK DEF TakeCancelRequest, GoalsInv, TypeOK, ChannelsOK, CancelResponses
<1>3. TypeOK'
  <2>1. cancelling' \subseteq CancelRequests
    BY <1>1 DEF TakeCancelRequest, GoalsInv, TypeOK, CancelRequests
  <2> QED
    BY <1>2, <2>1 DEF TakeCancelRequest, GoalsInv, TypeOK, CancelRequests
<1>4. RequestsOK' /\ BaseOK'
  BY ActionChannelsAssumption DEF TakeCancelRequest, GoalsInv, RequestsOK, BaseOK
<1>5. LoopsOK'
  BY DEF TakeCancelRequest, GoalsInv, LoopsOK, Running
<1>6. ResultMatchesStatus'
  BY DEF TakeCancelRequest, GoalsInv, ResultMatchesStatus
<1> QED
  BY <1>3, <1>4, <1>5, <1>6 DEF GoalsInv

\* AcceptCancel keeps the invariant of the goals.
LEMMA AcceptCancelKeeps ==
    ASSUME GoalsInv, NEW m \in cancelling, AcceptCancel(m) PROVE GoalsInv'
<1>1. m \in CancelRequests
  BY DEF GoalsInv, TypeOK, CancelRequests
<1>2. ChannelsOK'
  BY <1>1, AnswerCancelOK DEF AcceptCancel, GoalsInv, TypeOK, ChannelsOK, CancelResponses
<1>3. TypeOK'
  BY <1>1, <1>2 DEF AcceptCancel, GoalsInv, TypeOK, Status, Active
<1>4. RequestsOK' /\ BaseOK'
  BY ActionChannelsAssumption
     DEF AcceptCancel, GoalsInv, TypeOK, RequestsOK, BaseOK, Handled, Cancelable
<1>5. LoopsOK'
  BY DEF AcceptCancel, GoalsInv, TypeOK, LoopsOK, Running, AnswerCancel
<1>6. ResultMatchesStatus'
  BY DEF AcceptCancel, GoalsInv, TypeOK, ResultMatchesStatus, Terminal, Cancelable
<1> QED
  BY <1>3, <1>4, <1>5, <1>6 DEF GoalsInv

\* RefuseCancel keeps the invariant of the goals.
LEMMA RefuseCancelKeeps ==
    ASSUME GoalsInv, NEW m \in cancelling, NEW raised \in BOOLEAN, RefuseCancel(m, raised) PROVE GoalsInv'
<1>1. m \in CancelRequests
  BY DEF GoalsInv, TypeOK, CancelRequests
<1>2. ChannelsOK'
  BY <1>1, AnswerCancelOK DEF RefuseCancel, GoalsInv, TypeOK, ChannelsOK, CancelResponses
<1>3. TypeOK'
  BY <1>1, <1>2 DEF RefuseCancel, GoalsInv, TypeOK
<1>4. RequestsOK' /\ BaseOK'
  BY ActionChannelsAssumption DEF RefuseCancel, GoalsInv, RequestsOK, BaseOK
<1>5. LoopsOK'
  BY DEF RefuseCancel, GoalsInv, LoopsOK, Running
<1>6. ResultMatchesStatus'
  BY DEF RefuseCancel, GoalsInv, ResultMatchesStatus
<1> QED
  BY <1>3, <1>4, <1>5, <1>6 DEF GoalsInv

\* Prepare keeps the invariant of the goals.
LEMMA PrepareKeeps ==
    ASSUME GoalsInv, NEW h \in Goals, Prepare(h) PROVE GoalsInv'
<1>3. TypeOK'
  BY ActionChannelsAssumption
     DEF Prepare, GoalsInv, TypeOK, ChannelsOK, MoveLoop, channels, LoopStep
<1>4. RequestsOK' /\ BaseOK'
  BY ActionChannelsAssumption DEF Prepare, GoalsInv, RequestsOK, BaseOK, channels
<1>5. LoopsOK'
  BY DEF Prepare, GoalsInv, LoopsOK, Running, MoveLoop
<1>6. ResultMatchesStatus'
  BY DEF Prepare, GoalsInv, ResultMatchesStatus
<1> QED
  BY <1>3, <1>4, <1>5, <1>6 DEF GoalsInv

\* ContinueLoop keeps the invariant of the goals.
LEMMA ContinueLoopKeeps ==
    ASSUME GoalsInv, NEW h \in Goals, ContinueLoop(h) PROVE GoalsInv'
<1>3. TypeOK'
  BY ActionChannelsAssumption
     DEF ContinueLoop, GoalsInv, TypeOK, ChannelsOK, MoveLoop, channels, LoopStep
<1>4. RequestsOK' /\ BaseOK'
  BY ActionChannelsAssumption DEF ContinueLoop, GoalsInv, RequestsOK, BaseOK, channels
<1>5. LoopsOK'
  BY DEF ContinueLoop, GoalsInv, LoopsOK, Running, MoveLoop
<1>6. ResultMatchesStatus'
  BY DEF ContinueLoop, GoalsInv, ResultMatchesStatus
<1> QED
  BY <1>3, <1>4, <1>5, <1>6 DEF GoalsInv

\* CancelNormal keeps the invariant of the goals.
LEMMA CancelNormalKeeps ==
    ASSUME GoalsInv, NEW h \in Goals, CancelNormal(h) PROVE GoalsInv'
<1>3. TypeOK'
  BY ActionChannelsAssumption
     DEF CancelNormal, GoalsInv, TypeOK, ChannelsOK, MoveLoop, EndGoal, channels, Terminal,
         Status, LoopStep
<1>4. RequestsOK' /\ BaseOK'
  BY ActionChannelsAssumption
     DEF CancelNormal, GoalsInv, RequestsOK, BaseOK, LoopsOK, Handled, MoveLoop, EndGoal,
         channels
<1>5. LoopsOK'
  BY ActionChannelsAssumption
     DEF CancelNormal, GoalsInv, TypeOK, LoopsOK, Running, MoveLoop, EndGoal
<1>6. ResultMatchesStatus'
  BY DEF CancelNormal, GoalsInv, TypeOK, ResultMatchesStatus, Terminal, EndGoal
<1> QED
  BY <1>3, <1>4, <1>5, <1>6 DEF GoalsInv

\* GiveFeedback keeps the invariant of the goals.
LEMMA GiveFeedbackKeeps ==
    ASSUME GoalsInv, NEW h \in Goals, GiveFeedback(h) PROVE GoalsInv'
<1>3. TypeOK'
  BY ActionChannelsAssumption DEF GiveFeedback, GoalsInv, TypeOK, ChannelsOK, MoveLoop, LoopStep
<1>4. RequestsOK' /\ BaseOK'
  BY ActionChannelsAssumption DEF GiveFeedback, GoalsInv, RequestsOK, BaseOK
<1>5. LoopsOK'
  BY DEF GiveFeedback, GoalsInv, LoopsOK, Running, MoveLoop
<1>6. ResultMatchesStatus'
  BY DEF GiveFeedback, GoalsInv, ResultMatchesStatus
<1> QED
  BY <1>3, <1>4, <1>5, <1>6 DEF GoalsInv

\* FinishLoop keeps the invariant of the goals.
LEMMA FinishLoopKeeps ==
    ASSUME GoalsInv, NEW h \in Goals, NEW success \in BOOLEAN, FinishLoop(h, success) PROVE GoalsInv'
<1>3. TypeOK'
  BY ActionChannelsAssumption
     DEF FinishLoop, GoalsInv, TypeOK, ChannelsOK, MoveLoop, EndGoal, channels, Terminal,
         Status, LoopStep
<1>4. RequestsOK' /\ BaseOK'
  BY ActionChannelsAssumption
     DEF FinishLoop, GoalsInv, RequestsOK, BaseOK, LoopsOK, Handled, MoveLoop, EndGoal,
         channels
<1>5. LoopsOK'
  BY ActionChannelsAssumption
     DEF FinishLoop, GoalsInv, TypeOK, LoopsOK, Running, MoveLoop, EndGoal
<1>6. ResultMatchesStatus'
  BY
     DEF FinishLoop, GoalsInv, TypeOK, LoopsOK, Running, ResultMatchesStatus, Active,
         Terminal, MoveLoop, EndGoal
<1> QED
  BY <1>3, <1>4, <1>5, <1>6 DEF GoalsInv

\* CancelForever keeps the invariant of the goals.
LEMMA CancelForeverKeeps ==
    ASSUME GoalsInv, NEW h \in Goals, CancelForever(h) PROVE GoalsInv'
<1>3. TypeOK'
  BY ActionChannelsAssumption
     DEF CancelForever, GoalsInv, TypeOK, ChannelsOK, MoveLoop, EndGoal, channels, Terminal,
         Status, LoopStep
<1>4. RequestsOK' /\ BaseOK'
  BY ActionChannelsAssumption
     DEF CancelForever, GoalsInv, RequestsOK, BaseOK, LoopsOK, Handled, MoveLoop, EndGoal,
         channels
<1>5. LoopsOK'
  BY ActionChannelsAssumption
     DEF CancelForever, GoalsInv, TypeOK, RequestsOK, LoopsOK, Running, ResultMatchesStatus,
         Active, Terminal, Handled, Respond, MoveLoop, EndGoal, AnswerCancel, Cancelable,
         IsValidGoal, SendCancel, channels, serverVars
<1>6. ResultMatchesStatus'
  BY
     DEF CancelForever, GoalsInv, TypeOK, LoopsOK, Running, ResultMatchesStatus, Active,
         Terminal, MoveLoop, EndGoal
<1> QED
  BY <1>3, <1>4, <1>5, <1>6 DEF GoalsInv

\* RequestGoal keeps the invariant of the goals.
LEMMA RequestGoalKeeps ==
    ASSUME GoalsInv, NEW g \in Goals, RequestGoal(g) PROVE GoalsInv'
<1>3. TypeOK'
  BY ActionChannelsAssumption DEF RequestGoal, GoalsInv, TypeOK, ChannelsOK
<1>4. RequestsOK' /\ BaseOK'
  BY ActionChannelsAssumption DEF RequestGoal, GoalsInv, RequestsOK, BaseOK
<1>5. LoopsOK'
  BY DEF RequestGoal, GoalsInv, LoopsOK, Running
<1>6. ResultMatchesStatus'
  BY DEF RequestGoal, GoalsInv, ResultMatchesStatus
<1> QED
  BY <1>3, <1>4, <1>5, <1>6 DEF GoalsInv

\* RequestCancel keeps the invariant of the goals.
LEMMA RequestCancelKeeps ==
    ASSUME GoalsInv, NEW g \in Goals, RequestCancel(g) PROVE GoalsInv'
<1>3. TypeOK'
  BY ActionChannelsAssumption
     DEF RequestCancel, GoalsInv, TypeOK, ChannelsOK, SendCancel, serverVars
<1>4. RequestsOK' /\ BaseOK'
  BY ActionChannelsAssumption DEF RequestCancel, GoalsInv, RequestsOK, BaseOK, serverVars
<1>5. LoopsOK'
  BY DEF RequestCancel, GoalsInv, LoopsOK, Running, serverVars
<1>6. ResultMatchesStatus'
  BY DEF RequestCancel, GoalsInv, ResultMatchesStatus, serverVars
<1> QED
  BY <1>3, <1>4, <1>5, <1>6 DEF GoalsInv

----------------------------------------------------------------------------
(* Every step keeps the invariant of requests that do not overlap *)

\* The invariant of requests that do not overlap holds at first.
LEMMA InitSerial == Init => SerialInv
BY DEF Init, ChannelsInit, ServerInit, SerialInv, Serial, BeingHandled, Running, IsValidGoal

\* A stuttering step keeps the invariant.
LEMMA StutterSerial == SerialInv /\ UNCHANGED asVars => SerialInv'
BY DEF asVars, channels, serverVars, SerialInv, Serial, BeingHandled, Running, IsValidGoal

\* TakeGoalRequest keeps the invariant of requests that do not overlap.
LEMMA TakeGoalRequestSerial ==
    ASSUME GoalsInv, SerialInv, NEW g \in Goals, TakeGoalRequest(g) PROVE SerialInv'
BY ActionChannelsAssumption
   DEF TakeGoalRequest, GoalsInv, TypeOK, RequestsOK, SerialInv, Serial, BeingHandled,
       Running, IsValidGoal, Respond

\* AcceptGoal keeps the invariant of requests that do not overlap.
LEMMA AcceptGoalSerial ==
    ASSUME GoalsInv, SerialInv, NEW g \in Goals, AcceptGoal(g) PROVE SerialInv'
BY ActionChannelsAssumption
   DEF AcceptGoal, GoalsInv, TypeOK, BaseOK, LoopsOK, SerialInv, Serial, BeingHandled,
       Running, Handled, IsValidGoal

\* RefuseGoal keeps the invariant of requests that do not overlap.
LEMMA RefuseGoalSerial ==
    ASSUME GoalsInv, SerialInv, NEW g \in Goals, NEW raised \in BOOLEAN, RefuseGoal(g, raised) PROVE SerialInv'
BY ActionChannelsAssumption
   DEF RefuseGoal, SerialInv, Serial, BeingHandled, Running, IsValidGoal

\* HandleAccepted keeps the invariant of requests that do not overlap.
LEMMA HandleAcceptedSerial ==
    ASSUME GoalsInv, SerialInv, NEW g \in Goals, HandleAccepted(g) PROVE SerialInv'
BY ActionChannelsAssumption
   DEF HandleAccepted, GoalsInv, TypeOK, LoopsOK, SerialInv, Serial, BeingHandled, Running,
       IsValidGoal, channels

\* Execute keeps the invariant of requests that do not overlap.
LEMMA ExecuteSerial ==
    ASSUME GoalsInv, SerialInv, NEW g \in Goals, Execute(g) PROVE SerialInv'
BY ActionChannelsAssumption
   DEF Execute, GoalsInv, TypeOK, RequestsOK, BaseOK, LoopsOK, SerialInv, Serial,
       BeingHandled, Running, Handled, Active, Terminal, Status, IsValidGoal, Respond,
       MoveLoop, EndGoal, AnswerCancel, Cancelable, SendCancel, channels, serverVars

\* TakeCancelRequest keeps the invariant of requests that do not overlap.
LEMMA TakeCancelRequestSerial ==
    ASSUME GoalsInv, SerialInv, NEW m \in cancel_requests, TakeCancelRequest(m) PROVE SerialInv'
BY ActionChannelsAssumption
   DEF TakeCancelRequest, SerialInv, Serial, BeingHandled, Running, IsValidGoal

\* AcceptCancel keeps the invariant of requests that do not overlap.
LEMMA AcceptCancelSerial ==
    ASSUME GoalsInv, SerialInv, NEW m \in cancelling, AcceptCancel(m) PROVE SerialInv'
BY ActionChannelsAssumption
   DEF AcceptCancel, GoalsInv, TypeOK, RequestsOK, SerialInv, Serial, BeingHandled, Running,
       IsValidGoal, AnswerCancel, Cancelable

\* RefuseCancel keeps the invariant of requests that do not overlap.
LEMMA RefuseCancelSerial ==
    ASSUME GoalsInv, SerialInv, NEW m \in cancelling, NEW raised \in BOOLEAN, RefuseCancel(m, raised) PROVE SerialInv'
BY ActionChannelsAssumption
   DEF RefuseCancel, SerialInv, Serial, BeingHandled, Running, IsValidGoal

\* Prepare keeps the invariant of requests that do not overlap.
LEMMA PrepareSerial ==
    ASSUME GoalsInv, SerialInv, NEW h \in Goals, Prepare(h) PROVE SerialInv'
BY ActionChannelsAssumption
   DEF Prepare, SerialInv, Serial, BeingHandled, Running, IsValidGoal, MoveLoop, channels

\* ContinueLoop keeps the invariant of requests that do not overlap.
LEMMA ContinueLoopSerial ==
    ASSUME GoalsInv, SerialInv, NEW h \in Goals, ContinueLoop(h) PROVE SerialInv'
BY ActionChannelsAssumption
   DEF ContinueLoop, SerialInv, Serial, BeingHandled, Running, IsValidGoal, MoveLoop, channels

\* CancelNormal keeps the invariant of requests that do not overlap.
LEMMA CancelNormalSerial ==
    ASSUME GoalsInv, SerialInv, NEW h \in Goals, CancelNormal(h) PROVE SerialInv'
BY ActionChannelsAssumption
   DEF CancelNormal, GoalsInv, TypeOK, SerialInv, Serial, BeingHandled, Running, IsValidGoal,
       MoveLoop, EndGoal, channels

\* GiveFeedback keeps the invariant of requests that do not overlap.
LEMMA GiveFeedbackSerial ==
    ASSUME GoalsInv, SerialInv, NEW h \in Goals, GiveFeedback(h) PROVE SerialInv'
BY ActionChannelsAssumption
   DEF GiveFeedback, SerialInv, Serial, BeingHandled, Running, IsValidGoal, MoveLoop

\* FinishLoop keeps the invariant of requests that do not overlap.
LEMMA FinishLoopSerial ==
    ASSUME GoalsInv, SerialInv, NEW h \in Goals, NEW success \in BOOLEAN, FinishLoop(h, success) PROVE SerialInv'
BY ActionChannelsAssumption
   DEF FinishLoop, GoalsInv, TypeOK, SerialInv, Serial, BeingHandled, Running, IsValidGoal,
       MoveLoop, EndGoal, channels

\* CancelForever keeps the invariant of requests that do not overlap.
LEMMA CancelForeverSerial ==
    ASSUME GoalsInv, SerialInv, NEW h \in Goals, CancelForever(h) PROVE SerialInv'
<1>1. ASSUME NEW at \in {"prepare", "inner"}, MoveLoop(h, at, "done") PROVE SerialInv'
  BY <1>1, ActionChannelsAssumption
     DEF CancelForever, GoalsInv, TypeOK, SerialInv, Serial, BeingHandled, Running,
         IsValidGoal, MoveLoop, EndGoal, channels
<1> QED
  BY <1>1 DEF CancelForever

\* RequestGoal keeps the invariant of requests that do not overlap.
LEMMA RequestGoalSerial ==
    ASSUME GoalsInv, SerialInv, NEW g \in Goals, RequestGoal(g) PROVE SerialInv'
BY ActionChannelsAssumption
   DEF RequestGoal, SerialInv, Serial, BeingHandled, Running, IsValidGoal

\* RequestCancel keeps the invariant of requests that do not overlap.
LEMMA RequestCancelSerial ==
    ASSUME GoalsInv, SerialInv, NEW g \in Goals, RequestCancel(g) PROVE SerialInv'
BY ActionChannelsAssumption
   DEF RequestCancel, SerialInv, Serial, BeingHandled, Running, IsValidGoal, serverVars

----------------------------------------------------------------------------
(* Every step is a step of GoalLifecycle or none *)

\* One goal's phase changes.
LEMMA PhaseStep ==
    ASSUME NEW g \in Goals, NEW p, \A h \in Goals : Phase(h)' = IF h = g THEN p ELSE Phase(h)
    PROVE  [h \in Goals |-> Phase(h)]' = [[h \in Goals |-> Phase(h)] EXCEPT ![g] = p]
  OBVIOUS

\* AcceptGoal is a step of GoalLifecycle, or changes no phase.
LEMMA AcceptGoalLifecycle ==
    ASSUME GoalsInv, NEW g \in Goals, AcceptGoal(g) PROVE Lifecycle!Accept(g)
<1>1. \A h \in Goals : Phase(h)' = IF h = g THEN "accepted" ELSE Phase(h)
  BY DEF AcceptGoal, Phase, PhaseOfHandle, BeingHandled, GoalsInv, TypeOK
<1>2. Phase(g) = "sent"
  BY DEF AcceptGoal, Phase, BeingHandled, GoalsInv, RequestsOK
<1> QED
  BY <1>1, <1>2, PhaseStep DEF AcceptGoal, Lifecycle!Accept, Lifecycle!Become

\* HandleAccepted is a step of GoalLifecycle, or changes no phase.
LEMMA HandleAcceptedLifecycle ==
    ASSUME GoalsInv, NEW g \in Goals, HandleAccepted(g)
    PROVE  Lifecycle!AbortUnstarted(g) \/ UNCHANGED Lifecycle!vars
<1>1. CASE IsValidGoal(g)
  BY <1>1 DEF HandleAccepted, Phase, BeingHandled, channels, Lifecycle!vars
<1>2. CASE ~IsValidGoal(g)
  <2>1. Phase(g) = "canceling"
    BY <1>2, ActionChannelsAssumption
       DEF HandleAccepted, Phase, PhaseOfHandle, GoalsInv, RequestsOK, IsValidGoal
  <2>2. \A h \in Goals : Phase(h)' = IF h = g THEN "aborted" ELSE Phase(h)
    BY <1>2 DEF HandleAccepted, Phase, PhaseOfHandle, BeingHandled, GoalsInv, TypeOK, channels
  <2> QED
    BY <2>1, <2>2, PhaseStep DEF HandleAccepted, Lifecycle!AbortUnstarted, Lifecycle!Become
<1> QED
  BY <1>1, <1>2

\* How a loop may end its goal.
LEMMA EndGoalLifecycle ==
    ASSUME GoalsInv, NEW h \in Goals, Running(h), NEW from, NEW to, NEW success \in BOOLEAN,
           \/ from = {"CANCELING"} /\ to = "CANCELED" /\ ~success
           \/ from = {"EXECUTING", "CANCELING"} /\ to = IF success THEN "SUCCEEDED" ELSE "ABORTED",
           EndGoal(loop[h].goal, from, to, success), UNCHANGED <<goal_requests, request>>
    PROVE  Lifecycle!End(loop[h].goal) \/ UNCHANGED Lifecycle!vars
<1> DEFINE g == loop[h].goal
<1>1. g \in Goals /\ status[g] \in Status /\ status[g] \in DOMAIN [s \in Status |-> s]
  BY DEF GoalsInv, TypeOK
<1>2. CASE result[g] # None
  <2>1. status[g] \in Terminal
    BY <1>1, <1>2 DEF GoalsInv, ResultMatchesStatus
  <2>2. status' = status
    BY <1>1, <2>1 DEF EndGoal, Terminal, Active, GoalsInv, TypeOK
  <2>3. result' = result
    BY <1>1, <1>2 DEF EndGoal, GoalsInv, TypeOK
  <2> QED
    BY <2>2, <2>3 DEF Lifecycle!vars, Phase, BeingHandled
<1>3. CASE result[g] = None
  <2>1. status[g] \in {"EXECUTING", "CANCELING"}
    BY <1>3 DEF GoalsInv, LoopsOK
  <2> DEFINE s == IF status[g] \in from THEN to ELSE "ABORTED"
  <2>2. status' = [status EXCEPT ![g] = s]
    BY <1>1, <2>1 DEF EndGoal, Active
  <2>3. s \in {"SUCCEEDED", "ABORTED", "CANCELED"} /\ (s = "CANCELED" => status[g] = "CANCELING")
    OBVIOUS
  <2>4. result' = [result EXCEPT ![g] = IF s = "SUCCEEDED" THEN "success" ELSE "failure"]
    BY <1>1, <1>3 DEF EndGoal, GoalsInv, TypeOK
  <2> DEFINE p == IF s = "SUCCEEDED" THEN "succeeded" ELSE IF s = "ABORTED" THEN "aborted" ELSE "canceled"
  <2>5. \A k \in Goals : Phase(k)' = IF k = g THEN p ELSE Phase(k)
    <3> HIDE DEF s
    <3> QED
      BY <1>1, <2>2, <2>3 DEF Phase, PhaseOfHandle, BeingHandled, GoalsInv, TypeOK
  <2>6. Phase(g) = IF status[g] = "EXECUTING" THEN "accepted" ELSE "canceling"
    BY <2>1 DEF Phase, PhaseOfHandle
  <2>7. [k \in Goals |-> Phase(k)]' = [[k \in Goals |-> Phase(k)] EXCEPT ![g] = p]
    BY <1>1, <2>5, PhaseStep
  <2>8. p \in {"succeeded", "aborted", "canceled"} /\ (p = "canceled" => Phase(g) = "canceling")
    BY <2>1, <2>3, <2>6
  <2>9. (p = "succeeded") <=> (s = "SUCCEEDED")
    BY <2>3
  <2> HIDE DEF s, p
  <2> QED
    BY <1>1, <1>3, <2>1, <2>4, <2>6, <2>7, <2>8, <2>9 DEF Lifecycle!End, Lifecycle!Become
<1> QED
  BY <1>2, <1>3

\* TakeGoalRequest is a step of GoalLifecycle, or changes no phase.
LEMMA TakeGoalRequestLifecycle ==
    ASSUME GoalsInv, NEW g \in Goals, TakeGoalRequest(g)
    PROVE  Lifecycle!Reject(g) \/ UNCHANGED Lifecycle!vars
<1>1. Phase(g) = "sent"
  BY DEF TakeGoalRequest, GoalsInv, RequestsOK, Phase, BeingHandled
<1>2. \A k \in Goals : status[k] = status'[k] /\ (k # g => request[k] = request'[k])
  BY DEF TakeGoalRequest, GoalsInv, TypeOK
<1>3. CASE IsValidGoal(base_goal_handle)
  <2>1. \A k \in Goals : Phase(k)' = IF k = g THEN "rejected" ELSE Phase(k)
    BY <1>2, <1>3 DEF TakeGoalRequest, GoalsInv, TypeOK, RequestsOK, Phase, BeingHandled
  <2> QED
    BY <1>1, <2>1, PhaseStep DEF TakeGoalRequest, Lifecycle!Reject, Lifecycle!Become
<1>4. CASE ~IsValidGoal(base_goal_handle)
  <2>1. \A k \in Goals : Phase(k)' = Phase(k)
    BY <1>1, <1>2, <1>4 DEF TakeGoalRequest, GoalsInv, TypeOK, Phase, BeingHandled
  <2> QED
    BY <2>1 DEF TakeGoalRequest, Lifecycle!vars
<1> QED
  BY <1>3, <1>4

\* RefuseGoal is a step of GoalLifecycle, or changes no phase.
LEMMA RefuseGoalLifecycle ==
    ASSUME GoalsInv, NEW g \in Goals, NEW raised \in BOOLEAN, RefuseGoal(g, raised)
    PROVE  Lifecycle!Reject(g)
BY ActionChannelsAssumption
   DEF RefuseGoal, GoalsInv, TypeOK, RequestsOK, Phase, BeingHandled, Lifecycle!Reject,
       Lifecycle!Become

\* AcceptCancel is a step of GoalLifecycle, or changes no phase.
LEMMA AcceptCancelLifecycle ==
    ASSUME GoalsInv, NEW m \in cancelling, AcceptCancel(m)
    PROVE  Lifecycle!Cancel(m.goal) \/ UNCHANGED Lifecycle!vars
BY ActionChannelsAssumption
   DEF AcceptCancel, GoalsInv, TypeOK, ChannelsOK, Phase, PhaseOfHandle, BeingHandled,
       Lifecycle!Cancel, Lifecycle!Become, AnswerCancel, Cancelable, Lifecycle!vars

\* RequestGoal is a step of GoalLifecycle, or changes no phase.
LEMMA RequestGoalLifecycle ==
    ASSUME GoalsInv, NEW g \in Goals, RequestGoal(g)
    PROVE  Lifecycle!Send(g)
BY ActionChannelsAssumption
   DEF RequestGoal, GoalsInv, RequestsOK, Phase, BeingHandled, Lifecycle!Send, Lifecycle!Become

\* Execute is a step of GoalLifecycle, or changes no phase.
LEMMA ExecuteLifecycle ==
    ASSUME GoalsInv, NEW g \in Goals, Execute(g)
    PROVE  UNCHANGED Lifecycle!vars
BY ActionChannelsAssumption
   DEF Execute, GoalsInv, TypeOK, ChannelsOK, RequestsOK, Phase, PhaseOfHandle, BeingHandled,
       channels, Lifecycle!vars

\* TakeCancelRequest is a step of GoalLifecycle, or changes no phase.
LEMMA TakeCancelRequestLifecycle ==
    ASSUME GoalsInv, NEW m \in cancel_requests, TakeCancelRequest(m)
    PROVE  UNCHANGED Lifecycle!vars
BY ActionChannelsAssumption
   DEF TakeCancelRequest, Phase, BeingHandled, Lifecycle!vars

\* RefuseCancel is a step of GoalLifecycle, or changes no phase.
LEMMA RefuseCancelLifecycle ==
    ASSUME GoalsInv, NEW m \in cancelling, NEW raised \in BOOLEAN, RefuseCancel(m, raised)
    PROVE  UNCHANGED Lifecycle!vars
BY ActionChannelsAssumption
   DEF RefuseCancel, Phase, BeingHandled, Lifecycle!vars

\* Prepare is a step of GoalLifecycle, or changes no phase.
LEMMA PrepareLifecycle ==
    ASSUME GoalsInv, NEW h \in Goals, Prepare(h)
    PROVE  UNCHANGED Lifecycle!vars
BY ActionChannelsAssumption
   DEF Prepare, Phase, BeingHandled, channels, Lifecycle!vars

\* ContinueLoop is a step of GoalLifecycle, or changes no phase.
LEMMA ContinueLoopLifecycle ==
    ASSUME GoalsInv, NEW h \in Goals, ContinueLoop(h)
    PROVE  UNCHANGED Lifecycle!vars
BY ActionChannelsAssumption
   DEF ContinueLoop, Phase, BeingHandled, channels, Lifecycle!vars

\* GiveFeedback is a step of GoalLifecycle, or changes no phase.
LEMMA GiveFeedbackLifecycle ==
    ASSUME GoalsInv, NEW h \in Goals, GiveFeedback(h)
    PROVE  UNCHANGED Lifecycle!vars
BY ActionChannelsAssumption
   DEF GiveFeedback, Phase, BeingHandled, Lifecycle!vars

\* RequestCancel is a step of GoalLifecycle, or changes no phase.
LEMMA RequestCancelLifecycle ==
    ASSUME GoalsInv, NEW g \in Goals, RequestCancel(g)
    PROVE  UNCHANGED Lifecycle!vars
BY ActionChannelsAssumption
   DEF RequestCancel, Phase, BeingHandled, serverVars, Lifecycle!vars

\* CancelNormal is a step of GoalLifecycle, or changes no phase.
LEMMA CancelNormalLifecycle ==
    ASSUME GoalsInv, NEW h \in Goals, CancelNormal(h)
    PROVE  Lifecycle!End(loop[h].goal) \/ UNCHANGED Lifecycle!vars
<1>1. Running(h)
  BY DEF CancelNormal, MoveLoop, Running
<1>2. EndGoal(loop[h].goal, {"CANCELING"}, "CANCELED", FALSE)
  BY DEF CancelNormal
<1>3. UNCHANGED <<goal_requests, request>>
  BY DEF CancelNormal, channels
<1> QED
  BY <1>1, <1>2, <1>3, EndGoalLifecycle

\* CancelForever is a step of GoalLifecycle, or changes no phase.
LEMMA CancelForeverLifecycle ==
    ASSUME GoalsInv, NEW h \in Goals, CancelForever(h)
    PROVE  Lifecycle!End(loop[h].goal) \/ UNCHANGED Lifecycle!vars
<1>1. Running(h)
  BY DEF CancelForever, MoveLoop, Running
<1>2. EndGoal(loop[h].goal, {"CANCELING"}, "CANCELED", FALSE)
  BY DEF CancelForever
<1>3. UNCHANGED <<goal_requests, request>>
  BY DEF CancelForever, channels
<1> QED
  BY <1>1, <1>2, <1>3, EndGoalLifecycle

\* FinishLoop is a step of GoalLifecycle, or changes no phase.
LEMMA FinishLoopLifecycle ==
    ASSUME GoalsInv, NEW h \in Goals, NEW success \in BOOLEAN, FinishLoop(h, success)
    PROVE  Lifecycle!End(loop[h].goal) \/ UNCHANGED Lifecycle!vars
<1>1. Running(h)
  BY DEF FinishLoop, MoveLoop, Running
<1>2. EndGoal(loop[h].goal, {"EXECUTING", "CANCELING"}, IF success THEN "SUCCEEDED" ELSE "ABORTED", success)
  BY DEF FinishLoop
<1>3. UNCHANGED <<goal_requests, request>>
  BY DEF FinishLoop, channels
<1> QED
  BY <1>1, <1>2, <1>3, EndGoalLifecycle

----------------------------------------------------------------------------
(* The theorems *)

\* Every step keeps the invariant of the goals.
LEMMA NextGoals == GoalsInv /\ [Next]_asVars => GoalsInv'
<1> SUFFICES ASSUME GoalsInv, [Next]_asVars PROVE GoalsInv'
  OBVIOUS
<1>1. ASSUME NEW g \in Goals, RequestThread(g) PROVE GoalsInv'
  BY <1>1, ActionServerAssumption, TakeGoalRequestKeeps, AcceptGoalKeeps, RefuseGoalKeeps,
     HandleAcceptedKeeps, ExecuteKeeps
     DEF RequestThread
<1>2. ASSUME CancelThread PROVE GoalsInv'
  BY <1>2, ActionServerAssumption, TakeCancelRequestKeeps, AcceptCancelKeeps,
     RefuseCancelKeeps
     DEF CancelThread
<1>3. ASSUME NEW h \in Goals, LoopThread(h) PROVE GoalsInv'
  BY <1>3, PrepareKeeps, ContinueLoopKeeps, CancelNormalKeeps, GiveFeedbackKeeps,
     FinishLoopKeeps, CancelForeverKeeps
     DEF LoopThread
<1>4. ASSUME NEW g \in Goals, RequestGoal(g) \/ RequestCancel(g) PROVE GoalsInv'
  BY <1>4, RequestGoalKeeps, RequestCancelKeeps
<1> QED
  BY <1>1, <1>2, <1>3, <1>4, StutterGoals DEF Next, ServerNext, ClientsNext

\* Every step keeps the invariant of requests that do not overlap.
LEMMA NextSerial == GoalsInv /\ SerialInv /\ [Next]_asVars => SerialInv'
<1> SUFFICES ASSUME GoalsInv, SerialInv, [Next]_asVars PROVE SerialInv'
  OBVIOUS
<1>1. ASSUME NEW g \in Goals, RequestThread(g) PROVE SerialInv'
  BY <1>1, ActionServerAssumption, TakeGoalRequestSerial, AcceptGoalSerial, RefuseGoalSerial,
     HandleAcceptedSerial, ExecuteSerial
     DEF RequestThread
<1>2. ASSUME CancelThread PROVE SerialInv'
  BY <1>2, ActionServerAssumption, TakeCancelRequestSerial, AcceptCancelSerial,
     RefuseCancelSerial
     DEF CancelThread
<1>3. ASSUME NEW h \in Goals, LoopThread(h) PROVE SerialInv'
  BY <1>3, PrepareSerial, ContinueLoopSerial, CancelNormalSerial, GiveFeedbackSerial,
     FinishLoopSerial, CancelForeverSerial
     DEF LoopThread
<1>4. ASSUME NEW g \in Goals, RequestGoal(g) \/ RequestCancel(g) PROVE SerialInv'
  BY <1>4, RequestGoalSerial, RequestCancelSerial
<1> QED
  BY <1>1, <1>2, <1>3, <1>4, StutterSerial DEF Next, ServerNext, ClientsNext

\* Every step is one of GoalLifecycle or leaves the phases alone.
LEMMA NextLifecycle == GoalsInv /\ [Next]_asVars => [Lifecycle!Next]_Lifecycle!vars
<1> SUFFICES ASSUME GoalsInv, [Next]_asVars PROVE Lifecycle!Next \/ UNCHANGED Lifecycle!vars
  OBVIOUS
<1>1. ASSUME NEW g \in Goals, RequestThread(g) PROVE Lifecycle!Next \/ UNCHANGED Lifecycle!vars
  BY <1>1, ActionServerAssumption, TakeGoalRequestLifecycle, AcceptGoalLifecycle,
     RefuseGoalLifecycle, HandleAcceptedLifecycle, ExecuteLifecycle
     DEF RequestThread, Lifecycle!Next
<1>2. ASSUME CancelThread PROVE Lifecycle!Next \/ UNCHANGED Lifecycle!vars
  BY <1>2, ActionServerAssumption, TakeCancelRequestLifecycle, AcceptCancelLifecycle,
     RefuseCancelLifecycle
     DEF CancelThread, Lifecycle!Next, GoalsInv, TypeOK
<1>3. ASSUME NEW h \in Goals, LoopThread(h) PROVE Lifecycle!Next \/ UNCHANGED Lifecycle!vars
  BY <1>3, PrepareLifecycle, ContinueLoopLifecycle, CancelNormalLifecycle,
     GiveFeedbackLifecycle, FinishLoopLifecycle, CancelForeverLifecycle
     DEF LoopThread, Lifecycle!Next, GoalsInv, TypeOK
<1>4. ASSUME NEW g \in Goals, RequestGoal(g) \/ RequestCancel(g) PROVE Lifecycle!Next \/ UNCHANGED Lifecycle!vars
  BY <1>4, RequestGoalLifecycle, RequestCancelLifecycle DEF Lifecycle!Next
<1>5. CASE UNCHANGED asVars
  BY <1>5 DEF asVars, channels, serverVars, Lifecycle!vars, Phase, BeingHandled
<1> QED
  BY <1>1, <1>2, <1>3, <1>4, <1>5 DEF Next, ServerNext, ClientsNext

\* The two invariants hold of every behaviour.
THEOREM GoalsInvHolds == Spec => [](GoalsInv /\ SerialInv)
<1>1. Init => GoalsInv /\ SerialInv
  BY InitGoals, InitSerial
<1>2. GoalsInv /\ SerialInv /\ [Next]_asVars => (GoalsInv /\ SerialInv)'
  BY NextGoals, NextSerial
<1> QED
  BY <1>1, <1>2, PTL DEF Spec

\* Every variable of the action server keeps its type.
THEOREM TypeCorrect == Spec => []TypeOK
<1>1. GoalsInv => TypeOK
  BY DEF GoalsInv
<1> QED
  BY <1>1, GoalsInvHolds, PTL

\* A result is set only for a goal that is over, and tells how it ended.
THEOREM ResultsAreTrue == Spec => []ResultMatchesStatus
<1>1. GoalsInv => ResultMatchesStatus
  BY DEF GoalsInv
<1> QED
  BY <1>1, GoalsInvHolds, PTL

\* While goal requests do not overlap no loop runs for a goal that is over.
THEOREM ActiveGoalsAreServed == Spec => []LoopsServeActiveGoals
<1>1. GoalsInv /\ SerialInv => LoopsServeActiveGoals
  BY DEF SerialInv, Serial, LoopsServeActiveGoals
<1> QED
  BY <1>1, GoalsInvHolds, PTL

\* While goal requests do not overlap at most one goal is executed.
THEOREM OneGoalIsExecuted == Spec => []OneGoalExecutes
<1>1. GoalsInv /\ SerialInv => OneGoalExecutes
  BY ActionChannelsAssumption
     DEF GoalsInv, RequestsOK, SerialInv, Serial, OneGoalExecutes, IsValidGoal
<1> QED
  BY <1>1, GoalsInvHolds, PTL

\* The server implements GoalLifecycle.
THEOREM ImplementsLifecycle == Spec => GoalsFollowTheirLifecycle
<1>1. Init => Lifecycle!Init
  BY DEF Init, ChannelsInit, ServerInit, Lifecycle!Init, Phase, BeingHandled
<1>2. GoalsInv /\ [Next]_asVars => [Lifecycle!Next]_Lifecycle!vars
  BY NextLifecycle
<1> QED
  BY <1>1, <1>2, GoalsInvHolds, PTL DEF Spec, GoalsFollowTheirLifecycle, Lifecycle!Spec

----------------------------------------------------------------------------
(* The leaf and its client.  Goals are numbered: ActionProtocolAssumption. *)

\* The answer a to the request of goal g is on its way.
Answer(g, a) == [goal |-> g, accepted |-> a] \in goal_responses

\* Goals are sent in their order, and one that was not sent left no trace.
SentOK ==
    /\ 1 .. sent \subseteq Goals
    /\ \A g \in Goals : g > sent => request[g] = "none" /\ g \notin goal_requests

\* Each goal is answered once, then its result is asked for once, then it is settled.
AnswersOK == \A g \in Goals :
    /\ request[g] \in {"none", "callback"} =>
          g \notin wanted_results \cup settled /\ ~Answer(g, TRUE) /\ ~Answer(g, FALSE)
    /\ Answer(g, FALSE) => request[g] = "rejected"
    /\ Answer(g, TRUE) \/ g \in wanted_results =>
          request[g] \in {"accepted"} \cup Handled /\ g \notin settled
    /\ Answer(g, TRUE) => g \notin wanted_results
    /\ g \in settled => request[g] = "rejected" \/ result[g] # None

\* While requests do not overlap, a goal with a result is one whose request is over.
ResultsOK == ~overlapped => \A g \in Goals : result[g] # None => request[g] = "served"

\* A patient client has settled every goal but the last, and overlaps no requests.
PatientOK == ~abandoned => ~overlapped /\ \A g \in 1 .. sent : g # sent => g \in settled

ProtocolInv ==
    /\ GoalsInv /\ SerialInv /\ ClientTypeOK /\ LeafOK
    /\ SentOK /\ AnswersOK /\ ResultsOK /\ PatientOK
    /\ PatientClientIsDoneTruly

\* What a step of the server may do to the request of a goal, and to its answer.
Moves(g) ==
    /\ request[g] = "none" /\ g \notin goal_requests => request'[g] = "none" /\ g \notin goal_requests'
    /\ \/ /\ \/ request'[g] = request[g]
             \/ request[g] = "none" /\ request'[g] = "callback"
             \/ request[g] \in {"accepted", "locked"} /\ request'[g] \in Handled
          /\ Answer(g, TRUE)' <=> Answer(g, TRUE)
          /\ Answer(g, FALSE)' <=> Answer(g, FALSE)
       \/ /\ request[g] \in {"none", "callback"} /\ request'[g] = "rejected"
          /\ Answer(g, TRUE)' <=> Answer(g, TRUE)
       \/ /\ request[g] = "callback" /\ request'[g] = "accepted"
          /\ Answer(g, FALSE)' <=> Answer(g, FALSE)

\* Nothing moves where the requests and their answers stay.
LEMMA NoMove ==
    ASSUME NEW g \in Goals, UNCHANGED <<request, goal_requests, goal_responses>>
    PROVE  Moves(g)
  BY DEF Moves, Answer

\* The thread of a request moves that request alone, along its way.
LEMMA RequestMoves ==
    ASSUME GoalsInv, NEW g \in Goals, NEW h \in Goals, RequestThread(h) PROVE Moves(g)
<1>1. CASE TakeGoalRequest(h)
  BY <1>1 DEF TakeGoalRequest, Moves, Answer, Respond, GoalsInv, TypeOK, RequestsOK
<1>2. CASE AcceptGoal(h)
  BY <1>2 DEF AcceptGoal, Moves, Answer, Respond, GoalsInv, TypeOK
<1>3. ASSUME NEW raised \in Raising, RefuseGoal(h, raised) PROVE Moves(g)
  BY <1>3 DEF RefuseGoal, Moves, Answer, Respond, GoalsInv, TypeOK
<1>4. CASE HandleAccepted(h)
  BY <1>4 DEF HandleAccepted, Moves, Answer, GoalsInv, TypeOK, channels, Handled
<1>5. CASE Execute(h)
  BY <1>5 DEF Execute, Moves, Answer, GoalsInv, TypeOK, channels, Handled
<1> QED
  BY <1>1, <1>2, <1>3, <1>4, <1>5 DEF RequestThread

\* So does every step of the server.
LEMMA ServerMoves ==
    ASSUME GoalsInv, ServerNext, NEW g \in Goals PROVE Moves(g)
<1>1. CASE CancelThread
  BY <1>1, NoMove DEF CancelThread, TakeCancelRequest, AcceptCancel, RefuseCancel
<1>2. ASSUME NEW h \in Goals, LoopThread(h) PROVE Moves(g)
  BY <1>2, NoMove
     DEF LoopThread, Prepare, ContinueLoop, CancelNormal, GiveFeedback, FinishLoop, CancelForever,
         channels
<1> QED
  BY <1>1, <1>2, RequestMoves DEF ServerNext

\* A result that is set stays, a success lasts, and no request is sent by the server.
LEMMA OutcomesLast ==
    ASSUME GoalsInv, ServerNext
    PROVE  /\ overlapped' = overlapped
           /\ \A g \in Goals : result[g] # None => result'[g] = result[g]
           /\ \A g \in Goals : status[g] = "SUCCEEDED" => status'[g] = "SUCCEEDED"
<1> DEFINE Last ==
           /\ overlapped' = overlapped
           /\ \A g \in Goals : result[g] # None => result'[g] = result[g]
           /\ \A g \in Goals : status[g] = "SUCCEEDED" => status'[g] = "SUCCEEDED"
<1>1. CASE CancelThread
  BY <1>1
     DEF CancelThread, TakeCancelRequest, AcceptCancel, RefuseCancel, Cancelable, GoalsInv, TypeOK
<1>2. ASSUME NEW h \in Goals, RequestThread(h) PROVE Last
  <2>1. CASE TakeGoalRequest(h) \/ \E raised \in Raising : RefuseGoal(h, raised)
    BY <2>1 DEF TakeGoalRequest, RefuseGoal
  <2>2. CASE AcceptGoal(h)
    BY <2>2 DEF AcceptGoal, GoalsInv, TypeOK, RequestsOK
  <2>3. CASE HandleAccepted(h)
    BY <2>3 DEF HandleAccepted, GoalsInv, TypeOK, RequestsOK
  <2>4. CASE Execute(h)
    BY <2>4 DEF Execute, GoalsInv, TypeOK
  <2> QED
    BY <1>2, <2>1, <2>2, <2>3, <2>4 DEF RequestThread
<1>3. ASSUME NEW h \in Goals, LoopThread(h) PROVE Last
  <2>1. CASE Prepare(h) \/ ContinueLoop(h) \/ GiveFeedback(h)
    BY <2>1 DEF Prepare, ContinueLoop, GiveFeedback
  <2>2. ASSUME NEW from \in SUBSET {"EXECUTING", "CANCELING"}, NEW to, NEW success \in BOOLEAN,
               EndGoal(loop[h].goal, from, to, success), overlapped' = overlapped
        PROVE  Last
    BY <2>2 DEF EndGoal, Active, GoalsInv, TypeOK
  <2> QED
    BY <1>3, <2>1, <2>2 DEF LoopThread, CancelNormal, FinishLoop, CancelForever
<1> QED
  BY <1>1, <1>2, <1>3 DEF ServerNext

\* While requests do not overlap, results are set by the loops of served requests.
LEMMA ServerKeepsResults ==
    ASSUME GoalsInv, SerialInv, ResultsOK, ServerNext PROVE ResultsOK'
<1> SUFFICES ASSUME ~overlapped, NEW g \in Goals, result'[g] # None PROVE request'[g] = "served"
  BY OutcomesLast DEF ResultsOK
<1>1. request[g] = "served" => request'[g] = "served"
  BY ServerMoves DEF Moves, Handled
<1>2. CASE result'[g] = result[g]
  BY <1>1, <1>2 DEF ResultsOK
<1>3. CASE result'[g] # result[g]
  <2>1. PICK h \in Goals : LoopThread(h)
    BY <1>3
       DEF ServerNext, CancelThread, TakeCancelRequest, AcceptCancel, RefuseCancel, RequestThread,
           TakeGoalRequest, AcceptGoal, RefuseGoal, HandleAccepted, Execute
  <2>2. loop[h].at # "none" /\ loop[h].goal = g
    <3>1. \E from, to, success : EndGoal(loop[h].goal, from, to, success)
      BY <1>3, <2>1
         DEF LoopThread, Prepare, ContinueLoop, GiveFeedback, CancelNormal, FinishLoop, CancelForever
    <3> QED
      BY <1>3, <2>1, <3>1
         DEF LoopThread, Prepare, ContinueLoop, GiveFeedback, CancelNormal, FinishLoop, CancelForever,
             MoveLoop, EndGoal, GoalsInv, TypeOK
  <2> QED
    BY <1>1, <2>2 DEF GoalsInv, LoopsOK, SerialInv, Serial
<1> QED
  BY <1>2, <1>3

\* A step of the server keeps the invariant of leaf and client.
LEMMA ServerKeepsProtocol ==
    ASSUME ProtocolInv, ServerNext, Unmoved PROVE ProtocolInv'
<1>1. GoalsInv' /\ SerialInv'
  BY NextGoals, NextSerial DEF ProtocolInv, Next
<1>2. ClientTypeOK' /\ LeafOK'
  BY DEF ProtocolInv, ClientTypeOK, LeafOK, Unmoved, clientVars, leafVars
<1>3. SentOK'
  BY ServerMoves DEF ProtocolInv, SentOK, Moves, Unmoved, leafVars
<1>4. AnswersOK'
  <2> SUFFICES ASSUME NEW g \in Goals
               PROVE  AnswersOK!(g)'
    BY DEF AnswersOK
  <2>1. AnswersOK!(g) /\ Moves(g) /\ (result[g] # None => result'[g] = result[g])
    BY ServerMoves, OutcomesLast DEF ProtocolInv, AnswersOK
  <2> QED
    BY <2>1 DEF Moves, Handled, Unmoved, clientVars
<1>5. ResultsOK' /\ PatientOK' /\ PatientClientIsDoneTruly'
  BY ServerKeepsResults, OutcomesLast
     DEF ProtocolInv, PatientOK, PatientClientIsDoneTruly, Unmoved, clientVars, leafVars
<1> QED
  BY <1>1, <1>2, <1>3, <1>4, <1>5 DEF ProtocolInv

\* Taking a message out of a channel, and nothing else, keeps the server's invariants.
LEMMA CallbackKeepsServer ==
    ASSUME ProtocolInv, UNCHANGED <<goal_requests, cancel_requests, calls, serverVars>>,
           goal_responses' \subseteq goal_responses, cancel_responses' \subseteq cancel_responses,
           feedbacks' \subseteq feedbacks
    PROVE  GoalsInv' /\ SerialInv' /\ ResultsOK'
<1>1. TypeOK'
  BY DEF ProtocolInv, GoalsInv, TypeOK, ChannelsOK, serverVars
<1>2. GoalsInv'
  BY <1>1
     DEF ProtocolInv, GoalsInv, RequestsOK, BaseOK, LoopsOK, ResultMatchesStatus, Running, serverVars
<1>3. SerialInv' /\ ResultsOK'
  BY DEF ProtocolInv, SerialInv, Serial, ResultsOK, BeingHandled, Running, IsValidGoal, serverVars
<1> QED
  BY <1>2, <1>3

\* A goal that the client may still hear of is the last one, if the client is patient.
LEMMA PatientWaitsForLast ==
    ASSUME ProtocolInv, ~abandoned, NEW g \in wanted_results PROVE sent \in Goals /\ g = sent
<1>1. g \in Goals /\ g \in Nat /\ g > 0 /\ sent \in Nat
  BY ActionProtocolAssumption DEF ProtocolInv, ClientTypeOK, LeafOK
<1>2. g \notin settled /\ request[g] # "none"
  BY <1>1 DEF ProtocolInv, AnswersOK, Handled
<1>3. g \in 1 .. sent
  BY <1>1, <1>2 DEF ProtocolInv, SentOK
<1> QED
  BY <1>1, <1>2, <1>3 DEF ProtocolInv, PatientOK

\* The callbacks keep the invariant of leaf and client.
LEMMA CallbackKeeps ==
    ASSUME ProtocolInv, Callback PROVE ProtocolInv'
<1>1. ASSUME NEW m \in goal_responses, GoalResponse(m), UNCHANGED <<serverVars, leafVars>>
      PROVE  ProtocolInv'
  <2>1. m \in [goal : Goals, accepted : BOOLEAN] /\ m = [goal |-> m.goal, accepted |-> m.accepted]
    BY DEF ProtocolInv, GoalsInv, TypeOK, ChannelsOK
  <2>2. GoalsInv' /\ SerialInv' /\ ResultsOK'
    BY <1>1, CallbackKeepsServer DEF GoalResponse
  <2>3. ClientTypeOK' /\ LeafOK'
    BY <1>1, <2>1 DEF GoalResponse, ProtocolInv, ClientTypeOK, ActionClientState, LeafOK, leafVars
  <2>4. SentOK' /\ PatientOK'
    BY <1>1 DEF GoalResponse, ProtocolInv, SentOK, PatientOK, serverVars, leafVars
  <2>5. Answer(m.goal, m.accepted) /\ \A g \in Goals : ~Answer(g, m.accepted)' \/ g # m.goal
    BY <1>1, <2>1 DEF GoalResponse, Answer
  <2>6. \A g \in Goals, a \in BOOLEAN : Answer(g, a)' => Answer(g, a)
    BY <1>1 DEF GoalResponse, Answer
  <2>7. AnswersOK'
    BY <1>1, <2>1, <2>5, <2>6 DEF GoalResponse, ProtocolInv, AnswersOK, Handled, serverVars
  <2>8. PatientClientIsDoneTruly'
    BY <1>1 DEF GoalResponse, PatientClientIsDoneTruly
  <2> QED
    BY <2>2, <2>3, <2>4, <2>7, <2>8 DEF ProtocolInv
<1>2. ASSUME NEW g \in Goals, result[g] # None,
             ResultCallback(g, result[g] = "success", status[g] = "CANCELED"),
             UNCHANGED <<serverVars, leafVars>>
      PROVE  ProtocolInv'
  <2>1. GoalsInv' /\ SerialInv' /\ ResultsOK'
    BY <1>2, CallbackKeepsServer DEF ResultCallback, channels
  <2>2. ClientTypeOK' /\ LeafOK'
    BY <1>2 DEF ResultCallback, Outcome, ProtocolInv, ClientTypeOK, ActionClientState, LeafOK, leafVars
  <2>3. SentOK' /\ PatientOK'
    BY <1>2 DEF ResultCallback, ProtocolInv, SentOK, PatientOK, channels, serverVars, leafVars
  <2>4. AnswersOK'
    BY <1>2 DEF ResultCallback, ProtocolInv, AnswersOK, Answer, Handled, channels, serverVars
  <2>5. PatientClientIsDoneTruly'
    BY <1>2, PatientWaitsForLast
       DEF ResultCallback, Outcome, PatientClientIsDoneTruly, ProtocolInv, GoalsInv,
           ResultMatchesStatus, serverVars, leafVars
  <2> QED
    BY <2>1, <2>2, <2>3, <2>4, <2>5 DEF ProtocolInv
<1>3. ASSUME \/ \E g \in feedbacks : Feedback(g)
             \/ \E m \in cancel_responses : CancelResponse(m),
             UNCHANGED <<serverVars, leafVars>>
      PROVE  ProtocolInv'
  <2>1. GoalsInv' /\ SerialInv' /\ ResultsOK'
    BY <1>3, CallbackKeepsServer DEF Feedback, CancelResponse
  <2>2. ClientTypeOK' /\ LeafOK' /\ (state' = "DONE" => state = "DONE")
    BY <1>3 DEF Feedback, CancelResponse, ProtocolInv, ClientTypeOK, ActionClientState, LeafOK, leafVars
  <2>3. SentOK' /\ PatientOK' /\ AnswersOK'
    BY <1>3
       DEF Feedback, CancelResponse, ProtocolInv, SentOK, PatientOK, AnswersOK, Answer, Handled,
           serverVars, leafVars
  <2> QED
    BY <1>3, <2>1, <2>2, <2>3 DEF ProtocolInv, PatientClientIsDoneTruly, serverVars, leafVars
<1> QED
  BY <1>1, <1>2, <1>3 DEF Callback

\* The leaf sends a goal: a patient client's goals before it are settled, so no request is
\* being handled.
LEMMA TickReadyKeeps ==
    ASSUME ProtocolInv, TickReady PROVE ProtocolInv'
<1>1. sent \in Nat /\ sent' = sent + 1 /\ sent' \in Goals /\ Goals \subseteq Nat \ {0}
  BY ActionProtocolAssumption DEF TickReady, ProtocolInv, LeafOK
<1>2. RequestGoal(sent')
  BY DEF TickReady
<1>3. GoalsInv' /\ SerialInv'
  BY <1>1, <1>2, NextGoals, NextSerial DEF ProtocolInv, Next, ClientsNext
<1>4. ClientTypeOK' /\ LeafOK'
  BY <1>1 DEF TickReady, ProtocolInv, ClientTypeOK, ActionClientState, LeafOK
<1>5. SentOK'
  BY <1>1, <1>2 DEF RequestGoal, ProtocolInv, SentOK
<1>6. AnswersOK'
  BY <1>2 DEF TickReady, RequestGoal, ProtocolInv, AnswersOK, Answer, Handled
<1>7. ResultsOK' /\ PatientClientIsDoneTruly'
  BY <1>2 DEF TickReady, RequestGoal, ProtocolInv, ResultsOK, PatientClientIsDoneTruly
<1>8. PatientOK'
  <2> SUFFICES ASSUME ~abandoned' PROVE ~overlapped' /\ \A g \in 1 .. sent' : g # sent' => g \in settled'
    BY DEF PatientOK
  <2>1. ~abandoned /\ 1 .. sent \subseteq settled /\ settled' = settled
    BY DEF TickReady
  <2>2. ASSUME NEW h \in Goals, BeingHandled(h) PROVE FALSE
    <3>1. CASE h \in settled
      <4>1. request[h] \in {"rejected", "served"}
        BY <2>1, <3>1 DEF ProtocolInv, AnswersOK, ResultsOK, PatientOK
      <4> QED
        BY <2>2, <4>1 DEF BeingHandled, ProtocolInv, GoalsInv, RequestsOK
    <3>2. CASE h > sent
      BY <2>2, <3>2 DEF BeingHandled, ProtocolInv, SentOK
    <3> QED
      BY <1>1, <2>1, <3>1, <3>2
  <2>3. ~overlapped'
    BY <1>2, <2>1, <2>2 DEF RequestGoal, ProtocolInv, PatientOK
  <2>4. ASSUME NEW g \in 1 .. sent', g # sent' PROVE g \in settled'
    BY <1>1, <2>1, <2>4
  <2> QED
    BY <2>3, <2>4
<1> QED
  BY <1>3, <1>4, <1>5, <1>6, <1>7, <1>8 DEF ProtocolInv

\* A step that at most sends a cancel request, and that finds nothing DONE, keeps the
\* invariant of leaf and client.
LEMMA CancellingKeeps ==
    ASSUME ProtocolInv, SendCancelOfHandle \/ UNCHANGED <<cancel_requests, calls>>,
           UNCHANGED <<goal_requests, goal_responses, cancel_responses, feedbacks, serverVars,
                       goal_handle, wanted_results, settled, sent, abandoned>>,
           state' \in ActionClientState, state' = "DONE" => state = "DONE",
           leaf' \in {"INVALID", "RUNNING", "SUCCESS", "FAILURE"}, goal_started' \in BOOLEAN
    PROVE  ProtocolInv'
<1>1. [Next]_asVars
  <2>1. CASE UNCHANGED <<cancel_requests, calls>>
    BY <2>1 DEF asVars, channels
  <2>2. CASE goal_handle # None /\ SendCancel(goal_handle)
    BY <2>2 DEF ProtocolInv, ClientTypeOK, RequestCancel, Next, ClientsNext
  <2> QED
    BY <2>1, <2>2 DEF SendCancelOfHandle
<1>2. GoalsInv' /\ SerialInv'
  BY <1>1, NextGoals, NextSerial DEF ProtocolInv
<1>3. ClientTypeOK' /\ LeafOK'
  BY DEF ProtocolInv, ClientTypeOK, LeafOK
<1>4. SentOK' /\ AnswersOK' /\ ResultsOK' /\ PatientOK' /\ PatientClientIsDoneTruly'
  BY DEF ProtocolInv, SentOK, AnswersOK, Answer, Handled, ResultsOK, PatientOK,
         PatientClientIsDoneTruly, serverVars
<1> QED
  BY <1>2, <1>3, <1>4 DEF ProtocolInv

\* Every other step of the leaf is of that kind.
LEMMA LeafKeeps ==
    ASSUME ProtocolInv, Tick \/ Halt \/ Rebuild PROVE ProtocolInv'
<1>1. state \in ActionClientState /\ goal_started \in BOOLEAN
  BY DEF ProtocolInv, ClientTypeOK, LeafOK
<1>2. CASE InitialiseBusy
  BY <1>1, <1>2, CancellingKeeps DEF InitialiseBusy, StateAfterCancel, ActionClientState
<1>3. CASE TickTimeout
  BY <1>1, <1>3, CancellingKeeps DEF TickTimeout, ActionClientState
<1>4. CASE TickCancelled
  BY <1>1, <1>4, CancellingKeeps DEF TickCancelled, GoalStarted, ActionClientState, channels
<1>5. CASE TickFailed
  BY <1>1, <1>5, CancellingKeeps DEF TickFailed, GoalStarted, ActionClientState, channels
<1>6. CASE TickDone
  BY <1>1, <1>6, CancellingKeeps DEF TickDone, GoalStarted, ActionClientState, channels
<1>7. CASE Halt
  BY <1>1, <1>7, CancellingKeeps DEF Halt, ActionClientState
<1>8. CASE Rebuild
  BY <1>1, <1>8, CancellingKeeps DEF Rebuild, StateAfterSetup, ActionClientState, channels
<1> QED
  BY <1>2, <1>3, <1>4, <1>5, <1>6, <1>7, <1>8, TickReadyKeeps DEF Tick

\* The invariant holds of leaf, client and server together.
THEOREM ProtocolInvHolds == ProtocolSpec => []ProtocolInv
<1>1. ProtocolInit => ProtocolInv
  <2> SUFFICES ASSUME ProtocolInit PROVE ProtocolInv
    OBVIOUS
  <2>1. GoalsInv /\ SerialInv
    BY InitGoals, InitSerial DEF ProtocolInit
  <2>2. ClientTypeOK /\ LeafOK
    BY DEF ProtocolInit, ClientInit, LeafInit, ClientTypeOK, ActionClientState, LeafOK
  <2>3. SentOK
    BY ActionProtocolAssumption DEF ProtocolInit, Init, ChannelsInit, ServerInit, LeafInit, SentOK
  <2>4. AnswersOK /\ ResultsOK /\ PatientOK /\ PatientClientIsDoneTruly
    BY DEF ProtocolInit, Init, ChannelsInit, ServerInit, ClientInit, LeafInit, AnswersOK, Answer,
           ResultsOK, PatientOK, PatientClientIsDoneTruly
  <2> QED
    BY <2>1, <2>2, <2>3, <2>4 DEF ProtocolInv
<1>2. ProtocolInv /\ [ProtocolNext]_apVars => ProtocolInv'
  <2> SUFFICES ASSUME ProtocolInv, [ProtocolNext]_apVars PROVE ProtocolInv'
    OBVIOUS
  <2>1. CASE UNCHANGED apVars
    BY <2>1, CancellingKeeps
       DEF apVars, channels, clientVars, leafVars, ProtocolInv, ClientTypeOK, LeafOK
  <2> QED
    BY <2>1, ServerKeepsProtocol, CallbackKeeps, LeafKeeps DEF ProtocolNext, ClientStep
<1> QED
  BY <1>1, <1>2, PTL DEF ProtocolSpec

\* Every variable of leaf, client and server keeps its type.
THEOREM ProtocolTypeCorrect == ProtocolSpec => []ProtocolTypeOK
<1>1. ProtocolInv => ProtocolTypeOK
  BY DEF ProtocolInv, GoalsInv, ProtocolTypeOK
<1> QED
  BY <1>1, ProtocolInvHolds, PTL

\* A tree that waits for each outcome is told DONE only of a goal that succeeded, and it
\* is the goal it sent last.
THEOREM PatienceIsRewarded == ProtocolSpec => []PatientClientIsDoneTruly
<1>1. ProtocolInv => PatientClientIsDoneTruly
  BY DEF ProtocolInv
<1> QED
  BY <1>1, ProtocolInvHolds, PTL

\* Such a tree has the server to itself: no requests overlap and one loop runs.
THEOREM PatienceIsAlone == ProtocolSpec => []PatientClientIsAlone
<1>1. ProtocolInv => PatientClientIsAlone
  <2> SUFFICES ASSUME ProtocolInv, ~abandoned PROVE ~overlapped /\ OneGoalAtATime
    BY DEF PatientClientIsAlone
  <2>1. ~overlapped /\ Serial /\ sent \in Nat
    BY DEF ProtocolInv, PatientOK, SerialInv, LeafOK
  <2>2. ASSUME NEW h \in Goals, Running(h) PROVE h = sent /\ loop[h].goal = h
    <3>1. loop[h].goal = h /\ status[h] \notin Terminal /\ request[h] = "served" /\ result[h] = None
      BY <2>1, <2>2 DEF Serial, Running, Terminal, ProtocolInv, GoalsInv, LoopsOK, ResultMatchesStatus
    <3>2. h \notin settled /\ ~(h > sent)
      BY <3>1 DEF ProtocolInv, AnswersOK, SentOK
    <3>3. h \in 1 .. sent
      BY <2>1, <3>2, ActionProtocolAssumption
    <3> QED
      BY <3>1, <3>2, <3>3 DEF ProtocolInv, PatientOK
  <2> QED
    BY <2>1, <2>2 DEF OneGoalAtATime
<1> QED
  BY <1>1, ProtocolInvHolds, PTL

\* However the tree ticks, preempts and rebuilds its leaf, each of its goals goes through
\* the life that GoalLifecycle promises.
THEOREM TreesGoalsFollowLifecycle == ProtocolSpec => GoalsFollowTheirLifecycle
<1>1. ProtocolInit => Lifecycle!Init
  BY DEF ProtocolInit, Init, ChannelsInit, ServerInit, Lifecycle!Init, Phase, BeingHandled
<1>2. ProtocolInv /\ [ProtocolNext]_apVars => [Lifecycle!Next]_Lifecycle!vars
  <2> SUFFICES ASSUME ProtocolInv, [ProtocolNext]_apVars
               PROVE  [Lifecycle!Next]_Lifecycle!vars
    OBVIOUS
  <2>1. CASE ServerNext
    BY <2>1, NextLifecycle DEF ProtocolInv, Next
  <2>2. CASE TickReady
    <3>1. sent' \in Goals /\ RequestGoal(sent')
      BY <2>2 DEF TickReady
    <3> QED
      BY <3>1, RequestGoalLifecycle DEF ProtocolInv, Lifecycle!Next
  <2>3. CASE UNCHANGED <<goal_requests, serverVars>>
    BY <2>3 DEF Lifecycle!vars, Phase, BeingHandled, serverVars
  <2>4. Callback => UNCHANGED <<goal_requests, serverVars>>
    BY DEF Callback, GoalResponse, ResultCallback, Feedback, CancelResponse, channels
  <2>5. Tick => TickReady \/ UNCHANGED <<goal_requests, serverVars>>
    BY DEF Tick, InitialiseBusy, TickTimeout, TickCancelled, TickFailed, TickDone, channels
  <2>6. Halt \/ Rebuild \/ UNCHANGED apVars => UNCHANGED <<goal_requests, serverVars>>
    BY DEF Halt, Rebuild, apVars, channels
  <2> QED
    BY <2>1, <2>2, <2>3, <2>4, <2>5, <2>6 DEF ProtocolNext, ClientStep
<1> QED
  BY <1>1, <1>2, ProtocolInvHolds, PTL
     DEF ProtocolSpec, GoalsFollowTheirLifecycle, Lifecycle!Spec

=============================================================================
