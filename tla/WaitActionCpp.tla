---------------------------- MODULE WaitActionCpp ----------------------------
(***************************************************************************)
(* The C++ wait action: its four callbacks share members that neither a    *)
(* lock nor an atomic guards.  The goal and cancel callbacks run on the    *)
(* main thread while the loop of an earlier goal reads them.               *)
(***************************************************************************)
EXTENDS GentlerServerCpp, Integers

CONSTANTS
    Timeouts,           \* the timeouts that goals ask for, of either sign
    LongAgo             \* bound: time is not counted beyond

ASSUME WaitActionCppAssumption == LongAgo \in Nat /\ Timeouts \subseteq -1 .. LongAgo

VARIABLES
    timeout_s,
    has_timeout,
    has_started_waiting,
    elapsed,            \* the clock since started_waiting_
    asked,              \* goal -> the timeout it asked for (auxiliary)
    waited,             \* the time since the running loop was prepared (auxiliary)
    meddled             \* another callback has run since that loop was started (auxiliary)

waitVars == <<timeout_s, has_timeout, has_started_waiting, elapsed, asked, waited, meddled>>

WaitInit ==
    /\ timeout_s = 0 /\ has_timeout = FALSE
    /\ has_started_waiting = FALSE /\ elapsed = LongAgo
    /\ asked = [g \in Goals |-> None]
    /\ waited = 0 /\ meddled = TRUE

\* on_goal_received keeps the timeout before it looks at its sign.
OnGoalReceived(t) ==
    /\ timeout_s' = t /\ has_timeout' = TRUE
    /\ IF t >= 0 THEN AcceptGoal ELSE RefuseGoal
    /\ asked' = [asked EXCEPT ![main.goal] = t]
    /\ meddled' = TRUE
    /\ UNCHANGED <<has_started_waiting, elapsed, waited>>

\* A goal without a timeout that reads as a number
OnMalformedGoal == RefuseGoal /\ UNCHANGED waitVars

\* on_cancel_received resets before the goal is canceling: started_waiting_ is at zero.
OnCancelReceived(g) ==
    /\ HandleCancel(g)
    /\ timeout_s' = 0 /\ has_timeout' = FALSE
    /\ has_started_waiting' = FALSE /\ elapsed' = LongAgo
    /\ meddled' = TRUE
    /\ UNCHANGED <<asked, waited>>

StartLoop ==
    /\ Execute
    /\ meddled' = FALSE
    /\ UNCHANGED <<timeout_s, has_timeout, has_started_waiting, elapsed, asked, waited>>

\* Mutant: a clock that runs already is not started again.
PrepareLoopOnce(g) ==
    /\ Prepare(g)
    /\ elapsed' = IF has_started_waiting THEN elapsed ELSE 0
    /\ has_started_waiting' = TRUE
    /\ waited' = 0
    /\ UNCHANGED <<timeout_s, has_timeout, asked, meddled>>

PrepareLoop(g) ==
    /\ Prepare(g)
    /\ elapsed' = 0 /\ has_started_waiting' = TRUE
    /\ waited' = 0
    /\ UNCHANGED <<timeout_s, has_timeout, asked, meddled>>

\* loop_inner looks at the two flags first, and then at the two times.
LoopInnerFlags(g) ==
    /\ IF has_started_waiting /\ has_timeout
       THEN /\ LoopAt(g, "inner") /\ GoTo(g, "compare")
            /\ UNCHANGED <<status, result, main, verdict, active, stop_requested, terminated>>
       ELSE Inner(g, "FAILURE")
    /\ UNCHANGED waitVars

\* A reset in between makes elapsed_time -1, or that since zero when it was at its reads.
LoopInnerTimes(g) ==
    /\ LoopAt(g, "compare")
    /\ \/ verdict' = IF elapsed >= timeout_s THEN "SUCCESS" ELSE "RUNNING"
       \/ ~has_started_waiting /\ verdict' = "RUNNING"
    /\ GoTo(g, "after")
    /\ UNCHANGED <<status, result, main, active, stop_requested, terminated, waitVars>>

Tick ==
    /\ elapsed < LongAgo \/ waited < LongAgo
    /\ elapsed' = IF elapsed < LongAgo THEN elapsed + 1 ELSE elapsed
    /\ waited' = IF waited < LongAgo THEN waited + 1 ELSE waited
    /\ UNCHANGED <<cppVars, timeout_s, has_timeout, has_started_waiting, asked, meddled>>

\* The server with this user
WaitOnMain ==
    \/ (TurnAway \/ HandleAccepted \/ TakeActiveGoal \/ AbortActiveGoal \/ JoinAndFlush \/ AcceptCancel)
       /\ UNCHANGED waitVars
    \/ StartLoop \/ OnMalformedGoal
    \/ \E t \in Timeouts : OnGoalReceived(t)

WaitOnLoop(g) ==
    \/ LoopThread(g) /\ UNCHANGED waitVars
    \/ PrepareLoop(g) \/ LoopInnerFlags(g) \/ LoopInnerTimes(g)

WaitNext ==
    \/ WaitOnMain \/ Tick
    \/ RequestShutdown /\ UNCHANGED waitVars
    \/ \E g \in Goals :
        \/ HandleGoal(g) /\ UNCHANGED waitVars
        \/ OnCancelReceived(g) \/ WaitOnLoop(g)

WaitSpec == CppInit /\ WaitInit /\ [][WaitNext]_<<cppVars, waitVars>>

----------------------------------------------------------------------------
(* Properties *)

\* The members hold values of their kinds.
WaitTypeOK ==
    /\ timeout_s \in Timeouts \cup {0}
    /\ has_timeout \in BOOLEAN /\ has_started_waiting \in BOOLEAN
    /\ elapsed \in 0 .. LongAgo /\ waited \in 0 .. LongAgo
    /\ asked \in [Goals -> Timeouts \cup {None}]
    /\ meddled \in BOOLEAN

\* A wait that no other goal and no cancel meddles with succeeds only after the time that its
\* goal asked for, whatever earlier waits have left in the members.
UndisturbedWaitsAreWhole ==
    [][\A g \in Goals : status[g] # "SUCCEEDED" /\ status'[g] = "SUCCEEDED" /\ ~meddled
            => waited >= asked[g]]_<<cppVars, waitVars>>
=============================================================================
