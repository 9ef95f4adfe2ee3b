------------------------------ MODULE ActionTree ------------------------------
(***************************************************************************)
(* What the trees of ALARS and of the proximity operations have in common. *)
(* The root tries its branches in order; a branch (_post_pre_act) holds if *)
(* its post-condition does, and else its pre-condition opens the sequence  *)
(* with the leaf that runs an action at a server (A_ActionClient).  The    *)
(* loop of a GentlerActionServer ticks the tree, while its cancel callback *)
(* and the callbacks of the action clients run on other threads: each node *)
(* of a tick is a step.  The client of the tree sends a goal after the     *)
(* result of the one before.                                               *)
(***************************************************************************)
EXTENDS Naturals, Sequences, FiniteSets

CONSTANT MaxOwed    \* bound: goals of the leaves whose late answers are followed

ASSUME ActionTreeAssumption == MaxOwed \in Nat \ {0}

VARIABLES
    order,          \* the branches, each named for its leaf, as setup() gave them to the root
    at,             \* the branch and the node of the tick that come next
    root,           \* status of the root after the last tick
    leaf_status,    \* branch -> status of its leaf, "OVER" for SUCCESS and FAILURE
    client,         \* branch -> state of the leaf's action client
    owed,           \* branches whose leaf has a goal that has not been answered
    goal,           \* the state of the goal of the tree
    outcome,        \* how the last goal ended
    user_failure    \* the server refuses every goal from now on

treeVars == <<order, at, root, leaf_status, client, owed, goal, outcome, user_failure>>

\* SENT, ACCEPTED, RUNNING and CANCELLING are all "BUSY"; "FAILED" stands for ERROR, REJECTED
\* and DISCONNECTED.
ClientStates == {"READY", "BUSY", "CANCELLED", "FAILED", "DONE"}
Branches     == {order[i] : i \in 1 .. Len(order)}
NoBranch     == ""

\* The loop: not running, prepare_loop, the cancel test, the tests after the tick, an exception
LoopAt(where) == at = <<NoBranch, where>>
Off          == <<NoBranch, "off">>

At(b, node) == at = <<b, node>>
Go(b, node) == at' = <<b, node>>

TreeInit(branches) ==
    /\ order = branches
    /\ at = Off /\ root = "INVALID"
    /\ leaf_status = [b \in Branches |-> "INVALID"]
    /\ client = [b \in Branches |-> "READY"]
    /\ owed = {}
    /\ goal = "none" /\ outcome = "none"
    /\ user_failure = FALSE

----------------------------------------------------------------------------
(* The leaves *)

Index(b) == CHOOSE i \in 1 .. Len(order) : order[i] = b
After(b) == {order[i] : i \in Index(b) + 1 .. Len(order)}

\* stop(INVALID) of leaves: one that is INVALID already is left alone, another sends a cancel
\* if it is busy and is READY in any case.
StopLeaves(bs) ==
    /\ leaf_status' = [b \in Branches |-> IF b \in bs THEN "INVALID" ELSE leaf_status[b]]
    /\ client' = [b \in Branches |->
                    IF b \in bs /\ leaf_status[b] # "INVALID" THEN "READY" ELSE client[b]]

\* _reset_states terminates the clients by itself and leaves their status in the tree.
ResetLeaves == client' = [b \in Branches |-> "READY"]

\* send_goal.  Of more goals than MaxOwed the answers to the older ones are not followed.
Send(b) == owed' = IF Cardinality(owed \cup {b}) > MaxOwed THEN {b} ELSE owed \cup {b}

\* Something comes for a goal of the leaf, the last one or an earlier one: its acceptance or
\* feedback, the answer to a cancel, its rejection or its result.
Answer(b) ==
    /\ b \in owed
    /\ \E s \in ClientStates \ {"READY"} :
        /\ client' = [client EXCEPT ![b] = s]
        /\ \/ s \in {"BUSY", "CANCELLED"} /\ UNCHANGED owed
           \/ s # "BUSY" /\ owed' = owed \ {b}
    /\ UNCHANGED <<order, at, root, leaf_status, goal, outcome, user_failure>>

----------------------------------------------------------------------------
(* One tick of the root, a Selector without memory *)

EndTick(result) == root' = result /\ at' = <<NoBranch, "ticked">>

\* The branch ends with success, and those after it are stopped.
BranchHolds(b) ==
    /\ EndTick("SUCCESS")
    /\ StopLeaves(After(b))
    /\ UNCHANGED <<order, owed, goal, outcome, user_failure>>

BranchFails(b) ==
    /\ IF After(b) = {} THEN EndTick("FAILURE")
       ELSE Go(order[Index(b) + 1], "post") /\ UNCHANGED root
    /\ UNCHANGED <<order, leaf_status, client, owed, goal, outcome, user_failure>>

\* The post-condition holds: the branch stops its own leaf, too.
PostHolds(b) ==
    /\ At(b, "post")
    /\ EndTick("SUCCESS")
    /\ StopLeaves({b} \cup After(b))
    /\ UNCHANGED <<order, owed, goal, outcome, user_failure>>

\* A sequence with memory goes on with its running leaf, and does not look at the
\* pre-condition again; one that starts stops its leaf first.
PostFails(b) ==
    /\ At(b, "post")
    /\ IF leaf_status[b] = "RUNNING" THEN Go(b, "act") /\ UNCHANGED <<leaf_status, client>>
       ELSE Go(b, "pre") /\ StopLeaves({b})
    /\ UNCHANGED <<order, root, owed, goal, outcome, user_failure>>

PreHolds(b) ==
    /\ At(b, "pre")
    /\ Go(b, "set")
    /\ UNCHANGED <<order, root, leaf_status, client, owed, goal, outcome, user_failure>>

PreFails(b) == At(b, "pre") /\ BranchFails(b)

\* update() of the leaf while its action is under way, or is sent now; the branches after it
\* are stopped.
ActRuns(b) ==
    /\ At(b, "act") /\ client[b] \in {"CANCELLED", "READY", "BUSY"}
    /\ EndTick("RUNNING")
    /\ leaf_status' = [c \in Branches |-> IF c \in After(b) THEN "INVALID"
                                     ELSE IF c = b THEN "RUNNING" ELSE leaf_status[c]]
    /\ client' = [c \in Branches |->
                    IF c \in After(b) /\ leaf_status[c] # "INVALID" THEN "READY"
                    ELSE IF c = b THEN IF client[b] = "CANCELLED" THEN "READY" ELSE "BUSY"
                    ELSE client[c]]
    /\ IF client[b] = "READY" THEN Send(b) ELSE UNCHANGED owed
    /\ UNCHANGED <<order, goal, outcome, user_failure>>

\* The action is over: the client is made ready, and the sequence goes on.
ActEnds(b) ==
    /\ At(b, "act") /\ client[b] \in {"FAILED", "DONE"}
    /\ Go(b, IF client[b] = "DONE" THEN "succeeded" ELSE "failed")
    /\ leaf_status' = [leaf_status EXCEPT ![b] = "OVER"]
    /\ client' = [client EXCEPT ![b] = "READY"]
    /\ UNCHANGED <<order, root, owed, goal, outcome, user_failure>>

----------------------------------------------------------------------------
(* The loop of the action server around it, and its callbacks *)

\* _on_goal_received resets the states before it looks at the goal.
GoalReceived(accepted) ==
    /\ at = Off /\ ~user_failure
    /\ ResetLeaves
    /\ IF accepted THEN at' = <<NoBranch, "prepare">> /\ goal' = "executing"
                   ELSE UNCHANGED <<at, goal>>
    /\ outcome' = "none"
    /\ UNCHANGED <<order, root, leaf_status, owed, user_failure>>

\* A goal that is no JSON raises before that, and no goal is taken any more.
GoalUnreadable ==
    /\ at = Off
    /\ user_failure' = TRUE
    /\ UNCHANGED <<order, at, root, leaf_status, client, owed, goal, outcome>>

Prepare ==
    /\ LoopAt("prepare")
    /\ at' = <<NoBranch, "top">>
    /\ ResetLeaves
    /\ UNCHANGED <<order, root, leaf_status, owed, goal, outcome, user_failure>>

\* The goal is over; the tree itself is not stopped, only its clients.
EndGoal(how) ==
    /\ at' = Off
    /\ goal' = "none" /\ outcome' = how

Top ==
    /\ LoopAt("top")
    /\ IF goal = "canceling" THEN EndGoal("canceled")
       ELSE Go(order[1], "post") /\ UNCHANGED <<goal, outcome>>
    /\ UNCHANGED <<order, root, leaf_status, client, owed, user_failure>>

\* After the tick _loop_inner returns True, False or None.
LoopReturns(verdict) ==
    /\ LoopAt("ticked")
    /\ IF verdict = "running" THEN at' = <<NoBranch, "top">> /\ UNCHANGED <<client, goal, outcome>>
       ELSE EndGoal(verdict) /\ ResetLeaves
    /\ UNCHANGED <<order, root, leaf_status, owed, user_failure>>

\* The cancel callback resets the states while the loop is anywhere; only after it has
\* returned is the goal canceling.
CancelReceived ==
    /\ goal = "executing"
    /\ goal' = "asked"
    /\ ResetLeaves
    /\ UNCHANGED <<order, at, root, leaf_status, owed, outcome, user_failure>>

CancelAccepted ==
    /\ goal = "asked"
    /\ goal' = "canceling"
    /\ UNCHANGED <<order, at, root, leaf_status, client, owed, outcome, user_failure>>

\* A node of the tick raises, and the loop's callback with it.
NodeRaises ==
    /\ at' = <<NoBranch, "raised">>
    /\ UNCHANGED <<order, root, leaf_status, client, owed, goal, outcome, user_failure>>

\* The exception handler of the server calls the goal canceled, which only a goal that is
\* canceling by now can be, and then refuses all goals to come.
LoopRaised ==
    /\ LoopAt("raised")
    /\ EndGoal(IF goal = "canceling" THEN "canceled" ELSE "failure")
    /\ user_failure' = (goal = "canceling")
    /\ UNCHANGED <<order, root, leaf_status, client, owed>>

\* The steps that touch nothing but what is declared here
TreeSteps ==
    \/ GoalUnreadable \/ Top \/ CancelAccepted
    \/ \E b \in Branches : Answer(b) \/ ActRuns(b) \/ ActEnds(b)

----------------------------------------------------------------------------
(* Properties *)

TreeTypeOK ==
    /\ at[1] \in Branches \cup {NoBranch}
    /\ at[2] \in IF at[1] = NoBranch THEN {"off", "prepare", "top", "ticked", "raised"}
                 ELSE {"post", "pre", "set", "act", "failed", "succeeded"}
    /\ root \in {"INVALID", "RUNNING", "SUCCESS", "FAILURE"}
    /\ leaf_status \in [Branches -> {"INVALID", "RUNNING", "OVER"}]
    /\ client \in [Branches -> ClientStates]
    /\ owed \subseteq Branches /\ Cardinality(owed) <= MaxOwed
    /\ goal \in {"none", "executing", "asked", "canceling"}
    /\ goal = "none" <=> at = Off
    /\ outcome \in {"none", "success", "failure", "canceled"}
    /\ user_failure \in BOOLEAN
=============================================================================
