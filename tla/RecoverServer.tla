---------------------------- MODULE RecoverServer ----------------------------
(***************************************************************************)
(* The action that recovers the AUV with the drone: the points of its      *)
(* flight are computed when a goal is prepared, and its loop flies to them *)
(* one by one.  The index and the list are shared by the execution of the  *)
(* goal, the cancel callback, which resets them before the goal is         *)
(* canceling, and the preparation of the next goal.                        *)
(***************************************************************************)
EXTENDS VehicleServer, Naturals, Sequences

VARIABLES
    wp_index,           \* _wp_index
    points,             \* _points
    without_buoy,       \* _recover_without_buoy
    drone_seen,         \* drone_in_map is not None
    locked_out,         \* _user_failure
    asked,              \* goal -> whether it goes without the buoy (auxiliary)
    visited,            \* goal -> the points its loop has reached (auxiliary)
    meddled             \* goals whose state another callback or loop has touched (auxiliary)

recoverVars == <<wp_index, points, without_buoy, drone_seen, locked_out, asked, visited, meddled>>
recoverAuxiliary == <<asked, visited, meddled>>

Point   == {"above_dip", "dip", "drag", "circle", "raise_fifth", "raise_half", "raise_all"}
Raising == <<"raise_fifth", "raise_half", "raise_all">>

PointsWithBuoy    == <<"above_dip", "dip", "drag">> \o Raising
PointsWithoutBuoy == <<"above_dip">> \o [i \in 1 .. 8 |-> "circle"] \o Raising

RecoverInit ==
    /\ wp_index = 0 /\ points = <<>>
    /\ without_buoy = FALSE /\ drone_seen = FALSE /\ locked_out = FALSE
    /\ asked = [g \in Goals |-> FALSE]
    /\ visited = [g \in Goals |-> <<>>]
    /\ meddled = {}

SeeDrone ==
    /\ ~drone_seen /\ drone_seen' = TRUE
    /\ UNCHANGED <<handleVars, wp_index, points, without_buoy, locked_out, recoverAuxiliary>>

\* The parameters are kept before the positions are looked at: their ages, and the
\* distance between the two when the buoy is asked for, decide over the goal.
OnRecoverGoal(g, no_buoy, fresh_and_near) ==
    /\ ~locked_out
    /\ TakeGoal(g, fresh_and_near)
    /\ without_buoy' = no_buoy
    /\ asked' = [asked EXCEPT ![g] = no_buoy]
    /\ meddled' = meddled \cup LiveGoals
    /\ UNCHANGED <<wp_index, points, drone_seen, locked_out, visited>>

OnRecoverGoalLockedOut(g) ==
    /\ locked_out
    /\ TakeGoal(g, FALSE)
    /\ UNCHANGED recoverVars

\* A value that is no number raises: some parameters are kept, and no goal is taken any more.
OnMalformedRecoverGoal(g) ==
    /\ ~locked_out
    /\ TakeGoal(g, FALSE)
    /\ without_buoy' \in BOOLEAN
    /\ locked_out' = TRUE
    /\ meddled' = meddled \cup LiveGoals
    /\ UNCHANGED <<wp_index, points, drone_seen, asked, visited>>

Reset == wp_index' = 0 /\ points' = <<>>

OnRecoverCancel(g) ==
    /\ TakeCancel(g)
    /\ Reset
    /\ meddled' = meddled \cup LiveGoals
    /\ UNCHANGED <<without_buoy, drone_seen, locked_out, asked, visited>>

\* Mutant: the index is left where the goal before has brought it.
ResetPointsOnly(g) ==
    /\ Advance(g, "start", "points")
    /\ points' = <<>>
    /\ meddled' = meddled \cup (LiveGoals \ {g})
    /\ UNCHANGED <<wp_index, without_buoy, drone_seen, locked_out, asked, visited>>

\* _prepare_loop resets, and then computes the points.
PrepareRecovery(g) ==
    /\ Advance(g, "start", "points")
    /\ Reset
    /\ meddled' = meddled \cup (LiveGoals \ {g})
    /\ UNCHANGED <<without_buoy, drone_seen, locked_out, asked, visited>>

\* With a buoy they are added to the list, without one they replace it.
ComputePoints(g) ==
    /\ Advance(g, "points", "test")
    /\ points' = IF without_buoy THEN PointsWithoutBuoy ELSE points \o PointsWithBuoy
    /\ meddled' = meddled \cup (LiveGoals \ {g})
    /\ UNCHANGED <<wp_index, without_buoy, drone_seen, locked_out, asked, visited>>

LookAtCancel(g) ==
    /\ \/ handle[g] # "CANCELING" /\ Advance(g, "test", "inner")
       \/ /\ handle[g] = "CANCELING" /\ execution[g] = "test"
          /\ EndExecution(g, {"CANCELING"}, "CANCELED")
    /\ UNCHANGED recoverVars

\* _loop_inner: without a drone it fails; past the last point it succeeds.
LookAtIndex(g) ==
    /\ execution[g] = "inner"
    /\ \/ ~drone_seen /\ EndExecution(g, {"EXECUTING", "CANCELING"}, "ABORTED")
       \/ /\ drone_seen /\ wp_index >= Len(points)
          /\ EndExecution(g, {"EXECUTING", "CANCELING"}, "SUCCEEDED")
       \/ drone_seen /\ wp_index < Len(points) /\ Advance(g, "inner", "target")
    /\ UNCHANGED recoverVars

FlyToPoint(g) == wp_index < Len(points) /\ Advance(g, "target", "test") /\ UNCHANGED recoverVars

ReachPoint(g) ==
    /\ wp_index < Len(points)
    /\ Advance(g, "target", "test")
    /\ wp_index' = wp_index + 1
    /\ visited' = [visited EXCEPT ![g] = Append(@, points[wp_index + 1])]
    /\ meddled' = meddled \cup (LiveGoals \ {g})
    /\ UNCHANGED <<points, without_buoy, drone_seen, locked_out, asked>>

\* The list was emptied since the index was compared: the subscript raises, and
\* cancel_forever keeps the server from later goals, if the goal is canceling by now.
MissPoint(g) ==
    /\ wp_index >= Len(points)
    /\ execution[g] = "target" /\ EndExecution(g, {"CANCELING"}, "CANCELED")
    /\ locked_out' = (locked_out \/ handle[g] = "CANCELING")
    /\ UNCHANGED <<wp_index, points, without_buoy, drone_seen, recoverAuxiliary>>

RecoverExecution(g) ==
    \/ PrepareRecovery(g) \/ ComputePoints(g) \/ LookAtCancel(g) \/ LookAtIndex(g)
    \/ FlyToPoint(g) \/ ReachPoint(g) \/ MissPoint(g)

RecoverNext ==
    \/ SeeDrone
    \/ \E g \in Goals :
        \/ \E no_buoy, fresh_and_near \in BOOLEAN : OnRecoverGoal(g, no_buoy, fresh_and_near)
        \/ OnRecoverGoalLockedOut(g) \/ OnMalformedRecoverGoal(g)
        \/ OnRecoverCancel(g) \/ RecoverExecution(g)
        \/ (RejectGoal(g) \/ HandOver(g) \/ AcceptCancel(g)) /\ UNCHANGED recoverVars

RecoverSpec == ServerInit /\ RecoverInit /\ [][RecoverNext]_<<handleVars, recoverVars>>

----------------------------------------------------------------------------
(* Properties *)

\* The members of the action hold values of their kinds.
RecoverTypeOK ==
    /\ wp_index \in Nat /\ points \in Seq(Point)
    /\ without_buoy \in BOOLEAN /\ drone_seen \in BOOLEAN /\ locked_out \in BOOLEAN
    /\ asked \in [Goals -> BOOLEAN] /\ visited \in [Goals -> Seq(Point)]
    /\ meddled \subseteq Goals

\* A recovery that no cancel and no other goal meddles with, be it in the last turn of its
\* loop, is told as success only after the drone has been at every point of it, in order,
\* whatever the goals before have left.
UndisturbedRecoveriesAreWhole ==
    \A g \in Goals : handle[g] = "SUCCEEDED" /\ g \notin meddled =>
        visited[g] = IF asked[g] THEN PointsWithoutBuoy ELSE PointsWithBuoy
=============================================================================
