-------------------------- MODULE VehicleActionProofs --------------------------
(***************************************************************************)
(* Proofs about the recovery of the AUV and about the emergency action,    *)
(* for any set of goals.                                                   *)
(***************************************************************************)
EXTENDS RecoverServer, EmergencyServer, SequenceTheorems, TLAPS

\* An execution belongs to a goal that is executing or canceling, from its hand-over until
\* it is over.
ExecutionOK == \A g \in Goals :
    /\ execution[g] \notin {"none", "over"} => handle[g] \in {"EXECUTING", "CANCELING"}
    /\ handle[g] = "EXECUTING" => execution[g] # "none"
    /\ handle[g] = "SUCCEEDED" => execution[g] = "over"

HandleInv == ServerTypeOK /\ ExecutionOK

----------------------------------------------------------------------------
(* The goal handles *)

\* At first no goal is known.
LEMMA InitHandles == ServerInit => HandleInv
BY DEF ServerInit, HandleInv, ServerTypeOK, ExecutionOK, LiveStatus, Cancelable

\* What the server itself does with goals and cancels keeps the invariant of the handles.
LEMMA ServerKeepsHandles ==
    ASSUME HandleInv, NEW g \in Goals,
           \/ \E accepted \in BOOLEAN : TakeGoal(g, accepted)
           \/ RejectGoal(g) \/ HandOver(g) \/ TakeCancel(g) \/ AcceptCancel(g)
    PROVE  HandleInv'
<1> USE DEF HandleInv, ServerTypeOK, ExecutionOK, LiveStatus, Cancelable
<1>1. CASE \E accepted \in BOOLEAN : TakeGoal(g, accepted)
  BY <1>1 DEF TakeGoal
<1>2. CASE RejectGoal(g)
  BY <1>2 DEF RejectGoal
<1>3. CASE HandOver(g)
  BY <1>3 DEF HandOver, LiveGoals
<1>4. CASE TakeCancel(g)
  BY <1>4 DEF TakeCancel
<1>5. CASE AcceptCancel(g)
  BY <1>5 DEF AcceptCancel
<1> QED
  BY <1>1, <1>2, <1>3, <1>4, <1>5

\* So does an execution that goes on.
LEMMA AdvanceKeepsHandles ==
    ASSUME HandleInv, NEW g \in Goals, NEW from \in {"start", "points", "test", "inner", "target"},
           NEW to \in {"points", "test", "inner", "target"}, Advance(g, from, to)
    PROVE  HandleInv'
BY DEF HandleInv, ServerTypeOK, ExecutionOK, Advance

\* And one that ends.
LEMMA EndKeepsHandles ==
    ASSUME HandleInv, NEW g \in Goals, NEW legal, NEW to \in {"SUCCEEDED", "ABORTED", "CANCELED"},
           EndExecution(g, legal, to)
    PROVE  HandleInv'
BY DEF HandleInv, ServerTypeOK, ExecutionOK, EndExecution, LiveStatus, Cancelable

----------------------------------------------------------------------------
(* The emergency action *)

\* After the cancel callback of a goal the flag stays down, unless it is raised after it.
FlagOK == \A g \in Goals \ overruled :
    g \in cancel_due \/ handle[g] = "CANCELING" => ~abort_active

\* A loop that looks at the cancel request publishes nothing after it, and one that does not
\* publishes once, before it looks at the flag that is down.
PublishedOK == \A g \in Goals :
    /\ sees_cancel => published_after[g] = 0
    /\ g \notin overruled /\ published_after[g] # 0 =>
            /\ published_after[g] = 1
            /\ execution[g] = "over" \/ (execution[g] = "test" /\ handle[g] = "CANCELING")

EmergencyInv == HandleInv /\ EmergencyTypeOK /\ FlagOK /\ PublishedOK

\* At first nothing is published and the flag is down.
LEMMA InitEmergency == ServerInit /\ EmergencyInit => EmergencyInv
<1> SUFFICES ASSUME ServerInit, EmergencyInit PROVE EmergencyInv
  OBVIOUS
<1>1. published_after \in [Goals -> 0 .. 2] /\ \A g \in Goals : published_after[g] = 0
  BY DEF EmergencyInit
<1>2. EmergencyTypeOK
  BY <1>1 DEF EmergencyInit, EmergencyTypeOK
<1>3. FlagOK /\ PublishedOK
  BY <1>1 DEF ServerInit, EmergencyInit, FlagOK, PublishedOK
<1> QED
  BY <1>2, <1>3, InitHandles DEF EmergencyInv

\* The server, its callbacks and the executions keep the invariant.
LEMMA NextEmergency ==
    EmergencyInv /\ [EmergencyNext]_<<handleVars, emergencyVars>> => EmergencyInv'
<1> SUFFICES ASSUME EmergencyInv, [EmergencyNext]_<<handleVars, emergencyVars>>
             PROVE  EmergencyInv'
  OBVIOUS
<1>0. HandleInv /\ EmergencyTypeOK /\ FlagOK /\ PublishedOK
  BY DEF EmergencyInv
<1>1. CASE UNCHANGED <<handleVars, emergencyVars>>
  BY <1>0, <1>1 DEF handleVars, emergencyVars, EmergencyInv, HandleInv, ServerTypeOK, ExecutionOK,
                    EmergencyTypeOK, FlagOK, PublishedOK
<1>2. CASE EmergencyNext
  <2>1. PICK g \in Goals :
            \/ OnEmergencyGoal(g) \/ OnEmergencyCancel(g)
            \/ RaiseAbort(g) \/ LookAtFlag(g) \/ SeeCancel(g) \/ PublishEmergency(g)
            \/ (RejectGoal(g) \/ HandOver(g) \/ AcceptCancel(g)) /\ UNCHANGED emergencyVars
    BY <1>2 DEF EmergencyNext
  <2>2. HandleInv'
    <3>1. CASE RaiseAbort(g) \/ (LookAtFlag(g) /\ abort_active) \/ PublishEmergency(g)
      BY <3>1, <1>0, AdvanceKeepsHandles DEF RaiseAbort, LookAtFlag, PublishEmergency, EndExecution
    <3>2. CASE (LookAtFlag(g) /\ ~abort_active) \/ SeeCancel(g)
      BY <3>2, <1>0, EndKeepsHandles DEF LookAtFlag, SeeCancel
    <3> QED
      BY <1>0, <2>1, <3>1, <3>2, ServerKeepsHandles DEF OnEmergencyGoal, OnEmergencyCancel
  <2> USE <1>0 DEF HandleInv, ServerTypeOK, ExecutionOK, EmergencyTypeOK, FlagOK, PublishedOK,
                   emergencyVars, LiveStatus, Cancelable
  <2>3. CASE OnEmergencyGoal(g)
    BY <2>2, <2>3 DEF OnEmergencyGoal, TakeGoal, EmergencyInv
  <2>4. CASE OnEmergencyCancel(g)
    BY <2>2, <2>4 DEF OnEmergencyCancel, TakeCancel, EmergencyInv
  <2>5. CASE RaiseAbort(g)
    BY <2>2, <2>5 DEF RaiseAbort, Advance, EmergencyInv
  <2>6. CASE LookAtFlag(g)
    <3>0. UNCHANGED emergencyVars
      BY <2>6 DEF LookAtFlag
    <3>1. CASE abort_active /\ Advance(g, "test", "inner")
      <4>1. g \in overruled \/ published_after[g] = 0
        BY <3>1 DEF Advance
      <4> QED
        BY <2>2, <3>0, <3>1, <4>1 DEF Advance, EmergencyInv
    <3>2. CASE EndExecution(g, {}, "ABORTED")
      <4>1. /\ UNCHANGED cancel_due
            /\ execution' = [execution EXCEPT ![g] = "over"]
            /\ \A h \in Goals : handle'[h] = "CANCELING" => handle[h] = "CANCELING"
            /\ \A h \in Goals \ {g} : handle'[h] = handle[h]
        BY <3>2 DEF EndExecution
      <4>2. FlagOK'
        BY <3>0, <4>1
      <4>3. PublishedOK'
        BY <3>0, <4>1
      <4> QED
        BY <2>2, <3>0, <4>2, <4>3 DEF EmergencyInv
    <3> QED
      BY <2>6, <3>1, <3>2 DEF LookAtFlag
  <2>7. CASE SeeCancel(g)
    BY <2>2, <2>7 DEF SeeCancel, EndExecution, EmergencyInv
  <2>8. CASE PublishEmergency(g)
    BY <2>2, <2>8 DEF PublishEmergency, Advance, EmergencyInv
  <2>9. CASE (RejectGoal(g) \/ HandOver(g) \/ AcceptCancel(g)) /\ UNCHANGED emergencyVars
    BY <2>2, <2>9 DEF RejectGoal, HandOver, AcceptCancel, LiveGoals, EmergencyInv
  <2> QED
    BY <2>1, <2>3, <2>4, <2>5, <2>6, <2>7, <2>8, <2>9
<1> QED
  BY <1>1, <1>2

\* In every reachable state the invariant of the emergency action holds.
THEOREM EmergencyInvHolds == EmergencySpec => []EmergencyInv
BY InitEmergency, NextEmergency, PTL DEF EmergencySpec

\* A cancelled abort stops: one more command at most, unless a loop that is blind to the
\* cancel request finds the flag raised after the cancel.
THEOREM CancelledAbortsDoStop == EmergencySpec => []CancelledAbortsStop
<1>1. EmergencyInv => CancelledAbortsStop
  BY DEF EmergencyInv, EmergencyTypeOK, PublishedOK, CancelledAbortsStop
<1> QED
  BY <1>1, EmergencyInvHolds, PTL

----------------------------------------------------------------------------
(* The recovery *)

Path(g) == IF asked[g] THEN PointsWithoutBuoy ELSE PointsWithBuoy

\* The loop of the goal has been at the points before the index.
Reached(g) ==
    /\ wp_index <= Len(points) /\ Len(visited[g]) = wp_index
    /\ \A i \in 1 .. wp_index : visited[g][i] = points[i]

\* Of a live goal that nobody meddles with the members of the node are what it has asked for
\* and where it has come; before it has its points it has been nowhere.
RecoveryOK == \A g \in Goals :
    /\ execution[g] \in {"none", "start", "points"} => visited[g] = <<>>
    /\ g \in LiveGoals \ meddled =>
            /\ without_buoy = asked[g]
            /\ execution[g] = "points" => wp_index = 0 /\ points = <<>>
            /\ execution[g] \in {"test", "inner", "target"} => points = Path(g) /\ Reached(g)
    /\ handle[g] = "SUCCEEDED" /\ g \notin meddled => visited[g] = Path(g)

RecoverInv == HandleInv /\ RecoverTypeOK /\ RecoveryOK

\* The lists of points are lists of points.
LEMMA Paths == PointsWithBuoy \in Seq(Point) /\ PointsWithoutBuoy \in Seq(Point)
<1>1. Raising \in Seq(Point) /\ <<"above_dip">> \in Seq(Point)
      /\ <<"above_dip", "dip", "drag">> \in Seq(Point)
  BY DEF Raising, Point
<1>2. [i \in 1 .. 8 |-> "circle"] \in Seq(Point)
  <2>1. [i \in 1 .. 8 |-> "circle"] \in [1 .. 8 -> Point]
    BY DEF Point
  <2> QED
    BY <2>1, IsASeq
<1> QED
  BY <1>1, <1>2, ConcatProperties DEF PointsWithBuoy, PointsWithoutBuoy

\* A loop that has reached every point of the list has been on the whole path.
LEMMA AllReached ==
    ASSUME RecoverTypeOK, NEW g \in Goals, Reached(g), wp_index >= Len(points)
    PROVE  visited[g] = points
<1>1. visited[g] \in Seq(Point) /\ points \in Seq(Point) /\ wp_index \in Nat
  BY DEF RecoverTypeOK
<1>2. Len(visited[g]) = Len(points)
  BY <1>1, LenProperties DEF Reached
<1>3. \A i \in 1 .. Len(points) : visited[g][i] = points[i]
  BY <1>1, <1>2 DEF Reached
<1> QED
  BY <1>1, <1>2, <1>3, SeqEqual

\* At first there are no goals and no points.
LEMMA InitRecover == ServerInit /\ RecoverInit => RecoverInv
<1> SUFFICES ASSUME ServerInit, RecoverInit PROVE RecoverInv
  OBVIOUS
<1>1. <<>> \in Seq(Point)
  BY EmptySeq
<1>2. visited \in [Goals -> Seq(Point)] /\ asked \in [Goals -> BOOLEAN]
  BY <1>1 DEF RecoverInit
<1>3. RecoverTypeOK
  BY <1>1, <1>2 DEF RecoverInit, RecoverTypeOK
<1>4. RecoveryOK
  BY DEF ServerInit, RecoverInit, RecoveryOK, LiveGoals, LiveStatus, Cancelable
<1> QED
  BY <1>3, <1>4, InitHandles DEF RecoverInv

\* The server, its callbacks and the executions keep the invariant of the handles.
LEMMA RecoverKeepsHandles ==
    ASSUME HandleInv, NEW g \in Goals,
           \/ \E no_buoy, fresh_and_near \in BOOLEAN : OnRecoverGoal(g, no_buoy, fresh_and_near)
           \/ OnRecoverGoalLockedOut(g) \/ OnMalformedRecoverGoal(g)
           \/ OnRecoverCancel(g) \/ RecoverExecution(g)
           \/ RejectGoal(g) \/ HandOver(g) \/ AcceptCancel(g)
    PROVE  HandleInv'
<1>1. CASE RecoverExecution(g)
  <2>1. CASE PrepareRecovery(g) \/ ComputePoints(g) \/ FlyToPoint(g) \/ ReachPoint(g)
    BY <2>1, AdvanceKeepsHandles DEF PrepareRecovery, ComputePoints, FlyToPoint, ReachPoint
  <2>2. CASE LookAtCancel(g)
    BY <2>2, AdvanceKeepsHandles, EndKeepsHandles DEF LookAtCancel
  <2>3. CASE LookAtIndex(g)
    BY <2>3, AdvanceKeepsHandles, EndKeepsHandles DEF LookAtIndex
  <2>4. CASE MissPoint(g)
    BY <2>4, EndKeepsHandles DEF MissPoint
  <2> QED
    BY <1>1, <2>1, <2>2, <2>3, <2>4 DEF RecoverExecution
<1> QED
  BY <1>1, ServerKeepsHandles DEF OnRecoverGoal, OnRecoverGoalLockedOut, OnMalformedRecoverGoal,
                                  OnRecoverCancel

\* The execution of a goal keeps what is known of this goal and of the others.
LEMMA ExecutionKeepsRecovery ==
    ASSUME RecoverInv, NEW g \in Goals, RecoverExecution(g)
    PROVE  RecoverTypeOK' /\ RecoveryOK'
<1> USE DEF RecoverInv, HandleInv, ServerTypeOK, ExecutionOK, RecoverTypeOK, RecoveryOK, LiveGoals,
            LiveStatus, Cancelable, Path, Reached, recoverVars, recoverAuxiliary
<1>0. points \in Seq(Point) /\ wp_index \in Nat /\ Len(points) \in Nat /\ <<>> \in Seq(Point)
  BY LenProperties, EmptySeq
<1>1. CASE PrepareRecovery(g)
  BY <1>0, <1>1 DEF PrepareRecovery, Advance, Reset
<1>2. CASE ComputePoints(g)
  <2>1. points' \in Seq(Point)
    BY <1>0, <1>2, Paths, ConcatProperties DEF ComputePoints
  <2>2. g \in LiveGoals \ meddled => points' = Path(g) /\ wp_index = 0 /\ visited[g] = <<>>
    BY <1>0, <1>2, Paths, ConcatEmptySeq DEF ComputePoints, Advance
  <2>3. Len(points') \in Nat /\ Len(<<>>) = 0
    BY <2>1, LenProperties, EmptySeq
  <2> QED
    BY <1>0, <1>2, <2>1, <2>2, <2>3 DEF ComputePoints, Advance
<1>3. CASE LookAtCancel(g)
  BY <1>0, <1>3 DEF LookAtCancel, Advance, EndExecution
<1>4. CASE LookAtIndex(g)
  <2>1. Reached(g) /\ wp_index >= Len(points) => visited[g] = points
    BY AllReached
  <2>2. CASE drone_seen /\ wp_index < Len(points) /\ Advance(g, "inner", "target")
    BY <1>0, <1>4, <2>2 DEF LookAtIndex, Advance
  <2>3. CASE ~drone_seen /\ EndExecution(g, {"EXECUTING", "CANCELING"}, "ABORTED")
    BY <1>0, <1>4, <2>3 DEF LookAtIndex, EndExecution
  <2>4. CASE wp_index >= Len(points) /\ EndExecution(g, {"EXECUTING", "CANCELING"}, "SUCCEEDED")
    BY <1>0, <1>4, <2>1, <2>4 DEF LookAtIndex, EndExecution
  <2> QED
    BY <1>4, <2>2, <2>3, <2>4 DEF LookAtIndex
<1>5. CASE FlyToPoint(g)
  BY <1>0, <1>5 DEF FlyToPoint, Advance
<1>6. CASE ReachPoint(g)
  BY <1>0, <1>6, AppendProperties DEF ReachPoint, Advance
<1>7. CASE MissPoint(g)
  BY <1>0, <1>7 DEF MissPoint, EndExecution
<1> QED
  BY <1>1, <1>2, <1>3, <1>4, <1>5, <1>6, <1>7 DEF RecoverExecution

\* So do all other steps.
LEMMA NextRecover == RecoverInv /\ [RecoverNext]_<<handleVars, recoverVars>> => RecoverInv'
<1> SUFFICES ASSUME RecoverInv, [RecoverNext]_<<handleVars, recoverVars>>
             PROVE  RecoverInv'
  OBVIOUS
<1> USE DEF RecoverInv, HandleInv, ServerTypeOK, ExecutionOK, RecoverTypeOK, RecoveryOK, LiveGoals,
            LiveStatus, Cancelable, Path, Reached, handleVars, recoverVars, recoverAuxiliary
<1>0. points \in Seq(Point) /\ wp_index \in Nat /\ Len(points) \in Nat /\ <<>> \in Seq(Point)
  BY LenProperties, EmptySeq
<1>1. CASE UNCHANGED <<handleVars, recoverVars>>
  BY <1>1
<1>2. CASE SeeDrone
  BY <1>0, <1>2 DEF SeeDrone
<1>3. ASSUME NEW g \in Goals, NEW no_buoy \in BOOLEAN, NEW fresh_and_near \in BOOLEAN,
             OnRecoverGoal(g, no_buoy, fresh_and_near)
      PROVE  RecoverInv'
  <2>1. HandleInv'
    BY <1>3, RecoverKeepsHandles
  <2>2. RecoverTypeOK'
    BY <1>3 DEF OnRecoverGoal, TakeGoal
  <2>3. RecoveryOK'
    BY <1>0, <1>3 DEF OnRecoverGoal, TakeGoal
  <2> QED
    BY <2>1, <2>2, <2>3
<1>4. ASSUME NEW g \in Goals, OnRecoverGoalLockedOut(g) \/ OnMalformedRecoverGoal(g)
      PROVE  RecoverInv'
  <2>1. HandleInv'
    BY <1>4, RecoverKeepsHandles
  <2>2. RecoverTypeOK'
    BY <1>4 DEF OnRecoverGoalLockedOut, OnMalformedRecoverGoal, TakeGoal
  <2>3. RecoveryOK'
    BY <1>0, <1>4 DEF OnRecoverGoalLockedOut, OnMalformedRecoverGoal, TakeGoal
  <2> QED
    BY <2>1, <2>2, <2>3
<1>5. ASSUME NEW g \in Goals, OnRecoverCancel(g) PROVE RecoverInv'
  BY <1>0, <1>5, RecoverKeepsHandles DEF OnRecoverCancel, TakeCancel, Reset
<1>6. ASSUME NEW g \in Goals, RecoverExecution(g) PROVE RecoverInv'
  BY <1>6, RecoverKeepsHandles, ExecutionKeepsRecovery
<1>7. ASSUME NEW g \in Goals, (RejectGoal(g) \/ HandOver(g) \/ AcceptCancel(g)), UNCHANGED recoverVars
      PROVE  RecoverInv'
  <2>1. HandleInv' /\ RecoverTypeOK'
    BY <1>7, RecoverKeepsHandles
  <2>2. RecoveryOK'
    BY <1>0, <1>7 DEF RejectGoal, HandOver, AcceptCancel
  <2> QED
    BY <2>1, <2>2
<1> QED
  BY <1>1, <1>2, <1>3, <1>4, <1>5, <1>6, <1>7 DEF RecoverNext

\* In every reachable state the invariant of the recovery holds.
THEOREM RecoverInvHolds == RecoverSpec => []RecoverInv
BY InitRecover, NextRecover, PTL DEF RecoverSpec

\* The members of the recovery hold values of their kinds, for any number of goals.
THEOREM RecoverTypeCorrect == RecoverSpec => [](ServerTypeOK /\ RecoverTypeOK)
<1>1. RecoverInv => ServerTypeOK /\ RecoverTypeOK
  BY DEF RecoverInv, HandleInv
<1> QED
  BY <1>1, RecoverInvHolds, PTL

\* A recovery that is told as success, and that no other goal and no cancel has meddled with,
\* has been at every point of its path, in order.
THEOREM RecoveriesAreWhole == RecoverSpec => []UndisturbedRecoveriesAreWhole
<1>1. RecoverInv => UndisturbedRecoveriesAreWhole
  BY DEF RecoverInv, RecoveryOK, Path, UndisturbedRecoveriesAreWhole
<1> QED
  BY <1>1, RecoverInvHolds, PTL
=============================================================================
