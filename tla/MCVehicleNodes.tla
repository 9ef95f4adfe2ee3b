---------------------------- MODULE MCVehicleNodes ----------------------------
(* Nodes that do not interact, checked side by side: in each behaviour one of them runs *)
(* and the others stay as they started.                                                 *)
EXTENDS Geofence, DjiMotion, SamHealth, AlarsBT, ProxOpsBT, RecoverServer, EmergencyServer

VARIABLE node

\* A triangle and a smaller one in it, which serve as fences and as islands.
MCPolygons == {<<<<0, 6>>, <<0, 0>>, <<6, 0>>>>, <<<<0, 3>>, <<0, 0>>, <<3, 0>>>>}
MCLimits   == {NoLimits, [ceiling |-> 3, floor |-> 1], [ceiling |-> 1, floor |-> 3]}
InBoth     == [lat |-> 1, lon |-> 1, alt |-> 2]
InLarge    == [lat |-> 2, lon |-> 2, alt |-> 2]
TooHigh    == [lat |-> 2, lon |-> 2, alt |-> 4]
MCPoints   == {InLarge}
MCRequests == {<<InBoth, TooHigh>>}

\* The points are far enough from the sides.
ASSUME CrossingsAssumption == CrossingsTell

MCInterval == [t \in {"imu", "dvl"} |-> 1]

actionVars == <<handleVars, recoverVars, emergencyVars>>
nodeVars == <<geofenceVars, motionVars, samVars, treeVars, alarsVars, proxOpsVars, actionVars>>

Init ==
    /\ node \in 
        {"geofence", "captain", "sam", "alars", "prox_ops", "recover", "emergency"}
    /\ GeofenceInit /\ MotionInit /\ AlarsInit /\ ProxOpsInit /\ ServerInit /\ RecoverInit
    /\ IF node = "emergency" THEN EmergencyInit ELSE EmergencyInit /\ sees_cancel = TRUE
    /\ TreeInit(IF node = "prox_ops" THEN ProxOpsBranches ELSE AlarsBranches)
    /\ IF node = "sam" THEN SamInit ELSE SamInit /\ suspects = {Essential}

Next ==
    /\ UNCHANGED node
    /\ \/ /\ node = "geofence" /\ GeofenceNext
          /\ UNCHANGED <<motionVars, samVars, treeVars, alarsVars, proxOpsVars, actionVars>>
       \/ /\ node = "captain" /\ MotionNext
          /\ UNCHANGED <<geofenceVars, samVars, treeVars, alarsVars, proxOpsVars, actionVars>>
       \/ /\ node = "sam" /\ SamNext
          /\ UNCHANGED <<geofenceVars, motionVars, treeVars, alarsVars, proxOpsVars, actionVars>>
       \/ /\ node = "alars" /\ AlarsNext
          /\ UNCHANGED <<geofenceVars, motionVars, samVars, proxOpsVars, actionVars>>
       \/ /\ node = "prox_ops" /\ ProxOpsNext
          /\ UNCHANGED <<geofenceVars, motionVars, samVars, alarsVars, actionVars>>
       \/ /\ node = "recover" /\ RecoverNext
          /\ UNCHANGED <<geofenceVars, motionVars, samVars, treeVars, alarsVars, proxOpsVars,
                         emergencyVars>>
       \/ /\ node = "emergency" /\ EmergencyNext
          /\ UNCHANGED <<geofenceVars, motionVars, samVars, treeVars, alarsVars, proxOpsVars,
                         recoverVars>>

Spec == Init /\ [][Next]_<<node, nodeVars>>

\* Every variable of these nodes holds a value of the kind its code gives it.
NodesTypeOK ==
    /\ GeofenceTypeOK /\ MotionTypeOK /\ SamTypeOK
    /\ TreeTypeOK /\ AlarsTypeOK /\ ProxOpsTypeOK
    /\ ServerTypeOK /\ RecoverTypeOK /\ EmergencyTypeOK
=============================================================================
