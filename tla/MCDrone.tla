-------------------------------- MODULE MCDrone --------------------------------
(* One triangle: the air over it, the ground under its floor, and the air beyond it. *)
EXTENDS GeofencedDrone

MCPolygons == {<<<<0, 0>>, <<4, 0>>, <<0, 4>>>>}
MCLimits   == {NoLimits, [ceiling |-> 3, floor |-> 1]}
In     == [lat |-> 1, lon |-> 1, alt |-> 2]
Ground == [lat |-> 1, lon |-> 1, alt |-> 0]
Beyond == [lat |-> 5, lon |-> 1, alt |-> 2]
MCPoints == {In, Ground, Beyond}    \* the home point is on the ground

\* The points are far enough from the sides.
ASSUME CrossingsAssumption == CrossingsTell

\* Without the auxiliary variables that no action and no property of the run reads.
WithoutAuxiliary ==
    <<fenceVars, position, position_age, writes, broken, goals, check, status, alive,
      captainVars, due, half, settled>>
=============================================================================
