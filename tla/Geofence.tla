------------------------------- MODULE Geofence -------------------------------
(***************************************************************************)
(* The geofence node: fences to stay in, islands to stay out of and limits *)
(* of altitude, written by the goals of smarc_start_geofence and           *)
(* smarc_stop_geofence, read by a timer that publishes whether the vehicle *)
(* is inside, and by a service.                                            *)
(*                                                                         *)
(* The node runs a MultiThreadedExecutor.  The position, the timer and the *)
(* service share the node's one default callback group; the callbacks of   *)
(* the two action servers are in reentrant groups.  A callback of theirs   *)
(* therefore writes between any two reads of a check.                      *)
(***************************************************************************)
EXTENDS Integers, FiniteSets, SequencesExt

CONSTANTS
    Polygons,           \* the polygons of goals, sequences of corners <<latitude, longitude>>
    Limits,             \* the limits of goals: [ceiling, floor], or NoLimits for a goal without
    Points,             \* where the vehicle can be: [lat, lon, alt]
    Requests,           \* what the service is asked: one or two points
    NoLimits,
    None,
    MaxPositionAge,     \* max_position_age, in periods of the check
    MaxGoals            \* bound: goals the action servers are sent

\* Where something is: its latitude, its longitude and its altitude over water.
Position == [lat : Int, lon : Int, alt : Int]

ASSUME GeofenceAssumption ==
    /\ NoLimits \in Limits /\ Limits \ {NoLimits} \subseteq [ceiling : Int, floor : Int]
    /\ None \notin Int \cup BOOLEAN \cup Points
    /\ Points \subseteq Position
    /\ \A r \in Requests : r \in Seq(Position) /\ (r = <<r[1]>> \/ r = <<r[1], r[2]>>)
    /\ MaxPositionAge \in Nat /\ MaxGoals \in Nat

VARIABLES
    fences, islands,    \* _fences, _islands
    ceiling, floor,     \* _ceiling_altitude, _floor_altitude
    position,           \* _robot_position, None before the first
    position_age,       \* age of _robot_position_time
    writes,             \* what the callback of an action server has still to write
    broken,             \* servers whose callback raised: they refuse all later goals
    goals,              \* goals sent so far
    check,              \* the check in progress: its purpose, the points asked and left, where it is
    status,             \* the last status published
    answer,             \* the last answer of the service
    alive,              \* the node still spins
    disturbed,          \* auxiliary: a callback wrote since the check in progress began
    overlapped          \* auxiliary: callbacks of the two servers once wrote by turns

fenceVars    == <<fences, islands, ceiling, floor>>
serverVars   == <<writes, broken, goals, overlapped>>
checkVars    == <<check, status, answer, alive, disturbed>>
geofenceVars == <<fenceVars, position, position_age, serverVars, checkVars>>

----------------------------------------------------------------------------
(* A point and a polygon *)

LesserOf(a, b)  == IF a < b THEN a ELSE b
GreaterOf(a, b) == IF a < b THEN b ELSE a

\* The ray from the point along its latitude meets the side from corner a to corner b.
\* A side of one latitude is never met, so the quotient is by no zero.
Crosses(point, a, b) ==
    LET side == b[1] - a[1]
        past == (point.lat - a[1]) * (b[2] - a[2])
    IN  /\ LesserOf(a[1], b[1]) < point.lat /\ point.lat <= GreaterOf(a[1], b[1])
        /\ point.lon <= GreaterOf(a[2], b[2])
        /\ \/ a[2] = b[2]
           \/ IF side > 0 THEN (point.lon - a[2]) * side <= past
                          ELSE (point.lon - a[2]) * side >= past

IsPointInsidePolygon(point, polygon) ==
    Cardinality({i \in 1 .. Len(polygon) :
                    Crosses(point, polygon[i], polygon[(i % Len(polygon)) + 1])}) % 2 = 1

\* Mutant: the first polygon that the point is not in decides.
InsideEach(point, polygons) == \A polygon \in polygons : IsPointInsidePolygon(point, polygon)

InsideAny(point, polygons) == \E polygon \in polygons : IsPointInsidePolygon(point, polygon)

ValidGeofenceSetup == fences # {} \/ islands # {}

----------------------------------------------------------------------------
(* The callbacks of the action servers *)

Server == {"start", "stop"}

\* What a callback writes, in order; the last step publishes the polygons.
Publish == [to |-> "polygons", value |-> None]
Write(to, value) == [to |-> to, value |-> value]

\* _on_goal_received_start.  The polygon is added before the limits are read, and
\* a goal without limits is refused after it.
StartWrites(polygon, inside, limits) ==
    <<Write(IF inside THEN "fence" ELSE "island", polygon)>> \o
    IF limits = NoLimits THEN <<>>
    ELSE IF limits.ceiling > limits.floor
    THEN <<Write("ceiling", limits.ceiling), Write("floor", limits.floor), Publish>>
    ELSE <<Write("ceiling", None), Write("floor", None), Publish>>

\* Mutant: stopping the fence forgets the ceiling.
StopWritesKeepCeiling(reset_geofence, reset_islands) ==
    IF reset_geofence = TRUE /\ reset_islands = FALSE
    THEN <<Write("no fences", None), Write("floor", None), Publish>>
    ELSE <<Publish>>

\* _on_goal_received_stop.  A key that is None is missing from the goal: the callback
\* raises there, behind what it has already reset.
StopWrites(reset_geofence, reset_islands) ==
    IF reset_geofence = None THEN <<Write("raise", None)>>
    ELSE (IF reset_geofence
          THEN <<Write("no fences", None), Write("floor", None), Write("ceiling", None)>>
          ELSE <<>>) \o
         (IF reset_islands = None THEN <<Write("raise", None)>>
          ELSE (IF reset_islands THEN <<Write("no islands", None)>> ELSE <<>>) \o <<Publish>>)

\* _on_cancel_received_start
CancelWrites ==
    <<Write("no fences", None), Write("no islands", None),
      Write("ceiling", None), Write("floor", None), Publish>>

Idle(server) == alive /\ writes[server] = <<>> /\ server \notin broken

Receive(server, list) ==
    /\ Idle(server)
    /\ goals < MaxGoals
    /\ goals' = goals + 1
    /\ writes' = [writes EXCEPT ![server] = list]
    /\ overlapped' = (overlapped \/ \E other \in Server \ {server} : writes[other] # <<>>)
    /\ UNCHANGED <<fenceVars, position, position_age, broken, checkVars>>

StartGoal ==
    \E polygon \in Polygons, inside \in BOOLEAN, limits \in Limits :
        Receive("start", StartWrites(polygon, inside, limits))

StopGoal == \E f, i \in BOOLEAN \cup {None} : Receive("stop", StopWrites(f, i))

CancelStart == Receive("start", CancelWrites)

\* One assignment of a callback.
DoWrite(server) ==
    /\ alive /\ writes[server] # <<>>
    /\ writes' = [writes EXCEPT ![server] = Tail(@)]
    /\ LET w == Head(writes[server]) IN
       /\ fences' = IF w.to = "fence" THEN fences \cup {w.value}
                    ELSE IF w.to = "no fences" THEN {} ELSE fences
       /\ islands' = IF w.to = "island" THEN islands \cup {w.value}
                     ELSE IF w.to = "no islands" THEN {} ELSE islands
       /\ ceiling' = IF w.to = "ceiling" THEN w.value ELSE ceiling
       /\ floor'   = IF w.to = "floor" THEN w.value ELSE floor
       /\ broken'  = IF w.to = "raise" THEN broken \cup {server} ELSE broken
    /\ disturbed' = TRUE
    /\ UNCHANGED <<position, position_age, goals, overlapped, check, status, answer, alive>>

\* _publish_geofence_polygons looks a transform up for each polygon, once a position has
\* told the zone; without the transform it raises.  The start callback answers that
\* by refusing the goal, whose fence stays; the stop callback lets it through, and its
\* server refuses every goal from then on.
PublishRaises(server) ==
    /\ alive /\ writes[server] = <<Publish>>
    /\ ValidGeofenceSetup /\ position # None
    /\ writes' = [writes EXCEPT ![server] = <<>>]
    /\ broken' = IF server = "stop" THEN broken \cup {"stop"} ELSE broken
    /\ UNCHANGED <<fenceVars, position, position_age, goals, overlapped, checkVars>>

----------------------------------------------------------------------------
(* The default callback group *)

NoCheck == [for |-> "none", asked |-> <<>>, points |-> <<>>, at |-> "idle"]

Begin(for, points) == [for |-> for, asked |-> points, points |-> points, at |-> "setup"]

\* pos_latlon_cb
PosLatlon(point) ==
    /\ alive /\ check = NoCheck
    /\ position' = point
    /\ position_age' = 0
    /\ UNCHANGED <<fenceVars, serverVars, checkVars>>

\* The timer of _publish_geofence_polygons, where the transform is not there yet: what
\* a timer raises stops the node.
PolygonTimerRaises ==
    /\ alive /\ check = NoCheck
    /\ ValidGeofenceSetup /\ position # None
    /\ alive' = FALSE
    /\ UNCHANGED <<fenceVars, position, position_age, serverVars, check, status, answer, disturbed>>

\* Mutant: the service goes on after its last point.
ConcludePastLast(verdict) ==
    /\ IF check.for = "service" /\ verdict = "INSIDE"
       THEN check' = [check EXCEPT !.points = Tail(@), !.at = "setup"]
       ELSE check' = NoCheck
    /\ UNCHANGED <<status, answer, alive>>

\* A check of its points is over with this verdict on the first of them.
Conclude(verdict) ==
    /\ CASE check.for = "status" ->
              /\ check' = NoCheck
              /\ status' = [status |-> verdict, age |-> 0]
              /\ UNCHANGED answer
         [] check.for = "service" /\ verdict = "INSIDE" /\ Len(check.points) > 1 ->
              /\ check' = [check EXCEPT !.points = Tail(@), !.at = "setup"]
              /\ UNCHANGED <<status, answer>>
         [] OTHER ->
              /\ check' = NoCheck
              /\ answer' = (verdict = "INSIDE")
              /\ UNCHANGED status
    /\ UNCHANGED alive

\* publish_geofence_ok up to the call of _point_is_safe.
PublishGeofenceOk ==
    /\ alive /\ check = NoCheck
    /\ IF position = None \/ ~ValidGeofenceSetup \/ position_age > MaxPositionAge
       THEN status' = [status |-> "INACTIVE", age |-> 0] /\ UNCHANGED check
       ELSE check' = Begin("status", <<position>>) /\ UNCHANGED status
    /\ disturbed' = FALSE
    /\ UNCHANGED <<fenceVars, position, position_age, serverVars, answer, alive>>

\* _check_fence_srv_cb for the points that are given: the start, the goal or both.
CheckFence(points) ==
    /\ alive /\ check = NoCheck
    /\ IF ValidGeofenceSetup
       THEN check' = Begin("service", points) /\ UNCHANGED answer
       ELSE answer' = FALSE /\ UNCHANGED check
    /\ disturbed' = FALSE
    /\ UNCHANGED <<fenceVars, position, position_age, serverVars, status, alive>>

GoOn(at) == check' = [check EXCEPT !.at = at] /\ UNCHANGED <<status, answer, alive>>

Raise == alive' = FALSE /\ check' = NoCheck /\ UNCHANGED <<status, answer>>

\* The parts of _point_is_safe, in its order; every line that reads a member is a
\* step of its own.
Setup ==
    /\ check.at = "setup"
    /\ IF ValidGeofenceSetup THEN GoOn("ceiling") ELSE Conclude("INACTIVE")

Ceiling ==
    /\ check.at = "ceiling"
    /\ GoOn(IF ceiling # None THEN "above" ELSE "floor")

\* A limit that was taken away after the test above cannot be compared with.
Above ==
    /\ check.at = "above"
    /\ IF ceiling = None THEN Raise
       ELSE IF check.points[1].alt > ceiling THEN Conclude("CEILING") ELSE GoOn("floor")

Floor ==
    /\ check.at = "floor"
    /\ GoOn(IF floor # None THEN "below" ELSE "fences")

Below ==
    /\ check.at = "below"
    /\ IF floor = None THEN Raise
       ELSE IF check.points[1].alt < floor THEN Conclude("FLOOR") ELSE GoOn("fences")

Fences ==
    /\ check.at = "fences"
    /\ IF InsideAny(check.points[1], fences) THEN GoOn("islands") ELSE Conclude("FENCE")

Islands ==
    /\ check.at = "islands"
    /\ Conclude(IF InsideAny(check.points[1], islands) THEN "ISLAND" ELSE "INSIDE")

PointIsSafe ==
    /\ alive
    /\ Setup \/ Ceiling \/ Above \/ Floor \/ Below \/ Fences \/ Islands
    /\ UNCHANGED <<fenceVars, position, position_age, serverVars, disturbed>>

----------------------------------------------------------------------------
GeofenceInit ==
    /\ fences = {} /\ islands = {}
    /\ ceiling = None /\ floor = None
    /\ position = None /\ position_age = 0
    /\ writes = [s \in Server |-> <<>>]
    /\ broken = {} /\ goals = 0
    /\ check = NoCheck
    /\ status = [status |-> None, age |-> 0]
    /\ answer = None
    /\ alive = TRUE /\ disturbed = FALSE /\ overlapped = FALSE

ServersNext ==
    \/ StartGoal \/ StopGoal \/ CancelStart
    \/ \E server \in Server : DoWrite(server) \/ PublishRaises(server)

WaitPosition ==
    /\ position_age <= MaxPositionAge
    /\ position_age' = position_age + 1
    /\ UNCHANGED <<fenceVars, position, serverVars, checkVars>>

GeofenceNext ==
    \/ ServersNext
    \/ \E point \in Points : PosLatlon(point)
    \/ WaitPosition
    \/ PublishGeofenceOk
    \/ \E points \in Requests : CheckFence(points)
    \/ PointIsSafe
    \/ PolygonTimerRaises

GeofenceSpec == GeofenceInit /\ [][GeofenceNext]_geofenceVars

----------------------------------------------------------------------------
(* What the node is to tell *)

\* The point is on the inner side of each side of a polygon with its corners in
\* anticlockwise order, by definition and not by counting crossings.
InHull(point, polygon) ==
    \A i \in 1 .. Len(polygon) :
        LET a == polygon[i]
            b == polygon[(i % Len(polygon)) + 1]
        IN  (b[1] - a[1]) * (point.lon - a[2]) - (b[2] - a[2]) * (point.lat - a[1]) > 0

WithinLimits(point) ==
    /\ ceiling # None => point.alt <= ceiling
    /\ floor # None => point.alt >= floor

\* The points the node judges, and what the two tests of a point agree on: a corner, a side
\* and a polygon that is not convex make them differ.
Asked == Points \cup UNION {Range(r) : r \in Requests}

CrossingsTell ==
    \A point \in Asked, polygon \in Polygons :
        IsPointInsidePolygon(point, polygon) <=> InHull(point, polygon)

IsSafe(point) ==
    /\ WithinLimits(point)
    /\ \E fence \in fences : InHull(point, fence)
    /\ \A island \in islands : ~InHull(point, island)

Outside == {"CEILING", "FLOOR", "FENCE", "ISLAND"}

\* Every variable holds a value of the kind the code gives it.
GeofenceTypeOK ==
    /\ fences \subseteq Polygons /\ islands \subseteq Polygons
    /\ position \in Points \cup {None} /\ position_age \in Nat
    /\ broken \subseteq Server /\ goals \in 0 .. MaxGoals
    /\ check.for \in {"none", "status", "service"}
    /\ check.for = "none" <=> check.at = "idle"
    /\ check.for = "none" <=> check.points = <<>>
    /\ status.status \in Outside \cup {"INSIDE", "INACTIVE", None}
    /\ answer \in BOOLEAN \cup {None}
    /\ alive \in BOOLEAN /\ disturbed \in BOOLEAN /\ overlapped \in BOOLEAN

\* While the callbacks of the two servers ran one after the other, the node has either
\* both limits, in their order, or none: whatever a goal lacks and wherever one raises.
SerialLimitsArePaired ==
    ~overlapped /\ (\A s \in Server : writes[s] = <<>>) =>
        \/ ceiling = None /\ floor = None
        \/ ceiling # None /\ floor # None /\ ceiling > floor

\* A check that no callback disturbed ends with a verdict and does not stop the node,
\* and the verdict is the truth by definition: the vehicle is inside exactly when it is
\* safe, and the service says so of all its points.
VerdictsAreRight ==
    [][~disturbed /\ check # NoCheck /\ check' = NoCheck =>
        /\ alive'
        /\ check.for = "status" =>
               (status'.status = "INSIDE") = IsSafe(check.points[1])
        /\ check.for = "service" =>
               /\ answer' = IsSafe(check.points[1])
               /\ answer' => \A i \in 1 .. Len(check.asked) : IsSafe(check.asked[i])
      ]_geofenceVars
=============================================================================
