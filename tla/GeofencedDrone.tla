---------------------------- MODULE GeofencedDrone ----------------------------
(***************************************************************************)
(* The DJI captain's report of the drone's health, with the geofence node. *)
(* The captain publishes the position, the geofence node judges it and     *)
(* publishes a status, the captain puts the status into the health that    *)
(* the task handler and its tree act on.                                   *)
(*                                                                         *)
(* Time is in half seconds.  The timers of the two nodes run at their      *)
(* periods: the position every tenth of a second, taken once in a half,    *)
(* the check every half second and the health every second, in any order   *)
(* within their half second.  All callbacks of the captain are in its      *)
(* node's default callback group, so each is atomic.                       *)
(***************************************************************************)
EXTENDS Geofence

CONSTANTS
    Sensors,            \* what the health waits for besides the position
    HomePoint,          \* the home point, at its altitude over water
    MaxStatusAge,       \* MAX_GEOFENCE_STATUS_AGE, in half seconds
    Settling            \* half seconds in which the health follows a change

ASSUME GeofencedDroneAssumption ==
    HomePoint \in Points /\ MaxStatusAge \in Nat /\ Settling \in Nat

VARIABLES
    base_pose,          \* _base_pose_in_home with its altitude over water, None before the first
    received,           \* what was heard of: Sensors and "gps", which sets _utm_zb_label
    got_release_control_srv,
    flying,             \* _flying
    cleared_water_level_once,
    vehicle_health,     \* _vehicle_health.data
    due,                \* timers that have not run in this half second
    half,               \* which half of the second it is
    settled             \* auxiliary: half seconds since sensors, position, fences or limits changed

captainVars == <<base_pose, received, got_release_control_srv, flying,
                 cleared_water_level_once, vehicle_health>>
droneVars == <<geofenceVars, captainVars, due, half, settled>>

DroneInit ==
    /\ GeofenceInit
    /\ base_pose = None
    /\ received = {}
    /\ got_release_control_srv = FALSE
    /\ flying = FALSE
    /\ cleared_water_level_once = FALSE
    /\ vehicle_health = "WAITING"
    /\ due = {"smarc", "check", "health"}
    /\ half = 0
    /\ settled = 0

----------------------------------------------------------------------------
(* What the captain hears *)

\* The first of the home point, the attitude, the motors, the battery and the GPS fixes.
\* An attitude that comes before the first position makes a pose at the home point, which
\* counts as a position.
HearSensor(sensor) ==
    /\ sensor \notin received
    /\ received' = received \cup {sensor}
    /\ base_pose' = IF sensor = "attitude" /\ base_pose = None THEN HomePoint ELSE base_pose
    /\ settled' = 0
    /\ UNCHANGED <<geofenceVars, got_release_control_srv, flying,
                   cleared_water_level_once, vehicle_health, due, half>>

\* _position_fused_callback
PositionFused(point) ==
    /\ "home" \in received
    /\ base_pose' = point
    /\ settled' = IF point = base_pose THEN settled ELSE 0
    /\ UNCHANGED <<geofenceVars, received, got_release_control_srv, flying,
                   cleared_water_level_once, vehicle_health, due, half>>

----------------------------------------------------------------------------
(* The timers *)

\* _publish_smarc: the last pose, however old, without its time; the geofence node takes
\* the time of its arrival.  Nothing is published before the home point and the UTM label.
Labelled == {"home", "gps"} \subseteq received

PublishSmarc ==
    /\ "smarc" \in due
    /\ due' = due \ {"smarc"}
    /\ IF base_pose # None /\ Labelled /\ alive
       THEN PosLatlon(base_pose) ELSE UNCHANGED geofenceVars
    /\ UNCHANGED <<captainVars, half, settled>>

CheckTimer ==
    /\ "check" \in due
    /\ due' = due \ {"check"}
    /\ IF alive THEN PublishGeofenceOk ELSE UNCHANGED geofenceVars
    /\ UNCHANGED <<captainVars, half, settled>>

\* Mutant: the battery has a state of its own.
HealthBeforeReadyLow(battery, overloaded, can_transform) ==
    IF battery # "ready" THEN "LOW" ELSE "READY"

\* The tests of _publish_vehicle_health before READY.  A battery below the level for
\* ERROR is below that for READY, which is tested first.
HealthBeforeReady(battery, overloaded, can_transform) ==
    IF ~(Sensors \subseteq received) \/ base_pose = None THEN "WAITING"
    ELSE IF battery # "ready" THEN "WAITING"
    ELSE IF overloaded THEN "ERROR"
    ELSE IF ~can_transform THEN "WAITING" ELSE "READY"

\* Mutant: the test of its age is turned round.
OutsideFenceLate == status.age >= MaxStatusAge /\ status.status \in Outside

\* The status counts while it is fresh, and no status counts as none.
OutsideFence == status.age < MaxStatusAge /\ status.status \in Outside

MinAltitude == 1        \* MIN_ALTITUDE_ABOVE_WATER: the altitudes are 0, below it, and above

\* The rest of it.  Without the release service nothing is published and the drone does
\* not fly; the service is looked for until it was found once.
HealthOfReady(has_service, is_flying) ==
    LET cleared == cleared_water_level_once \/ base_pose.alt > MinAltitude IN
    IF got_release_control_srv \/ has_service
    THEN /\ got_release_control_srv' = TRUE
         /\ flying' = is_flying
         /\ cleared_water_level_once' = cleared
         /\ vehicle_health' =
                IF is_flying /\ ((base_pose.alt < MinAltitude /\ cleared) \/ OutsideFence)
                THEN "WAITING" ELSE "READY"
    ELSE /\ vehicle_health' = "WAITING"
         /\ UNCHANGED <<got_release_control_srv, flying, cleared_water_level_once>>

\* The values that are tested are the last ones heard, which may have been any.  The map
\* frame is known at some time after _publish_static_tf could send it, which needs the home
\* point and the UTM label.
PublishVehicleHealth ==
    /\ "health" \in due
    /\ due' = due \ {"health"}
    /\ \E battery \in {"ready", "low"}, overloaded, can_transform, has_service, is_flying \in BOOLEAN :
           LET health == HealthBeforeReady(battery, overloaded, can_transform) IN
           /\ can_transform => Labelled
           /\ IF health = "READY" THEN HealthOfReady(has_service, is_flying)
              ELSE /\ vehicle_health' = health
                   /\ UNCHANGED <<got_release_control_srv, flying, cleared_water_level_once>>
    /\ UNCHANGED <<geofenceVars, base_pose, received, half, settled>>

Older(age, bound) == IF age > bound THEN age ELSE age + 1

\* A half second is over when its timers have run and no check is in progress.
Tick ==
    /\ due = {} /\ check = NoCheck
    /\ half' = 1 - half
    /\ due' = {"smarc", "check"} \cup (IF half = 1 THEN {"health"} ELSE {})
    /\ position_age' = Older(position_age, MaxPositionAge)
    /\ status' = [status EXCEPT !.age = Older(@, MaxStatusAge)]
    /\ settled' = Older(settled, Settling)
    /\ UNCHANGED <<fenceVars, position, serverVars, check, answer, alive, disturbed, base_pose,
                   received, got_release_control_srv, flying, cleared_water_level_once,
                   vehicle_health>>

\* The action servers and the service of the geofence node, and the check in progress.
GeofenceStep ==
    /\ \/ ServersNext
       \/ \E points \in Requests : CheckFence(points)
       \/ PointIsSafe
       \/ PolygonTimerRaises
    /\ settled' = IF fenceVars' = fenceVars THEN settled ELSE 0
    /\ UNCHANGED <<captainVars, due, half>>

DroneNext ==
    \/ \E sensor \in Sensors \cup {"gps"} : HearSensor(sensor)
    \/ \E point \in Points : PositionFused(point)
    \/ PublishSmarc
    \/ CheckTimer
    \/ PublishVehicleHealth
    \/ GeofenceStep
    \/ Tick

DroneSpec == DroneInit /\ [][DroneNext]_droneVars

----------------------------------------------------------------------------
(* Properties *)

\* Every variable of the two nodes holds a value of the kind the code gives it.
DroneTypeOK ==
    /\ GeofenceTypeOK
    /\ base_pose \in Points \cup {None}
    /\ received \subseteq Sensors \cup {"gps"}
    /\ got_release_control_srv \in BOOLEAN /\ flying \in BOOLEAN
    /\ cleared_water_level_once \in BOOLEAN
    /\ vehicle_health \in {"WAITING", "READY", "ERROR"}

\* A drone that flies where it must not, while nothing has changed for as long as a
\* position, a check and a report take one after another, is not reported ready.  That
\* needs no position to be judged before the captain may be ready: the UTM label, without
\* which no position is published, is needed for the map frame that the health waits for.
HealthFollowsFence ==
    settled > Settling /\ alive /\ base_pose # None /\ ValidGeofenceSetup /\ flying =>
        (vehicle_health = "READY" => IsSafe(base_pose))
=============================================================================
