CONSTANTS
    Polygons <- MCPolygons
    Limits <- MCLimits
    Points <- MCPoints
    Requests = {}
    NoLimits = NoLimits
    None = None
    MaxPositionAge = 2
    MaxGoals = 1
    Sensors = {"home", "attitude"}
    HomePoint <- Ground
    MaxStatusAge = 2
    Settling = 4
SPECIFICATION DroneSpec
INVARIANT DroneTypeOK
INVARIANT HealthFollowsFence
VIEW WithoutAuxiliary
