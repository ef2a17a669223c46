\* Node number 1 in both areas; the area routers are neighbours.
CONSTANTS
    Confs <- MCSameNumber
    Width = 4
    InfHops = 4
    InfCost = 5
    VisitTop = 3
    AreaTop = 2
    MaxUpdates = 1
SPECIFICATION Spec
INVARIANT LevelOneStaysInArea
\* A network without periodic updates comes to rest.
CHECK_DEADLOCK FALSE
