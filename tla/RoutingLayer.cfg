\* A network without periodic updates comes to rest.
SPECIFICATION LayerSpec
CONSTANTS
    Confs <- MCConfs
    Width = 4
    InfHops = 4
    InfCost = 5
    VisitTop = 3
    AreaTop = 2
    MaxUpdates = 1
    LanConfs <- LanAll
INVARIANTS TablesHold ChangesTold PacketsArriveOrStop NeighboursSound ElectionSound
PROPERTIES RoutesConverge LanSettles
CHECK_DEADLOCK FALSE
