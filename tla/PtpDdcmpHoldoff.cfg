CONSTANTS
    Confs <- OnlySerial
    MaxQueue = 2

SPECIFICATION FairSpec

PROPERTY KeepsRetrying

\* The datalink gets stuck: the property says so.
CHECK_DEADLOCK FALSE
