CONSTANTS
    Confs <- OnlyConnecting
    MaxQueue = 3

SPECIFICATION Spec

PROPERTY SocketQuiet
