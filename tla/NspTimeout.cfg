CONSTANTS
    Modulus = 16
    QMax = 2
    Retransmits = 2
    Confs <- OnlyCalls
    MaxConns = 2
    AddrMod = 12
    MaxNet = 4
SPECIFICATION Spec
INVARIANT TimeoutTold
CHECK_DEADLOCK FALSE
