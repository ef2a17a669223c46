CONSTANTS
    Confs <- AllConfs
    MaxQueue = 3

SPECIFICATION FairSpec

INVARIANTS JoinNeverBlocks CircuitAgrees NeverStranded
PROPERTY KeepsTrying

\* A DDCMP datalink that waits for the holdoff timer waits for ever: see
\* PtpDdcmpHoldoff.cfg.
CHECK_DEADLOCK FALSE
