\* Two timers on a wheel of three slots: an interval below one tick, one of
\* two ticks, and one that the wheel does not span.
CONSTANTS
    Confs <- Lines
    Timers = {t1, t2}
    Slots = 3
    TickMs = 10
    Requests = {5, 20, 30}
    MaxRev = 3
SPECIFICATION BothSpec
INVARIANTS EngineOK Delivery WheelSound NoStaleTimeout ArmedIsPending
PROPERTIES ImplementsReliableLink Settles FireOrder ArmedFires
\* The stations fall silent once every payload has been given and acknowledged.
CHECK_DEADLOCK FALSE
