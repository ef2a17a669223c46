CONSTANTS
    Links = {1, 2}
    Clients = {1, 2}
    MaxHandle = 5
    MaxInbox = 2
    MaxQueued = 1
    IdleSteps = 1
    Confs <- OnlyPrograms

SPECIFICATION Spec

\* A node that has been stopped does nothing more.
CHECK_DEADLOCK FALSE
INVARIANT ReleasedFirst
