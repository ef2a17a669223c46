CONSTANTS
    Ids = {1, 2, 3, 9}
    Self = 9
    Inodes = {1, 2, 3}
    None = None
    Confs <- Shifted
SPECIFICATION Spec

PROPERTY LearnedFillsGaps
CHECK_DEADLOCK FALSE
