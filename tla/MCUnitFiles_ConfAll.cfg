SPECIFICATION Spec
CONSTANTS
    Requests <- Copies
    Length = 1
    Templates <- StdTemplates
    MAX_PROCESSES = 9
    MaxFanout = 66
CHECK_DEADLOCK FALSE
INVARIANT
    ConfCoversAll
