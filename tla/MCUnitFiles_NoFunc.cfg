SPECIFICATION Spec
CONSTANTS
    Requests <- AllRequests
    Length = 1
    Templates <- StdTemplates
    MAX_PROCESSES = 9
    MaxFanout = 66
CHECK_DEADLOCK FALSE
INVARIANT
    NoFuncMeansNone
