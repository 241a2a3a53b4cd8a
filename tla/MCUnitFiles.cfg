SPECIFICATION Spec
CONSTANTS
    Requests <- AllRequests
    Length = 3
    Templates <- StdTemplates
    MAX_PROCESSES = 9
    MaxFanout = 66
CHECK_DEADLOCK FALSE
INVARIANTS
    TypeOK
    ConfCoversCircuit
    FilesInStep
    WrittenOnce
    StatCountsUnits
