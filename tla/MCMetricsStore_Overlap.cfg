SPECIFICATION Spec
CONSTANTS
    Runs = {r1, r2, r3}
    Units = {u}
    Dirs = {d1, d2}
    Cache = cache
    UserFile = userfile
    d1 = d1
    d2 = d2
    t1 = t1
    t2 = t2
    Techs = {t1}
    Begins <- OneTech
    Calibrated = {t1}
    Values = {v1}
    Options <- OverlapOptions
    Faults = {"kill"}
    MaxActive = 2
    MaxUses = 1
    Partial = Partial
    None = None
SYMMETRY Symmetric
CHECK_DEADLOCK FALSE
INVARIANTS
    NetlistBeforeRecord
