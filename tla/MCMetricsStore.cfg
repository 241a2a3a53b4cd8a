SPECIFICATION Spec
CONSTANTS
    Runs = {r1, r2, r3}
    Units = {u}
    Dirs = {d1, d2}
    Cache = cache
    UserFile = userfile
    d1 = d1
    d2 = d2
    t1 = t1
    t2 = t2
    Techs = {t1, t2}
    Begins <- TwoTechs
    Calibrated = {t1, t2}
    Values = {v1, v2}
    Options <- MostOptions
    Faults = {"kill", "full", "uncalibrated"}
    MaxActive = 1
    MaxUses = 2
    Partial = Partial
    None = None
SYMMETRY Symmetric
CHECK_DEADLOCK FALSE
INVARIANTS
    TypeOK
    RecordHasItsNetlist
    UsedHasNetlist
    UsedForTech
PROPERTIES
    InvalidateRepairs
    ErrorsHaveCauses
    NoWastedOptimization
