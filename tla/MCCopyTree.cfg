SPECIFICATION Spec
CONSTANTS
    N = 5
    LeafSize = 2
    Tokens = 4
CHECK_DEADLOCK FALSE
INVARIANTS
    TypeOK
    NoOvertaking
PROPERTY
    CopiesToAll
