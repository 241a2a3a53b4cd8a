SPECIFICATION Spec
CONSTANTS
    x = x
    y = y
    z = z
    None = None
    Vars = {x, y, z}
    BW <- Widths
    Exprs <- AllExprs
    Height <- Heights
    Width <- ExprWidths
    Elements <- AllElements
    MaxElements = 3
CHECK_DEADLOCK FALSE
INVARIANTS
    TypeOK
    PassesAgree
    PortWidths
    ComputesExpr
    NetlistComputes
