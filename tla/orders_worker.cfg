SPECIFICATION Spec
CONSTANTS
    o1 = o1
    o2 = o2
    o3 = o3
    o4 = o4
    NoOrder = NoOrder
    Order <- ThreeOrders
    MaxGale = 1
    StopWin = 0
    StopLoss = 2
    Worker = TRUE
    Events <- ClosedLegEvents
    MaxScore = 2
SYMMETRY OrderSymmetry
INVARIANT LegFollowed
CHECK_DEADLOCK FALSE
