SPECIFICATION Spec
CONSTANTS
    o1 = o1
    o2 = o2
    o3 = o3
    o4 = o4
    NoOrder = NoOrder
    Order <- TwoOrders
    MaxGale = 1
    StopWin = 0
    StopLoss = 0
    Worker = FALSE
    Events <- TimeoutOnly
    MaxScore = 3
SYMMETRY OrderSymmetry
INVARIANT CountedOnceEver
CHECK_DEADLOCK FALSE
