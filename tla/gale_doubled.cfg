SPECIFICATION Spec
CONSTANTS
    o1 = o1
    o2 = o2
    o3 = o3
    o4 = o4
    NoOrder = NoOrder
    Order <- FourOrders
    MaxGale = 2
    StopWin = 0
    StopLoss = 0
    Worker = TRUE
    Events <- NoEvents
    MaxScore = 2
SYMMETRY OrderSymmetry
INVARIANT GaleStepsBounded
CHECK_DEADLOCK FALSE
