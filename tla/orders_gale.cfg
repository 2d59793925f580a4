SPECIFICATION Spec
CONSTANTS
    o1 = o1
    o2 = o2
    o3 = o3
    o4 = o4
    NoOrder = NoOrder
    Order <- ThreeOrders
    MaxGale = 1
    StopWin = 2
    StopLoss = 2
    Worker = FALSE
    Events <- AllEvents
    MaxScore = 2
SYMMETRY OrderSymmetry
INVARIANT CountedOnce
INVARIANT HistoryAgrees
INVARIANT IndInv
CHECK_DEADLOCK FALSE
