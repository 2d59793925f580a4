SPECIFICATION FairSpec
CONSTANTS
    o1 = o1
    o2 = o2
    NoOrder = NoOrder
    Order <- TwoOrders
    MaxGale = 1
    StopWin = 0
    StopLoss = 2
    Answers <- DecidedAnswers
    MaxJobs = 1
    MaxCrash = 1
INVARIANT ScoreFromHistory
INVARIANT WaitsForOpenOrder
PROPERTY MirrorSettles
CHECK_DEADLOCK FALSE
