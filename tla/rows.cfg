SPECIFICATION Spec
CONSTANTS
    h1 = h1
    h2 = h2
    t1 = t1
    t2 = t2
    Handler <- TwoHandlers
    MaxSlip = 1
    MaxScore = 2
    MaxSaves = 2
    MaxEvents = 3
    MaxJobs = 2
    MaxRestart = 1
    Desk <- OneOperator
    AuthTTL = 1
    PageTTL = 1
    BoardTTL = 2
    MaxOps = 2
    MaxOther = 1
    Trader <- TwoTraders
    MinSamples = 2
    MaxLosses = 3
    MaxStart = 2
    MaxFailure = 1
SYMMETRY HandlerSymmetry
INVARIANT RowsTypeOK
INVARIANT ScoreShown
INVARIANT DeletedStays
INVARIANT AccessFollowsPayment
INVARIANT PurchaseIsWhole
INVARIANT ChangesArrive
INVARIANT VetoFounded
CHECK_DEADLOCK FALSE
