SPECIFICATION Spec
CONSTANTS
    Parts <- JustMoney
    MaxMishap = 3
    MaxClick = 4
    MaxDown = 2
    Order <- TwoOrders
    N = 3
    W = 2
    Terms <- TwoSettings
    MaxId = 2
    MaxTurn = 1
    MaxTries = 2
    MaxCalls = 2
    MaxTrouble = 2
PROPERTY GivenUpStays
CHECK_DEADLOCK FALSE
