SPECIFICATION Spec
CONSTANTS
    Parts <- AllParts
    MaxMishap = 3
    MaxClick = 4
    MaxDown = 2
    Order <- TwoOrders
    N = 3
    W = 2
    Terms <- TwoSettings
    MaxId = 2
    MaxTurn = 1
    MaxTries = 2
    MaxCalls = 2
    MaxTrouble = 1
INVARIANT GatewayTypeOK
INVARIANT ExitLasts
INVARIANT StopHolds
INVARIANT StakeFounded
PROPERTY StartTakes
PROPERTY KeepsPlan
PROPERTY DeliverySettles
PROPERTY DeliveredIsFinal
CHECK_DEADLOCK FALSE
