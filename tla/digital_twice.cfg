SPECIFICATION Spec
CONSTANTS
    u1 = u1
    u2 = u2
    u3 = u3
    None = None
    Parts <- JustBuy
    Client <- FourClients
    Email <- TwoAccounts
    MaxFault = 2
    Cand <- FourCandidates
    Otc <- NoCandidate
    MaxCycle = 2
    MaxSilence = 2
    Order <- TwoOrders
    MaxOutage = 2
    User <- ThreeUsers
    Reconfirms <- OneUser
    Permits = 2
    MaxCandle = 5
    MaxAsset = 2
    MaxMishap = 2
    MinConfidence = 80
    LevelCap = 1
    Hour = 4
    Spacing = 3
    DryLimit = 1
INVARIANT OneOrderPerCycle
CHECK_DEADLOCK FALSE
