SPECIFICATION Spec
CONSTANTS
    u1 = u1
    u2 = u2
    u3 = u3
    None = None
    Parts <- AllParts
    Client <- FourClients
    Email <- TwoAccounts
    MaxFault = 2
    Cand <- FourCandidates
    Otc <- FourCandidates
    MaxCycle = 2
    MaxSilence = 2
    Order <- TwoOrders
    MaxOutage = 2
    User <- ThreeUsers
    Reconfirms <- OneUser
    Permits = 2
    MaxCandle = 5
    MaxAsset = 2
    MaxMishap = 2
    MinConfidence = 75
    LevelCap = 1
    Hour = 4
    Spacing = 3
    DryLimit = 1
INVARIANT BrokerTypeOK
INVARIANT StaysOut
INVARIANT TokenSurvives
INVARIANT AccountOfThisLogin
INVARIANT FollowedIsMine
INVARIANT OneTurboOrder
INVARIANT GateMoves
INVARIANT EntryInTime
INVARIANT LegOwnSignal
INVARIANT VerdictKept
INVARIANT ThesisHolds
INVARIANT PaceKept
PROPERTY Recovers
PROPERTY ResultTold
CHECK_DEADLOCK FALSE
