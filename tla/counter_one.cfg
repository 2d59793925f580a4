SPECIFICATION FairSpec
CONSTANTS
    o1 = o1
    o2 = o2
    gateway = gateway
    runtime = runtime
    NoOrder = NoOrder
    Order <- TwoOrders
    Process <- OneProcess
    Owner = runtime
    Panel = runtime
    Attempts = 2
    QueueMax = 3
    MaxReset = 1
    Unsure <- AnyKind
    Deletable <- JustCounted
INVARIANT CounterFounded
PROPERTY QueueDrains
