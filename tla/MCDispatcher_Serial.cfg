SPECIFICATION FairSpec
CONSTANTS
    boss = boss
    alice = alice
    user = user
    other = other
    none = none
    p1 = p1
    p2 = p2
    usdc = usdc
    s1 = s1
    s2 = s2
    s3 = s3
    Keys <- MCKeys
    Programs = {p1}
    Mints = {usdc, none}
    DefaultKey = none
    INITIALIZER = boss
    NoRegistry = NoRegistry
    NoEntry = NoEntry
    DISPATCHER = DISPATCHER
    PROTOCOL = PROTOCOL
    RegistryPda = RegistryPda
    Idle = Idle
    Unknown = Unknown
    Value = {7, 8}
    TooShort = TooShort
    Empty = Empty
    Slots = {s1, s2}
    Transactions <- OverlapTransactions
PROPERTIES
    Serializable
    
