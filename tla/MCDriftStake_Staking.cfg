SPECIFICATION FairSpec
CONSTANTS
    boss = boss
    alice = alice
    bob = bob
    none = none
    usdc = usdc
    Keys <- MCKeys
    Programs = {DRIFT}
    Mints = {usdc}
    DefaultKey = none
    INITIALIZER = boss
    NoRegistry = NoRegistry
    NoEntry = NoEntry
    DISPATCHER = DISPATCHER
    PROTOCOL = PROTOCOL
    Value = {0, 1, 2, 3, 4, 5, 6, 7, 8, 9, 10, 11, 12, 13, 14, 15}
    TooShort = TooShort
    Empty = Empty
    Addresses <- MCKeys
    OnChain <- MCOnChain
    ReserveSize = 0
    U64 = 16
    BASE = 4
    U64_BYTES = 2
    USIZE = 1000
    Users = {alice}
    Funds = 4
    Markets <- TwoMarkets
    Amounts = {0, 1, 2, 3, 6}
    DepositExtras <- MCDepositExtras
    WithdrawExtras <- MCWithdrawExtras
    DRIFT = DRIFT
    OWNER = boss
    MINT = usdc
    NoStake = NoStake
INVARIANTS
    EventsAccountForStake
PROPERTIES
    UnstakingEnds
