SPECIFICATION Spec
CONSTANTS
    boss = boss
    alice = alice
    bob = bob
    none = none
    usdc = usdc
    Keys <- MCKeys
    Programs = {MAPLE}
    Mints = {usdc}
    DefaultKey = none
    INITIALIZER = boss
    NoRegistry = NoRegistry
    NoEntry = NoEntry
    DISPATCHER = DISPATCHER
    PROTOCOL = PROTOCOL
    Value = {0, 1, 2, 3}
    TooShort = TooShort
    Empty = Empty
    Addresses = {boss, alice, bob, none, FILLER}
    OnChain <- MCOnChain
    ReserveSize = 0
    U64 = 4
    Users = {alice, bob}
    Funds = 2
    Messages <- MCMessages
    Amounts = {0, 3}
    MAPLE = MAPLE
    OWNER = boss
    MINT = usdc
    FILLER = FILLER
    MaxInFlight = 2
    NoRequest = NoRequest
INVARIANTS
    TypeOK
    TokensNeverMove
