SPECIFICATION RSpec
CONSTANTS
    boss = boss
    user = user
    other = other
    none = none
    usdc = usdc
    s1 = s1
    position = position
    token = token
    reserve = reserve
    short = short
    filler = filler
    KAMINO = KAMINO
    MARGINFI = MARGINFI
    JUPITER = JUPITER
    MAPLE = MAPLE
    DRIFT = DRIFT
    MOCK = MOCK
    MOCK_CURRENT_VALUE = 5
    Keys <- MCKeys
    Programs = {KAMINO, MARGINFI, JUPITER, MAPLE, DRIFT, MOCK}
    Mints = {usdc}
    DefaultKey = none
    INITIALIZER = boss
    NoRegistry = NoRegistry
    NoEntry = NoEntry
    DISPATCHER = DISPATCHER
    PROTOCOL = PROTOCOL
    RegistryPda = RegistryPda
    Idle = Idle
    Unknown = Unknown
    Value = {0, 1, 2, 3, 4, 5, 6, 7}
    TooShort = TooShort
    Empty = Empty
    Slots = {s1}
    Transactions <- CallTransactions
    Addresses <- MCAddresses
    OnChain <- MCOnChain
    ReserveSize = 500
    U64 = 8
    Payloads <- AllPayloads
    NoTurn = NoTurn
CONSTRAINT OneCallTransaction
INVARIANTS
    InputsAreValidated
