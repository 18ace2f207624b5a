CONSTANTS
    alice = alice
    first = first
    second = second
    blank = blank
    short = short
    minter = minter
    BadKey = BadKey
    BadAddress = BadAddress
    NoIdl = NoIdl
    NoFile = NoFile
    Empty = Empty
    Torn = Torn
    NoType = NoType
    Nothing = Nothing
    Deployers = {first, second, blank, short}
    Jobs <- MCJobs
    Wallet <- MCWallet
    CodeSize = 1
    Fee = 1
    Base = 2
    AmountWidth = 4
    MaxAmount = 15
    MintAmount = 1
    Budget <- OneOfEach
SPECIFICATION Spec
INVARIANTS TypeOK RefusedOnlyForLostCell FrozenIsOfADeployment
           OrphanedByEvictions StrandedBySlips PaysForOwnCells
PROPERTY CommandsSucceed
CHECK_DEADLOCK FALSE
