CONSTANTS
    alice = alice
    first = first
    second = second
    blank = blank
    short = short
    minter = minter
    BadKey = BadKey
    BadAddress = BadAddress
    NoIdl = NoIdl
    NoFile = NoFile
    Empty = Empty
    Torn = Torn
    NoType = NoType
    Nothing = Nothing
    Deployers = {minter}
    Jobs <- MCJobs
    Wallet <- SmallWallet
    CodeSize = 1
    Fee = 1
    Base = 2
    AmountWidth = 4
    MaxAmount = 15
    MintAmount = 1
    Budget <- NoFaults
SPECIFICATION Spec
PROPERTY MintSucceeds
CHECK_DEADLOCK FALSE
