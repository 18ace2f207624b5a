CONSTANTS
    MaxAmount = 2
    s1 = s1
    s2 = s2
    s3 = s3
    Coin = Coin
    Share = Share
    Orphan = Orphan
    TypeId = TypeId
    LockHash = LockHash
    NoType = NoType
    Free = Free
    Slots <- MCSlots
    Tokens <- MCTokens
    OtherTypes = {TypeId}
    Owner <- MCOwner
    Data <- MCData
SPECIFICATION Spec
SYMMETRY Symmetry
INVARIANT OwnerlessIsWorthless
PROPERTIES NoInflation UndecodableNeedsOwner
CHECK_DEADLOCK FALSE
