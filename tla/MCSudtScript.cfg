CONSTANTS
    MaxAmount = 2
    Owner = Owner
    Self = Self
    Other = Other
    NoHash = NoHash
    Hashes <- MCHashes
    Txs <- MCRunTxs
SPECIFICATION Spec
INVARIANTS TypeOK LoopInvariant ExitsZeroIffAccepted ErrorNamesTheDefect
