CONSTANTS
    None = None
    Hello = Hello
    World = World
    hashNone = hashNone
    hashHello = hashHello
    hashWorld = hashWorld
    ZeroHash = ZeroHash
    ZeroSignature = ZeroSignature
    NoWitness = NoWitness
    NoHeader = NoHeader
    EmptyPayload = None
    Signatures = {ZeroSignature}
    Payloads <- MCPayloads
    Hashes <- MCHashes
    Blake2b <- MCBlake2b
    owner = owner
    other = other
    stale = stale
    late = late
    foreign = foreign
    mistyped = mistyped
    a = a
    b = b
    x = x
    Spenders = {late}
    Jobs <- MCJobs
    Wallet <- MCWallet
    Locked <- MCLocked
    Fee = 1
    MaxCrashes = 0
SPECIFICATION Spec
PROPERTY TimelockSpends
