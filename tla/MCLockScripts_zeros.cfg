CONSTANTS
    None = None
    Hello = Hello
    World = World
    hashNone = hashNone
    hashHello = hashHello
    hashWorld = hashWorld
    ZeroHash = ZeroHash
    Sig = Sig
    ZeroSignature = ZeroSignature
    NoWitness = NoWitness
    NoHeader = NoHeader
    EmptyPayload = None
    Signatures = {Sig, ZeroSignature}
    Payloads <- MCPayloads
    Hashes <- MCHashes
    Blake2b <- MCBlake2b
    Views <- MCViews
SPECIFICATION Spec
INVARIANT ZerosSkipTheCheck
