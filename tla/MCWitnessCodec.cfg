CONSTANTS
    Base = 2
    SignatureSize = 2
    TimeSize = 2
    PrefixSize = 2
    Scripts <- MCScripts
    Payloads <- MCPayloads
    Times = {0, 1, 2, 3}
    Signature <- MCSignature
SPECIFICATION Spec
INVARIANTS TypeOK DecodedIsGiven RefusedOnlyIfTooLong
