SPECIFICATION Spec
CONSTANTS
    w1 = w1
    w2 = w2
    k1 = k1
    k2 = k2
    f1 = f1
    f2 = f2
    NotWasm = NotWasm
    Malformed = Malformed
    Torn = Torn
    NoRoot = NoRoot
    Wasms <- MCWasms
    Keys <- MCKeys
    Files <- MCFiles
    Foreign <- MCForeign
    MaxPacks = 1
    MaxEdits = 1
INVARIANT
    SignatureMatchesManifest
