SPECIFICATION Spec
CONSTANTS
    c1 = c1
    c2 = c2
    c3 = c3
    c4 = c4
    kA1 = kA1
    kA2 = kA2
    kB = kB
    Ids = {c1, c2, c3}
    Revokes = {r1}
    Content = {kA1, kB}
    NoContent = NoContent
    Keys = {"keyA", "keyB"}
    Digests = {"hA1", "hA2", "hB"}
    NoDigest = NoDigest
    Supplied = {own}
    Blank = Blank
    NoToken = NoToken
    MayFail = TRUE
    KeyOf <- MCKeyOf
    Hash <- MCHash
    Earlier <- OneBulk
INVARIANTS
    FailedIsNotAnchored
CHECK_DEADLOCK FALSE
