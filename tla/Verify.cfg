SPECIFICATION VSpec
CONSTANTS
    c1 = c1
    c2 = c2
    kA1 = kA1
    kA3 = kA3
    hA1 = hA1
    hA3 = hA3
    Ids = {c1, c2}
    Revokes = {r1}
    Queries = {q1}
    Content = {kA1, kA3}
    NoContent = NoContent
    Keys = {"keyA"}
    Digests = {hA1, hA3}
    NoDigest = NoDigest
    Supplied = {}
    Blank = Blank
    NoToken = NoToken
    NoId = NoId
    MayFail = TRUE
    MayTamper = TRUE
    KeyOf <- MCKeyOf
    YearOf <- MCYearOf
    Hash <- MCHash
    Earlier <- MCEarlier
SYMMETRY Symmetry
INVARIANTS
    VIInv
    AuthenticIsWhatWasIssued
    NoAuthenticAfterRevocation
    GenuineIsRecognised
    AnswersAreGrounded
CHECK_DEADLOCK FALSE
