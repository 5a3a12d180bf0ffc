SPECIFICATION AboutAnn
CONSTANTS
    ann = ann
    Names = {ann, bob}
    Creates = {a1, a2, s1}
    Seeds = {s1}
    Logins = {l1}
    Deactivations = {d1}
    Requests = {q1}
    Elsewhere = {ann}
    Foreign = Foreign
    NoSecret = NoSecret
    NoCreds = NoCreds
    CaMayFail = TRUE
    MayFail = TRUE
INVARIANTS
    IInv
    PartingsAreExplained
    LockoutIsExplained
    LateLoginsDenied
    LateRequestsDenied
PROPERTIES
    LockoutIsPermanent
    CredentialsStayWiped
    DeactivationTakesEffect
    ImplementsAccounts
CHECK_DEADLOCK FALSE
