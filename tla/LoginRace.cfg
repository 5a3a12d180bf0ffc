SPECIFICATION Spec
CONSTANTS
    ann = ann
    Names = {ann}
    Creates = {a1}
    Seeds = {}
    Logins = {l1}
    Deactivations = {d1}
    Requests = {}
    Elsewhere = {}
    Foreign = Foreign
    NoSecret = NoSecret
    NoCreds = NoCreds
    CaMayFail = FALSE
    MayFail = FALSE
INVARIANTS
    InactiveHasNoCredentials
CHECK_DEADLOCK FALSE
