SPECIFICATION Spec
CONSTANTS
    ann = ann
    Names = {ann}
    Creates = {a1, a2}
    Seeds = {}
    Logins = {l1}
    Deactivations = {d1}
    Requests = {}
    Elsewhere = {}
    Foreign = Foreign
    NoSecret = NoSecret
    NoCreds = NoCreds
    CaMayFail = FALSE
    MayFail = FALSE
INVARIANTS
    StoredSecretIsRegistered
CHECK_DEADLOCK FALSE
