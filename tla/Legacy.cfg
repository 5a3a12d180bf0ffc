SPECIFICATION Spec
CONSTANTS
    s1 = s1
    s2 = s2
    Names = {ann}
    Registrations = {r1, r2}
    Secrets = {s1, s2}
    Elsewhere = {ann}
    Foreign = Foreign
    NoSecret = NoSecret
    NoOne = NoOne
    MayFail = TRUE
    Assets = {x}
    Absent = Absent
    Edits = {e1, e2}
    Transfers = {t1}
SYMMETRY CallSymmetry
INVARIANTS
    HandledByReadyProcess
    KeyMatchesCert
    OneCreatorIsTold
    ReadsFindWhatWasAnswered
    IInv
PROPERTIES
    StrandedNamesStay
    ImplementsAssets
CHECK_DEADLOCK FALSE
