SPECIFICATION Spec
CONSTANTS
    s1 = s1
    s2 = s2
    Names = {ann}
    Registrations = {r1}
    Secrets = {s1}
    Elsewhere = {}
    Foreign = Foreign
    NoSecret = NoSecret
    NoOne = NoOne
    MayFail = FALSE
    Assets = {x}
    Absent = Absent
    Edits = {e1}
    Transfers = {t1, t2}
INVARIANTS
    ReportedTransferIsKept
CHECK_DEADLOCK FALSE
