SPECIFICATION Spec
CONSTANTS
    a = a
    b = b
    c = c
    v = v
    w = w
    None = None
    Column = Column
    FirstName = FirstName
    LastName = LastName
    Names = {a, b, c, Column, FirstName, LastName}
    SearchFields = {a, FirstName, LastName}
    Empty = Empty
    Parts = {"lte", "in", v, w, Empty}
    Absent = Absent
    Object = Object
    Bad = Bad
    NaN = NaN
    n0 = n0
    Numbers = {n0, NaN}
    Queries <- MCQueries
INVARIANTS
    IInv
    AskedColumnsAreKept
    RelationsInAnyOrder
    OrderIsAsAsked
    FiltersHold
CHECK_DEADLOCK FALSE
