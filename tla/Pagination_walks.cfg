CONSTANTS
    Row = {1, 2, 3, 4}
    Column = {"id", "name"}
    ValueOf <- Values
    Columns <- PublicFields
    Default <- NewestFirst
    OwnOrder <- ById
    Request <- SomeRequests
    PageSize = {1, 2, 3}
    Snapshot = FALSE
    MaxWrites = 3

SPECIFICATION Spec
INVARIANT NoRowMissed
INVARIANT NoRowTwice
INVARIANT RequestedOrder
