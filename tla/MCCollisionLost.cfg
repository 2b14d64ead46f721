\* Inserts, deletes and reopens of one collision file, checked against
\* what the file holds for the next open.
CONSTANTS
    Keys <- MCKeys
    Vals <- MCVals
    MaxLog <- MCMaxLog
    Tombstone = Tombstone
INIT Init
NEXT Next
INVARIANT LogHoldsApplied
CHECK_DEADLOCK FALSE
