\* Inserts and deletes of one collision file where a file operation may
\* fail, checked against what the file holds for the next open.
CONSTANTS
    Keys <- MCKeys
    Vals <- MCVals
    MaxLog <- MCMaxLog
    Tombstone = Tombstone
INIT Init
NEXT NextFaulty
INVARIANT LogHoldsApplied
CHECK_DEADLOCK FALSE
