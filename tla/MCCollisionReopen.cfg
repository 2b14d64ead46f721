\* The first insert after a reopen, checked against what get returns.
CONSTANTS
    Keys <- MCKeys
    Vals <- MCVals
    MaxLog <- MCMaxLog
    Tombstone = Tombstone
INIT Init
NEXT Next
INVARIANT GetReturnsApplied
CHECK_DEADLOCK FALSE
