\* Inserts, deletes and reopens of one collision file at byte level, with
\* writes that stop part of the way, checked against what build_index
\* can read back.
CONSTANTS
    Keys <- MCKeys
    Vals <- MCVals
    MaxLog <- MCMaxLog
    Tombstone = Tombstone
INIT Init
NEXT NextPartial
INVARIANT LogReadable
CHECK_DEADLOCK FALSE
