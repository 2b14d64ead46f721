\* Inserts, deletes and reopens of one collision file at byte level, with
\* a failing rebuild_index and a tombstone write that fails; the bound on
\* the entries leaves states where only a reopen is possible.
CONSTANTS
    Keys <- MCKeys
    Vals <- MCVals
    MaxLog <- MCMaxLog
    Tombstone = Tombstone
SPECIFICATION Spec
INVARIANT LogReadable
INVARIANT IndexReadsLive
PROPERTY RefinesCollision
CHECK_DEADLOCK FALSE
