\* Flushes of insert-only eras (inserts and overwrites) into a data file
\* that starts empty; four keys, two prefixes, values of one and two fields.
CONSTANTS
    Keys <- MCKeys
    Vals <- MCVals
    FieldsOf <- MCFieldsOf
    PrefixOf <- MCPrefixOf
    PrefixBits <- MCPrefixBits
    Eras <- MCInsertEras
    Absent = Absent
    NoBatch = NoBatch
SPECIFICATION FairSpec
INVARIANT TypeOK
INVARIANT WritePositionTracksShift
INVARIANT RecordsReachable
INVARIANT RecordsSorted
INVARIANT FieldsWellFormed
INVARIANT OccupiedBytesExact
INVARIANT IterationMatches
PROPERTY KVSpec
PROPERTY FlushTerminates
