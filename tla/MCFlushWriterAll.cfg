\* Flushes of eras that insert and delete, constant-length values (every
\* record one field, as with the default ValuesLen::Constant).  A writer
\* panic or error stops the process, so those states have no successor.
CONSTANTS
    Keys <- MCKeys
    Vals <- MCVals
    FieldsOf <- MCFieldsOf
    PrefixOf <- MCPrefixOf
    PrefixBits <- MCPrefixBits
    Eras <- MCAllEras
    Absent = Absent
    NoBatch = NoBatch
SPECIFICATION Spec
CONSTRAINT OccupiedBound
INVARIANT WritePositionTracksShift
CHECK_DEADLOCK FALSE
