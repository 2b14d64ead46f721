\* Eras with at most one delete: the flushed file against the abstract store.
CONSTANTS
    Keys <- MCKeys
    Vals <- MCVals
    FieldsOf <- MCFieldsOf
    PrefixOf <- MCPrefixOf
    PrefixBits <- MCPrefixBits
    Eras <- MCOneDeleteEras
    Absent = Absent
    NoBatch = NoBatch
SPECIFICATION Spec
PROPERTY KVSpec
CHECK_DEADLOCK FALSE
