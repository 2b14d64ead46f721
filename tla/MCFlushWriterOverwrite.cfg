\* Eras with at most one delete: a delete followed by an insert or overwrite.
CONSTANTS
    Keys <- MCKeys
    Vals <- MCVals
    FieldsOf <- MCFieldsOf
    PrefixOf <- MCPrefixOf
    PrefixBits <- MCPrefixBits
    Eras <- MCOneDeleteEras
    Absent = Absent
    NoBatch = NoBatch
SPECIFICATION Spec
INVARIANT RecordsAtOrAfterSlot
CHECK_DEADLOCK FALSE
