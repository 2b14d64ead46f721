\* Insert-only eras with a shrinking overwrite before an empty field.
CONSTANTS
    Keys <- MCKeys
    Vals <- MCVals
    FieldsOf <- MCFieldsOf
    PrefixOf <- MCPrefixOf
    PrefixBits <- MCPrefixBits
    Eras <- MCInsertEras
    Absent = Absent
    NoBatch = NoBatch
SPECIFICATION Spec
INVARIANT RecordsAtOrAfterSlot
CHECK_DEADLOCK FALSE
