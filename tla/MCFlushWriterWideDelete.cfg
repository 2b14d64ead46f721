\* Eras that delete two records separated by an empty field.
CONSTANTS
    Keys <- MCKeys
    Vals <- MCVals
    FieldsOf <- MCConstFieldsOf
    PrefixOf <- MCPrefixOf
    PrefixBits <- MCPrefixBits
    Eras <- MCEras02
    Absent = Absent
    NoBatch = NoBatch
SPECIFICATION Spec
PROPERTY DeletedKeysAbsent
CHECK_DEADLOCK FALSE
