\* A delete of a key absent from the file, after a delete in the same era.
CONSTANTS
    Keys <- MCKeys
    Vals <- MCVals
    FieldsOf <- MCFieldsOf
    PrefixOf <- MCPrefixOf
    PrefixBits <- MCPrefixBits
    Eras <- MCAllEras
    Absent = Absent
    NoBatch = NoBatch
SPECIFICATION Spec
INVARIANT NoPanic
CHECK_DEADLOCK FALSE
