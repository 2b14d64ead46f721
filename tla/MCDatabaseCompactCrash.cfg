CONSTANTS
    Keys <- MCKeys
    Vals <- MCVals
    PrefixSpace <- MCPrefixSpace
    PrefixOf <- MCPrefixOf
    MaxPrefixCollisions <- MCMaxPrefixCollisions
    Absent = Absent
    NoFile = NoFile
    NoFlush = NoFlush
    JournalEras <- MCJournalEras
    MaxCommits <- MCMaxCommits
    IoErrors = FALSE
INIT Init
NEXT Next
INVARIANT CollidedIffFile
CHECK_DEADLOCK FALSE
