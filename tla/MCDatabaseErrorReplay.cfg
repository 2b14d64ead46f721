CONSTANTS
    Keys <- MCKeys
    Vals <- MCVals
    PrefixSpace <- MCPrefixSpace
    PrefixOf <- MCPrefixOf
    MaxPrefixCollisions <- MCMaxPrefixCollisions
    Absent = Absent
    NoFile = NoFile
    NoFlush = NoFlush
    JournalEras <- MCJournalEras
    MaxCommits <- MCMaxCommits
    IoErrors = TRUE
INIT Init
NEXT Next
INVARIANT DurableStateRecovers
CHECK_DEADLOCK FALSE
