CONSTANTS
    Keys <- MCKeys
    Vals <- MCVals
    PrefixSpace <- MCPrefixSpace
    PrefixOf <- MCPrefixOf
    MaxPrefixCollisions <- MCMaxPrefixCollisions
    Absent = Absent
    NoFile = NoFile
    NoFlush = NoFlush
    JournalEras <- MCJournalEras
    MaxCommits <- MCMaxCommits
    IoErrors = TRUE
INIT Init
NEXT Next
PROPERTY EraDeletedOnlyWhenFlushWritten
\* an open that fails with CorruptedFlush leaves nothing to do
CHECK_DEADLOCK FALSE
