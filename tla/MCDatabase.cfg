CONSTANTS
    Keys <- MCKeys
    Vals <- MCVals
    PrefixSpace <- MCPrefixSpace
    PrefixOf <- MCPrefixOf
    MaxPrefixCollisions <- MCMaxPrefixCollisions
    Absent = Absent
    NoFile = NoFile
    NoFlush = NoFlush
    JournalEras <- MCJournalEras
    MaxCommits <- MCMaxCommits
    IoErrors = FALSE
INIT Init
NEXT Next
INVARIANT DurableStateRecovers
INVARIANT ViewMatchesCommitted
INVARIANT CollidedHaveFiles
INVARIANT NoKeyInBoth
INVARIANT IterMatchesCommitted
INVARIANT CollidedIndexed
\* an open that fails with CorruptedFlush leaves nothing to do
CHECK_DEADLOCK FALSE
