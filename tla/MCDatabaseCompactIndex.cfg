\* flush_journal and compact with I/O errors, checked against the
\* collisions index that get and flush_journal look collided prefixes up in.
CONSTANTS
    Keys <- MCKeys
    Vals <- MCVals
    PrefixSpace <- MCPrefixSpace
    PrefixOf <- MCPrefixOf
    MaxPrefixCollisions <- MCMaxPrefixCollisions
    Absent = Absent
    NoFile = NoFile
    NoFlush = NoFlush
    JournalEras <- MCJournalEras
    MaxCommits <- MCMaxCommits
    IoErrors = TRUE
INIT Init
NEXT Next
INVARIANT CollidedIndexed
\* an open that fails with CorruptedFlush leaves nothing to do
CHECK_DEADLOCK FALSE
