\* Database::create dying or failing between its file operations
CONSTANTS
    Keys <- MCKeys
    Vals <- MCVals
    PrefixSpace <- MCPrefixSpace
    PrefixOf <- MCPrefixOf
    MaxPrefixCollisions <- MCMaxPrefixCollisions
    Absent = Absent
    NoFile = NoFile
    NoFlush = NoFlush
    JournalEras <- MCJournalEras
    MaxCommits <- MCMaxCommits
    IoErrors = FALSE
INIT Init
NEXT Next
INVARIANT CreateLeavesUsable
\* after a failed create neither create (AlreadyExists) nor open (the
\* missing or empty file) can proceed
CHECK_DEADLOCK FALSE
