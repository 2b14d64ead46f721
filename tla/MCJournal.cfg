CONSTANTS
    MaxEra <- MCMaxEra
    JournalEras <- MCJournalEras
INIT Init
NEXT Next
INVARIANT TypeOK
INVARIANT MemNewestOnDisk
INVARIANT EraNamesFresh
\* an open that fails leaves the process with nothing to do
CHECK_DEADLOCK FALSE
