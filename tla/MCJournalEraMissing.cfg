CONSTANTS
    MaxEra <- MCMaxEra
    JournalEras <- MCJournalEras
INIT Init
NEXT Next
INVARIANT NoEraMissing
CHECK_DEADLOCK FALSE
