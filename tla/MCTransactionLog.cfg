\* Transactions built, committed, replaced and drained, checked against
\* the journal of batches they implement and the journal's own readings.
CONSTANTS
    KeyLen <- MCKeyLen
    ByteVals <- MCByteVals
    Vals <- MCVals
    MaxOps <- MCMaxOps
    MaxEras <- MCMaxEras
SPECIFICATION Spec
INVARIANT JournalViewsAgree
PROPERTY RefinesEraBatches
