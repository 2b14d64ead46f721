\* the Bytes iterator over a record value (FieldsView::eq)
CONSTANTS
    MaxKeyLen <- MCMaxKeyLen
    Expected <- MCExpected
    ByteVals <- MCByteVals
    MaxValueLen <- MCMaxValueLen
INIT Init
NEXT Next
INVARIANT BytesYieldValue
\* the Bytes iterator stops once the value is exhausted
CHECK_DEADLOCK FALSE
