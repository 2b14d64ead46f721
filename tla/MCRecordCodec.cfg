\* append_record followed by Record::new reads back key and value
CONSTANTS
    MaxKeyLen <- MCMaxKeyLen
    Expected <- MCExpected
    ByteVals <- MCByteVals
    MaxValueLen <- MCMaxValueLen
INIT Init
NEXT Next
INVARIANT ReadBackWritten
\* the Bytes iterator stops once the value is exhausted
CHECK_DEADLOCK FALSE
