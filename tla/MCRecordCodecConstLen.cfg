\* under ValuesLen::Constant, a value of another length than the constant
\* (Transaction::insert does not check it, transaction.rs:107)
CONSTANTS
    MaxKeyLen <- MCMaxKeyLen
    Expected <- MCExpected
    ByteVals <- MCByteVals
    MaxValueLen <- MCMaxValueLen
INIT InitUncheckedValueLen
NEXT Next
INVARIANT ReadBackWritten
\* the Bytes iterator stops once the value is exhausted
CHECK_DEADLOCK FALSE
