CONSTANT PrefixBits <- MCSmallPrefixBits
INIT Init
NEXT Next
INVARIANT NoPanic
CHECK_DEADLOCK FALSE
