CONSTANT PrefixBits <- MCPrefixBits
INIT Init
NEXT Next
INVARIANT TypeOK
INVARIANT HeapConsistent
INVARIANT IterationMatches
PROPERTY ReopenPreservesPrefixes
