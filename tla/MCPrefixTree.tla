---------------------------- MODULE MCPrefixTree ----------------------------
EXTENDS PrefixTree

\* the smallest key_index_bits whose leaves start on a byte boundary
MCPrefixBits == 3

\* key_index_bits 1 and 2, which Options accepts (options.rs:98)
MCSmallPrefixBits == 2

=============================================================================
