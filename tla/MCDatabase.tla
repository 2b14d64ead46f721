----------------------------- MODULE MCDatabase -----------------------------
EXTENDS Database, TLC

MCKeys == {1, 2, 3}
MCVals == {"v1", "v2"}
MCPrefixSpace == {0, 1}
MCPrefixOf == (1 :> 0) @@ (2 :> 0) @@ (3 :> 1)
MCMaxPrefixCollisions == 2
MCMaxCommits == 2
MCJournalEras == 0

=============================================================================
