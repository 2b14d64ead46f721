-------------------------- MODULE MCFlushWriterAll --------------------------
(* Instantiates FlushWriter for TLC with eras that insert and delete:     *)
(* three keys, two in prefix 0 and one in prefix 1 (key_index_bits = 1, *)
(* 8 fields), two values of constant length (one field each).            *)
EXTENDS FlushWriter

MCKeys == 0 .. 2
MCVals == {"v1", "v2"}
MCFieldsOf == [v \in MCVals |-> 1]
MCPrefixOf == [k \in MCKeys |-> k \div 2]
MCPrefixBits == 1

\* every era: any set of keys, each inserted or deleted
MCAllEras == UNION {[D -> MCVals \cup {Absent}] : D \in SUBSET MCKeys}

\* occupied_bytes drifts from the file once a flush corrupts it; the state
\* space is cut where the counter leaves 0 .. MaxOccupied
MaxOccupied == NFields
OccupiedBound == wmeta.occupied \in 0 .. MaxOccupied
=============================================================================
