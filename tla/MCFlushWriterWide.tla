-------------------------- MODULE MCFlushWriterWide --------------------------
(* Instantiates FlushWriter for TLC with key_index_bits = 2: four slots   *)
(* and a data file of 2 << 3 = 16 fields, so that a record's cluster can  *)
(* be separated from the next one by an empty field.  Key k has prefix k. *)
EXTENDS FlushWriter

MCKeys == 0 .. 3
MCVals == {"v1", "v2"}
MCPrefixOf == [k \in MCKeys |-> k]
MCPrefixBits == 2

\* values of one and of two fields (variable-length values)
MCFieldsOf == [v \in MCVals |-> IF v = "v1" THEN 1 ELSE 2]

\* values of constant length, one field each
MCConstFieldsOf == [v \in MCVals |-> 1]

\* eras that only insert (or overwrite) keys 0 and 3
MCInsertEras == UNION {[D -> MCVals] : D \in SUBSET {0, 3}}

\* eras over keys 0 and 2, each inserted or deleted
MCEras02 == UNION {[D -> MCVals \cup {Absent}] : D \in SUBSET {0, 2}}
=============================================================================
