---------------------------- MODULE MCFlushWriter ----------------------------
(* Instantiates FlushWriter for TLC: four keys over two prefixes          *)
(* (key_index_bits = 1, the smallest the options accept, so the data     *)
(* file has 2 << 2 = 8 fields), one value that fits a single field and   *)
(* one that spills into a Continued field (a variable-length value).     *)
EXTENDS FlushWriter

MCKeys == 0 .. 3
MCVals == {"v1", "v2"}
MCFieldsOf == [v \in MCVals |-> IF v = "v1" THEN 1 ELSE 2]
MCPrefixOf == [k \in MCKeys |-> k \div 2]
MCPrefixBits == 1

\* every era: any set of keys, each inserted or deleted
MCAllEras == UNION {[D -> MCVals \cup {Absent}] : D \in SUBSET MCKeys}

\* eras that only insert (or overwrite)
MCInsertEras == UNION {[D -> MCVals] : D \in SUBSET MCKeys}

\* eras with at most one delete, the others inserts
MCOneDeleteEras == {b \in MCAllEras : Cardinality({k \in DOMAIN b : b[k] = Absent}) <= 1}
=============================================================================
