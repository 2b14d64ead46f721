------------------------------ MODULE KVStore ------------------------------
(***************************************************************************)
(* What a flush of the data file promises (spec 4.5, 4.8): a batch of     *)
(* operations, at most one per key, is requested and later completed;    *)
(* completing it sets every inserted key to its value and makes every     *)
(* deleted key absent, and leaves every other key alone.                  *)
(***************************************************************************)
CONSTANTS Keys, Vals, Absent, NoBatch

VARIABLES store, request

\* a batch: Insert(v) is the value v, Delete is Absent
Batches == UNION {[D -> Vals \cup {Absent}] : D \in SUBSET Keys}

ApplyBatch(s, b) == [k \in Keys |-> IF k \in DOMAIN b THEN b[k] ELSE s[k]]

Init ==
    /\ store = [k \in Keys |-> Absent]
    /\ request = NoBatch

Request(b) ==
    /\ request = NoBatch
    /\ request' = b
    /\ UNCHANGED store

Complete ==
    /\ request # NoBatch
    /\ store' = ApplyBatch(store, request)
    /\ request' = NoBatch

Next == (\E b \in Batches : Request(b)) \/ Complete

Spec == Init /\ [][Next]_<<store, request>>

=============================================================================
