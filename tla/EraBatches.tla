----------------------------- MODULE EraBatches -----------------------------
(***************************************************************************)
(* What a transaction and the journal promise, without their encoding.     *)
(* A batch is a partial function from keys to entries: {v} for an insert  *)
(* of v, {} for a delete; a key outside its domain was not touched.  A    *)
(* later operation on a key replaces an earlier one of the same batch.    *)
(* The journal is the sequence of committed batches, oldest first; a     *)
(* flush takes batches from its front.  A read of the journal answers     *)
(* with the newest batch that touches the key.                            *)
(***************************************************************************)
EXTENDS Integers, Sequences

CONSTANTS Keys, Vals

VARIABLES
    batch,      \* the transaction being built
    journal     \* the committed batches still in memory

vars == <<batch, journal>>

EmptyBatch == [k \in {} |-> {}]

\* the batch with k's entry set to e
Stage(b, k, e) == [x \in DOMAIN b \cup {k} |-> IF x = k THEN e ELSE b[x]]

\* {} when no batch of j touches k, else {the newest batch's entry}
NewestEntry(j, k) ==
    LET touching == {i \in DOMAIN j : k \in DOMAIN j[i]}
    IN IF touching = {} THEN {}
       ELSE {j[CHOOSE i \in touching : \A m \in touching : m <= i][k]}

Init ==
    /\ batch = EmptyBatch
    /\ journal = <<>>

Insert(k, v) ==
    /\ batch' = Stage(batch, k, {v})
    /\ UNCHANGED journal

Delete(k) ==
    /\ batch' = Stage(batch, k, {})
    /\ UNCHANGED journal

\* a fresh transaction replaces the one being built
NewTransaction ==
    /\ batch' = EmptyBatch
    /\ UNCHANGED journal

\* the batch is committed and stays usable
Commit ==
    /\ journal' = Append(journal, batch)
    /\ UNCHANGED batch

\* the n oldest batches leave the journal
Drain(n) ==
    /\ n \in 1 .. Len(journal)
    /\ journal' = SubSeq(journal, n + 1, Len(journal))
    /\ UNCHANGED batch

Next ==
    \/ \E k \in Keys, v \in Vals : Insert(k, v)
    \/ \E k \in Keys : Delete(k)
    \/ NewTransaction
    \/ Commit
    \/ \E n \in 1 .. Len(journal) : Drain(n)

Spec == Init /\ [][Next]_vars

====
