----------------------------- MODULE PrefixTree -----------------------------
(***************************************************************************)
(* prefix_tree.rs PrefixTree: a complete binary tree of occupancy bits in *)
(* a BitVec.  Node 1 is the root, node i has children 2i and 2i+1, and    *)
(* the leaf of prefix p is node p + 2^prefix_bits; node 0 is unused.      *)
(* Operations: insert, remove, the occupied-prefixes iterator, and the    *)
(* round trip through the metadata bytes (metadata.rs copy_to_slice, then *)
(* read, which rebuilds the tree with from_leaves), as on Database::open.  *)
(***************************************************************************)
EXTENDS Integers, Sequences, FiniteSets, FiniteSetsExt

CONSTANT PrefixBits      \* options.key_index_bits

VARIABLES tree, status
vars == <<tree, status>>

First == 2^PrefixBits                    \* leaf_index(0, prefix_bits)
Size == 2 * First                        \* new: 2 << prefix_bits bits
Nodes == 0 .. Size - 1
PrefixRange == 0 .. First - 1
None == -1

LeafIndex(p) == p + First

\* a tree one bit short
NewShort == [i \in 0 .. Size - 2 |-> FALSE]

New == [i \in Nodes |-> FALSE]

Occupied(t) == {p \in PrefixRange : t[LeafIndex(p)]}

TypeOK ==
    /\ tree \in [Nodes -> BOOLEAN]
    /\ status \in {"ok", "panic"}

-----------------------------------------------------------------------------
(* insert: set the leaf and every ancestor up to the root                 *)

RECURSIVE SetAncestors(_, _)
SetAncestors(t, idx) ==
    IF idx > 1 THEN SetAncestors([t EXCEPT ![idx \div 2] = TRUE], idx \div 2)
    ELSE t

InsertBits(t, p) == SetAncestors([t EXCEPT ![LeafIndex(p)] = TRUE], LeafIndex(p))

(* remove: clear the leaf, then clear ancestors while the sibling is clear *)

Sibling(idx) == IF idx % 2 = 0 THEN idx + 1 ELSE idx - 1

RECURSIVE ClearUp(_, _)
ClearUp(t, idx) ==
    IF idx <= 1 \/ t[Sibling(idx)] THEN t
    ELSE ClearUp([t EXCEPT ![idx \div 2] = FALSE], idx \div 2)

\* a remove that clears the leaf only
RemoveBitsLeafOnly(t, p) == [t EXCEPT ![LeafIndex(p)] = FALSE]

RemoveBits(t, p) == ClearUp([t EXCEPT ![LeafIndex(p)] = FALSE], LeafIndex(p))

-----------------------------------------------------------------------------
(* Bytes.  BitVec<u8> stores bit j in byte j \div 8 at position j % 8 and *)
(* keeps the bits past its length zero.  leaves() is the storage from     *)
(* byte leaf_index(0) / 8 on; from_leaves inserts prefix 8*idx + i for     *)
(* every set bit i of byte idx, and BitVec::set panics on a leaf index    *)
(* at or past the tree's length.                                           *)

StorageBit(t, j) == j < Size /\ t[j]

LeafDataLen == (First + 7) \div 8

\* leaves taken from the start of the storage
LeavesWholeStorage(t) == [i \in 0 .. 8 * LeafDataLen - 1 |-> StorageBit(t, i)]

Leaves(t) == [i \in 0 .. 8 * LeafDataLen - 1 |-> StorageBit(t, 8 * (First \div 8) + i)]

SetBits(data) == {i \in DOMAIN data : data[i]}

FromLeavesPanics(data) == \E i \in SetBits(data) : LeafIndex(i) >= Size

\* from_leaves whose bit loop starts at 1
FromLeavesSkipFirst(data) == FoldSet(LAMBDA i, t : InsertBits(t, i), New, SetBits(data) \ {0})

FromLeaves(data) == FoldSet(LAMBDA i, t : InsertBits(t, i), New, SetBits(data))

-----------------------------------------------------------------------------
(* OccupiedPrefixesIterator::next_idx.  Walk is the loop with go_back     *)
(* false, GoBack its "go back" tail; None ends the iteration.             *)

RECURSIVE Climb(_)
Climb(idx) == IF idx % 2 = 1 THEN Climb(idx \div 2) ELSE idx

RECURSIVE Walk(_, _), GoBack(_, _)

\* next_idx returning a clear even leaf instead of its sibling
WalkSiblingOff(t, idx) ==
    IF idx >= First
    THEN IF t[idx] \/ idx % 2 = 0 THEN idx ELSE GoBack(t, idx)
    ELSE IF t[idx] THEN Walk(t, 2 * idx)
    ELSE IF idx % 2 = 0 THEN Walk(t, idx + 1)
    ELSE GoBack(t, idx)

Walk(t, idx) ==
    IF idx >= First
    THEN IF t[idx] THEN idx
         ELSE IF idx % 2 = 0 THEN idx + 1
         ELSE GoBack(t, idx)
    ELSE IF t[idx] THEN Walk(t, 2 * idx)
    ELSE IF idx % 2 = 0 THEN Walk(t, idx + 1)
    ELSE GoBack(t, idx)
GoBack(t, idx) ==
    LET j == Climb(idx) + 1 IN IF j = 1 THEN None ELSE Walk(t, j)

NextIdx(t, idx) == IF idx % 2 = 1 THEN GoBack(t, idx) ELSE Walk(t, idx + 1)

RECURSIVE IterSeq(_, _)
IterSeq(t, idx) ==
    LET n == NextIdx(t, idx)
    IN IF n = None THEN <<>> ELSE <<n - First>> \o IterSeq(t, n)

PrefixesIter(t) == IterSeq(t, 0)

-----------------------------------------------------------------------------
Init ==
    /\ tree = New
    /\ status = "ok"

\* Metadata::insert_record
Insert(p) ==
    /\ status = "ok"
    /\ tree' = InsertBits(tree, p)
    /\ UNCHANGED status

\* Metadata::add_prefix_collision
Remove(p) ==
    /\ status = "ok"
    /\ tree' = RemoveBits(tree, p)
    /\ UNCHANGED status

\* bytes::Metadata::copy_to_slice, then bytes::read on reopening
Reopen ==
    /\ status = "ok"
    /\ IF FromLeavesPanics(Leaves(tree))
       THEN status' = "panic" /\ UNCHANGED tree
       ELSE tree' = FromLeaves(Leaves(tree)) /\ UNCHANGED status

Next == Reopen \/ \E p \in PrefixRange : Insert(p) \/ Remove(p)

Spec == Init /\ [][Next]_vars

-----------------------------------------------------------------------------
(* Properties                                                              *)

\* the reference order: a set of prefixes as an increasing sequence
RECURSIVE Ascending(_)
Ascending(S) == IF S = {} THEN <<>> ELSE <<Min(S)>> \o Ascending(S \ {Min(S)})

\* Every inner node is set exactly when one of its children is: insert
\* sets the whole path to the root, and remove clears a parent only while
\* the sibling is clear.  has() and the iterator read the leaves through
\* these inner bits.
HeapConsistent ==
    \A i \in 1 .. First - 1 : tree[i] = (tree[2 * i] \/ tree[2 * i + 1])

\* prefixes_iter yields exactly the occupied prefixes in increasing order:
\* RecordIterator visits the data file's clusters in that order.
IterationMatches == PrefixesIter(tree) = Ascending(Occupied(tree))

\* Persisting the metadata and reading it back on open (copy_to_slice,
\* read, from_leaves) succeeds and yields the same occupied prefixes.
ReopenPreservesPrefixes ==
    [][Reopen => status' = "ok" /\ Occupied(tree') = Occupied(tree)]_vars

\* Reading the persisted metadata back (bytes::read, from_leaves) never
\* panics.
NoPanic == status = "ok"

=============================================================================
