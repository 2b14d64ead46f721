---------------------------- MODULE TransactionLog ----------------------------
(***************************************************************************)
(* The bytes of a transaction and the journal's views of them.            *)
(*   transaction.rs  Transaction::insert/delete append Operation::         *)
(*                   write_to_buf to the operation bytes; Operations-      *)
(*                   Iterator reads them back with read_from_buf.         *)
(*   journal.rs      Journal::push writes the bytes as an era file and    *)
(*                   re-opens it: cache_memory collects the operations    *)
(*                   into a HashMap; JournalEra::operations puts them in  *)
(*                   a BTreeSet ordered by key (what flush_journal        *)
(*                   applies); Journal::get asks the eras' caches newest  *)
(*                   first; Journal::iter appends the eras' sets oldest   *)
(*                   first.  drain_front hands eras to the flush.         *)
(* A byte is a natural number, a key or value a sequence of bytes.  An     *)
(* operation read back is [key, val]: val is {v} for an insert of v and  *)
(* {} for a delete.  The era's checksum is Journal's business.           *)
(***************************************************************************)
EXTENDS Integers, Sequences, SequencesExt

CONSTANTS
    KeyLen,     \* options.key_len
    ByteVals,   \* the bytes keys are made of
    Vals,       \* the values inserted: byte sequences of several lengths
    MaxOps,     \* bound on the operations of one transaction
    MaxEras     \* bound on the eras in memory

VARIABLES
    ops,        \* Transaction::operations: the encoded operations
    eras        \* Journal::eras: JournalEra's mmap, the file's bytes after
                \* the checksum, and the cache JournalEra::open built

vars == <<ops, eras>>

Keys == [1 .. KeyLen -> ByteVals]

InsertTag == 0                          \* Operation::INSERT
DeleteTag == 1                          \* Operation::DELETE

LittleEndian32(n) == [i \in 1 .. 4 |-> (n \div 2^(8 * (i - 1))) % 256]
ReadU32(s) == LET RECURSIVE Acc(_) Acc(i) == IF i = 0 THEN 0 ELSE Acc(i - 1) + s[i] * 2^(8 * (i - 1))
              IN Acc(4)

-----------------------------------------------------------------------------
(* transaction.rs                                                          *)

\* write_to_buf: type, key length, value length, key, value
WriteInsert(k, v) == <<InsertTag>> \o LittleEndian32(Len(k)) \o LittleEndian32(Len(v)) \o k \o v
\* write_to_buf: type, key length, key
WriteDelete(k) == <<DeleteTag>> \o LittleEndian32(Len(k)) \o k

\* read_from_buf with the value slice starting one byte early
ReadFromBufValueAtKeyEnd(buf) ==
    CASE buf[1] = InsertTag ->
            LET keyEnd == 9 + ReadU32(SubSeq(buf, 2, 5))
                valueEnd == keyEnd + ReadU32(SubSeq(buf, 6, 9))
            IN [op |-> [key |-> SubSeq(buf, 10, keyEnd),
                        val |-> {SubSeq(buf, keyEnd, valueEnd - 1)}],
                used |-> valueEnd]
      [] buf[1] = DeleteTag ->
            LET keyEnd == 5 + ReadU32(SubSeq(buf, 2, 5))
            IN [op |-> [key |-> SubSeq(buf, 6, keyEnd), val |-> {}],
                used |-> keyEnd]

\* read_from_buf on a non-empty buffer: the operation and the bytes it
\* took; a type byte other than the two is None, on which the iterator's
\* expect panics (no case applies)
ReadFromBuf(buf) ==
    CASE buf[1] = InsertTag ->
            LET keyEnd == 9 + ReadU32(SubSeq(buf, 2, 5))
                valueEnd == keyEnd + ReadU32(SubSeq(buf, 6, 9))
            IN [op |-> [key |-> SubSeq(buf, 10, keyEnd),
                        val |-> {SubSeq(buf, keyEnd + 1, valueEnd)}],
                used |-> valueEnd]
      [] buf[1] = DeleteTag ->
            LET keyEnd == 5 + ReadU32(SubSeq(buf, 2, 5))
            IN [op |-> [key |-> SubSeq(buf, 6, keyEnd), val |-> {}],
                used |-> keyEnd]

\* OperationsIterator: read operations until the bytes are used up
RECURSIVE Decode(_)
Decode(buf) ==
    IF buf = <<>> THEN <<>>
    ELSE LET r == ReadFromBuf(buf)
         IN <<r.op>> \o Decode(SubSeq(buf, r.used + 1, Len(buf)))

-----------------------------------------------------------------------------
(* journal.rs                                                              *)

\* a left fold over a sequence, as the code's for loops and collect() run:
\* f[i] is the result after the first i elements
FoldOps(Op(_, _), base, s) ==
    LET f[i \in 0 .. Len(s)] == IF i = 0 THEN base ELSE Op(f[i - 1], s[i])
    IN f[Len(s)]

\* HashMap::insert: the key's entry becomes e
HashMapInsert(m, k, e) == [x \in DOMAIN m \cup {k} |-> IF x = k THEN e ELSE m[x]]

\* a cache that keeps a key's first operation
CacheFirstWins(ds) ==
    FoldOps(LAMBDA m, o : IF o.key \in DOMAIN m THEN m ELSE HashMapInsert(m, o.key, o.val),
             [x \in {} |-> {}], ds)

\* cache_memory: collect() inserts the operations in order
CacheOf(ds) == FoldOps(LAMBDA m, o : HashMapInsert(m, o.key, o.val), [x \in {} |-> {}], ds)

Cache(i) == eras[i].cache

\* operations built with BTreeSet::insert, which keeps the element present
EraOpsFirstWins(ds) ==
    FoldOps(LAMBDA s, o : IF \E x \in s : x.key = o.key THEN s ELSE s \cup {o}, {}, ds)

\* JournalEra::operations: BTreeSet::replace of each operation; Operation
\* is ordered by key alone, so an operation replaces the one of its key
EraOps(ds) == FoldOps(LAMBDA s, o : {x \in s : x.key # o.key} \cup {o}, {}, ds)

\* BTreeSet::append: other's element wins over self's of the same key
BTreeSetAppend(self, other) == {x \in self : \A y \in other : y.key # x.key} \cup other

\* Journal::iter
JournalIter == FoldOps(LAMBDA s, e : BTreeSetAppend(s, EraOps(Decode(e.data))), {}, eras)

\* Journal::get: the eras newest first; the first whose cache has the key
\* answers, Some(value) for an insert and None for a delete
RECURSIVE GetFrom(_, _)
GetFrom(k, i) ==
    IF i = 0 THEN {}
    ELSE IF k \in DOMAIN Cache(i) THEN Cache(i)[k] ELSE GetFrom(k, i - 1)

JournalGet(k) == GetFrom(k, Len(eras))

-----------------------------------------------------------------------------
\* Database::create: an empty journal; create_transaction: no operations
Init ==
    /\ ops = <<>>
    /\ eras = <<>>

\* Transaction::insert with a key of key_len bytes (any other length is
\* InvalidKeyLen and pushes nothing)
TxInsert(k, v) ==
    /\ Len(Decode(ops)) < MaxOps
    /\ ops' = ops \o WriteInsert(k, v)
    /\ UNCHANGED eras

\* Transaction::delete
TxDelete(k) ==
    /\ Len(Decode(ops)) < MaxOps
    /\ ops' = ops \o WriteDelete(k)
    /\ UNCHANGED eras

\* Database::create_transaction: a fresh transaction replaces the old one
CreateTransaction ==
    /\ ops' = <<>>
    /\ UNCHANGED eras

\* Database::commit, Journal::push: JournalEra::create writes the raw
\* bytes and JournalEra::open maps them and builds the cache; the
\* transaction is borrowed, not used up
Commit ==
    /\ Len(eras) < MaxEras
    /\ eras' = Append(eras, [data |-> ops, cache |-> CacheOf(Decode(ops))])
    /\ UNCHANGED ops

\* flush_journal's drain_front(n)
DrainFront(n) ==
    /\ eras' = SubSeq(eras, n + 1, Len(eras))
    /\ UNCHANGED ops

Next ==
    \/ \E k \in Keys, v \in Vals : TxInsert(k, v)
    \/ \E k \in Keys : TxDelete(k)
    \/ CreateTransaction
    \/ Commit
    \/ \E n \in 1 .. Len(eras) : DrainFront(n)

Spec == Init /\ [][Next]_vars

-----------------------------------------------------------------------------
(* Properties                                                              *)

AbsJournal == [i \in 1 .. Len(eras) |-> Cache(i)]

\* every byte string a transaction of at most MaxOps operations holds,
\* and the batch each one reads back as (a constant table, so the mapping
\* is computed once and not on every step)
TxnBytes ==
    {FlattenSeq(s) : s \in SeqOf({WriteInsert(k, v) : k \in Keys, v \in Vals}
                                  \cup {WriteDelete(k) : k \in Keys}, MaxOps)}
Staged == [b \in TxnBytes |-> CacheOf(Decode(b))]

Abs == INSTANCE EraBatches WITH batch <- Staged[ops], journal <- AbsJournal

\* The encoded transaction and the journal implement a journal of
\* last-write-wins batches: every insert and delete reads back from the
\* bytes, whatever the lengths of keys and values, and a later operation on
\* a key replaces an earlier one in the era the commit creates.
RefinesEraBatches == Abs!Spec

\* The journal's three readings of the eras agree: each era's operations,
\* which flush_journal applies, are its cache, which get reads; Journal::get
\* answers from the newest era that touches the key; and Journal::iter,
\* which the database iterator merges, holds that era's operation.
JournalViewsAgree ==
    /\ \A i \in 1 .. Len(eras) :
          /\ {o.key : o \in EraOps(Decode(eras[i].data))} = DOMAIN Cache(i)
          /\ \A o \in EraOps(Decode(eras[i].data)) : o.val = Cache(i)[o.key]
    /\ \A k \in Keys :
          /\ JournalGet(k) = UNION Abs!NewestEntry(AbsJournal, k)
          /\ {o.val : o \in {x \in JournalIter : x.key = k}} = Abs!NewestEntry(AbsJournal, k)

====
