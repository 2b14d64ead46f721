------------------------------ MODULE DataFile ------------------------------
(***************************************************************************)
(* The packed data file `data.db` and the pure functions that read it:    *)
(* field headers, the space iterator (space.rs), record lookup            *)
(* (find.rs find_record) and the ordered record iterator (find.rs iter).  *)
(*                                                                         *)
(* The file is abstracted to one element per FIELD: every offset, length  *)
(* and shift of the code is a multiple of field_size (writer.rs:284-286), *)
(* so offsets are counted in fields.  A field holds its header and, for   *)
(* an Inserted field, the key and value of the record it starts; the body *)
(* bytes of Continued fields are not told apart.                          *)
(***************************************************************************)
EXTENDS Integers, Sequences, FiniteSets

CONSTANTS
    Keys,        \* keys, as naturals ordered like their bytes
    Vals,        \* values
    FieldsOf,    \* [Vals -> 1..]: fields append_record uses for a value
    PrefixOf,    \* [Keys -> 0..2^PrefixBits-1]: Key::read_prefix
    PrefixBits   \* options.key_index_bits

ASSUME Keys \subseteq Nat
ASSUME \A k1, k2 \in Keys : k1 < k2 => PrefixOf[k1] <= PrefixOf[k2]

\* options.rs:75: initial_db_size = (2 << (key_index_bits + 1)) * field_size
NFields == 2 * 2^(PrefixBits + 1)
Offsets == 0 .. NFields - 1
PrefixRange == 0 .. 2^PrefixBits - 1

\* field/header.rs: the three headers
Uninit == [hdr |-> "U"]
Cont   == [hdr |-> "C"]
Ins(k, v) == [hdr |-> "I", key |-> k, val |-> v]
Field == {Uninit, Cont} \cup {Ins(k, v) : k \in Keys, v \in Vals}

EmptyFile == [o \in Offsets |-> Uninit]

\* Key::offset: the natural slot of a key, in fields
MinSlot(k) == PrefixOf[k]

\* record/append.rs append_record: Inserted, then Continued fields
RecordFields(k, v) == [i \in 1 .. FieldsOf[v] |-> IF i = 1 THEN Ins(k, v) ELSE Cont]

\* write_empty_bytes: n zeroed fields
Zeroes(n) == [i \in 1 .. n |-> Uninit]

-----------------------------------------------------------------------------
(* space.rs SpaceIterator::next, from offset `off`.                        *)

RECURSIVE SkipContinued(_, _)
SkipContinued(db, o) ==
    IF o < NFields /\ db[o].hdr = "C" THEN SkipContinued(db, o + 1) ELSE o

\* "End": data[offset..] is empty.  "Err": only Continued fields remain
\* (first_header stays None: InvalidHeader).  An Empty space is always a
\* single field: the first Uninitialized header returns at once.
NextSpace(db, off) ==
    LET s == SkipContinued(db, off) IN
    IF off >= NFields THEN [kind |-> "End"]
    ELSE IF s >= NFields THEN [kind |-> "Err"]
    ELSE IF db[s].hdr = "U"
         THEN [kind |-> "Empty", offset |-> s, end |-> s + 1]
         ELSE LET e == SkipContinued(db, s + 1) IN
              [kind |-> "Occupied", offset |-> s, end |-> e,
               key |-> db[s].key,
               data |-> [i \in 1 .. e - s |-> db[s + i - 1]]]

-----------------------------------------------------------------------------
(* find.rs find_record, scanning from offset `o` for key `k`.  Returns    *)
(* the value, "NotFound" or "OutOfRange".                                  *)

RECURSIVE FindRecord(_, _, _)
FindRecord(db, o, k) ==
    IF o >= NFields THEN "OutOfRange"
    ELSE CASE db[o].hdr = "U"                    -> "NotFound"
           [] db[o].hdr = "I" /\ db[o].key = k   -> db[o].val
           [] db[o].hdr = "I" /\ db[o].key > k   -> "NotFound"
           [] OTHER                              -> FindRecord(db, o + 1, k)

\* database.rs get, data-file path (lines 283-295) with the prefix index
\* `prefixes`: a prefix absent from the index is not searched.
Lookup(db, prefixes, k) ==
    IF PrefixOf[k] \notin prefixes THEN "NotFound"
    ELSE FindRecord(db, MinSlot(k), k)

-----------------------------------------------------------------------------
(* find.rs RecordIterator: for each occupied prefix not yet passed, scan  *)
(* from its slot until an Uninitialized field; yields the keys in order.  *)

RECURSIVE ScanFrom(_, _)
ScanFrom(db, o) ==
    IF o >= NFields \/ db[o].hdr = "U" THEN <<>>
    ELSE IF db[o].hdr = "I" THEN <<o>> \o ScanFrom(db, o + 1)
    ELSE ScanFrom(db, o + 1)

RECURSIVE ScanEnd(_, _)
ScanEnd(db, o) ==
    IF o >= NFields \/ db[o].hdr = "U" THEN o + 1 ELSE ScanEnd(db, o + 1)

\* `next` is self.offset: prefixes below it were covered by an earlier run
RECURSIVE IterFrom(_, _, _)
IterFrom(db, ps, next) ==
    IF ps = {} THEN <<>>
    ELSE LET p == CHOOSE x \in ps : \A y \in ps : x <= y
         IN IF p < next THEN IterFrom(db, ps \ {p}, next)
            ELSE [i \in 1 .. Len(ScanFrom(db, p)) |-> db[ScanFrom(db, p)[i]].key]
                 \o IterFrom(db, ps \ {p}, ScanEnd(db, p))

RecordIter(db, prefixes) == IterFrom(db, prefixes, 0)

-----------------------------------------------------------------------------
(* Facts about a file, used by the invariants of the modules above it.    *)

LiveOffsets(db) == {o \in Offsets : db[o].hdr = "I"}

\* the number of fields the records of the file span
LiveFields(db) == Cardinality({o \in Offsets : db[o].hdr # "U"})

=============================================================================
