----------------------------- MODULE RecordCodec -----------------------------
(***************************************************************************)
(* The byte layout of one record and the views that read it back.          *)
(*   record/append.rs  append_record: RawRecordIterator yields the key,    *)
(*                     the value length (little-endian u32, variable       *)
(*                     values only) and the value; RecordIterator cuts     *)
(*                     them into fields, each behind a one-byte header.    *)
(*   field/view.rs     FieldsView: a window [offset, offset + len) of the  *)
(*                     body bytes, headers skipped; split_at, raw_slice,   *)
(*                     copy_to_slice, PartialEq/PartialOrd with a slice    *)
(*                     (the on_body_slice macro) and the Bytes iterator.   *)
(*   record/record.rs  Record::new, extract_key, read_value_len.           *)
(* A byte is a natural number; data is a sequence, data[i + 1] the byte at *)
(* offset i.  A view is the record [offset, len] over the state's data.    *)
(* The state is one record written by append_record and the Bytes iterator *)
(* walking its value view, as FieldsView::eq does for Value::Record.       *)
(***************************************************************************)
EXTENDS Integers, Sequences, SequencesExt

CONSTANTS
    MaxKeyLen,    \* bound on options.key_len
    Expected,     \* values of ValuesLen::Variable { expected }
    ByteVals,     \* the bytes keys and values are made of
    MaxValueLen   \* bound on a value's length

VARIABLES
    fbs,          \* field_body_size
    key, value,   \* what append_record was given
    constant,     \* ValuesLen::Constant: const_value, ValueSize::Constant
    data,         \* the fields append_record wrote
    it,           \* the Bytes iterator: [offset, len]
    out           \* the bytes it has yielded

vars == <<fbs, key, value, constant, data, it, out>>

HeaderSize == 1                         \* field::HEADER_SIZE
Inserted == 1                           \* Header::INSERTED
Continued == 2                          \* Header::CONTINUED
ValueLenSize == 4                       \* record::HEADER_SIZE
FieldSize(b) == b + HeaderSize          \* field::field_size

LittleEndian32(n) == [i \in 1 .. 4 |-> (n \div 2^(8 * (i - 1))) % 256]
ReadU32(s) == LET RECURSIVE Acc(_) Acc(i) == IF i = 0 THEN 0 ELSE Acc(i - 1) + s[i] * 2^(8 * (i - 1))
              IN Acc(4)

-----------------------------------------------------------------------------
(* record/append.rs                                                        *)

\* RawRecordIterator: key, then the length unless the value is constant,
\* then the value
RawRecord(k, v, cv) == k \o (IF cv THEN <<>> ELSE LittleEndian32(Len(v))) \o v

\* RecordIterator::next from position pos with raw still to take: at a
\* field boundary it peeks the next raw byte and, if there is one, yields
\* the header and then that byte; inside a field it yields the next raw
\* byte or 0 once raw is exhausted
RECURSIVE RecordBytes(_, _, _)
RecordBytes(raw, pos, fs) ==
    IF pos % fs = 0
    THEN IF raw = <<>> THEN <<>>
         ELSE <<IF pos = 0 THEN Inserted ELSE Continued, Head(raw)>>
                \o RecordBytes(Tail(raw), pos + 2, fs)
    ELSE IF raw = <<>> THEN <<0>> \o RecordBytes(raw, pos + 1, fs)
         ELSE <<Head(raw)>> \o RecordBytes(Tail(raw), pos + 1, fs)

AppendRecord(k, v, b, cv) == RecordBytes(RawRecord(k, v, cv), 0, FieldSize(b))

-----------------------------------------------------------------------------
(* field/view.rs                                                           *)

\* FieldsView::new: the whole slice, no offset
ViewNew(d, b) == [offset |-> 0, len |-> (Len(d) * b) \div FieldSize(b)]

ViewWithOptions(o, n) == [offset |-> o, len |-> n]

\* split_at: [0, pos) and [pos, len); its asserts hold when SplitOk
SplitOk(d, v, pos) == v.len >= pos /\ Len(d) >= v.offset + pos
SplitAt(v, pos) == <<ViewWithOptions(v.offset, pos),
                     ViewWithOptions(v.offset + pos, v.len - pos)>>

\* on_body_slice without the header skip before the tail
ChunksTailAtHeader(b, v, n) ==
    LET o == v.offset
        first == IF o % b # 0
                 THEN <<[ours |-> o + (HeaderSize * o) \div b + HeaderSize,
                         rem |-> IF n < b - (o % b) THEN n ELSE b - (o % b)]>>
                 ELSE <<>>
        t0 == IF first = <<>> THEN 0 ELSE first[1].rem
        u0 == IF first = <<>> THEN o + (HeaderSize * o) \div b
              ELSE first[1].ours + first[1].rem
        full == [i \in 1 .. (n - t0) \div b |->
                    [ours |-> u0 + (i - 1) * FieldSize(b) + HeaderSize, rem |-> b]]
        t1 == t0 + Len(full) * b
        u1 == u0 + Len(full) * FieldSize(b)
    IN first \o full \o (IF t1 # v.len
                         THEN <<[ours |-> u1, rem |-> v.len - t1]>>
                         ELSE <<>>)

\* the chunks on_body_slice visits for a slice of length n: a partial first
\* field when the offset is not field-aligned, the whole fields, and the
\* tail; each is [ours, rem]: rem body bytes at data offset ours
Chunks(b, v, n) ==
    LET o == v.offset
        first == IF o % b # 0
                 THEN <<[ours |-> o + (HeaderSize * o) \div b + HeaderSize,
                         rem |-> IF n < b - (o % b) THEN n ELSE b - (o % b)]>>
                 ELSE <<>>
        t0 == IF first = <<>> THEN 0 ELSE first[1].rem
        u0 == IF first = <<>> THEN o + (HeaderSize * o) \div b
              ELSE first[1].ours + first[1].rem
        full == [i \in 1 .. (n - t0) \div b |->
                    [ours |-> u0 + (i - 1) * FieldSize(b) + HeaderSize, rem |-> b]]
        t1 == t0 + Len(full) * b
        u1 == u0 + Len(full) * FieldSize(b)
    IN first \o full \o (IF t1 # v.len
                         THEN <<[ours |-> u1 + HeaderSize, rem |-> v.len - t1]>>
                         ELSE <<>>)

\* copy_to_slice: the body bytes of every chunk, in order
CopyToSlice(d, b, v) ==
    LET ch == Chunks(b, v, v.len)
    IN FlattenSeq([i \in DOMAIN ch |-> SubSeq(d, ch[i].ours + 1, ch[i].ours + ch[i].rem)])

\* byte-wise order of two sequences of one length
RECURSIVE Compare(_, _)
Compare(x, y) ==
    CASE x = <<>>          -> "Equal"
      [] Head(x) < Head(y) -> "Less"
      [] Head(x) > Head(y) -> "Greater"
      [] OTHER             -> Compare(Tail(x), Tail(y))

\* PartialEq<slice> and PartialOrd<slice>: None on a length mismatch, else
\* chunk by chunk up to the first differing byte
ViewEqSlice(d, b, v, s) == Len(s) = v.len /\ CopyToSlice(d, b, v) = s
ViewCmpSlice(d, b, v, s) ==
    IF Len(s) # v.len THEN "None" ELSE Compare(CopyToSlice(d, b, v), s)

\* raw_slice: {the bytes} when the window lies in one field, else {} (None)
RawSlice(d, b, v) ==
    IF v.len = 0 THEN {<<>>}
    ELSE LET start == v.offset + (HeaderSize * v.offset) \div b + HeaderSize
             end == start + v.len
         IN IF start \div FieldSize(b) = (end - 1) \div FieldSize(b)
            THEN {SubSeq(d, start + 1, end)} ELSE {}

\* Bytes::next: skip a header when the offset, less one byte per field
\* body passed, is a multiple of the body size; yield the byte
BytesOffset(b, o) == IF (o - (HeaderSize * o) \div b) % b = 0 THEN o + HeaderSize ELSE o

-----------------------------------------------------------------------------
(* record/record.rs                                                        *)

\* Record::new: split off the key (raw_slice, expected to be one field),
\* then the value: value_size bytes, or the length read from the next four
\* body bytes.  Asserts: key_size <= field_body_size and split_at's.
RecordNew(d, b, cv, valueSize, keySize) ==
    LET kr == SplitAt(ViewNew(d, b), keySize)
        hv == SplitAt(kr[2], ValueLenSize)
        n == IF cv THEN valueSize ELSE ReadU32(CopyToSlice(d, b, hv[1]))
        vr == SplitAt(IF cv THEN kr[2] ELSE hv[2], n)
    IN [key |-> RawSlice(d, b, kr[1]), value |-> vr[1], len |-> n,
        ok |-> /\ keySize <= b /\ SplitOk(d, ViewNew(d, b), keySize)
               /\ (cv \/ SplitOk(d, kr[2], ValueLenSize))
               /\ SplitOk(d, IF cv THEN kr[2] ELSE hv[2], n)]

\* extract_key: the key window find_record compares with partial_cmp
ExtractKey(keySize) == ViewWithOptions(0, keySize)

-----------------------------------------------------------------------------
\* InternalOptions::from_external: field_body_size is key_len plus
\* ValuesLen::size, the constant value size (every value has it) or the
\* four length bytes plus the expected size (a longer value spills over)
BodySize(keyLen, valueLen, cv) ==
    IF cv THEN {keyLen + valueLen} ELSE {keyLen + ValueLenSize + e : e \in Expected}

\* append_record writes one record (writer.rs write_insert_operation); the
\* value's Bytes iterator starts on the view Record::new returns
\* the value_size Record::new is given: ValueSize::Constant holds the
\* options' size, field_body_size less key_len; a variable value's own
ValueSizeOf == IF constant THEN fbs - Len(key) ELSE Len(value)

\* append_record of key and value, and the view Bytes starts on
Appended ==
    /\ data = AppendRecord(key, value, fbs, constant)
    /\ it = (RecordNew(data, fbs, constant, ValueSizeOf, Len(key)).value)
    /\ out = <<>>

Init ==
    /\ key \in SeqOf(ByteVals, MaxKeyLen) \ {<<>>}
    /\ value \in SeqOf(ByteVals, MaxValueLen)
    /\ constant \in BOOLEAN
    /\ fbs \in BodySize(Len(key), Len(value), constant)
    /\ Appended

\* Transaction::insert checks only the key's length, so under
\* ValuesLen::Constant a value of any length reaches append_record
InitUncheckedValueLen ==
    /\ key \in SeqOf(ByteVals, MaxKeyLen) \ {<<>>}
    /\ value \in SeqOf(ByteVals, MaxValueLen)
    /\ constant = TRUE
    /\ fbs \in {Len(key) + c : c \in 0 .. MaxValueLen}
    /\ Appended

BytesNext ==
    /\ it.len > 0
    /\ LET o == BytesOffset(fbs, it.offset)
       IN /\ out' = Append(out, data[o + 1])
          /\ it' = [offset |-> o + 1, len |-> it.len - 1]
    /\ UNCHANGED <<fbs, key, value, constant, data>>

Next == BytesNext

Spec == Init /\ [][Next]_vars

-----------------------------------------------------------------------------
(* Properties                                                              *)

Rec == RecordNew(data, fbs, constant, ValueSizeOf, Len(key))

\* Whatever the field body size, key length and value length, the record
\* append_record writes reads back through Record::new: its asserts and
\* the key's raw_slice expect hold, the key and extract_key read the key,
\* read_value (copy_to_slice) and value_is_equal read the value, and a
\* value raw_slice finds in one field (Value::from) is the value.  Reads
\* start at offsets inside a field and cross field headers at every
\* alignment: on_body_slice's partial first chunk, whole fields and tail.
ReadBackWritten ==
    /\ Rec.ok
    /\ Rec.key = {key}
    /\ ViewCmpSlice(data, fbs, ExtractKey(Len(key)), key) = "Equal"
    /\ CopyToSlice(data, fbs, Rec.value) = value
    /\ ViewEqSlice(data, fbs, Rec.value, value)
    /\ RawSlice(data, fbs, Rec.value) \subseteq {value}

\* The Bytes iterator over a record's value yields the value's bytes:
\* FieldsView::eq between two views, and so the derived PartialEq of
\* Record and of Value::Record (database.rs:27) that Database::iter yields,
\* compares the values' bytes.
BytesYieldValue == IsPrefix(out, value)

====
