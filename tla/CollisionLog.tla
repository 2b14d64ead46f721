---------------------------- MODULE CollisionLog ----------------------------
(***************************************************************************)
(* collision.rs at the level of the file's bytes.  LogEntry::write appends *)
(* key_size (u32 little-endian), the key, value_size and the value;       *)
(* write_deleted appends key_size, the key and ENTRY_TOMBSTONE (!0) as the *)
(* value size.  LogIterator reads the entries back with LogEntry::read,   *)
(* which slices the mapped file and panics when a slice runs past its end.*)
(* The index maps a key to the byte offset of its entry; get and the      *)
(* iterator read the entry there from the mapping of the last rebuild.    *)
(* A write that fails part of the way leaves the bytes written so far.    *)
(* The module implements Collision, whose log is a sequence of entries.   *)
(***************************************************************************)
EXTENDS Integers, Sequences, Functions, TLC

CONSTANTS
    Keys, Vals,     \* byte sequences: keys of key_len bytes, values
    Tombstone,      \* what an entry read back with ENTRY_TOMBSTONE holds
    MaxLog          \* bound on the number of log entries

VARIABLES
    file,       \* the bytes of collision-{prefix}.log
    mmap,       \* the bytes Collision::mmap mapped at the last rebuild
    index,      \* Collision::index: key -> byte offset of its live entry
    atStart,    \* the O_APPEND descriptor reports offset 0 (no write yet)
    up,         \* running, or a panic in the process
    applied,    \* what the Collision::apply calls so far leave each key
    failed,     \* keys whose last apply returned an error
    entries     \* LogIterator's reading of file, kept beside it so that
                \* the refinement mapping need not read the bytes again

vars == <<file, mmap, index, atStart, up, applied, failed, entries>>

\* LogEntry::ENTRY_TOMBSTONE, !0u32, as the four bytes write_u32 writes
EntryTombstone == <<255, 255, 255, 255>>

LittleEndian32(n) == [i \in 1 .. 4 |-> (n \div 2^(8 * (i - 1))) % 256]

\* LittleEndian::read_u32 of four bytes; the files here are shorter than
\* 2^16 bytes, so a size with a high byte set is past any end, and TLC's
\* integers need not hold it
TooLarge == 2^16
ReadU32(s) == IF s[3] = 0 /\ s[4] = 0 THEN s[1] + 256 * s[2] ELSE TooLarge

\* Collision::create: set_len(1) leaves one zero byte, which the first
\* write, at offset 0 of the descriptor, overwrites
Placeholder == <<0>>

-----------------------------------------------------------------------------
\* LogEntry::write
WriteBytes(k, v) == LittleEndian32(Len(k)) \o k \o LittleEndian32(Len(v)) \o v
\* LogEntry::write_deleted
WriteDeletedBytes(k) == LittleEndian32(Len(k)) \o k \o EntryTombstone

\* a descriptor that always appends, past the placeholder byte too
WriteAtEnd(f, bs) == f \o bs

\* the file after bs is written through Collision::file: the descriptor
\* of create writes from offset 0, the one of open appends
WriteAt(f, bs) == IF f = Placeholder THEN (IF bs = <<>> THEN f ELSE bs) ELSE f \o bs

\* the offset seek(SeekFrom::Current(0)) reports before a write
WritePosition == IF atStart \/ file = Placeholder THEN 0 ELSE Len(file)

\* LogEntry::read with the value slice starting one byte early
ReadEntryValueAtSizeEnd(f, pos) ==
    LET rest == Len(f) - pos
        ks == ReadU32(SubSeq(f, pos + 1, pos + 4))
        vb == SubSeq(f, pos + ks + 5, pos + ks + 8)
        vs == ReadU32(vb)
    IN CASE rest < 4 \/ rest < ks + 8 -> [ok |-> FALSE]
         [] vb = EntryTombstone ->
                [ok |-> TRUE, key |-> SubSeq(f, pos + 5, pos + 4 + ks),
                 val |-> Tombstone, next |-> pos + ks + 8]
         [] rest < ks + 8 + vs -> [ok |-> FALSE]
         [] OTHER ->
                [ok |-> TRUE, key |-> SubSeq(f, pos + 5, pos + 4 + ks),
                 val |-> SubSeq(f, pos + ks + 8, pos + ks + 7 + vs),
                 next |-> pos + ks + 8 + vs]

\* LogEntry::read of the bytes from offset pos: ok is FALSE where a slice
\* (&data[..4], the key, read_u32 of the value size, the value) runs past
\* the end and the code panics
ReadEntry(f, pos) ==
    LET rest == Len(f) - pos
        ks == ReadU32(SubSeq(f, pos + 1, pos + 4))
        vb == SubSeq(f, pos + ks + 5, pos + ks + 8)
        vs == ReadU32(vb)
    IN CASE rest < 4 \/ rest < ks + 8 -> [ok |-> FALSE]
         [] vb = EntryTombstone ->
                [ok |-> TRUE, key |-> SubSeq(f, pos + 5, pos + 4 + ks),
                 val |-> Tombstone, next |-> pos + ks + 8]
         [] rest < ks + 8 + vs -> [ok |-> FALSE]
         [] OTHER ->
                [ok |-> TRUE, key |-> SubSeq(f, pos + 5, pos + 4 + ks),
                 val |-> SubSeq(f, pos + ks + 9, pos + ks + 8 + vs),
                 next |-> pos + ks + 8 + vs]

\* LogIterator from offset pos: the entries [ok, pos, key, val] it yields
\* up to the end of the bytes; a read that panics ends the sequence with
\* an element whose ok is FALSE
RECURSIVE LogFrom(_, _)
LogFrom(f, pos) ==
    IF pos >= Len(f) THEN <<>>
    ELSE LET e == ReadEntry(f, pos)
         IN IF ~e.ok THEN <<[ok |-> FALSE, pos |-> pos, key |-> <<>>, val |-> <<>>]>>
            ELSE <<[ok |-> TRUE, pos |-> pos, key |-> e.key, val |-> e.val]>> \o LogFrom(f, e.next)

\* the whole file reads back: no read panicked
Whole(es) == es = <<>> \/ es[Len(es)].ok

\* build_index with tombstones pointing the key at them
RECURSIVE IndexOfKeepDeleted(_)
IndexOfKeepDeleted(es) ==
    IF es = <<>> THEN [x \in {} |-> 0]
    ELSE (es[Len(es)].key :> es[Len(es)].pos) @@ IndexOfKeepDeleted(SubSeq(es, 1, Len(es) - 1))

\* build_index over the entries read: a value points the key at its
\* entry's offset, a tombstone removes the key
RECURSIVE IndexOf(_)
IndexOf(es) ==
    IF es = <<>> THEN [x \in {} |-> 0]
    ELSE LET m == IndexOf(SubSeq(es, 1, Len(es) - 1))
             e == es[Len(es)]
         IN IF e.val = Tombstone THEN Restrict(m, DOMAIN m \ {e.key})
            ELSE (e.key :> e.pos) @@ m

\* Collision::get: the entry the index points to, read from the mapping
GetEntry(k) == ReadEntry(mmap, index[k])

\* get's assert!(key == entry.key) or expect("index only points to live
\* entries") fires
GetPanics(k) ==
    k \in DOMAIN index /\ (~GetEntry(k).ok \/ GetEntry(k).key # k \/ GetEntry(k).val = Tombstone)

\* Some(value) as {value}, None as {}
Get(k) == IF k \in DOMAIN index THEN {GetEntry(k).val} ELSE {}

NumEntries == Len(entries)

-----------------------------------------------------------------------------
\* Collision::create
Init ==
    /\ file = Placeholder
    /\ mmap = Placeholder
    /\ index = [x \in {} |-> 0]
    /\ atStart = FALSE
    /\ up = "running"
    /\ applied = [k \in Keys |-> Tombstone]
    /\ failed = {}
    /\ entries = LogFrom(Placeholder, 0)

\* LogEntry::write at the reported position, rebuild_index over the
\* re-mapped file, LogEntry::read at that position, assert the key, point
\* the index at it
AppendEntry(k, v) ==
    LET pos == WritePosition
        f == WriteAt(file, WriteBytes(k, v))
        es == LogFrom(f, 0)
        e == ReadEntry(f, pos)
    IN /\ file' = f
       /\ entries' = es
       /\ mmap' = f
       /\ atStart' = FALSE
       /\ IF Whole(es) /\ e.ok /\ e.key = k
          THEN index' = (k :> pos) @@ IndexOf(es) /\ UNCHANGED up
          ELSE up' = "panic" /\ UNCHANGED index

\* Collision::insert, Collision::apply of an Insert: get first, and
\* nothing to write if it returns v
Insert(k, v) ==
    /\ up = "running" /\ NumEntries < MaxLog
    /\ applied' = [applied EXCEPT ![k] = v]
    /\ failed' = failed \ {k}
    /\ IF GetPanics(k) THEN up' = "panic" /\ UNCHANGED <<file, mmap, index, atStart, entries>>
       ELSE IF Get(k) = {v} THEN UNCHANGED <<file, mmap, index, atStart, up, entries>>
       ELSE AppendEntry(k, v)

\* Collision::delete, Collision::apply of a Delete: index.remove, then
\* write_deleted and rebuild_index if the key was there
Delete(k) ==
    /\ up = "running" /\ NumEntries < MaxLog
    /\ applied' = [applied EXCEPT ![k] = Tombstone]
    /\ failed' = failed \ {k}
    /\ IF k \notin DOMAIN index
       THEN UNCHANGED <<file, mmap, index, atStart, up, entries>>
       ELSE LET f == WriteAt(file, WriteDeletedBytes(k))
                es == LogFrom(f, 0)
            IN /\ file' = f
               /\ entries' = es
               /\ mmap' = f
               /\ atStart' = FALSE
               /\ IF Whole(es) THEN index' = IndexOf(es) /\ UNCHANGED up
                  ELSE up' = "panic" /\ UNCHANGED index

\* Collision::open after a restart: map the file, build_index, and an
\* O_APPEND descriptor.  Database opens it only for a collided prefix,
\* whose file compact filled before persisting the metadata.
Reopen ==
    /\ up = "running"
    /\ file # Placeholder
    /\ mmap' = file
    /\ atStart' = TRUE
    /\ LET es == LogFrom(file, 0)
       IN IF Whole(es) THEN index' = IndexOf(es) /\ UNCHANGED up
          ELSE up' = "panic" /\ UNCHANGED index
    /\ UNCHANGED <<file, applied, failed, entries>>

Next ==
    \/ \E k \in Keys, v \in Vals : Insert(k, v)
    \/ \E k \in Keys : Delete(k)
    \/ Reopen

\* Collision::insert whose rebuild_index fails after LogEntry::write
\* appended the whole entry: the index and the mapping stay as they were
InsertRebuildFails(k, v) ==
    /\ up = "running" /\ NumEntries < MaxLog
    /\ ~GetPanics(k) /\ Get(k) # {v}
    /\ file' = WriteAt(file, WriteBytes(k, v))
    /\ entries' = LogFrom(WriteAt(file, WriteBytes(k, v)), 0)
    /\ atStart' = FALSE
    /\ failed' = failed \cup {k}
    /\ UNCHANGED <<mmap, index, up, applied>>

\* Collision::insert whose LogEntry::write fails after its first n bytes
\* (write_u32 and write_all return the error of a short write)
InsertWriteFails(k, v, n) ==
    /\ up = "running" /\ NumEntries < MaxLog
    /\ ~GetPanics(k) /\ Get(k) # {v}
    /\ file' = WriteAt(file, SubSeq(WriteBytes(k, v), 1, n))
    /\ entries' = LogFrom(WriteAt(file, SubSeq(WriteBytes(k, v), 1, n)), 0)
    /\ atStart' = (atStart /\ n = 0)
    /\ failed' = failed \cup {k}
    /\ UNCHANGED <<mmap, index, up, applied>>

\* Collision::delete whose write_deleted fails after its first n bytes:
\* index.remove has already taken the key out
DeleteWriteFails(k, n) ==
    /\ up = "running"
    /\ k \in DOMAIN index
    /\ index' = Restrict(index, DOMAIN index \ {k})
    /\ file' = WriteAt(file, SubSeq(WriteDeletedBytes(k), 1, n))
    /\ entries' = LogFrom(WriteAt(file, SubSeq(WriteDeletedBytes(k), 1, n)), 0)
    /\ atStart' = (atStart /\ n = 0)
    /\ failed' = failed \cup {k}
    /\ UNCHANGED <<mmap, up, applied>>

\* the failures that leave whole entries: a failed rebuild_index, and a
\* tombstone write that fails before its first byte
NextFaulty ==
    \/ Next
    \/ \E k \in Keys, v \in Vals : InsertRebuildFails(k, v)
    \/ \E k \in Keys : DeleteWriteFails(k, 0)

\* every write may also stop part of the way, as a full disk or an I/O
\* error does, and as a crash does before the next open
NextPartial ==
    \/ NextFaulty
    \/ \E k \in Keys, v \in Vals :
          \E n \in 0 .. Len(WriteBytes(k, v)) - 1 : InsertWriteFails(k, v, n)
    \/ \E k \in Keys : \E n \in 1 .. Len(WriteDeletedBytes(k)) - 1 : DeleteWriteFails(k, n)

Spec == Init /\ [][NextFaulty]_vars

-----------------------------------------------------------------------------
(* Properties                                                              *)

\* the entries the file reads back as, numbered from 1 as Collision's log
LogEntries ==
    IF file = Placeholder THEN <<>>
    ELSE [i \in 1 .. Len(entries) |-> <<entries[i].key, entries[i].val>>]

\* the number of the entry that starts at byte offset pos
EntryNo(pos) ==
    CHOOSE i \in 1 .. Len(entries) : entries[i].pos = pos

Coll == INSTANCE Collision WITH
            log <- LogEntries,
            index <- [k \in Keys |-> IF k \in DOMAIN index THEN EntryNo(index[k]) ELSE 0]

\* The bytes LogEntry::write and write_deleted append, read back by
\* LogIterator and LogEntry::read, are the entry log Collision describes,
\* and the byte offsets the index keeps (from build_index and from the
\* position write reports) name the entries it names, also when
\* rebuild_index fails or a tombstone is never written.
RefinesCollision == Coll!FaultySpec

\* The file always reads back as whole entries from its first byte, so
\* the build_index of the next insert, delete or open cannot slice past
\* the end of the mapping and panic (collision.rs:311-323).
LogReadable == file = Placeholder \/ Whole(entries)

\* get and CollisionLogIterator::next read the entry at the offset the
\* index holds, in the mapping of the last rebuild: it is whole, has the
\* key (get's assert) and a value (the expect in both) for every key.
IndexReadsLive == \A k \in DOMAIN index : ~GetPanics(k)

====
