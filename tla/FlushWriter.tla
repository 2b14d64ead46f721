----------------------------- MODULE FlushWriter -----------------------------
(***************************************************************************)
(* The flush of a batch of operations into the data file:                 *)
(*   - flush/writer.rs OperationWriter (step, last_step, run), which      *)
(*     turns the sorted batch into idempotent (offset, bytes) writes and  *)
(*     an updated metadata image, taking one decision per step            *)
(*     (flush/decision.rs decision);                                       *)
(*   - flush/flush.rs Flush::flush, which copies every write into the     *)
(*     data file and replaces the metadata.                               *)
(* One flush runs at a time, as in Database::flush_journal and compact.   *)
(***************************************************************************)
EXTENDS DataFile, SequencesExt

CONSTANTS
    Absent,    \* the value of a Delete operation
    NoBatch,   \* no flush in progress
    Eras       \* the batches a journal era may hand to a flush

ASSUME Eras \subseteq UNION {[D -> Vals \cup {Absent}] : D \in SUBSET Keys}

VARIABLES
    db,       \* data.db, one element per field
    meta,     \* Metadata: [occupied |-> fields, prefixes |-> SUBSET PrefixRange]
    batch,    \* the batch being flushed, NoBatch when none
    phase,    \* "idle" | "step" | "done" | "panic" | "error"
    ops,      \* OperationWriter.operations: the operations not yet consumed
    cursor,   \* SpaceIterator.offset
    shift,    \* OperationWriter.shift, in fields
    buf,      \* OperationBuffer: the ranges <<[start, data]>> emitted so far
    open,     \* OperationBuffer.denoted_operation_start is Some
    wmeta     \* the clone of the metadata the writer updates

vars == <<db, meta, batch, phase, ops, cursor, shift, buf, open, wmeta>>
writer == <<ops, cursor, shift, buf, open, wmeta>>

\* what get() finds in the data file for every key
Store == [k \in Keys |-> IF Lookup(db, meta.prefixes, k) \in Vals
                        THEN Lookup(db, meta.prefixes, k) ELSE Absent]

KV == INSTANCE KVStore WITH
        store <- Store,
        request <- batch

Op == [key : Keys, val : Vals \cup {Absent}]   \* Insert(key, val) or Delete(key)
WriteRange == [start : Nat, data : Seq(Field)]

\* Every variable holds a value of its type; occupied_bytes, a u64 in the
\* metadata and in the writer's copy, never goes below zero.
TypeOK ==
    /\ db \in [Offsets -> Field]
    /\ meta \in [occupied : Nat, prefixes : SUBSET PrefixRange]
    /\ batch \in KV!Batches \cup {NoBatch}
    /\ phase \in {"idle", "step", "done", "panic", "error"}
    /\ ops \in Seq(Op)
    /\ cursor \in Nat
    /\ shift \in Int
    /\ buf \in Seq(WriteRange)
    /\ open \in BOOLEAN
    /\ wmeta \in [occupied : Nat, prefixes : SUBSET PrefixRange]

Init ==
    /\ db = EmptyFile
    /\ meta = [occupied |-> 0, prefixes |-> {}]
    /\ batch = NoBatch
    /\ phase = "idle"
    /\ ops = <<>>
    /\ cursor = 0
    /\ shift = 0
    /\ buf = <<>>
    /\ open = FALSE
    /\ wmeta = meta

-----------------------------------------------------------------------------
(* Flush::new with OperationWriter::new: the batch comes sorted by key,   *)
(* one operation per key (Journal era.iter is a BTreeSet of operations). *)
BeginFlush(b) ==
    /\ phase = "idle"
    /\ batch' = b
    /\ ops' = LET ks == SetToSortSeq(DOMAIN b, <)
              IN [i \in 1 .. Len(ks) |-> [key |-> ks[i], val |-> b[ks[i]]]]
    /\ cursor' = 0
    /\ shift' = 0
    /\ buf' = <<>>
    /\ open' = FALSE
    /\ wmeta' = meta
    /\ phase' = "step"
    /\ UNCHANGED <<db, meta>>

-----------------------------------------------------------------------------
(* OperationWriter::step with an operation left (writer.rs:143-237).      *)
(* When shift = 0 the open range is finished and the space iterator is   *)
(* moved forward to the operation's slot before the space is peeked;    *)
(* decision.rs decision() then picks one of the handlers below.          *)

op == Head(ops)
IsInsert == op.val # Absent

\* Faulty variant: the space iterator is not moved to the key's slot.
AtNoSeek == cursor

\* the offset spaces.peek() starts from (SpaceIterator::move_offset_forward)
At == IF shift = 0 THEN Max({cursor, MinSlot(op.key)}) ELSE cursor

\* denoted_operation_start stays Some only while shift # 0
Open0 == open /\ shift # 0
Sp == NextSpace(db, At)
IsEmpty == Sp.kind = "Empty"
IsOcc == Sp.kind = "Occupied"

\* Faulty variants of the key comparison: reversed; equal taken as less.
CompareReversed == IF Sp.key > op.key THEN "Less" ELSE IF Sp.key = op.key THEN "Equal" ELSE "Greater"
CompareEqualAsLess == IF Sp.key <= op.key THEN "Less" ELSE "Greater"

\* compare_space_and_operation: the space's key against the operation's
Compare == IF Sp.key < op.key THEN "Less" ELSE IF Sp.key = op.key THEN "Equal" ELSE "Greater"

\* is_min_offset_for_key / is_min_offset_for_space (shift < 0)
MinOkKey == Sp.offset + shift >= MinSlot(op.key)
MinOkSpace == Sp.offset + shift >= MinSlot(Sp.key)

\* decision(operation, space, shift)
Decision ==
    CASE IsEmpty /\ IsInsert ->
            (CASE shift = 0 -> "InsertIntoEmpty"
               [] shift < 0 -> IF MinOkKey THEN "InsertIntoEmpty" ELSE "FinishBackwardShift"
               [] shift > 0 -> "ConsumeEmptySpace")
      [] IsEmpty ->
            (CASE shift = 0 -> "IgnoreOperation"
               [] shift > 0 -> "ConsumeEmptySpace"
               [] shift < 0 -> IF MinOkKey THEN "ConsumeEmptySpace" ELSE "IgnoreOperation")
      [] Compare = "Less" ->
            (CASE shift = 0 -> "SeekSpace"
               [] shift < 0 -> IF MinOkSpace THEN "ShiftOccupiedSpace" ELSE "FinishBackwardShift"
               [] shift > 0 -> "ShiftOccupiedSpace")
      [] Compare = "Equal" -> IF IsInsert THEN "Overwrite" ELSE "Delete"
      [] ~IsInsert -> "IgnoreOperation"
      [] OTHER -> IF shift < 0 /\ ~MinOkKey THEN "FinishBackwardShift" ELSE "InsertBefore"

\* OperationBuffer::denote_operation_start, then appending bytes
Denote(o) == IF Open0 THEN buf ELSE Append(buf, [start |-> o, data |-> <<>>])
Emit(b, d) == [b EXCEPT ![Len(b)].data = @ \o d]

\* write_insert_operation: the fields append_record wrote
Written == FieldsOf[op.val]

\* Metadata::insert_record
InsertRecord(m) == [occupied |-> m.occupied + Written, prefixes |-> m.prefixes \cup {PrefixOf[op.key]}]

\* Metadata::remove_record: the prefix stays, other keys may share it
RemoveRecord(m, len) == [m EXCEPT !.occupied = @ - len]

\* Metadata::update_record_len
UpdateRecordLen(m, oldLen, newLen) == [m EXCEPT !.occupied = @ - oldLen + newLen]

Decided(d) == phase = "step" /\ ops # <<>> /\ Sp.kind \in {"Empty", "Occupied"} /\ Decision = d

\* Faulty variants: the shift ignores the length of the consumed space;
\* the prefix index is not updated.
InsertIntoEmptyNoSpaceLen ==
    /\ Decided("InsertIntoEmpty")
    /\ ops' = Tail(ops) /\ cursor' = Sp.end /\ open' = TRUE
    /\ buf' = Emit(Denote(Sp.offset), RecordFields(op.key, op.val))
    /\ shift' = shift + Written
    /\ wmeta' = InsertRecord(wmeta)
    /\ UNCHANGED <<db, meta, batch, phase>>

InsertOperationIntoEmptySpace ==
    /\ Decided("InsertIntoEmpty")
    /\ ops' = Tail(ops) /\ cursor' = Sp.end /\ open' = TRUE
    /\ buf' = Emit(Denote(Sp.offset), RecordFields(op.key, op.val))
    /\ shift' = shift + Written - 1
    /\ wmeta' = InsertRecord(wmeta)
    /\ UNCHANGED <<db, meta, batch, phase>>

\* Faulty variant: the metadata counts one field per record.
InsertBeforeOccupiedCountOne ==
    /\ Decided("InsertBefore")
    /\ ops' = Tail(ops) /\ cursor' = At /\ open' = TRUE
    /\ buf' = Emit(Denote(Sp.offset), RecordFields(op.key, op.val))
    /\ shift' = shift + Written
    /\ wmeta' = [InsertRecord(wmeta) EXCEPT !.occupied = wmeta.occupied + 1]
    /\ UNCHANGED <<db, meta, batch, phase>>

InsertOperationBeforeOccupiedSpace ==
    /\ Decided("InsertBefore")
    /\ ops' = Tail(ops) /\ cursor' = At /\ open' = TRUE
    /\ buf' = Emit(Denote(Sp.offset), RecordFields(op.key, op.val))
    /\ shift' = shift + Written
    /\ wmeta' = InsertRecord(wmeta)
    /\ UNCHANGED <<db, meta, batch, phase>>

\* Faulty variants: the old record is taken to span one field; the metadata
\* drops the old length without adding the new one.
OverwriteOldLenOne ==
    /\ Decided("Overwrite")
    /\ ops' = Tail(ops) /\ cursor' = Sp.end /\ open' = TRUE
    /\ buf' = Emit(Denote(Sp.offset), RecordFields(op.key, op.val))
    /\ shift' = shift + Written - 1
    /\ wmeta' = [wmeta EXCEPT !.occupied = @ - Len(Sp.data) + Written]
    /\ UNCHANGED <<db, meta, batch, phase>>

OverwriteNoNewLen ==
    /\ Decided("Overwrite")
    /\ ops' = Tail(ops) /\ cursor' = Sp.end /\ open' = TRUE
    /\ buf' = Emit(Denote(Sp.offset), RecordFields(op.key, op.val))
    /\ shift' = shift + Written - Len(Sp.data)
    /\ wmeta' = [wmeta EXCEPT !.occupied = @ - Len(Sp.data)]
    /\ UNCHANGED <<db, meta, batch, phase>>

OverwriteOperation ==
    /\ Decided("Overwrite")
    /\ ops' = Tail(ops) /\ cursor' = Sp.end /\ open' = TRUE
    /\ buf' = Emit(Denote(Sp.offset), RecordFields(op.key, op.val))
    /\ shift' = shift + Written - Len(Sp.data)
    /\ wmeta' = UpdateRecordLen(wmeta, Len(Sp.data), Written)
    /\ UNCHANGED <<db, meta, batch, phase>>

\* Faulty variant: the space is peeked but the iterator not advanced.
SeekSpaceNoAdvance ==
    /\ Decided("SeekSpace")
    /\ open' = Open0
    /\ UNCHANGED <<db, meta, batch, phase, ops, cursor, shift, buf, wmeta>>

SeekSpace ==
    /\ Decided("SeekSpace")
    /\ cursor' = Sp.end
    /\ open' = Open0
    /\ UNCHANGED <<db, meta, batch, phase, ops, shift, buf, wmeta>>

IgnoreOperation ==
    /\ Decided("IgnoreOperation")
    /\ ops' = Tail(ops)
    /\ cursor' = At
    /\ open' = Open0
    /\ UNCHANGED <<db, meta, batch, phase, shift, buf, wmeta>>

\* Faulty variant: a consumed empty space leaves a negative shift alone.
ConsumeEmptyKeepBackward ==
    /\ Decided("ConsumeEmptySpace")
    /\ cursor' = Sp.end
    /\ shift' = IF shift > 0 THEN shift - 1 ELSE shift
    /\ UNCHANGED <<db, meta, batch, phase, ops, buf, open, wmeta>>

ConsumeEmptySpace ==
    /\ Decided("ConsumeEmptySpace")
    /\ cursor' = Sp.end
    /\ shift' = shift - 1
    /\ UNCHANGED <<db, meta, batch, phase, ops, buf, open, wmeta>>

ShiftOccupiedSpace ==
    /\ Decided("ShiftOccupiedSpace")
    /\ cursor' = Sp.end
    /\ buf' = Emit(buf, Sp.data)
    /\ UNCHANGED <<db, meta, batch, phase, ops, shift, open, wmeta>>

FinishBackwardShift ==
    /\ Decided("FinishBackwardShift")
    /\ buf' = Emit(buf, Zeroes(-shift))
    /\ shift' = 0
    /\ UNCHANGED <<db, meta, batch, phase, ops, cursor, open, wmeta>>

DeleteOperation ==
    /\ Decided("Delete")
    /\ ops' = Tail(ops) /\ cursor' = Sp.end /\ open' = TRUE
    /\ buf' = Denote(Sp.offset)
    /\ shift' = shift - Len(Sp.data)
    /\ wmeta' = RemoveRecord(wmeta, Len(Sp.data))
    /\ UNCHANGED <<db, meta, batch, phase>>

\* spaces.peek() is None ("TODO: db end?" panics) or an InvalidHeader error
WriterSpaceExhausted ==
    /\ phase = "step" /\ ops # <<>>
    /\ Sp.kind \in {"End", "Err"}
    /\ phase' = IF Sp.kind = "End" THEN "panic" ELSE "error"
    /\ UNCHANGED <<db, meta, batch, ops, cursor, shift, buf, open, wmeta>>

-----------------------------------------------------------------------------
(* OperationWriter::last_step (writer.rs:312-352): once the operations    *)
(* are exhausted, drain the spaces while shift # 0, then pad a negative  *)
(* shift with zeroes and finish the open range.  One action per loop     *)
(* iteration.  The branch at writer.rs:334-338 is not modelled: it is    *)
(* taken only when diff >= 0, which the failed minimum-offset check at   *)
(* writer.rs:325 rules out.                                               *)

LSp == NextSpace(db, cursor)
LastGuard == phase = "step" /\ ops = <<>> /\ shift # 0 /\ LSp.kind \in {"Empty", "Occupied"}
LMinOk == LSp.offset + shift >= MinSlot(LSp.key)

LastConsumeEmpty ==
    /\ LastGuard /\ LSp.kind = "Empty"
    /\ cursor' = LSp.end
    /\ shift' = IF shift > 0 THEN shift - 1 ELSE shift
    /\ UNCHANGED <<db, meta, batch, phase, ops, buf, open, wmeta>>

LastShiftOccupied ==
    /\ LastGuard /\ LSp.kind = "Occupied"
    /\ shift > 0 \/ LMinOk
    /\ cursor' = LSp.end
    /\ buf' = Emit(buf, LSp.data)
    /\ UNCHANGED <<db, meta, batch, phase, ops, shift, open, wmeta>>

LastClampOccupied ==
    /\ LastGuard /\ LSp.kind = "Occupied"
    /\ shift < 0 /\ ~LMinOk
    /\ LET diff == LSp.offset + shift - MinSlot(LSp.key)
       IN /\ buf' = Emit(buf, Zeroes(-diff) \o LSp.data)
          /\ shift' = shift - diff
    /\ cursor' = LSp.end
    /\ UNCHANGED <<db, meta, batch, phase, ops, open, wmeta>>

\* the loop ends (shift = 0 or no space left); a space error is returned
LastFinish ==
    /\ phase = "step" /\ ops = <<>>
    /\ shift = 0 \/ LSp.kind \in {"End", "Err"}
    /\ IF shift # 0 /\ LSp.kind = "Err"
       THEN /\ phase' = "error"
            /\ UNCHANGED buf
       ELSE /\ buf' = IF shift < 0 THEN Emit(buf, Zeroes(-shift)) ELSE buf
            /\ phase' = "done"
    /\ open' = FALSE
    /\ UNCHANGED <<db, meta, batch, ops, cursor, shift, wmeta>>

-----------------------------------------------------------------------------
(* Flush::flush (flush.rs:109-121): copy every range into the data file   *)
(* in order, then replace the metadata.  A range past the end of the     *)
(* file makes the slice copy panic.                                       *)

Covering(b, o) == {r \in 1 .. Len(b) : b[r].start <= o /\ o < b[r].start + Len(b[r].data)}

ApplyWrites(f, b) ==
    [o \in Offsets |-> IF Covering(b, o) = {} THEN f[o]
                       ELSE LET r == Max(Covering(b, o)) IN b[r].data[o - b[r].start + 1]]

WithinFile(b) == \A r \in 1 .. Len(b) : b[r].start + Len(b[r].data) <= NFields

\* Faulty variant: the data is written but the metadata is not replaced.
ApplyFlushKeepMeta ==
    /\ phase = "done"
    /\ IF WithinFile(buf)
       THEN /\ db' = ApplyWrites(db, buf)
            /\ meta' = meta
            /\ phase' = "idle"
            /\ batch' = NoBatch
            /\ cursor' = 0 /\ shift' = 0 /\ buf' = <<>> /\ open' = FALSE
            /\ wmeta' = wmeta
            /\ UNCHANGED ops
       ELSE /\ phase' = "panic"
            /\ UNCHANGED <<db, meta, batch, writer>>

ApplyFlush ==
    /\ phase = "done"
    /\ IF WithinFile(buf)
       THEN /\ db' = ApplyWrites(db, buf)
            /\ meta' = wmeta
            /\ phase' = "idle"
            /\ batch' = NoBatch
            \* the writer and the flush file are dropped
            /\ cursor' = 0 /\ shift' = 0 /\ buf' = <<>> /\ open' = FALSE
            /\ wmeta' = wmeta
            /\ UNCHANGED ops
       ELSE /\ phase' = "panic"
            /\ UNCHANGED <<db, meta, batch, writer>>

Next ==
    \/ \E b \in Eras : BeginFlush(b)
    \/ InsertOperationIntoEmptySpace
    \/ InsertOperationBeforeOccupiedSpace
    \/ OverwriteOperation
    \/ DeleteOperation
    \/ SeekSpace
    \/ ShiftOccupiedSpace
    \/ FinishBackwardShift
    \/ IgnoreOperation
    \/ ConsumeEmptySpace
    \/ WriterSpaceExhausted
    \/ LastConsumeEmpty
    \/ LastShiftOccupied
    \/ LastClampOccupied
    \/ LastFinish
    \/ ApplyFlush

Spec == Init /\ [][Next]_vars

\* Every step after Flush::new starts the writer runs inside one call: the
\* loops of OperationWriter::run (step, then last_step) and, in the same
\* flush_journal call, Flush::flush.  Nothing waits, so each of them is
\* taken while it stays enabled; only BeginFlush is up to the caller.
WriterStep == Next /\ phase # "idle"

FairSpec == Spec /\ WF_vars(WriterStep)

-----------------------------------------------------------------------------
(* Properties.                                                             *)

\* While step() takes decisions, the writer's output position tracks the
\* space iterator: in an open range the next byte goes to the current
\* space offset plus shift.  Every minimum-offset check relies on this.
WritePositionTracksShift ==
    (phase = "step" /\ ops # <<>> /\ open /\ buf # <<>>)
        => buf[Len(buf)].start + Len(buf[Len(buf)].data) = SkipContinued(db, cursor) + shift

\* Every record of the data file sits at or after its prefix's slot
\* (Key::offset): find_record, which starts at the slot, can reach it.
RecordsAtOrAfterSlot ==
    phase = "idle" => \A o \in LiveOffsets(db) : MinSlot(db[o].key) <= o

\* Every record is reachable: it sits at or after its prefix's slot and no
\* Uninitialized field lies between that slot and the record, where
\* find_record would stop with NotFound.
RecordsReachable ==
    /\ RecordsAtOrAfterSlot
    /\ phase = "idle" =>
         \A o \in LiveOffsets(db) : \A u \in MinSlot(db[o].key) .. o : db[u].hdr # "U"

\* Records are in strictly ascending key order across the whole file.
RecordsSorted ==
    phase = "idle" =>
        \A o1, o2 \in LiveOffsets(db) : o1 < o2 => db[o1].key < db[o2].key

\* Every Inserted field is followed by exactly the Continued fields of its
\* value, and a Continued field never follows an Uninitialized one.
FieldsWellFormed ==
    phase = "idle" =>
        \A o \in LiveOffsets(db) :
            /\ o + FieldsOf[db[o].val] <= NFields
            /\ \A i \in 1 .. FieldsOf[db[o].val] - 1 : db[o + i] = Cont
            /\ o + FieldsOf[db[o].val] < NFields
               => db[o + FieldsOf[db[o].val]].hdr # "C"

\* metadata.occupied_bytes counts exactly the fields of the live records.
OccupiedBytesExact ==
    phase = "idle" => meta.occupied = LiveFields(db)

\* The ordered iterator yields exactly the keys present, ascending.
IterationMatches ==
    phase = "idle" =>
        RecordIter(db, meta.prefixes) = SetToSortSeq({k \in Keys : Store[k] # Absent}, <)

\* The flush writer implements the abstract store: every completed flush
\* leaves get() (prefix index, then find_record from the key's slot)
\* returning exactly the batch's values over the previous contents, and
\* no other step changes what get() returns.
KVSpec == KV!Spec

\* After a completed flush, get() finds none of the keys the era deleted.
DeletedKeysAbsent ==
    [][phase = "done" /\ phase' = "idle"
         => \A k \in DOMAIN batch : batch[k] = Absent => Store'[k] = Absent]_vars

\* A flush that has begun ends: OperationWriter's loops terminate, every
\* step consuming an operation or advancing the space iterator, and the
\* writes reach the data file, unless the process panics or errors.
FlushTerminates == (phase = "step") ~> (phase \in {"idle", "panic", "error"})

\* A flush never aborts the process.
NoPanic == phase \notin {"panic", "error"}


=============================================================================
