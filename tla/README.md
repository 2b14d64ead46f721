# TLA+ models of segurodb

segurodb (`src/segurodb/src`) is an embedded key-value store with fixed-length keys.
These modules model how it keeps its data correct: the flush of an era into the sorted data file, the journal, the flush artifact and recovery on open, compact and the collision files, the prefix tree, and the iterators.

## The system

- **Data file** (`data.db`, `space.rs`, `field/`, `record/`, `find.rs`): a sorted open-addressing table.
  - It holds fields of `field_size` bytes.
  - Each record starts with an *Inserted* field, followed by *Continued* fields; free fields are *Uninitialized*.
  - A key's prefix (`key.rs` read_prefix, the first `key_index_bits` bits) gives its slot, the lowest field it may start at.
  - Records are kept in key order. A record never sits before its slot, and no free field lies between the slot and the record.
  - `find_record` scans from the slot and stops at the key, at a larger key, or at a free field.
- **Journal** (`journal.rs`): each committed transaction is written as an era file `{n}.era` and kept in memory. `Journal::open` reads the era files back in name order.
- **Flush** (`flush/`, `database.rs` flush_journal):
  - Eras are drained from the journal.
  - `OperationWriter` turns their sorted operations into idempotent writes. These are saved as `db.flush` (`flush/writer.rs`, `flush/decision.rs`).
  - The era files are deleted.
  - `Flush::flush` copies the writes into the data file and persists the new metadata (`metadata.rs`: occupied bytes, the prefix tree of occupied prefixes, the collided prefixes).
  - `db.flush` is deleted. If `db.flush` is complete when the database opens, the writes are replayed.
- **Record and field views** (`record/`, `field/`): a record is its key, a little-endian u32 value length (variable values only) and its value. These are cut into fields of `field_body_size` bytes, each behind a one-byte header. `FieldsView` reads a window of body bytes across headers.
- **Prefix tree** (`prefix_tree.rs`): a bit heap recording which prefixes are occupied. It is persisted inside the metadata.
- **Collisions** (`collision.rs`): an append-only log per collided prefix, with an in-memory index from key to entry. `compact` moves every prefix with `max_prefix_collisions` or more keys into its own collision file. From then on, flush_journal sends that prefix's operations to the file.
- **Database** (`database.rs`) ties these together: create, open with recovery, commit, get, iter, flush_journal and compact.

## Modules

| Module | Models |
|---|---|
| `DataFile` | The data file as a function from field offsets to headers (`Uninit`, `Cont`, `Ins(key, value)`). `NextSpace` is SpaceIterator::next. `FindRecord`/`Lookup` are find_record and get's data-file path. `RecordIter` is the ordered record iterator. Pure operators, RECURSIVE where the code loops. |
| `KVStore` | The abstract promise of a flush: a batch (key ↦ value or Absent) is requested and later applied to a key-value map. |
| `FlushWriter` | One flush of one era over the data file and the metadata (see below). It refines `KVStore`. |
| `PrefixTree` | The bit heap as a function from node to bit, with these operations: insert, remove, the occupied-prefixes iterator, and the metadata round trip (`leaves`, then `from_leaves`). |
| `Journal` | The era files and the in-memory deque, across commits, flushes, crashes and opens. An era is its index. Its file name is a sequence of digits, and `Journal::open` sorts file names byte-wise as the code does. `FlushEra` is flush_journal's drain and era deletion; `FlushEraFails` is its early return through `?` (database.rs:230-251): the dropped `Drain` has removed every drained era from memory, but only the files of the eras handled before the error were deleted. |
| `Database` | The directory as create leaves it (`layout`), and the three durable things: data content, era files and `db.flush`, plus the metadata's collided prefixes and the collision files' content. flush_journal and compact are each split into the steps between which the process can crash or a file operation can fail. Open replays `db.flush`. `Iter` is `DatabaseIterator::next`, the merge of the journal and the records. |
| `Collision` | One collision file: its log as a sequence of entries, `build_index`, `get`, `insert`, `delete`, and a reopen. It includes the descriptor offset that `LogEntry::write` reports as the new entry's position. `NextFaulty` adds an insert whose `rebuild_index` fails after the write, and a delete whose tombstone write fails after the key has left the index. |
| `CollisionLog` | The same collision file at byte level: `LogEntry::write`/`write_deleted` append key size, key, value size (`!0` for a tombstone) and value; `LogEntry::read` and `LogIterator` read them back and panic where a slice runs past the end; the index holds byte offsets; `get` reads from the mapping of the last rebuild. `NextFaulty` has the failures of `Collision`; `NextPartial` adds writes that stop after any byte. It refines `Collision`: the mapping reads the file into entries and turns offsets into entry numbers. |
| `RecordCodec` | The bytes of one record: `append_record` (RawRecordIterator and RecordIterator, headers every `field_size` bytes) and the `FieldsView` readers over them: `split_at`, `raw_slice`, `copy_to_slice`, comparison with a slice (the `on_body_slice` chunks), the `Bytes` iterator, and `Record::new`/`extract_key`. Data is a sequence of byte values. The state is one written record and a `Bytes` iterator walking its value. `Init` writes values of the options' length. `InitUncheckedValueLen` writes any length under a constant size, as `Transaction::insert` allows. |
| `EraBatches` | What a transaction and the journal promise: a batch is a partial function from keys to `{v}` (insert) or `{}` (delete), a later operation on a key replaces an earlier one, the journal is the sequence of committed batches, and a read answers from the newest batch touching the key. |
| `TransactionLog` | `transaction.rs` and the journal's readings of an era: `write_to_buf`/`read_from_buf` on byte sequences, `OperationsIterator`, the era cache (`cache_memory`), `JournalEra::operations`, `Journal::get`, `Journal::iter`, `drain_front`. Each era is its bytes and the cache `JournalEra::open` built. It refines `EraBatches`. |
| `MC*` | Constants for TLC. |

`Database` sits on top of the other modules. It treats the data file as its content: `FlushWriter`'s `KVSpec` shows that a flush computed by `OperationWriter` applies the era to that content. It treats a collision file as its decoded content; `Collision` checks the log and the index, and `CollisionLog` shows that the file's bytes implement `Collision`. Era naming follows `Journal`. `Database` commits an era as a batch (key ↦ value or Absent). `TransactionLog` shows that the encoded transaction and the era's cache, operations, get and iter implement exactly such batches, by refining `EraBatches`.

### Offsets are counted in fields

Every offset, length and shift in the writer is a multiple of `field_size`. So a field is one element. A value is given by the number of fields `append_record` uses for it (`FieldsOf`). With the default options (constant value size) every record is one field.

### How FlushWriter's state maps to the code

| Variable | Code |
|---|---|
| `db` | the data file |
| `meta` | persisted `Metadata` (occupied bytes, occupied prefixes) |
| `batch` | the era being flushed (the refinement's request) |
| `ops` | the sorted operations still to do (`OperationWriter::operations`) |
| `cursor` | `SpaceIterator::offset` |
| `shift` | `OperationWriter::shift`, in fields |
| `buf` | `OperationBuffer`: the idempotent writes, each `[start, data]` |
| `open` | whether an operation has been denoted but not finished |
| `wmeta` | the writer's copy of the metadata |
| `phase` | idle / step / last / done / panic / error |

Actions:
- `Decided(d)` computes `decision()` (decision.rs:119-210) on the peeked space and the next operation.
- Each arm of `step()` has its own action: `InsertOperationIntoEmptySpace`, `InsertOperationBeforeOccupiedSpace`, `OverwriteOperation`, `SeekSpace`, `IgnoreOperation`, `ConsumeEmptySpace`, `ShiftOccupiedSpace`, `FinishBackwardShift`, `DeleteOperation`. Each action includes the metadata updates (`InsertRecord`, `RemoveRecord`, `UpdateRecordLen`: `Metadata::insert_record`, `remove_record`, `update_record_len`) and the `denote`/`finish` calls of its arm.
- `WriterSpaceExhausted` is the `expect` at writer.rs:160 (or an invalid header).
- `LastConsumeEmpty`, `LastShiftOccupied`, `LastClampOccupied` and `LastFinish` are the iterations of `last_step()`.
- `ApplyFlush` is `Flush::flush`: the writes are copied in order, and a range past the end of the file panics.
- `BeginFlush(b)` is `Flush::new` with the sorted era.

`FlushWriter` instantiates `KVStore` with `store <- Store` (the value `get` returns for each key) and `request <- batch`. The run checks `KVSpec`, so every completed flush must be exactly the abstract batch application.

### How Database's steps map to the code

| Action | Code |
|---|---|
| `CreateDataFile`, `CreateNext` | `Database::create`: the lock, then `create_new` and `set_len` of `data.db`, then of `meta.db`. `layout` records how far it got |
| `CreateFails` | create dies, or one of its file operations fails and it returns the error. The files made so far stay |
| `Commit(b)` | `Database::commit`: `Journal::push` writes the era file, then keeps the era in memory. Era ids count from 0, as `next_era_index` does |
| `FlushJournal(n)` | `flush_journal`: drain all eras except the last `journal_eras` |
| `WriteFlush` / `WriteFlushFails` | one drained era. Collided operations go to `Collision::apply`; the rest go through `Flush::new`, which writes `db.flush`. When `Flush::new` fails, all the collided operations were applied first; when a `Collision::apply` fails, the ones before it were applied (any subset, since the era iterates a HashMap) |
| `DeleteEra` / `DeleteEraFails` | `JournalEra::delete` of that era's file |
| `ApplyFlush` | `Flush::flush`: data and metadata |
| `DeleteFlush` / `DeleteFlushFails` | `Flush::delete` |
| `CompactStart` | compact picks the prefixes with `max_prefix_collisions` or more keys |
| `CreateCollisionFiles` / `...Fails` | `Collision::create` (create_new) and the inserts |
| `WriteCompactFlush`, `PersistCollided`, `ApplyCompactFlush` | the rest of compact: the deleting flush, the collided prefixes and their application |
| `DeleteCompactFlush` / `DeleteCompactFlushFails` | the syncs and `Flush::delete`; on success the new collision files join the collisions index `cindex` (`Database::collisions`), on failure compact returns before that |
| `Abort` | a step that returned an error. The drained eras are dropped from memory and compact's work is dropped |
| `Crash`, `CrashInWriteFlush` | the process dies. Memory is lost, the files stay. In `CrashInWriteFlush`, `db.flush` is cut short |
| `OpenCrashInReplay` | the process dies while open replays `db.flush`: some keys already hold their new value, the metadata is still the old image, and `db.flush` stays |
| `Open` | `Database::open`, and the `open_internal` that ends create. It needs a whole `layout`: mapping a missing or empty `data.db` or `meta.db` fails and changes nothing. A cut-short `db.flush` is `CorruptedFlush`. A complete one is replayed. Then the journal is reloaded |

`committed` is the promise of the acknowledged commits. The properties compare the on-disk and in-memory state with it.

## Runs

| Run | Config | Result | Shows |
|---|---|---|---|
| flush_inserts | `MCFlushWriter.cfg` | pass | Insert and overwrite eras keep the file sorted, reachable and well formed, keep `occupied_bytes` exact, keep iteration equal to the store, and refine `KVStore`. |
| flush_all_eras | `MCFlushWriterAll.cfg` | pass | With deletes, the write position stays in step with offset+shift. |
| delete_absent_panics | `MCFlushWriterPanic.cfg` | violation | Finding: deleting an absent key after a delete consumes empty fields until writer.rs:160 panics. |
| finish_shift_loses_key | `MCFlushWriterRefine.cfg` | violation | Finding: FinishBackwardShift leaves an inserted key behind a free field at its slot, where get() misses it. |
| prefix_tree | `MCPrefixTree.cfg` | pass | At `key_index_bits = 3`: inner bits stay consistent, iteration is in order, and reopening preserves the prefixes. |
| journal | `MCJournal.cfg` | pass | With era indices up to 11, and flushes that succeed or return early through an error, a running journal holds the newest complete era files on disk in order without gaps (files a failed flush left behind are older than all of them), and a new era's name is always fresh. |
| database_crash | `MCDatabase.cfg` | pass | From create, made file by file, and under a crash at every step of flush_journal and compact and during open's replay of `db.flush`, the files recover to the acknowledged commits. Every collided prefix has its file, no key is both in the data file and in a collision file, and `iter` yields exactly the committed pairs in key order. Between calls every collided prefix is in the collisions index. |
| database_flush_errors | `MCDatabaseErrors.cfg` | pass | Whatever file operation fails, an era file is deleted only while a complete `db.flush` carrying it is on disk. |
| collision | `MCCollisionLog.cfg` | pass | At byte level, across inserts, deletes and reopens, also when an insert's `rebuild_index` or a delete's tombstone write fails: the file reads back as whole entries, every offset in the index holds a live entry of its key (so `get`'s assert and the `expect`s of `get` and the iterator never fire), and the bytes refine `Collision`. |
| record_codec | `MCRecordCodec.cfg` | pass | For key lengths 1-2, value lengths 0-4, constant and variable values and every field body size `Options` can produce, a written record reads back through `Record::new`, `extract_key`, `copy_to_slice`, slice comparison and `raw_slice`, across headers at every alignment. |
| transaction_log | `MCTransactionLog.cfg` | pass | Encoded transactions and the journal refine `EraBatches`: every operation reads back from the bytes, and a later operation on a key wins. Each era's operations (what flush applies) equal its cache (what get reads), and `Journal::get` and `Journal::iter` both answer from the newest era touching the key. |
| collision_insert_after_reopen | `MCCollisionLost.cfg` | violation | Finding: after a reopen, an insert is recorded at position 0, and a later write is skipped and lost. |

Further configs reproduce hazards listed in `PROJECT.json`. Each is violated as stated:

| Config | Property | Shows |
|---|---|---|
| `MCFlushWriterOverwrite.cfg` | `RecordsAtOrAfterSlot` | An overwrite during a backward shift lands below the key's slot (decision.rs:154). |
| `MCFlushWriterWideShrink.cfg` | `RecordsAtOrAfterSlot` | last_step skips an empty field without adjusting the shift (writer.rs:105). |
| `MCFlushWriterWideDelete.cfg` | `DeletedKeysAbsent` | A delete of a present key is ignored (decision.rs:186). |
| `MCPrefixTreeSmall.cfg` | `NoPanic` | At `key_index_bits = 2`, which `Options` accepts, reopening panics in `from_leaves` (prefix_tree.rs:98). |
| `MCDatabaseErrorReplay.cfg` | `DurableStateRecovers` | An error in flush_journal drops drained eras from memory. Their files stay, and a later flush and reopen replays an old era over newer data (database.rs:212). |
| `MCDatabaseCompactCrash.cfg` | `CollidedIffFile` | A crash or error in compact after `Collision::create` leaves a collision file the metadata does not know of. Every later compact then fails with AlreadyExists (collision.rs:82). |
| `MCJournalEraMissing.cfg` | `NoEraMissing` | Once `9.era` and `10.era` coexist, `Journal::open` fails with JournalEraMissing (journal.rs:180). |
| `MCDatabaseCreateCrash.cfg` | `CreateLeavesUsable` | create dies or fails after `data.db` exists and before `meta.db` is whole. Every later create fails with AlreadyExists, and every open fails (database.rs:117-134). |
| `MCDatabaseGet.cfg` | `GetReturnsCommitted` | get returns a flushed value for a key whose latest commit, still journaled, deletes it (database.rs:265). |
| `MCCollisionDeleteFails.cfg` | `LogHoldsApplied` | Under `NextFaulty`: an insert whose `rebuild_index` fails leaves its entry in the file but not in the index. The next delete of the key then finds nothing to delete and writes no tombstone, so the value survives a successful delete and every reopen (collision.rs:140, 155). |
| `MCRecordCodecConstLen.cfg` | `ReadBackWritten` | Under `InitUncheckedValueLen`: with `ValuesLen::Constant`, a value of another length is appended as it is, and `Record::new` reads back the constant's number of bytes (transaction.rs:107). |
| `MCRecordCodecBytes.cfg` | `BytesYieldValue` | The `Bytes` iterator over a record's value yields key, length and header bytes (field/view.rs:209). |
| `MCDatabaseCompactIndex.cfg` | `CollidedIndexed` | With `IoErrors`: a sync or `Flush::delete` after `flush.flush` fails. The prefix is collided in memory but never enters the collisions index, so the next get or flush of it panics (database.rs:433). |
| `MCCollisionLogTorn.cfg` | `LogReadable` | Under `NextPartial`: a write that fails after its first byte leaves a torn entry, and nothing truncates it. Every later `rebuild_index` and every `Collision::open` slices past the end in `LogEntry::read` and panics (collision.rs:311-323). |
| `MCCollisionReopen.cfg` | `GetReturnsApplied` | After a reopen, an insert of a different key from the one in the first entry fails the assert in `Collision::insert` (collision.rs:145). |

## Findings

1. `flush/decision.rs:181`: the writer panics when a batch deletes an absent key after a delete.
2. `flush/writer.rs:216`: FinishBackwardShift can leave a key unreachable.
3. `journal.rs:180`: era files are sorted as strings, so the database does not reopen after era 10.
4. `database.rs:265`: get ignores a journaled delete.
5. `collision.rs:299`: after `Collision::open`, the O_APPEND descriptor reports offset 0. The first insert therefore indexes the log's first entry. With the same key this gives stale reads and a lost write; with another key it panics.
6. `field/view.rs:209`: `Bytes::next` decides where a header is from the view's logical offset as if it were a raw data offset. Over a record's value (offset `key_len`, plus 4 for variable values) it yields wrong bytes, and at offset 0 it goes wrong after the first `field_body_size` fields. `FieldsView == FieldsView` uses it, and so does the derived `PartialEq` of `Record` and `Value::Record` that `Database::iter` yields (database.rs:27, 347).
7. `collision.rs:140, 155`: when a file operation fails inside `Collision::insert` (after the write) or `Collision::delete` (after `index.remove`), the index and the file disagree. The next apply of the key trusts the index and skips a write it needed.
8. `database.rs:433`: when a sync or `Flush::delete` fails after `flush.flush` in compact, the metadata already marks the new prefixes collided but their collision files never join the collisions index; `get` and `flush_journal` on such a prefix then panic on its `expect`.

9. `collision.rs:297-304, 314`: `LogEntry::write` appends an entry in four writes and nothing undoes a partial one. After a short write (a full disk) or a crash in the middle, every later insert or delete of the prefix, and every open of the database, panics in `build_index`.

10. `database.rs:117-134`: `Database::create` makes `data.db` and then `meta.db`, and nothing removes a partial result. A crash, or an error such as a full disk at `set_len`, in between leaves a directory that neither create (AlreadyExists at `data.db`) nor open (mapping the missing or empty file) accepts again, until its files are removed by hand.

11. `transaction.rs:103-113`: `Transaction::insert` checks the key's length but not the value's. Under `ValuesLen::Constant(c)`, a value of another length is written by `append_record` with its own length, and `Record::new` reads back `c` bytes. A shorter value comes back padded with zeroes, and a longer one is cut short. The smallest case is an empty value with `Constant(1)`, which `get` returns as `[0]`.

Findings 3, 4, 6, 7, 8, 9, 10 and 11 are kept as reproduction configs, not runs (see above). `PROJECT.json` has the traces and reasoning of findings 1, 2 and 5 under `findings`, and its `hazards` name the reproduction config for the others.

## Bounds

- `key_index_bits = 1` is the smallest value `Options` allows. It gives 8 fields and 2 slots. With 3-4 keys sharing those slots, this already produces clusters, shifts in both directions and the file end.
- Gaps between clusters need more slots than the era can fill. The `Wide` models therefore use `key_index_bits = 2` (16 fields).
- Two value sizes (1 and 2 fields) let an overwrite change a record's length. The all-eras run uses one-field values (the default, constant value size) to stay within minutes.
- A wrong flush can grow `occupied_bytes` without limit. `MCFlushWriterAll` therefore bounds it with the `OccupiedBound` state constraint at the file size. The properties it checks do not depend on that counter.
- `MCPrefixTree` uses `key_index_bits = 3`: 8 prefixes, the smallest tree whose leaves start on a byte boundary, with every subset of prefixes reachable.
- `MCJournal` allows era indices 0..11, so both one-digit and two-digit file names occur.
- `MCDatabase`: three keys, two of them sharing prefix 0, two values, `max_prefix_collisions = 2`, two commits and `journal_eras = 0`. That is enough to make prefix 0 collide, to commit to it after compact, and to crash at every step in between. Larger bounds (3 commits) ran to 11.7M states without new behaviour.
- `MCCollisionLog`: two one-byte keys, an empty and a two-byte value (so entries have different lengths and offsets), and five log entries. That covers compact's inserts, a reopen, and two more writes. The reading of the file into entries is kept in a variable beside it (`entries`), so the refinement mapping does not parse the bytes again on every step.
- `MCRecordCodec`: keys of 1-2 bytes, values of 0-4 bytes over two byte values, `expected` 0 or 1. Field body sizes therefore run from 1 to 7, so reads start inside a field, cross one to several headers, and end on and off a field boundary. Both the constant and the variable layout occur.
- `MCTransactionLog`: one-byte keys over two byte values, values of 0, 1 and 2 bytes, up to two operations per transaction and two eras. A transaction can touch a key twice, two eras can touch the same key, and the lengths vary so every offset in `read_from_buf` moves. The refinement mapping reads each transaction's batch from a table computed once over all encodings of at most two operations (`Staged`).
- Deadlock is checked where the system never stops. It is turned off (with a comment in the cfg) where a panic, an open error or a full bound really stops it.

## Fairness

Most properties are safety properties. Flush, compact and open are calls the user makes, and no background thread retries them, so nothing forces the database to take them.

One liveness property is checked. Once a flush has started, `OperationWriter::run` (flush/writer.rs:239) loops `while let Stepped = self.step()? {}` in a single call, with no wait and no external event. So `FlushWriter` defines `FairSpec == Spec /\ WF_vars(WriterStep)`, where `WriterStep` is any writer step while a flush is in progress. `flush_inserts` checks `FlushTerminates` under it: a started flush ends, whether done, panicked or with an error. Starting a flush gets no fairness.

## Not modelled

- The little-endian bytes of the metadata's `db_version` and `occupied_bytes` (the prefix trees' leaf bytes are `PrefixTree`'s round trip), and the era file's sha3 checksum (a checksum mismatch is `Journal`'s `partial` era). Outside `RecordCodec`, data is abstracted to keys and values. `RecordCodec` checks one record at a time, not a whole data file.
- A torn era file is modelled only as `Journal`'s `partial` era, which open rejects.
- Several `Database` handles or threads. The API takes `&mut self`, so calls do not overlap. The `LOCK` file's exclusive lock appears only as its effect: open and create start only while no handle is open (`up = "down"`). A second open while one runs returns DatabaseLocked and changes nothing, and a handle that fails or dies releases the lock.
- Power loss. `File::flush` after `set_len` does not sync, and the model's crash is the process's: what was written stays.
- Three error paths, where the model takes a simpler outcome than the code:
  - `FlushWriter`'s `Store` and `DataFile`'s `Lookup` read a prefix past the end of the file as Absent. The code's get hits `unimplemented!()` there (database.rs:294).
  - `FlushWriter`'s `ApplyFlush` panics on a write range past the end of the data file without applying the earlier ranges. `Flush::flush` copies those first (flush.rs:114-116). After the panic, nothing in the model reads the file.
  - `PersistCollided` has no failing step for `metadata_mmap.flush()?` (database.rs:429). The failing syncs after it are `DeleteCompactFlushFails`.
- `Journal`'s `PushCrash` stands for every failure inside `JournalEra::create` after `create_new`. Each of them leaves an era file that open rejects as `CorruptedJournal`.
- The CLI and the benchmarks.

`PROJECT.json` lists every component with its status, and every hazard with the properties that cover it.
