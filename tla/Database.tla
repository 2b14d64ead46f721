------------------------------ MODULE Database ------------------------------
(***************************************************************************)
(* database.rs: commit, flush_journal, get and open over the three things *)
(* on disk: the data file, the journal's era files and the flush artifact *)
(* db.flush.  The data file is its key -> value content: FlushWriter      *)
(* shows that a flush computed by OperationWriter implements applying the *)
(* era to that content (KVSpec), and this module composes such flushes   *)
(* with the journal, crashes, replay on open and I/O errors, and with     *)
(* compact, which spills a prefix holding too many keys to its collision  *)
(* file.  Era naming is Journal's.                                         *)
(***************************************************************************)
EXTENDS Integers, Sequences, FiniteSets, SequencesExt

CONSTANTS
    Keys, Vals,
    PrefixSpace,      \* key prefixes (the first key_index_bits of a key)
    PrefixOf,      \* [Keys -> PrefixSpace]: Key::new(key, bits).prefix
    MaxPrefixCollisions, \* options.max_prefix_collisions
    Absent,        \* no value: a Delete, or a key never written
    NoFlush,       \* no db.flush on disk
    NoFile,        \* no collision-{prefix}.log on disk
    JournalEras,   \* options.journal_eras
    MaxCommits,    \* bound on commits
    IoErrors       \* whether file operations may fail

ASSUME IoErrors \in BOOLEAN

VARIABLES
    data,       \* the data file's content, [Keys -> Vals \cup {Absent}]
    files,      \* era files on disk, oldest first: [id, ops]
    mem,        \* Journal::eras in memory
    drained,    \* eras drained by the running flush_journal, not yet done
    flush,      \* db.flush: NoFlush or [target, collided, complete]
    collided,   \* metadata.collided_prefixes, as meta.db holds it
    cfiles,     \* collision files: [PrefixSpace -> NoFile or key -> value]
    work,       \* the prefixes the running compact spills
    pc,         \* where flush_journal or compact is
    up,         \* running, down, or the error open returned
    commits,    \* number of commits so far
    committed,  \* what the acknowledged commits promise get returns
    cindex,     \* Database::collisions: prefixes with an open Collision
    layout      \* data.db and meta.db, as far as Database::create made them

vars == <<data, files, mem, drained, flush, collided, cfiles, work, pc, up,
          commits, committed, cindex, layout>>

Store == [Keys -> Vals \cup {Absent}]

\* the files create makes, in its order: none, an empty data.db, data.db
\* of initial_db_size, an empty meta.db beside it, meta.db of its length
Layouts == {"absent", "dataEmpty", "dataSized", "metaEmpty", "whole"}

\* a transaction after hash-map replace: Insert(v) is v, Delete is Absent
Batches == UNION {[D -> Vals \cup {Absent}] : D \in SUBSET Keys}

\* an era's id is the next_era_index Journal::push gives it, from 0
Era == [id : 0 .. MaxCommits - 1, ops : Batches]

ApplyBatch(s, b) == [k \in Keys |-> IF k \in DOMAIN b THEN b[k] ELSE s[k]]

RECURSIVE ApplyEras(_, _)
ApplyEras(s, es) == IF es = <<>> THEN s ELSE ApplyEras(ApplyBatch(s, Head(es).ops), Tail(es))

TypeOK ==
    /\ data \in Store
    /\ files \in Seq(Era) /\ mem \in Seq(Era) /\ drained \in Seq(Era)
    /\ flush \in {NoFlush} \cup [target : Store, collided : SUBSET PrefixSpace,
                                 complete : BOOLEAN]
    /\ collided \subseteq PrefixSpace /\ work \subseteq PrefixSpace
    /\ cfiles \in [PrefixSpace -> {NoFile} \cup Store]
    /\ pc \in {"idle", "new", "written", "erased", "applied",
              "collide", "cnew", "cwritten", "cpersisted", "capplied"}
    /\ up \in {"running", "down", "creating", "CorruptedFlush"}
    /\ commits \in 0 .. MaxCommits
    /\ committed \in Store
    /\ cindex \subseteq PrefixSpace
    /\ layout \in Layouts

-----------------------------------------------------------------------------
(* Database::get: Journal::get walks the eras newest first and returns    *)
(* the value of the first Insert it meets, None for a Delete; on None get *)
(* goes on to the collision file of a collided prefix, else the data file.*)

RECURSIVE JournalGet(_, _)
JournalGet(es, k) ==
    IF es = <<>> THEN Absent
    ELSE LET e == es[Len(es)] IN
         IF k \in DOMAIN e.ops THEN e.ops[k]
         ELSE JournalGet(SubSeq(es, 1, Len(es) - 1), k)

\* whether an era in es holds an operation on k
JournalHas(es, k) == \E i \in 1 .. Len(es) : k \in DOMAIN es[i].ops

\* the value the data file, or the collision file of a prefix in c, holds
Stored(d, c, k) ==
    IF PrefixOf[k] \in c
    THEN IF cfiles[PrefixOf[k]] = NoFile THEN Absent ELSE cfiles[PrefixOf[k]][k]
    ELSE d[k]

Get(k) == IF JournalGet(mem, k) # Absent THEN JournalGet(mem, k)
          ELSE Stored(data, collided, k)

\* the part of a batch on keys whose prefix is (or is not) in c
OpsIn(b, c) == [k \in {k \in DOMAIN b : PrefixOf[k] \in c} |-> b[k]]
OpsNotIn(b, c) == [k \in {k \in DOMAIN b : PrefixOf[k] \notin c} |-> b[k]]

\* Collision::apply of each collided operation: insert appends the value,
\* delete appends a tombstone
\* (a file is its decoded content here; the log, its index and the
\* descriptor's offset after a reopen are modelled in Collision)
ApplyCollided(b) ==
    [p \in PrefixSpace |-> IF p \in collided /\ cfiles[p] # NoFile
                        THEN ApplyBatch(cfiles[p], OpsIn(b, {p}))
                        ELSE cfiles[p]]

\* Database::collisions: the prefixes of data-file records counted by prefix,
\* kept when max_prefix_collisions or more
Collisions(d) ==
    {p \in PrefixSpace :
        Cardinality({k \in Keys : PrefixOf[k] = p /\ d[k] # Absent})
            >= MaxPrefixCollisions}

-----------------------------------------------------------------------------
Init ==
    /\ data = [k \in Keys |-> Absent]
    /\ files = <<>> /\ mem = <<>> /\ drained = <<>>
    /\ flush = NoFlush
    /\ collided = {}
    /\ cfiles = [p \in PrefixSpace |-> NoFile]
    /\ work = {}
    /\ pc = "idle"
    /\ up = "down"
    /\ commits = 0
    /\ committed = [k \in Keys |-> Absent]
    /\ cindex = {}
    /\ layout = "absent"

(* Database::create: create_dir_all and the lock, then data.db with     *)
(* create_new and set_len(initial_db_size), then meta.db with create_new *)
(* and set_len(metadata::bytes::len), then open_internal.  A create_new  *)
(* that meets an existing file returns AlreadyExists before any change.  *)

\* the file create makes next from each layout, and what it is then
CreateStep == ("absent" :> "dataEmpty") @@ ("dataEmpty" :> "dataSized")
              @@ ("dataSized" :> "metaEmpty") @@ ("metaEmpty" :> "whole")

CreateDataFile ==
    /\ up = "down" /\ layout = "absent"
    /\ up' = "creating"
    /\ layout' = CreateStep[layout]
    /\ UNCHANGED <<data, files, mem, drained, flush, collided, cfiles, work, pc,
                   commits, committed, cindex>>

\* set_len of data.db, create_new of meta.db, set_len of meta.db
CreateNext ==
    /\ up = "creating" /\ layout \in {"dataEmpty", "dataSized", "metaEmpty"}
    /\ layout' = CreateStep[layout]
    /\ UNCHANGED <<data, files, mem, drained, flush, collided, cfiles, work, pc,
                   up, commits, committed, cindex>>

\* the process dies inside create, or one of its file operations fails
\* and create returns the error: the files made so far stay
CreateFails ==
    /\ up = "creating"
    /\ up' = "down"
    /\ UNCHANGED <<data, files, mem, drained, flush, collided, cfiles, work, pc,
                   commits, committed, cindex, layout>>

\* commit: Journal::push writes the era file, then keeps it in memory
Commit(b) ==
    /\ up = "running" /\ pc = "idle"
    /\ commits < MaxCommits
    /\ LET e == [id |-> commits, ops |-> b] IN
       /\ files' = Append(files, e)
       /\ mem' = Append(mem, e)
    /\ commits' = commits + 1
    /\ committed' = ApplyBatch(committed, b)
    /\ UNCHANGED <<data, drained, flush, collided, cfiles, work, pc, up, cindex, layout>>

\* what neither flush_journal's nor compact's steps touch
Fixed == UNCHANGED <<up, commits, committed, cindex, layout>>

\* a flush that drains the newest eras
FlushJournalFromBack(n) ==
    /\ up = "running" /\ pc = "idle"
    /\ Len(mem) >= JournalEras
    /\ n \in 1 .. Len(mem) - JournalEras
    /\ drained' = SubSeq(mem, Len(mem) - n + 1, Len(mem))
    /\ mem' = SubSeq(mem, 1, Len(mem) - n)
    /\ pc' = "new"
    /\ UNCHANGED <<data, files, flush, collided, cfiles, work>> /\ Fixed

\* flush_journal(max): drain_front(min(len - journal_eras, max))
FlushJournal(n) ==
    /\ up = "running" /\ pc = "idle"
    /\ Len(mem) >= JournalEras
    /\ n \in 1 .. Len(mem) - JournalEras
    /\ drained' = SubSeq(mem, 1, n)
    /\ mem' = SubSeq(mem, n + 1, Len(mem))
    /\ pc' = "new"
    /\ UNCHANGED <<data, files, flush, collided, cfiles, work>> /\ Fixed

\* an error leaves flush_journal or compact: the Drain is dropped with the
\* eras left in it
Abort ==
    /\ drained' = <<>> /\ work' = {}
    /\ pc' = "idle"

\* a flush that sends every operation to the data file
WriteFlushNoPartition ==
    /\ up = "running" /\ pc = "new"
    /\ flush = NoFlush
    /\ flush' = [target |-> ApplyBatch(data, Head(drained).ops),
                 collided |-> collided, complete |-> TRUE]
    /\ pc' = "written"
    /\ UNCHANGED <<data, files, mem, drained, collided, cfiles, work>> /\ Fixed

\* the era partitioned: collided operations go to Collision::apply, then
\* Flush::new runs OperationWriter over the rest and create_new's db.flush
WriteFlush ==
    /\ up = "running" /\ pc = "new"
    /\ flush = NoFlush
    /\ cfiles' = ApplyCollided(Head(drained).ops)
    /\ flush' = [target |-> ApplyBatch(data, OpsNotIn(Head(drained).ops, collided)),
                 collided |-> collided, complete |-> TRUE]
    /\ pc' = "written"
    /\ UNCHANGED <<data, files, mem, drained, collided, work>> /\ Fixed

\* Flush::new fails after every collided operation was applied: its
\* create_new meets a db.flush left behind, or I/O fails; or I/O fails in
\* the Collision::apply of one operation, after those the loop applied
\* before it (the era's iteration order is a HashMap's, so any subset)
WriteFlushFails ==
    /\ up = "running" /\ pc = "new"
    /\ LET b == Head(drained).ops IN
       \/ flush # NoFlush /\ cfiles' = ApplyCollided(b)
       \/ IoErrors /\ \E K \in SUBSET DOMAIN b : cfiles' = ApplyCollided(Restrict(b, K))
    /\ Abort
    /\ UNCHANGED <<data, files, mem, flush, collided>> /\ Fixed

\* era.delete() moved before Flush::new
DeleteEraEarly ==
    /\ up = "running" /\ pc \in {"new", "written"}
    /\ files' = SelectSeq(files, LAMBDA e : e.id # Head(drained).id)
    /\ pc' = IF pc = "written" THEN "erased" ELSE pc
    /\ UNCHANGED <<data, mem, drained, flush, collided, cfiles, work>> /\ Fixed

\* era.delete()
DeleteEra ==
    /\ up = "running" /\ pc = "written"
    /\ files' = SelectSeq(files, LAMBDA e : e.id # Head(drained).id)
    /\ pc' = "erased"
    /\ UNCHANGED <<data, mem, drained, flush, collided, cfiles, work>> /\ Fixed

DeleteEraFails ==
    /\ up = "running" /\ pc = "written"
    /\ IoErrors
    /\ Abort
    /\ UNCHANGED <<data, files, mem, flush, collided, cfiles>> /\ Fixed

\* a flush.flush() whose writes never reach the data file
ApplyFlushNoData ==
    /\ up = "running" /\ pc = "erased"
    /\ pc' = "applied"
    /\ UNCHANGED <<data, files, mem, drained, flush, collided, cfiles, work>>
    /\ Fixed

\* flush.flush(): the idempotent writes and the metadata image
ApplyFlush ==
    /\ up = "running" /\ pc = "erased"
    /\ data' = flush.target
    /\ collided' = flush.collided
    /\ pc' = "applied"
    /\ UNCHANGED <<files, mem, drained, flush, cfiles, work>> /\ Fixed

\* mmap.flush() and flush.delete(); the loop goes on with the next era
DeleteFlush ==
    /\ up = "running" /\ pc = "applied"
    /\ flush' = NoFlush
    /\ drained' = Tail(drained)
    /\ pc' = IF Tail(drained) = <<>> THEN "idle" ELSE "new"
    /\ UNCHANGED <<data, files, mem, collided, cfiles, work>> /\ Fixed

DeleteFlushFails ==
    /\ up = "running" /\ pc = "applied"
    /\ IoErrors
    /\ Abort
    /\ UNCHANGED <<data, files, mem, flush, collided, cfiles>> /\ Fixed

(* compact(): collisions() buckets the data file's records by prefix;     *)
(* for each prefix kept, in prefix order, Collision::create (create_new)  *)
(* and an insert of get(key) for each of its keys; then Flush::new of     *)
(* their deletions with a cloned metadata that has them collided; then    *)
(* that metadata persisted; then flush.flush, flush.delete and the        *)
(* collisions index.  With no prefix kept the steps write nothing.        *)

\* compact with the metadata persisted before the collision files exist
CompactStartPersisting ==
    /\ up = "running" /\ pc = "idle"
    /\ Collisions(data) # {}
    /\ work' = Collisions(data)
    /\ collided' = collided \cup Collisions(data)
    /\ pc' = "collide"
    /\ UNCHANGED <<data, files, mem, drained, flush, cfiles>> /\ Fixed

CompactStart ==
    /\ up = "running" /\ pc = "idle"
    /\ Collisions(data) # {}
    /\ work' = Collisions(data)
    /\ pc' = "collide"
    /\ UNCHANGED <<data, files, mem, drained, flush, collided, cfiles>> /\ Fixed

\* the collision file compact writes for p: the value get gives each of
\* p's keys in the data file
Content(p) ==
    [k \in Keys |-> IF PrefixOf[k] = p /\ data[k] # Absent THEN Get(k) ELSE Absent]

\* collision files of work already on disk: create_new fails on the first
Existing == {p \in work : cfiles[p] # NoFile}

CreateCollisionFiles ==
    /\ up = "running" /\ pc = "collide"
    /\ Existing = {}
    /\ cfiles' = [p \in PrefixSpace |-> IF p \in work THEN Content(p) ELSE cfiles[p]]
    /\ pc' = "cnew"
    /\ UNCHANGED <<data, files, mem, drained, flush, collided, work>> /\ Fixed

\* the files of the prefixes before the first existing one are made, then
\* compact returns the AlreadyExists error
CreateCollisionFilesFails ==
    /\ up = "running" /\ pc = "collide"
    /\ Existing # {}
    /\ cfiles' = [p \in PrefixSpace |->
                    IF p \in work /\ p < Min(Existing) THEN Content(p) ELSE cfiles[p]]
    /\ Abort
    /\ UNCHANGED <<data, files, mem, flush, collided>> /\ Fixed

\* Flush::new of the deletions, metadata with the prefixes collided
WriteCompactFlush ==
    /\ up = "running" /\ pc = "cnew"
    /\ flush = NoFlush
    /\ flush' = [target |-> [k \in Keys |-> IF PrefixOf[k] \in work THEN Absent
                                             ELSE data[k]],
                 collided |-> collided \cup work, complete |-> TRUE]
    /\ pc' = "cwritten"
    /\ UNCHANGED <<data, files, mem, drained, collided, cfiles, work>> /\ Fixed

WriteCompactFlushFails ==
    /\ up = "running" /\ pc = "cnew"
    /\ flush # NoFlush \/ IoErrors
    /\ Abort
    /\ UNCHANGED <<data, files, mem, flush, collided, cfiles>> /\ Fixed

\* metadata.as_bytes().copy_to_slice(metadata_mmap); metadata_mmap.flush()
PersistCollided ==
    /\ up = "running" /\ pc = "cwritten"
    /\ collided' = collided \cup work
    /\ pc' = "cpersisted"
    /\ UNCHANGED <<data, files, mem, drained, flush, cfiles, work>> /\ Fixed

ApplyCompactFlush ==
    /\ up = "running" /\ pc = "cpersisted"
    /\ data' = flush.target
    /\ collided' = flush.collided
    /\ pc' = "capplied"
    /\ UNCHANGED <<files, mem, drained, flush, cfiles, work>> /\ Fixed

\* a compact that never adds its collision files to the collisions index
DeleteCompactFlushNoIndex ==
    /\ up = "running" /\ pc = "capplied"
    /\ flush' = NoFlush
    /\ work' = {}
    /\ pc' = "idle"
    /\ UNCHANGED <<data, files, mem, drained, collided, cfiles>> /\ Fixed

\* mmap.flush(), metadata_mmap.flush() and flush.delete(), then the
\* collision files join the collisions index
DeleteCompactFlush ==
    /\ up = "running" /\ pc = "capplied"
    /\ flush' = NoFlush
    /\ work' = {}
    /\ pc' = "idle"
    /\ cindex' = cindex \cup work
    /\ UNCHANGED <<data, files, mem, drained, collided, cfiles, up, commits, committed, layout>>

\* one of the syncs or flush.delete() fails: flush.flush has already put
\* the prefixes in self.metadata's collided prefixes, db.flush stays on
\* disk, and compact returns before the collisions index is updated
DeleteCompactFlushFails ==
    /\ up = "running" /\ pc = "capplied"
    /\ IoErrors
    /\ Abort
    /\ UNCHANGED <<data, files, mem, flush, collided, cfiles>> /\ Fixed

-----------------------------------------------------------------------------
\* the process exits or dies: memory is lost, the files stay
Crash ==
    /\ up = "running"
    /\ up' = "down"
    /\ mem' = <<>> /\ drained' = <<>> /\ work' = {} /\ pc' = "idle"
    /\ cindex' = {}
    /\ UNCHANGED <<data, files, flush, collided, cfiles, commits, committed, layout>>

\* the process dies inside Flush::new after create_new: db.flush is cut
\* short (in flush_journal the collided operations are applied already)
CrashInWriteFlush ==
    /\ up = "running" /\ pc \in {"new", "cnew"}
    /\ flush = NoFlush
    /\ flush' = [target |-> data, collided |-> collided, complete |-> FALSE]
    /\ cfiles' = IF pc = "new" THEN ApplyCollided(Head(drained).ops) ELSE cfiles
    /\ up' = "down"
    /\ mem' = <<>> /\ drained' = <<>> /\ work' = {} /\ pc' = "idle"
    /\ cindex' = {}
    /\ UNCHANGED <<data, files, collided, commits, committed, layout>>

\* Database::open, and the open_internal that ends create: Journal::open,
\* then Mmap::open_path of data.db and meta.db, which fails for a missing
\* or an empty file (nothing changes); then Flush::open: a db.flush whose
\* hash checks is applied (data and metadata image) and deleted, one that
\* does not is CorruptedFlush; then Collision::open of each collided prefix
Open ==
    /\ up \in {"down", "creating"}
    /\ layout = "whole"
    /\ IF flush # NoFlush /\ ~flush.complete
       THEN up' = "CorruptedFlush" /\ UNCHANGED <<data, mem, flush, collided, cindex>>
       ELSE /\ up' = "running"
            /\ mem' = files
            /\ data' = IF flush = NoFlush THEN data ELSE flush.target
            /\ collided' = IF flush = NoFlush THEN collided ELSE flush.collided
            /\ flush' = NoFlush
            /\ cindex' = collided'
    /\ UNCHANGED <<files, drained, cfiles, work, pc, commits, committed, layout>>

\* the process dies while open replays db.flush: Flush::flush has copied
\* some of its writes into the mapped data file (on the content, some keys
\* hold their new value), the metadata image is copied only after them,
\* and db.flush stays for the next open
OpenCrashInReplay ==
    /\ up = "down" /\ layout = "whole"
    /\ flush # NoFlush /\ flush.complete
    /\ \E part \in SUBSET Keys :
          data' = [k \in Keys |-> IF k \in part THEN flush.target[k] ELSE data[k]]
    /\ UNCHANGED <<files, mem, drained, flush, collided, cfiles, work, pc, up,
                   commits, committed, cindex, layout>>

Next ==
    \/ CreateDataFile \/ CreateNext \/ CreateFails
    \/ \E b \in Batches : Commit(b)
    \/ \E n \in 1 .. MaxCommits : FlushJournal(n)
    \/ WriteFlush \/ WriteFlushFails
    \/ DeleteEra \/ DeleteEraFails
    \/ ApplyFlush
    \/ DeleteFlush \/ DeleteFlushFails
    \/ CompactStart
    \/ CreateCollisionFiles \/ CreateCollisionFilesFails
    \/ WriteCompactFlush \/ WriteCompactFlushFails
    \/ PersistCollided \/ ApplyCompactFlush
    \/ DeleteCompactFlush \/ DeleteCompactFlushFails
    \/ Crash \/ CrashInWriteFlush \/ Open \/ OpenCrashInReplay

-----------------------------------------------------------------------------
(* Database::iter.  journal_iter is Journal::iter: the eras' operations   *)
(* appended into one BTreeSet in era order, so for a key in several eras  *)
(* the newest operation stays.  record_collisions_iter merges the data   *)
(* file's records over metadata.prefixes (which add_prefix_collision      *)
(* removes a collided prefix from) with the collision files' live        *)
(* entries, in prefix then key order.  A stream is a sequence of          *)
(* <<key, value>> in key order; in journal_iter a Delete has value Absent.*)

Ascending(S) == SetToSortSeq(S, LAMBDA a, b : a < b)

JournalIter == [i \in 1 .. Cardinality({k \in Keys : JournalHas(mem, k)}) |->
                  LET k == Ascending({k \in Keys : JournalHas(mem, k)})[i]
                  IN <<k, JournalGet(mem, k)>>]

RecordKeys ==
    {k \in Keys : PrefixOf[k] \notin collided /\ data[k] # Absent}
    \cup {k \in Keys : PrefixOf[k] \in collided /\ Stored(data, collided, k) # Absent}

Records == [i \in 1 .. Cardinality(RecordKeys) |->
              LET k == Ascending(RecordKeys)[i] IN <<k, Stored(data, collided, k)>>]

\* IteratorValue: what DatabaseIterator keeps pending between two calls
NoneV == [kind |-> "none"]
Pending(kind, x) == [kind |-> kind, key |-> x[1], val |-> x[2]]

\* handle_journal_operation: an Insert is returned, a Delete skipped
Emit(o) == IF o.val = Absent THEN <<>> ELSE << <<o.key, o.val>> >>

RECURSIVE Merge(_, _, _)

\* a merge that lets the data file win over a journaled operation on the key
MergeDbWins(j, r, p) ==
    LET o == IF p.kind = "journal" THEN p
             ELSE IF j # <<>> THEN Pending("journal", Head(j)) ELSE NoneV
        d == IF p.kind = "db" THEN p
             ELSE IF r # <<>> THEN Pending("db", Head(r)) ELSE NoneV
        j2 == IF p.kind # "journal" /\ j # <<>> THEN Tail(j) ELSE j
        r2 == IF p.kind # "db" /\ r # <<>> THEN Tail(r) ELSE r
    IN CASE o.kind = "none" /\ d.kind = "none" -> <<>>
         [] d.kind = "none" -> Emit(o) \o Merge(j2, r2, NoneV)
         [] o.kind = "none" \/ d.key = o.key -> Emit(d) \o Merge(j2, r2, NoneV)
         [] d.key > o.key -> Emit(o) \o Merge(j2, r2, d)
         [] OTHER -> Emit(d) \o Merge(j2, r2, o)

\* DatabaseIterator::next called until it returns None: each loop takes
\* the pending value back and pulls the other stream (both when nothing is
\* pending), then returns or skips the smaller key and keeps the larger
\* pending; on equal keys the journal's operation wins and both are used
Merge(j, r, p) ==
    LET o == IF p.kind = "journal" THEN p
             ELSE IF j # <<>> THEN Pending("journal", Head(j)) ELSE NoneV
        d == IF p.kind = "db" THEN p
             ELSE IF r # <<>> THEN Pending("db", Head(r)) ELSE NoneV
        j2 == IF p.kind # "journal" /\ j # <<>> THEN Tail(j) ELSE j
        r2 == IF p.kind # "db" /\ r # <<>> THEN Tail(r) ELSE r
    IN CASE o.kind = "none" /\ d.kind = "none" -> <<>>
         [] d.kind = "none" -> Emit(o) \o Merge(j2, r2, NoneV)
         [] o.kind = "none" -> Emit(d) \o Merge(j2, r2, NoneV)
         [] d.key = o.key -> Emit(o) \o Merge(j2, r2, NoneV)
         [] d.key > o.key -> Emit(o) \o Merge(j2, r2, d)
         [] OTHER -> Emit(d) \o Merge(j2, r2, o)

Iter == Merge(JournalIter, Records, NoneV)

Spec == Init /\ [][Next]_vars

-----------------------------------------------------------------------------
(* Properties                                                              *)

\* what Database::open would make of the files: db.flush, if its hash
\* checks, replaces the data file and the metadata image; the collided
\* prefixes are read from their collision files; then the eras apply
Replayed(f) == f # NoFlush /\ f.complete
RecoveredCollided == IF Replayed(flush) THEN flush.collided ELSE collided
Recovered ==
    LET base == IF Replayed(flush) THEN flush.target ELSE data
    IN ApplyEras([k \in Keys |-> Stored(base, RecoveredCollided, k)], files)

\* Whatever step of flush_journal or compact the process dies at, and
\* whatever file operation fails, the files on disk recover to what the
\* acknowledged commits promise: db.flush is written before the era is
\* deleted and is deleted only after it is applied (database.rs:234-251),
\* and compact's collision files are complete before the metadata that
\* sends reads to them is persisted (database.rs:392-429).
DurableStateRecovers == up \in {"running", "down"} => Recovered = committed

\* the answer get should give (spec 4.7): the newest journaled operation
\* on the key, a Delete meaning absent, else the collision or data file
SpecGet(k) == IF JournalHas(mem, k) THEN JournalGet(mem, k)
              ELSE Stored(data, collided, k)

\* Between calls, the in-memory journal, the collision files and the data
\* file together hold every acknowledged commit: nothing drained by
\* flush_journal or spilled by compact is missing where get looks for it
\* (spec 8, property 10: every pair readable before compact still is).
ViewMatchesCommitted ==
    up = "running" /\ pc = "idle" => \A k \in Keys : SpecGet(k) = committed[k]

\* An era file disappears only while a complete db.flush that carries it
\* is on disk (spec 4.8: artifact write, era delete, apply, artifact
\* delete), whichever file operations fail.
EraDeletedOnlyWhenFlushWritten ==
    [][\A i \in 1 .. Len(files) :
         (\A j \in 1 .. Len(files') : files'[j].id # files[i].id)
            => flush # NoFlush /\ flush.complete]_vars

\* Database::get returns the value of the latest acknowledged commit on
\* the key, absent after a Delete (spec 8, property 2).
GetReturnsCommitted ==
    up = "running" /\ pc = "idle" => \A k \in Keys : Get(k) = committed[k]

\* Every prefix the metadata open reads calls collided has its collision
\* file, whenever the process dies: Collision::open(..).expect("collision
\* file should exist") in open_internal (database.rs:166) never fires.
CollidedHaveFiles ==
    up \in {"running", "down"} => \A p \in RecoveredCollided : cfiles[p] # NoFile

\* Between calls no key of a collided prefix is left in the data file
\* (spec 3 and 4.9: a key is in at most one of the data file and the collision
\* files): compact deletes what it spills and flush_journal sends collided
\* operations to the collision file.  A record left behind would hold
\* data-file fields that neither get nor record_iter, which walks only
\* metadata.prefixes, would ever reach again, and a key in both makes the
\* merge in record_collisions_iter reach unreachable! (database.rs:343).
NoKeyInBoth ==
    up = "running" /\ pc = "idle" =>
        \A k \in Keys : PrefixOf[k] \in collided => data[k] = Absent

\* Between calls, every prefix the metadata calls collided has an open
\* Collision in the collisions index, so get and flush_journal, which look
\* up a collided prefix's file with expect("collision file should exist
\* in collisions index") (database.rs:226, 276), never panic: compact adds
\* its files when it is done, and open adds one for every collided prefix.
CollidedIndexed ==
    up = "running" /\ pc = "idle" => collided \subseteq cindex

\* Between calls, a prefix is collided exactly when its collision file
\* exists (spec 3, invariants), so the next compact can create the
\* files of the prefixes it finds.
CollidedIffFile ==
    up = "running" /\ pc = "idle" =>
        \A p \in PrefixSpace : p \in collided <=> cfiles[p] # NoFile

\* Between calls, Database::iter yields every key whose latest
\* acknowledged commit inserts it, once, in key order, with that value
\* (spec 8, properties 6 and 7): the journal's newest operation hides the
\* data or collision file's record, a journaled Delete hides it
\* altogether, and compact moves records between the two files without
\* losing or repeating one.
IterMatchesCommitted ==
    up = "running" /\ pc = "idle" =>
        Iter = [i \in 1 .. Cardinality({k \in Keys : committed[k] # Absent}) |->
                  LET k == Ascending({k \in Keys : committed[k] # Absent})[i]
                  IN <<k, committed[k]>>]

\* A create that dies or fails partway leaves the directory as it found
\* it or whole, so that a later create or open can succeed (spec 4.8:
\* create makes data.db and meta.db, then opens normally).
CreateLeavesUsable == up = "down" => layout \in {"absent", "whole"}

=============================================================================
