----------------------------- MODULE Collision -----------------------------
(***************************************************************************)
(* collision.rs: the append-only log of one collided prefix and the       *)
(* in-memory index Collision keeps over it.  The log is the sequence of   *)
(* its entries; an entry's position is its index in that sequence (entry *)
(* 1 starts at byte 0).  The index maps a key to the position of its     *)
(* live entry, 0 for none.  The file descriptor matters: Collision::create*)
(* opens it for writing at offset 0 of an empty log (set_len(1) leaves one*)
(* zero byte that the first entry overwrites), Collision::open opens it   *)
(* with O_APPEND, whose offset stays 0 until the first write although    *)
(* every write lands at the end of the file.  LogEntry::write returns that*)
(* offset, seek(SeekFrom::Current(0)), as the entry's position.           *)
(***************************************************************************)
EXTENDS Integers, Sequences, FiniteSets

CONSTANTS
    Keys, Vals,
    Tombstone,  \* value_size ENTRY_TOMBSTONE: a deleted entry, or no value
    MaxLog      \* bound on the number of log entries

VARIABLES
    log,        \* the file's entries: <<key, value or Tombstone>>
    index,      \* Collision::index: [Keys -> position], 0 for absent
    atStart,    \* the descriptor reports offset 0 while the log is not empty
    up,         \* running, or the panic insert's assert raises
    applied,    \* what the Collision::apply calls so far leave each key
    failed      \* keys whose last apply returned an error

vars == <<log, index, atStart, up, applied, failed>>

Entry == Keys \X (Vals \cup {Tombstone})

TypeOK ==
    /\ log \in Seq(Entry) /\ Len(log) <= MaxLog
    /\ index \in [Keys -> 0 .. MaxLog]
    /\ atStart \in BOOLEAN
    /\ up \in {"running", "panic"}
    /\ applied \in [Keys -> Vals \cup {Tombstone}]
    /\ failed \subseteq Keys

-----------------------------------------------------------------------------
\* build_index: a LogIterator pass over the entries; a value sets the
\* key's position, a tombstone removes the key
RECURSIVE BuildIndex(_, _)
BuildIndex(es, n) ==
    IF n = 0 THEN [k \in Keys |-> 0]
    ELSE [BuildIndex(es, n - 1) EXCEPT
            ![es[n][1]] = IF es[n][2] = Tombstone THEN 0 ELSE n]

\* Collision::get: the value of the entry the index points to
Get(k) == IF index[k] = 0 THEN Tombstone ELSE log[index[k]][2]

\* the position LogEntry::write returns for the entry it appends
WritePosition == IF atStart THEN 1 ELSE Len(log) + 1

-----------------------------------------------------------------------------
\* Collision::create: an empty log, written from offset 0
Init ==
    /\ log = <<>>
    /\ index = [k \in Keys |-> 0]
    /\ atStart = FALSE
    /\ up = "running"
    /\ applied = [k \in Keys |-> Tombstone]
    /\ failed = {}

\* append <<k, v>>, rebuild_index from the re-mapped file, read back the
\* entry at the returned position, assert it has the key, and point the
\* index at it
Append1(k, v) ==
    /\ log' = Append(log, <<k, v>>)
    /\ atStart' = FALSE
    /\ IF log'[WritePosition][1] # k
       THEN up' = "panic" /\ UNCHANGED index
       ELSE up' = up /\ index' = [BuildIndex(log', Len(log')) EXCEPT ![k] = WritePosition]

\* Collision::insert, Collision::apply of an Insert: nothing to write if
\* get already returns v
Insert(k, v) ==
    /\ up = "running" /\ Len(log) < MaxLog
    /\ applied' = [applied EXCEPT ![k] = v]
    /\ failed' = failed \ {k}
    /\ IF Get(k) = v THEN UNCHANGED <<log, index, atStart, up>> ELSE Append1(k, v)

\* Collision::delete, Collision::apply of a Delete: only a key the index
\* holds gets a tombstone appended, then rebuild_index
Delete(k) ==
    /\ up = "running" /\ Len(log) < MaxLog
    /\ applied' = [applied EXCEPT ![k] = Tombstone]
    /\ failed' = failed \ {k}
    /\ IF index[k] = 0
       THEN UNCHANGED <<log, index, atStart, up>>
       ELSE /\ log' = Append(log, <<k, Tombstone>>)
            /\ index' = BuildIndex(log', Len(log'))
            /\ atStart' = FALSE
            /\ UNCHANGED up

\* the database is reopened: Collision::open maps the file, build_index,
\* and an O_APPEND descriptor.  Database opens a collision file only for a
\* prefix the metadata calls collided, which compact persists after the
\* file's inserts (database.rs:396-429), so the log is never empty here.
Reopen ==
    /\ up = "running"
    /\ log # <<>>
    /\ index' = BuildIndex(log, Len(log))
    /\ atStart' = TRUE
    /\ UNCHANGED <<log, up, applied, failed>>

Next ==
    \/ \E k \in Keys, v \in Vals : Insert(k, v)
    \/ \E k \in Keys : Delete(k)
    \/ Reopen

Spec == Init /\ [][Next]_vars

\* Collision::insert whose rebuild_index fails (Mmap::open_path) after
\* LogEntry::write appended the entry: the error returns before the index
\* learns of it, and apply reports the error
InsertRebuildFails(k, v) ==
    /\ up = "running" /\ Len(log) < MaxLog
    /\ Get(k) # v
    /\ log' = Append(log, <<k, v>>)
    /\ atStart' = FALSE
    /\ failed' = failed \cup {k}
    /\ UNCHANGED <<index, up, applied>>

\* Collision::delete whose write_deleted fails: index.remove has already
\* taken the key out of the index, and no tombstone reaches the file
DeleteWriteFails(k) ==
    /\ up = "running"
    /\ index[k] # 0
    /\ index' = [index EXCEPT ![k] = 0]
    /\ failed' = failed \cup {k}
    /\ UNCHANGED <<log, atStart, up, applied>>

\* the same calls when a file operation may fail
NextFaulty ==
    \/ Next
    \/ \E k \in Keys, v \in Vals : InsertRebuildFails(k, v)
    \/ \E k \in Keys : DeleteWriteFails(k)

FaultySpec == Init /\ [][NextFaulty]_vars

-----------------------------------------------------------------------------
(* Properties                                                              *)

\* what a fresh build_index over the log answers for k
Decoded(k) == LET i == BuildIndex(log, Len(log))
              IN IF i[k] = 0 THEN Tombstone ELSE log[i[k]][2]

\* The log alone holds what the apply calls left, so a reopen recovers
\* it: insert skips only a value get already returns, delete only a key
\* with no live entry, and build_index lets a later entry win and a
\* tombstone remove the key.  A key whose last apply returned an error
\* may hold either value until the next apply of it succeeds.
LogHoldsApplied == \A k \in Keys \ failed : Decoded(k) = applied[k]

\* Collision::apply never panics, and get returns the value last applied
\* to the key (spec 4.6: an insert appends an entry and the index is
\* rebuilt from the re-mapped file), also after the file is reopened.
GetReturnsApplied ==
    up = "running" /\ \A k \in Keys : Get(k) = applied[k]

=============================================================================
