------------------------------- MODULE Journal -------------------------------
(***************************************************************************)
(* journal.rs: the era files `{n}.era` of the journal directory and the   *)
(* in-memory deque of eras, across commits, flushes, crashes and opens.   *)
(* An era's content does not matter here and is left out; an era is its   *)
(* index n, and a file is complete or was cut short by a crash in         *)
(* JournalEra::create.                                                     *)
(***************************************************************************)
EXTENDS Integers, Sequences, FiniteSets, TLC

CONSTANTS
    MaxEra,       \* bound on era indices: commits stop at index MaxEra
    JournalEras   \* options.journal_eras: eras flush_journal keeps

VARIABLES
    files,   \* [on-disk indices -> {"complete", "partial"}]
    mem,     \* Journal::eras, as the sequence of their indices
    next,    \* Journal::next_era_index
    up       \* "running", "down" (crashed), or the error Journal::open returned

vars == <<files, mem, next, up>>

Indices == 0 .. MaxEra - 1

TypeOK ==
    /\ DOMAIN files \subseteq Indices
    /\ \A n \in DOMAIN files : files[n] \in {"complete", "partial"}
    /\ mem \in Seq(Indices)
    /\ next \in 0 .. MaxEra
    /\ up \in {"running", "down", "JournalEraMissing", "CorruptedJournal"}

-----------------------------------------------------------------------------
(* dir::era_files sorts the paths `{n}.era` as strings.  A path compares  *)
(* by the bytes of its file name: the decimal digits of n, then '.',      *)
(* which is below every digit.                                             *)

Dot == -1

RECURSIVE Digits(_)
Digits(n) == IF n < 10 THEN <<n>> ELSE Digits(n \div 10) \o <<n % 10>>

Name(n) == Digits(n) \o <<Dot>>

RECURSIVE BytesLess(_, _)
BytesLess(a, b) ==
    \/ a = <<>> /\ b # <<>>
    \/ a # <<>> /\ b # <<>> /\ Head(a) < Head(b)
    \/ a # <<>> /\ b # <<>> /\ Head(a) = Head(b) /\ BytesLess(Tail(a), Tail(b))

PathLess(m, n) == BytesLess(Name(m), Name(n))

\* Vec::sort of the era paths
RECURSIVE SortPaths(_)
SortPaths(S) ==
    IF S = {} THEN <<>>
    ELSE LET least == CHOOSE x \in S : \A y \in S \ {x} : PathLess(x, y)
         IN <<least>> \o SortPaths(S \ {least})

EraFiles == SortPaths(DOMAIN files)

\* dir::era_index: 1 + the number in the file stem
EraIndex(n) == n + 1

\* the loop of era_files: each index follows the one before it
Consecutive(s) == \A i \in 1 .. Len(s) - 1 : EraIndex(s[i + 1]) = EraIndex(s[i]) + 1

\* next_era_index one past the right value
NextEraIndexPlusOne(s) == IF s = <<>> THEN 0 ELSE EraIndex(s[Len(s)]) + 1

\* next_era_index from the first file instead of the last
NextEraIndexOfFirst(s) == IF s = <<>> THEN 0 ELSE EraIndex(s[1])

\* dir::next_era_index: era_index of the last file, or 0
NextEraIndex(s) == IF s = <<>> THEN 0 ELSE EraIndex(s[Len(s)])

-----------------------------------------------------------------------------
Init ==
    /\ files = <<>>
    /\ mem = <<>>
    /\ next = 0
    /\ up = "running"

\* Journal::push with JournalEra::create: create_new, hash and data, flush
Push ==
    /\ up = "running"
    /\ next < MaxEra
    /\ files' = files @@ (next :> "complete")
    /\ mem' = Append(mem, next)
    /\ next' = next + 1
    /\ UNCHANGED up

\* the process dies inside JournalEra::create, after create_new and
\* before the file is complete
PushCrash ==
    /\ up = "running"
    /\ next < MaxEra
    /\ files' = files @@ (next :> "partial")
    /\ mem' = <<>>
    /\ next' = 0
    /\ up' = "down"

\* flush_journal: drain_front of the eras past journal_eras, and
\* era.delete of each once its flush is written
FlushEra ==
    /\ up = "running"
    /\ Len(mem) > JournalEras
    /\ files' = [n \in DOMAIN files \ {Head(mem)} |-> files[n]]
    /\ mem' = Tail(mem)
    /\ UNCHANGED <<next, up>>

\* flush_journal returns early through `?` (collision.apply, Flush::new,
\* era.delete or an mmap flush) while flushing the k-th of the n drained
\* eras: dropping the Drain has removed all n from memory, but only the
\* files of the first d eras were deleted
FlushEraFails ==
    /\ up = "running"
    /\ \E n \in 1 .. Len(mem) - JournalEras, d \in 0 .. Len(mem) - JournalEras :
        /\ d <= n
        /\ files' = [e \in DOMAIN files \ {mem[i] : i \in 1 .. d} |-> files[e]]
        /\ mem' = SubSeq(mem, n + 1, Len(mem))
    /\ UNCHANGED <<next, up>>

\* the process exits or dies; memory is lost, files stay
Crash ==
    /\ up = "running"
    /\ mem' = <<>>
    /\ next' = 0
    /\ up' = "down"
    /\ UNCHANGED files

\* Journal::open without the index check of era_files
OpenNoGapCheck ==
    /\ up = "down"
    /\ LET s == EraFiles IN
       IF \E i \in 1 .. Len(s) : files[s[i]] = "partial"
       THEN up' = "CorruptedJournal" /\ UNCHANGED <<mem, next>>
       ELSE up' = "running" /\ mem' = s /\ next' = NextEraIndex(s)
    /\ UNCHANGED files

\* Journal::open: era_files (with its JournalEraMissing check),
\* next_era_index, then JournalEra::open of each file (hash check)
Open ==
    /\ up = "down"
    /\ LET s == EraFiles IN
       CASE ~Consecutive(s) ->
              up' = "JournalEraMissing" /\ UNCHANGED <<mem, next>>
         [] \E i \in 1 .. Len(s) : files[s[i]] = "partial" ->
              up' = "CorruptedJournal" /\ UNCHANGED <<mem, next>>
         [] OTHER ->
              up' = "running" /\ mem' = s /\ next' = NextEraIndex(s)
    /\ UNCHANGED files

Next == Push \/ PushCrash \/ FlushEra \/ FlushEraFails \/ Crash \/ Open

Spec == Init /\ [][Next]_vars

-----------------------------------------------------------------------------
(* Properties                                                              *)

\* While the journal runs, its in-memory eras are the newest era files on
\* disk, complete, oldest first and without gaps: what Journal::get walks
\* newest to oldest and flush_journal drains from the front.  A failed
\* flush_journal may leave files of eras it drained from memory behind;
\* those are older than every era still in memory.
MemNewestOnDisk ==
    up = "running" =>
        /\ \A i \in 1 .. Len(mem) - 1 : mem[i + 1] = mem[i] + 1
        /\ \A i \in DOMAIN mem : mem[i] \in DOMAIN files /\ files[mem[i]] = "complete"
        /\ \A n \in DOMAIN files : n \notin {mem[i] : i \in DOMAIN mem} =>
                \A i \in DOMAIN mem : n < mem[i]

\* Every era file on disk has an index below next_era_index, so push's
\* create_new never meets an existing file, also after a reopen.
EraNamesFresh == up = "running" => \A n \in DOMAIN files : n < next

\* A journal written only by push and flush_journal reopens without a
\* JournalEraMissing error (spec 4.7: indices are dense and ascending).
NoEraMissing == up # "JournalEraMissing"

=============================================================================
