------------------------------ MODULE Database ------------------------------
(***************************************************************************)
(* The LSM storage engine: write-ahead log, MemTable, leveled SSTables,    *)
(* flush, compaction, and recovery when the database is opened again.      *)
(*                                                                         *)
(* Threads share one Database.  A step is what a thread does while it      *)
(* holds a lock, or one write to the disk inside a flush or compaction;    *)
(* the process may die between any two steps.  What is on disk is wal and  *)
(* files; a file or record that is not completely written is Torn.         *)
(***************************************************************************)
EXTENDS Integers, Sequences, FiniteSets
LOCAL INSTANCE SequencesExt
LOCAL INSTANCE FiniteSetsExt

CONSTANTS
    Thread,         \* the threads that use the database
    Reader,         \* those of them that call get
    Key, Value,
    BloomBits,      \* for each key, the bits of a Bloom filter its hashes select
    Delete,         \* Entry::Delete, and get's None
    Torn,           \* a record or file that is not completely written
    None,
    NumLevels,      \* Config::sstable_level
    DataThreshold,  \* Config::data_threshold
    SstThreshold,   \* Config::sstable_threshold
    Crashes,        \* bound: whether the process may die
    MaxWrites       \* bound: the number of insert and delete calls

ASSUME LevelsNat     == NumLevels \in Nat \ {0}
ASSUME ThresholdsNat == DataThreshold \in Nat /\ SstThreshold \in Nat
ASSUME BoundsType    == Crashes \in BOOLEAN /\ MaxWrites \in Nat
ASSUME NoneNoThread  == None \notin Thread
ASSUME SomeHash      == DOMAIN BloomBits = Key /\ \A k \in Key : BloomBits[k] # {}

VARIABLES
    up,               \* the database is open
    wal, files,       \* database.log; the sstable_<id>.sst files by id
    data,             \* the MemTable
    levels,           \* leveled_sstable: per level the ids of its tables, oldest first
    next_sstable_id,
    pc, op,           \* per thread: where it is in its call, and the call's arguments
    flusher,          \* the thread that holds flush_lock and the write lock of data
    flush_id,         \* the id of the table it writes
    compactor,        \* the thread that holds compaction_lock
    job,              \* its compaction
    writes,           \* calls so far
    view,             \* history: what get returns for each key, now or once it is open again
    seen              \* history: the values the key of a running get has had since it began

Level == 0 .. NumLevels - 1
Entry == Value \cup {Delete}
Op    == [key : Key, entry : Entry]
Table == UNION {[ks -> Entry] : ks \in SUBSET Key}

diskVars  == <<wal, files>>
flushVars == <<flusher, flush_id>>
compVars  == <<compactor, job>>
vars == <<up, wal, files, data, levels, next_sstable_id, pc, op, flusher, flush_id,
          compactor, job, writes, view, seen>>

NoTable  == [k \in {} |-> Delete]
NoLevels == [l \in Level |-> << >>]
NoJob    == [todo |-> {}, level |-> 0, current |-> << >>, next |-> << >>, id |-> 0]

-----------------------------------------------------------------------------
(* Tables, levels and the log                                              *)

Insert(d, k, e) == [x \in DOMAIN d \cup {k} |-> IF x = k THEN e ELSE d[x]]

\* writer::create and StreamingWriter::create: a file with an empty header
Created(fs, id) == Insert(fs, id, Torn)

\* read_header, validate_header and load_bloom_filter: the header, written last, has
\* the place of the index and of the Bloom filter.
HeaderFinal(f) == f # Torn

\* The tables that SSTable::open accepts.
Complete(fs) == {i \in DOMAIN fs : HeaderFinal(fs[i])}

\* BloomFilter::insert of every key that is written
BloomFilter(table) == UNION {BloomBits[k] : k \in DOMAIN table}

MayContain(table, k) == BloomBits[k] \subseteq BloomFilter(table)

\* Index::find, in the index of all keys
Find(table, k) == k \in DOMAIN table

\* SSTable::read_entry finds an entry.
HasEntry(table, k) == MayContain(table, k) /\ Find(table, k)

\* The positions of the tables of a level in which get finds an entry for k.
Holding(level, fs, k) ==
    {n \in DOMAIN level : level[n] \in Complete(fs) /\ HasEntry(fs[level[n]], k)}

\* Tables are appended to a level and searched in reverse.
Newest(ns) == Max(ns)

\* The second half of get: level by level, the newest table first.
Lookup(ls, fs, k) ==
    LET holding == {l \in Level : Holding(ls[l], fs, k) # {}}
        level   == ls[Min(holding)]
    IN  IF holding = {} THEN Delete ELSE fs[level[Newest(Holding(level, fs, k))]][k]

\* get
Get(d, ls, fs, k) == IF k \in DOMAIN d THEN d[k] ELSE Lookup(ls, fs, k)

\* LogRecord::read_from: a record that ends early is an error, as is a wrong checksum.
ReadFrom(r) == r # Torn

\* Logger::new and read_records: the records up to the first that cannot be read,
\* where the file is cut.
Readable(w) ==
    LET bad == SelectInSeq(w, LAMBDA r : ~ReadFrom(r))
    IN  IF bad = 0 THEN w ELSE SubSeq(w, 1, bad - 1)

\* recover: the records inserted into the MemTable in order.
Replay(w) ==
    [k \in {w[n].key : n \in DOMAIN w} |-> w[Max({n \in DOMAIN w : w[n].key = k})].entry]

\* Mutant: the newest table is loaded first.
SortedDown(ids) ==
    [n \in 1 .. Cardinality(ids) |-> CHOOSE i \in ids : Cardinality({j \in ids : j > i}) = n - 1]

\* ids.sort_unstable
Sorted(ids) ==
    [n \in 1 .. Cardinality(ids) |-> CHOOSE i \in ids : Cardinality({j \in ids : j < i}) = n - 1]

\* load_sstables: every table in level 0, in the order of the ids.
LoadSstables(ids) == [NoLevels EXCEPT ![0] = Sorted(ids)]

\* Mutant: the last id is given out again.
NextIdReused(ids) == IF ids = {} THEN 0 ELSE Max(ids)

\* The id after every table's.
NextId(ids) == IF ids = {} THEN 0 ELSE Max(ids) + 1

-----------------------------------------------------------------------------
Init ==
    /\ up = TRUE
    /\ wal = << >> /\ files = [i \in {} |-> NoTable]
    /\ data = NoTable /\ levels = NoLevels
    /\ next_sstable_id = 0
    /\ pc = [t \in Thread |-> "idle"]
    /\ op = [t \in Thread |-> None]
    /\ flusher = None /\ flush_id = 0
    /\ compactor = None /\ job = NoJob
    /\ writes = 0
    /\ view = [k \in Key |-> Delete]
    /\ seen = [t \in Thread |-> {}]

Goto(t, to) == pc' = [pc EXCEPT ![t] = to]

\* The thread t is at pc, and the process lives.
At(t, at) == up /\ pc[t] = at

-----------------------------------------------------------------------------
(* insert and delete                                                       *)

\* Logger::log, under the lock of log: the record is written piece by piece.
Log(t, o) ==
    /\ At(t, "idle") /\ t \notin Reader
    /\ \A u \in Thread : pc[u] # "logging"
    /\ writes < MaxWrites
    /\ wal' = Append(wal, Torn)
    /\ op' = [op EXCEPT ![t] = o]
    /\ writes' = writes + 1
    /\ Goto(t, "logging")
    /\ UNCHANGED <<up, files, data, levels, next_sstable_id, flushVars, compVars>>

\* The last piece of the record is written and the lock of log released.
Logged(t) ==
    /\ At(t, "logging")
    /\ wal' = [wal EXCEPT ![Len(wal)] = op[t]]
    /\ Goto(t, "insert")
    /\ UNCHANGED <<up, files, data, levels, next_sstable_id, op, flushVars, compVars, writes>>

\* The entry goes into the MemTable.
InsertData(t) ==
    /\ At(t, "insert") /\ flusher = None
    /\ data' = Insert(data, op[t].key, op[t].entry)
    /\ op' = [op EXCEPT ![t] = None]
    /\ Goto(t, "check")
    /\ UNCHANGED <<up, diskVars, levels, next_sstable_id, flushVars, compVars, writes>>

\* maybe_flush: the size is read, and acted upon after the lock is released.
MaybeFlush(t) ==
    /\ At(t, "check") /\ flusher = None
    /\ Goto(t, IF Cardinality(DOMAIN data) >= DataThreshold THEN "flush" ELSE "compact")
    /\ UNCHANGED <<up, diskVars, data, levels, next_sstable_id, op, flushVars, compVars, writes>>

-----------------------------------------------------------------------------
(* flush_memory_to_disk: flush_lock and the write lock of data are held    *)
(* from the first step to the last.                                        *)

\* Another thread may have flushed in between; otherwise SSTable::new makes the file.
FlushCreate(t) ==
    /\ At(t, "flush") /\ flusher = None
    /\ \/ /\ DOMAIN data = {}
          /\ Goto(t, "compact")
          /\ UNCHANGED <<files, next_sstable_id, flushVars>>
       \/ /\ DOMAIN data # {}
          /\ flusher' = t /\ flush_id' = next_sstable_id
          /\ next_sstable_id' = next_sstable_id + 1
          /\ files' = Created(files, next_sstable_id)
          /\ Goto(t, "flush write")
    /\ UNCHANGED <<up, wal, data, levels, op, compVars, writes>>

\* write_entries: the header is written last.
FlushWrite(t) ==
    /\ At(t, "flush write")
    /\ files' = [files EXCEPT ![flush_id] = data]
    /\ Goto(t, "flush publish")
    /\ UNCHANGED <<up, wal, data, levels, next_sstable_id, op, flushVars, compVars, writes>>

FlushPublish(t) ==
    /\ At(t, "flush publish")
    /\ levels' = [levels EXCEPT ![0] = Append(@, flush_id)]
    /\ Goto(t, "flush truncate")
    /\ UNCHANGED <<up, diskVars, data, next_sstable_id, op, flushVars, compVars, writes>>

FlushTruncate(t) ==
    /\ At(t, "flush truncate")
    /\ \A u \in Thread : pc[u] # "logging"
    /\ wal' = << >>
    /\ Goto(t, "flush clear")
    /\ UNCHANGED <<up, files, data, levels, next_sstable_id, op, flushVars, compVars, writes>>

FlushClear(t) ==
    /\ At(t, "flush clear")
    /\ data' = NoTable
    /\ flusher' = None /\ flush_id' = 0
    /\ Goto(t, "compact")
    /\ UNCHANGED <<up, diskVars, levels, next_sstable_id, op, compVars, writes>>

-----------------------------------------------------------------------------
(* maybe_compact and compact_level: compaction_lock is held throughout.    *)

\* Which levels are full is decided once, for all levels.
MaybeCompact(t) ==
    LET todo == {l \in 0 .. NumLevels - 2 : Len(levels[l]) >= SstThreshold} IN
    /\ At(t, "compact") /\ compactor = None
    /\ IF todo = {}
       THEN Goto(t, "idle") /\ UNCHANGED compVars
       ELSE /\ compactor' = t /\ job' = [NoJob EXCEPT !.todo = todo]
            /\ Goto(t, "compact level")
    /\ UNCHANGED <<up, diskVars, data, levels, next_sstable_id, op, flushVars, writes>>

\* Mutant: the compaction lock is never released.
NextLevelKeepingLock(t, l) ==
    /\ UNCHANGED compactor
    /\ IF job.todo = {l}
       THEN job' = NoJob /\ Goto(t, "idle")
       ELSE job' = [NoJob EXCEPT !.todo = job.todo \ {l}] /\ Goto(t, "compact level")

\* Level l is done: on to the next full level, or return.
NextLevel(t, l) ==
    IF job.todo = {l}
    THEN compactor' = None /\ job' = NoJob /\ Goto(t, "idle")
    ELSE /\ job' = [NoJob EXCEPT !.todo = job.todo \ {l}]
         /\ Goto(t, "compact level")
         /\ UNCHANGED compactor

\* The tables of the level and of the one below as they are now.
CompactLevel(t) ==
    LET l == Min(job.todo) IN
    /\ At(t, "compact level")
    /\ IF levels[l] = << >>
       THEN NextLevel(t, l)
       ELSE /\ job' = [job EXCEPT !.level = l, !.current = levels[l], !.next = levels[l + 1]]
            /\ Goto(t, "compact create")
            /\ UNCHANGED compactor
    /\ UNCHANGED <<up, diskVars, data, levels, next_sstable_id, op, flushVars, writes>>

CompactCreate(t) ==
    /\ At(t, "compact create")
    /\ job' = [job EXCEPT !.id = next_sstable_id]
    /\ next_sstable_id' = next_sstable_id + 1
    /\ files' = Created(files, next_sstable_id)
    /\ Goto(t, "compact write")
    /\ UNCHANGED <<up, wal, data, levels, op, flushVars, compactor, writes>>

Inputs == job.current \o job.next

\* Mutant: the tables of the next level win.
PriorityReversed(s) ==
    LET len == Len(job.current) IN IF s <= len THEN s - 1 ELSE s - 1 + len

\* The priority of input table s (the code counts the inputs from 0).
Priority(s) ==
    LET len == Len(job.current) IN IF s <= len THEN s - 1 + len ELSE s - 1 - len

\* SequentialReader: all the entries of input table s.
Entries(s) == files[Inputs[s]]

\* The input tables whose entry for k the merge may keep.
Winners(k) ==
    LET holding == {s \in DOMAIN Inputs : k \in DOMAIN Entries(s)}
    IN  {s \in holding : \A u \in holding : Priority(u) <= Priority(s)}

\* StreamingWriter::finish: the entries are followed by filter and index, and the
\* header is written last.
Finish(merged) == files' = [files EXCEPT ![job.id] = merged]

\* The k-way merge and StreamingWriter::finish: one entry for every key.
CompactWrite(t) ==
    /\ At(t, "compact write")
    /\ \E merged \in [UNION {DOMAIN Entries(s) : s \in DOMAIN Inputs} -> Entry] :
          /\ \A k \in DOMAIN merged : \E s \in Winners(k) : merged[k] = Entries(s)[k]
          /\ Finish(merged)
    /\ Goto(t, "compact publish")
    /\ UNCHANGED <<up, wal, data, levels, next_sstable_id, op, flushVars, compVars, writes>>

\* Mutant: everything in the level goes, also what was flushed during the merge.
DrainAll(level, n) == << >>

\* The first n tables of a level go.
Drain(level, n) == SubSeq(level, n + 1, Len(level))

\* Mutant: the table that was merged stays in the next level.
PublishKeepingNext(ls) ==
    [ls EXCEPT ![job.level] = Drain(@, Len(job.current)),
               ![job.level + 1] = Append(@, job.id)]

\* The levels once the merged table takes the place of its inputs.
Publish(ls) ==
    [ls EXCEPT ![job.level] = Drain(@, Len(job.current)),
               ![job.level + 1] = Append(Drain(@, Len(job.next)), job.id)]

CompactPublish(t) ==
    /\ At(t, "compact publish")
    /\ levels' = Publish(levels)
    /\ Goto(t, "compact delete")
    /\ UNCHANGED <<up, diskVars, data, next_sstable_id, op, flushVars, compVars, writes>>

\* The input files are removed one by one, those of the upper level first.
CompactDelete(t) ==
    LET old == {s \in DOMAIN Inputs : Inputs[s] \in DOMAIN files} IN
    /\ At(t, "compact delete")
    /\ files' = [i \in DOMAIN files \ {Inputs[Min(old)]} |-> files[i]]
    /\ IF Cardinality(old) = 1
       THEN NextLevel(t, job.level)
       ELSE UNCHANGED <<pc, compVars>>
    /\ UNCHANGED <<up, wal, data, levels, next_sstable_id, op, flushVars, writes>>

-----------------------------------------------------------------------------
(* get: the MemTable under its read lock, then the levels under theirs.    *)

\* Mutant: the MemTable is not asked.
GetPastData(t, k) ==
    /\ At(t, "idle") /\ t \in Reader /\ flusher = None
    /\ op' = [op EXCEPT ![t] = [key |-> k, entry |-> Delete]]
    /\ Goto(t, "get")
    /\ UNCHANGED <<up, diskVars, data, levels, next_sstable_id, flushVars, compVars, writes>>

\* The key is not in the MemTable.
GetData(t, k) ==
    /\ At(t, "idle") /\ t \in Reader /\ flusher = None
    /\ k \notin DOMAIN data
    /\ op' = [op EXCEPT ![t] = [key |-> k, entry |-> Delete]]
    /\ Goto(t, "get")
    /\ UNCHANGED <<up, diskVars, data, levels, next_sstable_id, flushVars, compVars, writes>>

GetLevels(t) ==
    /\ At(t, "get")
    /\ op' = [op EXCEPT ![t] = None]
    /\ Goto(t, "idle")
    /\ UNCHANGED <<up, diskVars, data, levels, next_sstable_id, flushVars, compVars, writes>>

-----------------------------------------------------------------------------
(* The process dies, or is stopped; open_in_dir                            *)

Crash ==
    /\ up /\ Crashes
    /\ up' = FALSE
    /\ data' = NoTable /\ levels' = NoLevels /\ next_sstable_id' = 0
    /\ pc' = [t \in Thread |-> "idle"] /\ op' = [t \in Thread |-> None]
    /\ flusher' = None /\ flush_id' = 0
    /\ compactor' = None /\ job' = NoJob
    /\ UNCHANGED <<diskVars, writes>>

\* Logger::new, load_sstables and recover.  A table that is not complete makes
\* SSTable::open fail, and with it the whole call.
Open ==
    /\ ~up
    /\ Complete(files) = DOMAIN files
    /\ up' = TRUE
    /\ wal' = Readable(wal)
    /\ data' = Replay(wal')
    /\ levels' = LoadSstables(DOMAIN files)
    /\ next_sstable_id' = NextId(DOMAIN files)
    /\ UNCHANGED <<files, pc, op, flushVars, compVars, writes>>

ThreadStep(t) ==
    \/ Logged(t) \/ InsertData(t) \/ MaybeFlush(t)
    \/ FlushCreate(t) \/ FlushWrite(t) \/ FlushPublish(t) \/ FlushTruncate(t) \/ FlushClear(t)
    \/ MaybeCompact(t) \/ CompactLevel(t) \/ CompactCreate(t) \/ CompactWrite(t)
    \/ CompactPublish(t) \/ CompactDelete(t)
    \/ GetLevels(t)

Step ==
    \/ \E t \in Thread : \E o \in Op : Log(t, o)
    \/ \E t \in Thread : \E k \in Key : GetData(t, k)
    \/ \E t \in Thread : ThreadStep(t)
    \/ Crash
    \/ Open

\* The history variables: they record, and no step depends on them.
Observe ==
    /\ \E d \in {IF up' THEN data' ELSE Replay(Readable(wal'))} :
       \E ls \in {IF up' THEN levels' ELSE LoadSstables(Complete(files'))} :
          view' = [k \in Key |-> Get(d, ls, files', k)]
    /\ seen' = [t \in Thread |->
          IF pc'[t] = "get" THEN seen[t] \cup {view'[op'[t].key]} ELSE {}]

Next == Step /\ Observe

Spec == Init /\ [][Next]_vars

\* A thread that is inside a call and not waiting for a lock goes on: the operating
\* system schedules every thread.
FairSpec == Spec /\ \A t \in Thread : WF_vars(ThreadStep(t) /\ Observe)

-----------------------------------------------------------------------------
(* Properties                                                              *)

Stages == {"idle", "logging", "insert", "check", "flush", "flush write", "flush publish",
           "flush truncate", "flush clear", "compact", "compact level", "compact create",
           "compact write", "compact publish", "compact delete", "get"}

\* Types; and the id of the next table is never the id of a file that exists, which
\* File::create would overwrite (across restarts and half-finished compactions).
TypeOK ==
    /\ up \in BOOLEAN
    /\ wal \in Seq(Op \cup {Torn})
    /\ DOMAIN files \subseteq Nat /\ \A i \in DOMAIN files : files[i] \in Table \cup {Torn}
    /\ data \in Table
    /\ levels \in [Level -> Seq(Nat)]
    /\ up => \A i \in DOMAIN files : i < next_sstable_id
    /\ next_sstable_id \in Nat /\ flush_id \in Nat /\ writes \in Nat
    /\ pc \in [Thread -> Stages]
    /\ op \in [Thread -> Op \cup {None}]
    /\ flusher \in Thread \cup {None} /\ compactor \in Thread \cup {None}
    /\ job \in [todo : SUBSET Level, level : Level, current : Seq(Nat), next : Seq(Nat), id : Nat]
    /\ view \in [Key -> Entry]
    /\ seen \in [Thread -> SUBSET Entry]

Store == INSTANCE KVStore WITH
    Client  <- Thread,
    Absent  <- Delete,
    kv      <- view,
    pending <- [t \in Thread |-> IF pc[t] \in {"logging", "insert"} THEN {op[t]} ELSE {}]

\* The database implements the abstract store: a write changes what get returns at one
\* moment, no step of a flush or a compaction changes it, and a crash between any two
\* steps followed by open_in_dir keeps it, but for the write that was under way.
StoreSpec == Store!Spec

\* A get that found nothing in the MemTable returns a value its key had at some moment
\* of the call, whatever inserts, flushes and compactions happen before it reads the levels.
GetIsLinearizable ==
    \A t \in Thread : pc[t] = "get" => Lookup(levels, files, op[t].key) \in seen[t]

\* A table the database knows has a complete file: compact_level reopens its inputs by
\* path, after earlier compactions deleted files and crashes left incomplete ones behind.
TablesOnDisk ==
    \A l \in Level : \A n \in DOMAIN levels[l] :
        levels[l][n] \in Complete(files)

\* No two inputs of a compaction have the same priority, and those of the upper level
\* have the higher one: the merge relies on at most one table below level 0.
PrioritiesOrdered ==
    compactor # None => \A s, u \in DOMAIN Inputs :
        /\ s # u => Priority(s) # Priority(u)
        /\ s <= Len(job.current) /\ u > Len(job.current) => Priority(s) > Priority(u)

\* Every call returns: the locks of log, data, levels, flush and compaction are never
\* waited for in a circle, and none is kept.
CallsReturn == \A t \in Thread : pc[t] # "idle" ~> pc[t] = "idle"

\* The database can be opened again after the process died, to replay the log.
CanReopen == ~up => Complete(files) = DOMAIN files
=============================================================================
