# A TLA+ development of bitcask-go

This directory models the storage engine `bitcask-go` in TLA+, checks the model
with TLC on small instances and proves theorems about it with TLAPS.  The Go code
under `src/` is the reference; line numbers below are those of `src/`.

## 1. Inventory

bitcask-go is an append-only key/value store.  Every write is appended to the
active one of a series of numbered data files; an index in memory (or a B+ tree
on disk) maps each key to the position of its newest record.

| Component | State | Operations | Modelled in |
|---|---|---|---|
| Engine, `db.go` | `activeFile`, `olderFiles`, `bytesWrite`, `seqNo`, `index`, `mu`, `reclaimSize`, `isMerging` | `Open`, `Close`, `Sync`, `Put`, `Get`, `Delete`, `ListKeys`, `Fold`, `Stat`, `Backup` | `Bitcask`; `Get` and `Fold` beside writers in `Readers`; not `ListKeys`, `Stat`, `Backup` |
| Write batch, `batch.go` | `pendingWrites` | `Put`, `Delete`, `Commit` | `Bitcask`, `TreeStore` |
| Merge, `merge.go` | the merge directory, `hint-index`, `merge-finished` | `Merge`, `LoadMergeFiles`, `loadIndexFromHintFile` | `Merge`, `TreeStore` |
| Data file, `data/data_file.go`; codec, `data/log_record.go`; `fio/file_io.go` | `WriteOff`, the bytes | `Write`, `ReadLogRecord`, `Sync` | field by field in `DataFile`; whole records elsewhere |
| Index, `index/btree.go`, `index/art.go` | an ordered map | `Put`, `Get`, `Delete`, iterators | as a map in `Bitcask` and `Merge`; iterators in `Readers` |
| B+ tree index, `index/bptree.go` | a bbolt file, its lock | the same, persisted | `TreeStore`; not its iterator |
| Iterator, `iterator.go` | a sorted snapshot, a cursor | `NewIterator`, `Rewind`, `Seek`, `Next`, `Value`, prefix filter | `Readers` |
| Redis types, `redis/` | metadata and elements as engine keys | strings, hashes, sets, lists, sorted sets | `Redis`; not `LAll`, `LSize`, `Type`, expiry of strings |
| HTTP server, `http/`; utilities, examples, benchmarks, `check.go` | none | one engine call per request | no |

How they interact.

- `Put` and `Delete` hold `db.mu` for `appendLogRecord` only (`db.go:367`) and
  touch the index afterwards, under the index's own lock.  `Commit` holds `db.mu`
  from its first append to its last index update (`batch.go:89`).  `Get` and
  `Fold` hold it for reading; `NewIterator`, `ListKeys`, `Delete`'s first look at
  the index and `WriteBatch.Delete` do not take it.
- `Merge` takes `db.mu` to seal the active file and then runs beside the writers.
  It reads the index without the lock, and it shares the options object with the
  running instance: the instance's `DirPath` and `SyncWrites` change while it runs, and
  a file the instance creates in the merge directory before `mergeDB` lists it becomes the
  active file of both.
- `Open` swaps a finished merge in (`LoadMergeFiles`), reads `hint-index`, then
  the data files that were not merged, and continues at the end of the last one.
- The Redis types read, compute and commit through the engine with no lock of
  their own.

What is hard here: index updates outside of the lock; batches that end with a
marker and may lack it after a crash or an error; numbers handed out again after a
restart; positions computed from `WriteOff` while the file is opened for append;
syncs that happen at rotation, by count, or not at all; two instances creating
files in one directory; a swap of directories that is not atomic.
`PROJECT.json` lists each such hazard at its line with the properties that watch it.

What makes each component correct:

- engine: a position in the index leads to a record of that key; the index is what
  a restart would build; what has been answered is kept;
- batch: all or nothing, at any crash; durable when asked for; numbers unique;
- merge: no `Get` changes its answer before, during and after; `hint-index` points
  to live records; no file has two writers; nothing synced is lost;
- data file: a torn record is told from a record and from the end of the file; an
  index entry leads to the record it was made for; a call that failed after its write may
  show, and nothing else that failed does;
- readers: `Fold` and iterators show the keys of one moment; an iterator yields those
  with the prefix, in order, from the key of `Seek` on; every call returns;
- B+ tree: its entries lead to records that count, and what has been answered stays
  visible without reading the data files; `seq-no` gives the last number;
- Redis types: every call is one step on one structure; `size`, scores, `head` and
  `tail` agree with the elements.

## 2. Modules

| Module | What it is |
|---|---|
| `KVStore` | abstract specification of the engine: one map, requests that take effect at one instant, crashes that lose nothing that took effect |
| `LogOrder` | the order in which Open reads records |
| `Bitcask` | engine and batch: state, actions, `Spec` |
| `BitcaskProperties` | their properties, and the map of their state to `KVStore` |
| `BitcaskInvariant`, `BatchInvariant`, `AgreeInvariant` | their inductive invariants, each on top of the one before |
| `BitcaskProofs`, `AgreeProofs` | theorems about index entries, batches, agreement of index and log, and the refinement of `KVStore` |
| `Merge` | merge beside a running instance, the swap at Open, their properties |
| `MergeInvariant`, `MergeProofs` | which files the two instances have where, through every fault: the inductive invariant, and the theorems about types, writers of files and `hint-index` |
| `MergeLogInvariant`, `MergeLogProofs` | what the logs say of each key: the invariants behind `MergeEquivalent`, `KeepsValues` and `MergedValueDurable`, and the theorems |
| `TreeStore` | the engine with the B+ tree index: Put, Delete, batches, Merge, Close and Open |
| `TreeInvariant`, `TreeProofs` | its inductive invariants and theorems |
| `DataFile` | one data file by the fields of its records |
| `DataFileInvariant`, `DataFileProofs` | its inductive invariant and theorems |
| `Readers` | Get, Fold and iterators beside writers; `db.mu`; liveness |
| `ReadersInvariant`, `ReadersProofs` | the inductive invariants of `db.mu` and of the iterators, the theorems about `Fold` and iterations |
| `Maps` | a map with one entry, and one map laid over another |
| `Structures` | abstract specification of the Redis types: each call changes one structure at one instant |
| `Redis`, `RedisProperties` | the Redis types over an engine that is one map; their properties and the map to `Structures` |
| `RedisInvariant`, `RedisProofs` | the inductive invariant of the Redis types, their theorems and the refinement of `Structures` |
| `MCBitcask`, `MCMerge`, `MCTreeStore`, `MCDataFile`, `MCReaders`, `MCRedis` | constants and symmetry for TLC |

The modules meet in what they assume of one another.  `Bitcask` takes a record to be
written whole or not at all and `DataFile` says when that is so; `Readers` takes the log
as given and looks at lock and index; `Redis` stands on the engine as `KVStore` has it,
which `Bitcask` implements.

Each module's header says what its variables are.  Some definitions stand directly
after a faulty variant of themselves (`RotatesLate` before `Rotates`, and so on).
The variants are plausible bugs; no specification uses them.  `PROJECT.json` pairs
each with a property that TLC must find violated when the variant takes the place
of the definition, which shows that the property can see that kind of bug.

### Bitcask and the code

State: `files`, `onDisk` and `synced` are the data directory and how much of each
file has reached the disk; `activeFile`, `olderFiles`, `writeOff`, `bytesWrite`,
`seqNo`, `index` and `mu` are the fields of `DB`; `cursor` and `txn` are the
position and the `transactionRecords` of `loadIndexFromDataFiles`; `pc`, `pending`,
`positions` and `todo` are the locals of the callers.  `batchOf` and `acked` are
history that only properties read.

One record is one unit of length.  A step is what other goroutines or a crash can
tell apart:

- `PutAppend` then `DirectIndex`; `DeleteCheck`, `DeleteAppend`, `DirectIndex`;
- `WBPut`, `WBDelete`; `CommitStart`, one `CommitAppend` per record in any order
  (the code ranges over a map), `CommitFinish`, one `CommitIndex` per key,
  `CommitEnd`;
- `OpenDB`, one `LoadRecord` per record, `LoadNextFile`, `LoadEnd`;
- `Sync`, `Close`, `ProcessCrash`, `PowerLoss`.

`AppendLogRecord` is the whole of `appendLogRecord`, rotation and sync policy
included.  `AppendFails` lists its failing calls in their order and what each
leaves behind: the sync of the full file, the opening of the next one (the full
file is then both active and older), the write, the sync after the write (the record
stays).  `Faults` says which may happen: `"open"`, `"write"`, `"sync"`, `"crash"`
(the process dies, the page cache survives), `"power"` (of each file some prefix
with the synced part survives).

### Merge and the code

Directory 0 is the one the user names, `d + 1` is `getMergePath` of `d`.  `exists`,
`present`, `data`, `synced`, `hint` and `fin` are the directories; `dirPath` and
`syncWrites` are the live fields of the options that instance and merge share;
`dirOf[f]` says in which directory the instance has file `f` open, because an index
entry names a file by its id only.  `mpc`, `nonMergeFileId`, `toScan` and `mergeFile`
are the merge goroutine; `writeOff` and `mergeOff` are `WriteOff` of the active file of
the instance and of `mergeDB`.  `kv` and `shared` are history: the value of each key by the order
of the log, and whether `mergeDB` has found a file of the running instance.

The writers are those of `Bitcask` with one write per batch and without failing appends:
`DirectLook`, Delete's look at the index, `DirectAppend`, `DirectIndex`; `CommitAppend`,
`CommitFinish`, `CommitIndex`.  A record goes to the end of its file (`O_APPEND`), its
position is `WriteOff` of the instance that writes it.  `MergeStart` is `Merge` up to
the release of the lock; `MergePrepare` makes the directory and changes the options;
`MergeOpen` opens `mergeDB`, which goes on behind the last file it finds; `MergeRecord`
is one turn of the loop; `MergeSync` and `MergeFinish` create and write `merge-
finished`; `MergeFails` is an error of any call in between.  `OpenDB`, `DeleteMerged`,
one file at a time, `MergedDeleted`, `MoveDataFile`, `MoveHint`, `MoveFinished` and
`RemoveLeftOver` are `LoadMergeFiles` in the order of its calls, `SwapFails` and
`OpenRefused` its error returns.  `Load` is the rest of Open in one step: nothing else
runs and nothing is written, so only its result counts; `Bitcask` has it record by
record.

Faults: `"crash"` (outside of the swap), `"swap"` (a crash within it), `"merge"` and
`"rename"` (a failing call).

Nothing keeps the running instance from rotating between `MergePrepare`, which changes its
`DirPath` (`merge.go:113`), and `MergeOpen`, in which `mergeDB` lists the directory
(`merge.go:115`).  `mergeDB` then adopts the file: it is the active file of both, each with a
`WriteOff` of its own.  This is a matter of scheduling and needs no fault, so every run has it.
What follows is a loss (`merge_adopt`), and from then on (`shared`) the other properties of
`Merge` say nothing.  They say that there is no other way to it.

### TreeStore and the code

`tree` is the bbolt file the instance has open, `diskTree` the one in the directory;
they are the same until Open moves the files of a Merge over it (`linked`).  Every
`UpdateTree` is a transaction, durable at once.  `treeOpen` and `leftOpen` say whether
the process holds bbolt's lock through the index of the instance or through that of a
`mergeDB`, which nobody closes.  `seqNoFile` is `seq-no`; `seqNoFileExists` and
`isInitial` are the fields `NewWriteBatch` looks at.  `OpenTree` is Open up to
`LoadMergeFiles`, `OpenDB` the rest of a succeeding Open, `OpenRefused` the one that
finds `seq-no` empty, which `CrashInClose` leaves behind.  `Merge` is one step, taken
when nothing else goes on (`Merge` has it call by call).  Rotation, `Sync` and failing
appends are those of `Bitcask` and left out.  `acked`, `crashed` and `replaced` are
history.

### DataFile and the code

A record is a row of cells, one for each field that `EncodeLogRecord` writes: checksum,
type, key size, value size, key, and the value unless it is empty.  `ReadLogRecord`
gives what the function may return at an offset: a whole record if one starts there; the
end of the file if fewer bytes than checksum and type are left, if the header is all
zeros, or if the sizes lead beyond the end; otherwise, for bytes that are no record, the
end of the file or a bad checksum, either of which the sizes read there may bring about.
With checksum and type alone the library reads both sizes as 0, so that a record cut there
is a bad checksum and not the end of the file.  `WriteFails` stores a part and leaves
`WriteOff`; the next `Write` goes to the end of the file all the same.  `SyncFails` is a Sync that
fails behind a whole write (`db.go:413`): the call returns an error, the record stays and `WriteOff`
is behind it, and the index is as it was, so Get and the next Open may tell different things.
`kept` is history: of each key the value of the last write that returned nil, and those of
the later ones whose Sync failed.  A Sync that succeeds puts the whole file on the disk, also
after one that failed (`fio/file_io.go` makes nothing of an earlier failure).  `PowerLoss` keeps
some prefix with the synced part; the rest is gone or, with `"zeros"`, reads as zeros.
`Open`, `ScanRecord`, `ScanEnd` and `OpenRefused` are `newDatafile` and the scan.

### Readers and the code

`writer`, `readers` and `blocked` are Go's `RWMutex`: `Announce` is `Lock` up to the
wait for the readers that are in, `AppendRecords` comes when they have left.  Put and Delete
unlock before they update the index (`UnlockEarly`), Commit after (`KeepsLock`).  An
iterator is a snapshot of the index, sorted as `newBtreeIterator` and `newARTIterator` sort
it, and an index into it; `SeekIndex` is `sort.Search` with the test of `Seek`,
`SkipToNext` the prefix filter, `Value` and `NextKey` the read under the lock.  Keys are
sequences of bytes, compared as `bytes.Compare` does.

### Redis and the code

`store` maps engine keys to values: a key to its metadata or a string; key, version and
member, field or index to an element; key, version, score and member to the second entry
of a sorted set.  A call is a read of the metadata (`Start`), a read of the element
(`...Look`), `wb.Delete`'s look at the index (`StageDeletes`) and a `Commit`; a pop is
read, `PopDelete` and `PopPut`, in no batch.  `CallFails` ends a call at any commit, Put
or Delete.  A reader is `ReadStart` (metadata) and `ReadLook` (the element, or an
iterator over all).  `possible` is history: what the structure held at the instants of the
call.  Faulty or interrupted pops may lose an element; `lost` remembers which.
`RedisAssumption` says of the keys what their encoding gives: no element or score key is the
key of a structure, and the answer of a read that finds nothing, `Gone`, is no value.

## 3. Runs

### Passing

`IndInv` and the other invariants with `IndInv` or `Inv` in their names are the inductive
invariants of section 4; TLC checks them where the properties they carry are checked.

| Run | Shows | Instance |
|---|---|---|
| `engine` | `TypeOK`, `IndexSound`, `BatchContiguous`, `AckedBatchDurable`, `BatchAtomic`, `BatchIndInv`: with failing syncs and power losses anywhere no index entry leads to a wrong record, no foreign record stands inside a batch, a batch is there whole or not at all, a synced one stays, also when it spans two files | 2 keys, written by a direct writer and a batch, 2 files of 2 records, 2 commits |
| `refine` | `IndexAgrees`, `AgreeIndInv`, `Refines`: with one writer per key and `SyncWrites` the engine implements `KVStore`, across failing opens and writes, crashes, power losses and restarts | 3 keys, 1 direct writer, batches of 2, 2 files of 3 records, 2 commits |
| `merge` | `TypeOK`, `KeepsValues`, `MergeEquivalent`, `MergedValueDurable`, `ValuesIndInv`, `SyncIndInv`: synced commits beside Merge, then Close and Open, over and over: unless `mergeDB` adopts a file, no answer changes, and the record that replaces a merged one is on the disk, too | 2 keys, batches, 4 files of 3 records |
| `merge_faults` | `HintSound`, `WritersApart`, `MergeIndInv`: the entries Merge writes to `hint-index` are live records, and no file gets a second writer but one that `mergeDB` has adopted, under crashes and errors at any point of Merge and of the swap | 2 keys, 1 direct writer, 4 files of 1 record |
| `tree` | `EntriesSound`, `AckedVisible`, `BatchVisible`, `NumbersFresh`, `TreeIndInv`: entries of the B+ tree lead to records that count, through crashes; acknowledged writes stay visible; batches show whole and no number is used twice as long as every instance is closed | 3 keys, 1 direct writer, 1 batch, 5 records, 3 commits, crashes, 1 Merge |
| `datafile` | `EntriesRead`, `SyncedKept`, `FileIndInv`: through parts of writes, failing syncs, power losses and zero-filled ends, as long as nothing was written behind a part, entries lead to their records, and with `SyncWrites` Get answers with the last write that returned nil or a later one whose Sync failed | 2 keys, 2 values, 22 cells (three to four records), 2 faults, with and without `SyncWrites` |
| `readers` | `FoldWhole`, `FoldInv`, `IterationComplete`, `IterInv`, `EveryCallReturns`: Fold never shows a part of the Commit beside it; an iteration yields exactly what prefix, direction and key of `Seek` ask for; every call returns | keys `1`, `1.2`, `2`, one put and deleted, two in a batch; `Seek` to a key that is never there and to one that may be; a writer, a batch, two readers |
| `redis` | `SizeIsCount`, `ScoresAgree`, `ListIsWhole`, `ReadsAreCurrent`, `RedisIndInv`, `Refines`: with one writer per key every call is one step of `Structures`, also when it fails half-way, and readers beside it get an answer of some instant of their call | 1 key, 2 members, 2 scores, lists at 2 indexes, 2 versions, 1 writer, 1 reader, failing commits, Puts and Deletes |

Bounds.  `MaxFileId` and `MaxSeqNo` stop the log from growing.  Two files of two records
are the least in which a file is rotated, a batch spans two files and a later file hides
an earlier one.  `merge` has files of three records because a commit of two is then cut
in half by a rotation; `merge_faults` has files of one, so that `mergeDB` rotates as
well.  Four files are enough to merge two, to seal the active one and to write on in the
merge directory.  Two commits are the least in which a number could be used twice; in
`merge` numbers go to four, for two values that are merged, a deletion beside Merge and
a value behind it, and begin again after the Open that reads merged files only; in
`tree` to three, for a restart and a crash.  Five records there hold a batch of two with
its end, a write before and one after. Two keys are the least in which half of a batch
differs from all of it; `refine` and `tree` need a third because their keys have one
writer each.  In `datafile` three records are the least in which a record is
overwritten, deleted and cut; two faults are a part of a write or a failing Sync, and a
power loss, or two of any.  In `readers` the keys lie before, on and behind those of
`Seek` and of the prefix; two readers and two writers are the least in which readers and
writers shut one another out in turn.  In `redis` two versions are a key before and
after it was deleted, two members the least in which a counter can differ from 0 and 1,
and two list indexes let a list be pushed and popped on both sides; the indexes used lie
below `InitialListMark`, so pushes on the right come after pushes on the left.
Keys, values, members and direct writers are symmetric where they are interchangeable;
a step of `KVStore` is the same for the keys of one writer and a step of `Structures` for every
member, so it is sound with `Refines`, a property of single steps; it is not used with
`EveryCallReturns`.  Commits are not started when the bound
would stop them half-way (`Room`, and the first guard of `CommitAppend` in `Merge`), so the
bound makes no behaviour look like a stuck one.  Deadlock is checked in every run.

With `SyncWrites` a crash and a power loss leave the same files; `refine` therefore speaks
of process crashes without `SyncWrites` as well.  A failing sync is not among its faults: an
append whose sync has failed returns an error although its record stays and counts after
the next Open.

`HintSound` speaks of the merge directory only.  After the swap `KeepsValues` speaks of
what Open makes of the file, and under a crash within the swap nothing can be said of it
(`merge_swap`).

Fairness is stated in `Readers` alone.  Every goroutine that can take a step takes one
(`WF` of the steps of a call): the Go scheduler runs every runnable goroutine.  `SF` of
`Announce`: the mutex that writers queue for inside `RWMutex` hands itself to the one that
has waited for a millisecond (starvation mode of `sync.Mutex`), so a writer is not passed
by for ever although the mutex is taken again and again.  Nothing is assumed of readers
against writers: `Unlock` lets in all that came meanwhile, and a waiting writer keeps later
ones out.  That a call begins is not assumed; that a caller goes on with an iteration it
has begun, and that the callback of `Fold` returns and stays away from the store, is.

### Violations

Each of these runs checks one property: what a comment of the repository says and the code
does not keep.  `PROJECT.json` quotes the statement; TLC prints the behaviour.

| Run | What happens |
|---|---|
| `merge_adopt` | with commits only and no fault: the running instance rotates before `mergeDB` has listed the merge directory, and commits a deletion there; Merge, which finds the key in the index still, copies its old value behind it, and after Close and Open the key is back |
| `merge_put_race` | Merge meets the record of a Put whose index update is still to come, takes it for dead and drops it; the index then points into a file the next Open removes |
| `merge_swap` | a crash between two renames: the next Open deletes the files already moved |
| `tree_merge` | with the B+ tree the Open after a Merge moves an index without entries over the one in use, and the one after it finds no key |

Things the model has steps for and no run asks about.  No doc speaks of them but in one
case, the first:

- with the B+ tree a crash within the loop of Commit leaves half of the batch visible for
  ever, although "WriteBatch" is to "ensure atomicity" (`batch.go:14`): `BatchWhole` of
  `TreeStore` is false then, and `BatchVisible`, which the run `tree` checks, says that
  a crash is the only way to it;
- two writers of one key update the index in the other order than the log, and after a
  restart `Get` answers differently (`Bitcask`); the second of two Deletes of a key returns
  `ErrIndexUpdateFailed`; after Close and Open, which resets `bytesWrite`, more than
  `BytesPerSync` can wait for a sync;
- a crash during Merge takes the files the instance has created in the merge directory; after
  a second Merge data are in a directory Open never reads; Merge turns `SyncWrites` off for
  good (`Merge`);
- with the B+ tree, batch numbers start again after a crash; a crash within Close makes every
  later Open fail; Close of an empty store, or a Merge, keeps the next Open of the process
  waiting (`TreeStore`);
- after a part of a write was stored and another record written behind it, the entry of one
  key can lead to the record of another; a record cut right behind its type makes every later
  Open fail; a Put whose Sync failed is not in the index and comes back at the next Open
  (`DataFile`);
- iterators, which do not take `db.mu`, see a part of a batch that is being committed, and
  `batch.go:14` does not say whether its atomicity is one for readers too (`Readers`);
- with two writers of one key the Redis types lose elements and counts (`Redis` has no lock;
  the run has one writer per key).

## 4. Proofs

Every theorem holds for every value of the constants that satisfies the assumptions of its
module: any number of keys, callers, files, records and commits, every combination of
options, and all faults unless a hypothesis excludes one.  TLC evaluates the assumptions in
every run: `SizesAssumption` (sizes are naturals, a file holds a record),
`OptionsAssumption`, `ClientsAssumption` (a client is a direct writer or a batch, not both),
`MarkersAssumption` (tombstone, end marker and values differ), and their like in
`TreeStore`, `Merge`, `DataFile`, `Readers` and `Redis`.

| Theorem | Says | Hypotheses |
|---|---|---|
| `TypeCorrect`, `IndexIsSound` (`BitcaskProofs`) | types; an index entry leads to a committed record with a value of that key.  `getValueByPosition` compares no key (`db.go:310`), so this is what keeps `Get` from answering with the value of another key | none |
| `BatchesContiguous`, `BatchesAtomic`, `AckedBatchesDurable` (`BitcaskProofs`) | no foreign record inside a batch; a batch whose end is in the log is there as it was committed, through every crash, power loss and restart; a batch that was to be synced is | none |
| `IndexAlwaysAgrees` (`AgreeProofs`) | between calls the index is what Open would rebuild | `DisjointKeys`, `NoLateFailure` |
| `EngineIsOneMap` (`AgreeProofs`) | `Bitcask` implements `KVStore` | `DisjointKeys`, `NoLateFailure`, `NothingLost` |
| `FoldAlwaysWhole` (`ReadersProofs`) | `Fold` shows no part of a Commit | one goroutine commits, and nobody else writes its keys (`ReadersAssumption`) |
| `IterationAlwaysComplete` (`ReadersProofs`) | an iteration yields the keys that prefix, direction and key of `Seek` ask for, all of them, no others, in order | `ReadersAssumption` |
| `EntriesAlwaysSound`, `NumbersAlwaysFresh` (`TreeProofs`) | with the B+ tree, entries lead to records that count; no number is used twice while instances end with Close | none |
| `AckedAlwaysVisible`, `BatchAlwaysVisible` (`TreeProofs`) | with the B+ tree acknowledged writes stay visible; batches show whole or not at all while no instance dies | `DisjointKeys` |
| `SizesAreCounts`, `ScoresAlwaysAgree`, `ListsAreWhole`, `ReadsAlwaysCurrent` (`RedisProofs`) | `meta.size` counts the members; a sorted set has one score key per member; a list has the elements between `head` and `tail`; a read answers as of some instant of the call | `OneWriterPerKey` |
| `RedisIsStructures` (`RedisProofs`) | `Redis` implements `Structures` | `OneWriterPerKey` |
| `EntriesAlwaysRead`, `SyncedAlwaysKept` (`DataFileProofs`) | as long as nothing is written behind a cut record, an entry reads back as a value of its key, and with `SyncWrites` the store answers with the last write that returned nil or a later one whose Sync failed, through parts of writes, failing syncs, power losses and zero-filled ends | a Sync that succeeds puts the whole file on the disk |
| `MergeTypes`, `WritersAlwaysApart`, `HintsAlwaysSound` (`MergeProofs`) | unless `mergeDB` has adopted a file of the running instance: types; of the files both create in one directory none has two writers; `hint-index` leads to live values only | none |
| `MergeAlwaysEquivalent` (`MergeLogProofs`) | once Merge has finished, `hint-index` and the files that were not merged say of every key what the running index says, unless `mergeDB` has adopted a file | `CommitsOnly` |
| `ValuesAlwaysKept` (`MergeLogProofs`) | no Get changes its answer before, during and after Merge and the Open that swaps the files in, unless `mergeDB` has adopted a file | `OneMergeNoFaults` |
| `MergedValuesAlwaysDurable` (`MergeLogProofs`) | Merge copies the value of a key or leaves it to a newer record that is on the disk, unless `mergeDB` has adopted a file | `CommitsOnly`, `BatchSync` |

`Invariance`, `BatchInvariance`, `AgreeInvariance`, `FoldInvariance`, `IterInvariance`,
`TreeInvariance`, `RedisInvariance`, `FileInvariance`, `MergeInvariance`, `LogInvariance`, `ValuesInvariance` and
`SyncInvariance` state the inductive invariants themselves.  The theorems about `TreeStore`
reach, as its properties do, up to the Open that moves the files of a Merge over the tree
(`replaced`); what happens then is the run `tree_merge`.

The theorems about `Merge` have no hypothesis about the adoption of a file of section 2: it is
in `Spec`, and what they state is `shared \/ ...`, up to that step.  What comes after it is
the run `merge_adopt`.

The hypotheses are what the code asks of its callers, not what it ensures:

- `DisjointKeys`: no key has two writers.  `Put` updates the index after it has released
  `db.mu` (`db.go:250`), so two Puts of a key may do so in the other order than the log.
- `NoLateFailure`: no Sync fails, or no call syncs what it has written.  `appendLogRecord`
  returns the error of a failing Sync (`db.go:414`) and leaves the record, which the next Open
  finds: the call has failed and taken effect.
- `NothingLost`: power fails only under `SyncWrites`.  Without it a write that has returned
  may be gone, which `KVStore` does not do.
- `OneWriterPerKey`: the Redis types read the metadata of a key, compute and commit
  (`redis/types.go:88` and the others), so of two calls on one key one may overwrite what the other counted.
- `ReadersAssumption`: one goroutine commits (`Fold` is whole beside several, too, but what
  is whole is then not one set of keys), and the keys of its batch have no other writer.
- `CommitsOnly`: every write beside Merge is a Commit, no crash comes within the swap and no
  Remove or Rename of it fails.  With a Put of its own `MergeEquivalent` is false
  (run `merge_put_race`), with a crash within the swap the answers change (`merge_swap`).
  Failing calls of Merge, crashes at any other time and any number of merges are included.
- `OneMergeNoFaults`: commits only, no fault, one Merge of an instance at most.  A crash during
  Merge, a failing call of it, or a second Merge leave files of the running instance in a
  directory that Open does not read (section 3), so `KeepsValues` is false without it.
- `BatchSync`: commits ask for a sync (`batch.go:121`); Merge turns `SyncWrites` off.

### Bitcask: four layers

`IndexSound` alone is not inductive: the position an index entry will get is computed
before the record is indexed, from `writeOff`.  `IndInv` adds that while open `writeOff` is
the length of the active file, the last one on disk (`WriterInv`); that only end markers
have the end marker's key and no file outgrows `DataFileSize` (`DiskInv`, `LogWellFormed`);
that the client inside Commit holds `db.mu` (`LockInv`); that the records of calls in progress
stand where the calls say (`CallersInv`); and that the scan of Open keeps of a batch only
records of that batch (`LoaderInv`).  The proof first says what an append, a failing one
included, does to any log (`LogAfterAppend`, `StoreAfterAppend`, `StoreAfterFailure`), then
carries each part over a step that keeps the log, then has one lemma per action.
`PowerLossStep` is the one step that removes records; there the instance is gone and with
it every position.

`BatchIndInv` adds what makes batches whole.  That a committed batch is complete
(`AllThere`) follows from what its Commit has still to write (`CommitRunning`, with `AtTail`:
the records of a running Commit are the last ones of the log, none is the end, none stands for
a key still to be visited).  That no other batch has its number needs `NumbersKnown`:
`seqNo` is no less than any number in the log, or in the part of it the scan has passed; the
number of a Commit that failed is used up all the same.  That a cut by power loss takes a
batch or its end with it, and that only the newest file can be cut, is `EndLast` with
`SideBySide` and `SyncOrder`: rotation syncs the file it leaves.

`AgreeIndInv` speaks of the newest record that counts of each key.  While open, the index has
it, or the one call that is busy with the key does (`OpenInv`; here a second writer of the key
would break the invariant).  While loading, the index is right for the prefix the scan has
read, and the scan keeps exactly the records of the batches without an end there (`ScanInv`).
`AllSynced` lets a power loss leave all that was written.

The refinement maps a state to the map a reader sees, the batch that is being applied
counted in whole, and shows of each step that it is a `KVStore` step or a stutter: a Put or
Delete takes effect at its index update, or at the crash before it if the record is in the
log; a Commit when its end is in the log; a call that fails, never; Open changes nothing.
While open the map is what the index tells, otherwise what the log tells, so the steps between
the two (`LoadEnd`, `Close`, `ProcessCrash`, `PowerLoss`) rest on `AgreeIndInv`.

### DataFile

That an entry stays right (`EntriesInv`) is kept by whatever appends: bytes that stand in the
file do not change, and a power loss closes the store, which forgets the entries.
That the entries are right again after a scan needs to know what the scan can meet.
`AckedInv` says that there is a place in the file up to which it is whole records, one after
the other (`Whole`), and behind which no whole record stands (`Torn`).  The records whose Sync
failed are among them, so the place may lie behind `synced`.  Of each key the newest acknowledged
record and all before it are within `synced`, and the records of the key behind them, if any,
have values in `kept` (`KeptIn`): wherever a power loss cuts, the newest record left has such a
value.  A running scan is on the boundary of two records there, with the index that the records
before it make (`Indexed`); while open `WriteOff` is that place, and the index leads to a value in
`kept` (`Tells`), not always to the newest record: a call whose Sync failed has not updated it.
A part of a write that would be a record by chance does not exist here (checksums), so a
cut leaves `Torn` as it is, and a power loss takes records from the end, cuts one or zeroes it.
Once something is written behind a cut record (`spoiled`) `WriteOff` and the end of the
file differ for good, and entries lead to other bytes.

### Merge: where the files are

`HintSound` and `WritersApart` depend on which of the two instances has which file in which
directory, and an index entry names no directory.  `MergeIndInv` has, until a file is
adopted (`ApartInv`): the instance's files are those with the largest numbers (`OpenInv`);
`mergeDB` has the files up to `mergeFile`, the instance those behind `nonMergeFileId`, and a
copy never overtakes its original (the last part of `MergeInv`), so that the two do not
meet, for the files of the merge directory are those behind the boundary until `mergeDB`
lists it, and it finds none or has adopted one; an index entry in the active file leads to a
record that is there, and one elsewhere into a file nobody appends to (`IndexInv`), so that
no value can appear where a stale entry leads; and, for a swap that may stop half-way and
begin again, that the boundary is a file of directory 0 with the copies below it
(`SwapInv`).

### Merge: what the logs say

`MergeLogInvariant` takes a log as a function from file numbers to records, wherever the files
are, so that one theory serves the log of the running instance (`RunLog`), the one the next Open
will read (`NextLog`, which during the swap is made of both directories), and the copies alone.
A record counts when it stands alone or its batch ends in the log; `Tells` and `Says` are the
index entry and the value a key has by the newest record that counts.  `EndsLast`, that a
batch ends behind its records, makes counting from a file on the same as counting at all, for
records from there on (`CountsFrom`), and this is why Merge may drop the files below a boundary
although a batch may lie across it.

`LogIndInv` says, until a file is adopted, of the running log that the index has what it
tells, but for the key a Commit is about to put in (`IndexTold`); of the copies that each is
of a value, without a batch number, and that `hint-index` has the last one of each key
(`Copies`); and of a key of which nothing counts behind the boundary, that its index entry
is still to be scanned or has been copied (`ScanInv`).  The last is where a Commit beside
Merge matters: it moves the key behind the boundary while it holds `db.mu`, and `MergeStart`
holds `db.mu` when it sets the boundary, so no record below it is without its index entry.
Every step of the swap leaves `NextLog` as it is (`SwapStepKeepsLog`); Load reads exactly
`NextLog` (`LoadIs`).  For `KeepsValues` it is left to show that at Close the log says of
every key what the next one says (`SwapSays`); for `MergedValueDurable`, that what counts
behind the boundary ends in a record that is synced, and with it everything before it, for
rotation syncs the file it leaves (`SyncInv`, `CountedSynced`).

### Readers

`FoldWhole` holds because a Commit keeps the lock until its last index update, so the proof
is about the lock: `LockInv` says which calls hold it, and that a writer past its wait has no
reader beside it; `TodoInv` and `WholeInv` say what the index holds of a Commit that is under
way, and that it is whole when none is.

`IterationComplete` is about sequences, and its lemmas come first: `bytes.Compare` is a strict
total order of the keys in either direction (`AheadOrder`), every finite set of keys has its
sorted sequence (`EnumerationExists`), `sort.Search` returns the least index its test accepts, if
the test accepts all behind it (`SearchIs`), and the test of `Seek` does so because it turns with
the direction (`SeekIndexIs`).  Inductions over sizes are written as a search for a smallest
counterexample.  `IteratorOK` then relates what an iterator has yielded to the keys before its
index: those, of them, that are wanted; and it stands at one that is wanted.

### TreeStore

Here nothing is rebuilt: the tree is what it was when the process died, so the invariants have to
say which entries it can have.  `SoundInv` holds for any callers: the records of calls in
progress stand where they say, the end of a batch precedes its entries, and `seq-no` is no less than any
number, unless an instance died (`NumbersInv`, conditional on `~crashed`).  `VisibleInv`
adds, when no key has two writers, that nobody writes a key behind its writer's back
(`NewestInv`), that a Commit applies what it has staged, and that every record of a batch but
those of the running one can be seen (`ShownInv`).  `BatchVisible` alone is not inductive
because a Commit is seen in parts while it applies; `RunningInv` tells its records from
others.

### Redis

The state between two steps of a call is where the counters could go wrong, so the invariant
speaks of calls: `Current` says that the metadata a call has read are those of the key now, or
those of a structure that is not there yet and has no elements under its version; `Sound` says of
such metadata that size, scores, head and tail agree with the elements under their version.
Each call then has its own clause with the batch it has put together.  A list may lack the
element of a pop between its two writes, or one that a failed pop removed, and no other
(`Listed`).  For readers, `ReadInv` says that what a reader would find under its version is a
right answer now or was when that version ended: a version is never used again, which
`StoreInv` gives from the clock.

For `RedisIsStructures` the Commit of a call is a step of `Structures`, so are `Set`,
`Delete` and the Delete of a pop; the Put of a pop, which moves `head` or `tail` over a place
that is empty already, and all that fails are stutters.  A list is the sequence of the values under
its indexes in their order; `ListingLeft` and `ListingRight` say what one index
more at either end does to it (`Nth`, the member with so many below it).

### What stays with TLC

`EveryCallReturns` is liveness under fairness.  Every other property of a passing run is a
theorem, under the hypotheses above.

## 5. Not modelled

- Bytes: lengths of fields, encodings of numbers, checksums that fit by chance.  Records of
  several sizes exist in `DataFile` only; elsewhere a record is one unit.  Engine keys of
  the Redis types that differ in a part are taken to differ as bytes.
- `reclaimSize`, `DataFileMergeRatio` and the test of free space: `Merge` may start
  at any time, as with ratio 0.  `DataFileSize` and `IndexerType` do not change between Opens.
- `Stat` and `Backup`, which only read; `ListKeys`; `MMapAtStartup` and `fio/mmap.go`, which
  change how files are read at Open and nothing that is read (with the B+ tree, where they
  are not switched back, the first write panics: a hazard without a property).
- What `BTree.Get`, which takes no lock, sees of a tree that is being restructured: the
  outcomes are those of a library.  The iterator of the B+ tree, which is bbolt's cursor
  (vendored, `vendor/go.etcd.io/bbolt/cursor.go`).
- `wb.mu`: one goroutine per batch.  The lock on the directory.
- Loss of directory entries; in `Merge` and `TreeStore`, loss of file contents (`synced` in
  `Merge` says what would be lost).
- In `Merge`: Close while Merge runs; failing calls before the lock is released; a
  left-over directory `d + 2` when `mergeDB` is opened; the file lock and the file
  handles of `mergeDB`, which is never closed.
- `Close` without a data file returns at once; the data are the same either way
  (`TreeStore` has what it leaves open).
- In `Redis`: `LAll`, `LSize`, `Type`, which only read; the expiry of strings, which only
  changes what `Get` says; two readings of the clock that agree.
- The HTTP server adds a loop around `Put`; utilities, examples, benchmarks and `check.go`
  are callers or conversions.

## 6. Plan

Built: all modules of section 2, with theorems about every module that has a state.  What a
continuation would take up:

- `MergeAdmission`: `reclaimSize`, its unlocked updates and the tests at the start of
  `Merge` in their integer widths; `ListKeys`.
