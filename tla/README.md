# DisKV: a TLA+ model of the distributed WiscKey store

DisKV keeps keys and values apart. A *master* holds, in a LevelDB tree, the
address of every value; *slaves* (workers) hold the values in value logs; a
*client* learns from the master which slave owns a key and then talks to that
slave. This directory models these parts, checks them with TLC on small
instances, and proves the properties that matter most with TLAPS for every instance.
The master runs the tree with `no_vlog`; the tree with a vlog of its own, which
the library still offers, is modelled as well.

## The system

| part | code | state | operations |
|---|---|---|---|
| value log | `db/vlog_manager.*`, `db/vlog_writer.cc`, `db/vlog_fetcher.cc` | per file a 4 KB buffer, `size_`, `head_`; the current file | `AddRecord`, `FlushCurrentBuffer`, `FetchValueFromVlog`, `GetWritePos`, `SetHead`, `AddVlog`, the destructor |
| slave, commands | `distributed/slave.cc` | `g_vlog_number`, the manager, client buffers | PUT, GET, DELETE, SCAN, GC |
| slave, GC thread | `distributed/slave.cc` | `g_gc_threshold` | collect the oldest vlog every 30 s when there are enough |
| slave, persistence | `distributed/slave.cc` | VLOG_META, the vlog files | `save_vlog_meta`, `init_vlog`, `shutdown_vlog` |
| slave, master link | `distributed/slave.cc` | `g_master_fd`, `g_master_mutex` | request and reply, hangup, reconnection |
| master, event loop | `distributed/master.cc` | `connections`, `g_worker_fds`, epoll | accept, read, write, close |
| master, commands | `distributed/master.cc` | the tree: key to address | PUT_ADDR, GET_ADDR, GCGET_ADDR, DELETE_ADDR, SCAN_ADDR, UPDATE_ADDR, HELLO, COMPACT |
| client | `distributed/client.cc` | `route_table`, `slave_fds` | HELLO, PUT, GET, DELETE, SCAN, GC, COMPACT, QUIT |
| LSM tree | `db/db_impl.cc`, `db/version_set.cc` | memtables, levels, manifest, snapshots | write, get, flush, compact, recover |
| tables and iterators | `table/*`, `db/db_iter.cc`, `db/table_cache.cc` | blocks, index, filters; the position of a scan | build, look up, seek and step |
| write queue | `db/db_impl.cc`, `db/write_batch.cc` | `writers_`, `vlog_head_`, `bg_error_` | `Write`, `BuildBatchGroup`, `MakeRoomForWrite` |
| memtable | `db/memtable.cc`, `db/skiplist.h` | a skip list that is read without a lock | `Add`, `Get`, iterate |

What makes it hard: two threads of a slave share the log and one connection;
GC moves records while clients overwrite and delete them, with a request to
another process between any two of its statements; files are removed while
addresses into them are on their way; processes crash between writing a value,
registering its address and saving the write position; replies come in pieces
over connections that break; descriptors are reused. The tree below the master
merges and drops entries in the background while it is read and written, and
has no log.

What correctness means here: a value that was stored is found under its key
until it is overwritten or deleted, and a deleted key stays deleted, whatever GC
does; an address always names the record it was made for; a restart finds what
a graceful stop left; every reply reaches the one who asked; commands, GC and
shutdown come to an end. Of the tree: a read finds the newest entry its snapshot
sees, whatever is flushed, compacted or inserted meanwhile, and a restart finds
what was flushed.

## Modules

**`Vlog`** has the value log as pure operators. Bytes are abstracted to *where
records lie*: a chunk is a length and a set of placed records; appending shifts
positions. `AddRecord`, `FlushBuffer` and `Get` are `VWriter::AddRecord`,
`FlushCurrentBuffer` and `VlogFetcher::Get`. Reading at a place where no record
of that size starts yields `Garbage`.

**`VlogManager`** is one running slave's use of it: `Write` and
`RotateAndWrite` are the two paths through `write_value_to_vlog`.
**`AppendLog`** is what it promises: every write gets an address behind all
earlier ones and nothing stored ever changes. **`VlogReader`** reads the rotated
files back as GC does: `ReadRecord` with its block buffer, and `Walk`, the loop
of `execute_gc_on_file` that adds up offsets.

**`SlaveGC`** is one slave with its two threads and the master's map from keys
to addresses. A step is a critical section of `g_vlog_mutex` or an exchange
with the master; `pc` says where a thread is between them. Records have one
size, so an offset is an index. The exchange with the master can be answered,
refused with ERROR, lost after it took effect, or fail. A thread can also hang in
it (`Hung`): after an ERROR to SCAN_ADDR, which has no END, and on a descriptor
that the event loop closed and got again (`DescriptorReused`); it holds
`g_master_mutex`, and the other thread waits too. `blame` is a history variable
that collects the hazardous events; the properties say exactly which of them can
do harm.

**`SlaveRecovery`** is a slave over several lives: writing, saving VLOG_META in
two steps, GC record by record, graceful stop, crash at any step, and `init_vlog`
with its three cases. GC examines a record in one step (`GcMove`, `GcPass`), in
which any of its exchanges or the rewrite may fail, and may leave its loop early;
`skipped` is history, the addresses whose record it could not deal with.

**`SlaveLink`** is the connection to the master with the descriptor table, as
closing and reopening reuses numbers. **`MasterConn`** is the event loop of the
master: batches of edge-triggered events, descriptors given out again, full
socket buffers, FIN and RST, and registrations with epoll that fail (`failed`): the
descriptor of a new connection is then closed and its `Connection` stays, that of
a worker found at startup stays open and is never reported. **`Client`** is one
client with several slaves: routing, replies that arrive in parts, crashes and
restarts of slaves, values that a slave cannot read, other clients that write.

**`VersionSet`** has the tree's versions as pure operators: how a version is
searched, where a memtable is put, which files a compaction takes
(`SetupOtherInputs`, `AddBoundaryInputs`), which entries it drops (`Survivors`)
and how an edit is applied. A file is its number and its entries. Where the code
compares byte sizes with a limit, both outcomes are possible. **`Lsm`** is the
tree in motion: a writer (`PutAddress`, `DeleteKey`), a caller of
`CompactRange`, a reader, snapshots and the background thread, whose position is
`bg`. A step runs from taking `mutex_` to releasing it; building a table,
writing MANIFEST and unlinking files are steps of their own, so that crashes and
errors fall between them. `log` and `safe` are history: what was written and what
of it was flushed.

**`Iterators`** has block, list, two-level and merging iterators as values with
five operations; **`TableFile`** builds a table (blocks, restart points, index
separators, filters) and looks entries up in it. Blocks have a size, an entry
with a value being four times one without, so that a block can be longer than the
range of a filter and the filters of the ranges behind it are empty. **`DBIter`** is `DBAddrIter` over
all of this, driven by one user who seeks and steps. `at` is where a plain cursor
over the visible pairs would stand.

**`SkipList`** is the memtable's list: the writer links a node level by level, a
reader without a lock follows one pointer per step. **`WritePath`** is
`DBImpl::Write` above it, for a tree with a vlog of its own: the queue, groups,
the record in the vlog, the addresses that `WriteBatch::Iterate` computes, the
switch of memtables, failing appends, syncs and flushes.

How they fit together: `SlaveGC` takes from `VlogManager` that a rotated file
holds all of its records (`RotatedVlogsOnDisk`) and that records stay where they
are (`ImplementsAppendLog`), and from `VlogReader` that GC finds them under their
addresses (`WalkFindsAddresses`); it takes from `SlaveLink` that a reply belongs
to its request (`ReplyIsMine`); `Client` serves a request in one step, where
`SlaveGC` has the detail. The atomic map of the master in `SlaveGC` and `Client`
is what `Lsm` shows of the tree (`ReadsAgree`); `Lsm` searches files as sets,
which `DBIter` shows of tables (`TableGetsAgree`, `CursorAgrees`); it adds to a
memtable in one step, which `WritePath` shows of the queue and the list
(`WritesApplied`, `ReadsSeeSnapshot`).

## Runs

Passing runs. All say `CHECK_DEADLOCK FALSE`: the programs may stop, by a
signal, by QUIT, or because the bounds of the model are used up.

| run | distinct states | shows |
|---|---|---|
| `vlog_manager` | 7,369 | addresses read back (`ReadBack`), the buffer is not overrun, `head_` is the file length, rotated files are complete, the walk of GC finds every record under its address, also in files that are cut off (`WalkFindsAddresses`), the abstract log is implemented |
| `slave_gc` | 3,104,714 | without a blamed event no value is lost, changed or revived (`ValuesSafe`); reads return the value (`ReadsReturnValue`); what GC has passed is and stays garbage (`ScannedIsGarbage`) |
| `slave_gc_live` | 255,192 | files beyond the threshold are collected (`OldFilesCollected`), unless a thread hangs, the slave stops or SIGPIPE ends it |
| `slave_recovery` | 2,896,775 | without a crash all stored values but those GC skipped are on disk at their address, and the current vlog is readable after restarts; no step takes a record out of a file |
| `slave_link` | 182,849 | replies are never mixed up; exchanges and shutdown end, with the named exceptions |
| `master_conn` | 862,579 | bookkeeping matches the descriptors (`ConnectionsMatch`), also where a registration failed, `g_worker_fds` is right as long as nothing is reset, a healthy connection is closed only after a reset; no lost wake-up |
| `client` | 1,552,328 | replies are attributed to their command, requests go to the owner, SCAN is ordered and has every key whose value can be read, with the named exceptions; every command ends |
| `lsm` | 1,926,886 | reads at every snapshot and after a restart find the newest entry (`ReadsAgree`); levels stay disjoint and newer above older; no file in use is unlinked and no number is used twice (`FilesKept`) |
| `lsm_manual` | 106,179 | what was written before `CompactRange` is durable when it goes on (`FlushForced`); writers, `CompactRange` and closing return (`CallsReturn`) |
| `iterators` | 133,810 | a scan in both directions agrees with a plain cursor (`CursorAgrees`), an error stays visible (`ErrorsStay`), filters and index never hide an entry (`TableGetsAgree`) |
| `write_path` | 446,637 | group commit applies every write whole and in order (`WritesApplied`), under the address it has in the vlog (`AddressesExact`); reads see a snapshot (`ReadsSeeSnapshot`); every call returns (`WritesReturn`) |

One run ends in a counterexample against a line of the repository:
`restart_reads_old_vlogs`. After a graceful restart `head_` of all vlogs but the
current one is 0 (`slave.cc:739`), so their values cannot be read, where
`DisKV_README.md:101` says that the data can be tested again.

Other deviations the models show have no run of their own. Each is a named
exception in a property that passes. `"gap"` takes three keys and six writes, more
than the runs have; with the keys written in the order 1, 1, 3, 3, 2, 2 and one
`CompactRange`, TLC finds `LevelsDisjoint` violated without this exception.

| where | what happens | exception in |
|---|---|---|
| `master.cc:426` | DELETE between GCGET_ADDR and UPDATE_ADDR; the key comes back, contrary to the comment at 411 | `"resurrect"` in `blame`, `ValuesSafe` |
| `slave.cc:346, 393` | the other thread rotates before `g_vlog_number` is read, and the address names the wrong file | `"mislabel"` in `blame`, `ValuesSafe` |
| `slave.cc:803, 916-918` | GC passes a record of a PUT under way, or leaves its loop early, and removes the file | `blame`, `ValuesSafe` |
| `slave.cc:832-896, 918` | an exchange, the rewrite or a read of the file fails, or the loop ends early, and the file goes with values that are needed | `blame` in `SlaveGC`, `skipped` in `StoppedHasAllOnDisk` |
| `slave.cc:918` | a file without a complete record is kept, and tried again every time, as the oldest | no such file in `SlaveGC`, whose `OldFilesCollected` would fail for all files behind it |
| `slave.cc:303` | the saved position counts bytes that a crash loses, and later addresses are wrong; the comments at 288 and 462 promise recovery | `crashes = 0` in `CurrentReadable` |
| `slave.cc:1139, 1146` | a thread waits on a descriptor that was closed and reused | `Stuck`, `WaitsOnOther` in the liveness of `SlaveLink`; `Hung` in `OldFilesCollected` |
| `slave.cc:248` | an ERROR reply to SCAN_ADDR has no END and the slave waits, holding `g_master_mutex` | the same |
| `slave.cc:600` | a SCAN leaves out a value that cannot be read, and ends with END all the same | `steady` in `ScanComplete` |
| `slave.cc:551, 567` | a key containing ERROR hides the values of a SCAN | `ScanComplete` |
| `master.cc:757, 759` | after a reset a stale entry of `g_worker_fds` closes another connection | `Resets` in `HealthyStaysOpen`, `WorkerFdsAccurate` |
| `master.cc:732, 774` | a descriptor that cannot be registered is closed, and its `Connection` stays until the number is used again | `failed` in `ConnectionsMatch` |
| `master.cc:679` | a worker whose descriptor cannot be registered at startup is never served | `failed` in `RequestsAnswered` |
| `client.cc:231` | a value ending in END cuts the reply | `cut` in the properties of `Client` |
| `client.cc:215, 219, 231` | an ERROR reply to SCAN has no END and the client waits | `WaitsForEnd` |
| `client.cc:71` | the client refuses a key that `DisKV_README.md:70` and `master.cc:147` accept | the guard of the client's actions |
| `db_impl.cc:920` | a memtable flushed inside a manual compaction lands in a gap between its inputs, on the level it writes to | `"gap"` in `blame` of `Lsm` |
| `db_impl.cc:920`, `version_set.cc:838` | LogAndApply reports an error although its record is in MANIFEST; the compaction under way repeats the flush | `"retry"` |
| `version_set.cc:1417` | boundary files are added on the upper level only; a deletion is dropped while what it hides stays on the lower one | `"split"` |
| `db_impl.cc:629, 764` | after an error `TEST_CompactRange` has cleared `manual_compaction_`, which the background thread then follows | `CrashOnNull`, an action of its own |
| `db_impl.cc:1338`, `vlog_writer.cc:37, 44` | after a failed append `vlog_head_` is off for the rest of the vlog; that of a large record's header is not even reported | `drifted` in `AddressesExact` |
| `db_impl.cc:1411` | the empty write of `TEST_CompactMemTable` is absorbed by another's group and switches no memtable | `absorbed` in `WritesApplied` |

Found by reading, outside of the models:

- A write to the tree's own vlog stays in `buffer_`; `VlogManager::Sync`
  (`vlog_manager.cc:78`) syncs the file without it. So a crash of the process
  loses writes, with `sync` too; `include/leveldb/options.h:198-205` says
  otherwise.
- `MakeRoomForWrite` (`db_impl.cc:1439`) turns to a new vlog without flushing the
  buffer of the old one, and `~VlogManager` flushes only the current one.
- `RecoverLogFile` reads a vlog from its beginning but counts positions from
  `VlogHeadPos`.

### Bounds

- `vlog_manager`: three sizes of entries (one fits several times, one fills the
  buffer exactly, one is larger than it), three files; buffer and file sizes
  small enough that all paths of `AddRecord` and rotation alternate. Files are
  read back in blocks of four sizes and cut off at every length.
- `slave_gc`: two keys, files of two records, three PUTs, three files, one
  fault. Two records per file make a file with a live and a dead record; three
  files let both threads collect while the third fills up.
- `slave_gc_live`: one key, one record per file, five files, thresholds 2 and 3, two
  faults, so that a hang can end and another come.
- `slave_recovery`: five writes, four files, two restarts, one crash: a restart
  with several files, twice, and rotation onto a number that exists on disk.
- `slave_link`: three requests per thread, three connections, one ERROR, two
  descriptor numbers (one connection is open at a time).
- `master_conn`: one worker and clients, three connections over two
  descriptors, so that a number is used again; one fault, a reset, a full socket or
  a registration that fails.
- `client`: two workers, three commands, one foreign write, one crash, one
  failure of the database (an ERROR, or a SCAN with values that cannot be read), one
  key that contains ERROR, one value that ends in END; characters at
  both ends of the ranges and one outside.
- `lsm`: five writes of two keys, one of which fills a memtable alone, three
  levels, and one event (a snapshot, a reader, an error, a crash or a stop).
  Five writes suffice for an entry, its successor and its deletion on three
  levels, and for a split of one user key over two files.
- `lsm_manual`: three writes of one key, each of which fills the memtable, one
  `CompactRange`, one event.
- `iterators`: all histories of four writes over three keys with one of them
  deleted, spread in seven ways over memtables, level 0 and level 1, blocks and
  files of two sizes, unreadable blocks or files, two snapshots; the user may go
  on for ever, as positions repeat.
- `write_path`: three calls with three operations in all, with and without sync
  or batch, one of them larger than the vlog buffer; up to three threads; lists of
  height two; one event (a read or a failing system call).

### Fairness

Weak fairness of the threads' own steps (the system schedules them), of the
event loops, of a master or slave that is up and has a request to answer, and
of peers that read what they are sent. No fairness is assumed of signals,
faults, crashes or of clients that issue commands. `slave_gc_live` assumes that
the GC thread wakes up again, which `gc_thread_main` does every 30 seconds, and
that a write to a reset connection delivers SIGPIPE. In `Lsm` and `WritePath` the
background thread runs when it is scheduled, and a thread that was signalled goes
on; a flush is not assumed to succeed.

## Proofs

| module | theorems | for every |
|---|---|---|
| `VlogManagerProofs` | `TypeCorrect`, `BufferSafe`, `HeadCorrect`, `ReadsBack`, `RotatedOnDisk`, `Refinement` | set of entries, sizes, buffer and file size |
| `SlaveGCProofs` | `NoValueLost`: `[]ValuesSafe`, `ReadsCorrect`: `[]ReadsReturnValue`, `PassedIsGarbage`: `[]ScannedIsGarbage` | number of keys, PUTs, vlogs and faults, size of a vlog, thresholds |
| `SlaveRecoveryProofs` | `GracefulStopKeepsAll`: `[]StoppedHasAllOnDisk`, `CurrentVlogReads`: `[]CurrentReadable`, `FilesOnlyGrow`: `RecordsStayInFiles` | set of entries, sizes, number of vlogs, writes, restarts and crashes |
| `SlaveLinkProofs` | `RepliesInStep`: `[]ReplyIsMine` | number of requests, connections, descriptors and errors |
| `MasterConnProofs` | `BookkeepingExact`: `[]ConnectionsMatch`, `RegistrationExact`: `[]WorkerFdsAccurate`, `HealthyKept`: `HealthyStaysOpen` | number of workers, descriptors, connections and faults |
| `ClientProofs` | `RoutedToOwner`: `[]SentToOwner`, `RepliesInStep`: `[]RepliesMatch`, `ScansComplete`: `[]ScanComplete` | number of workers, ranges, characters, commands, foreign writes, crashes and errors |
| `VersionSetProofs` | `CompactionKeepsReads`, `ObsoleteHidesNothing` | set of entries, version, level, snapshot |

`VlogLemmas` has what `VlogManagerProofs` and `SlaveRecoveryProofs` share: what
appending, flushing and `Get` do to records that are well placed.

**`VlogManagerProofs`** proves six of the seven properties of `vlog_manager`. It
assumes `VlogAssumption` (sizes and the header are positive, garbage is no
entry) and `ManagerAssumption` (the bounds are positive). The inductive
invariant `IInv` adds to the type: `head_` is the length of the file; records in
buffer and file are well placed (inside it, no two at one position); buffers of
rotated files are empty; and every address returned has its record in the file
followed by the buffer. The first is what makes the position reported by
`GetWritePos` the one the bytes get; the last follows a record from the buffer
to the file, since file and buffer taken together never change but at the end
(`FlushFacts`, `AddRecordFacts`). `GetFindsRecord` then shows that `Get` picks
the right side of `head_`. `Refinement` maps `store` to all records of all files
and buffers.

**`SlaveGCProofs`** (assumes `GCAssumption`). `ValuesSafe` looks only at what the
master knows, so it says nothing of an address that is on its way. `IInv` has
two parts. `ExactInv`: unless an event was blamed that can give an address a
wrong file or bring a key back, the addresses at the master, those a thread is
about to send and those a read is about to use name the right records.
`GarbageInv`: without a blamed event, no address at the master or on its way to
it names a record that a collection has passed, nor the record another thread
is writing; addresses not sent yet are new; a file is removed only when all of
it was passed. Each of the steps of `execute_gc_on_file` moves `idx` past one
record; that this record is garbage then follows because the thread saw another
address at the master (`get`), or has itself replaced it (`update`), and no thread
can bring an old address back without being blamed for it.

**`SlaveRecoveryProofs`** (assumes `VlogAssumption`, `RecoveryAssumption`).
`StoppedHasAllOnDisk` is about a stopped slave, `CurrentReadable` about a running
one; each life hands over to the next. So `IInv` has one invariant per mode,
both for behaviours without a crash. `Running`: the current vlog is the newest,
its `head_` is its length, only its buffer holds bytes, and every address has
its record in the file followed by the buffer. `Stopped`: VLOG_META names the
newest file with its length, and all acknowledged records are in the files. What
GC has read of its file is, as far as the master still has it, in `skipped`, so that
removing the file takes nothing else.
`shutdown_vlog` leads from the first to the second and `init_vlog` back, in
each of its three cases. `RecordsStayInFiles` needs only that records are well
placed, and holds across crashes.

**`SlaveLinkProofs`** (assumes `LinkAssumption`): that a reply is the thread's
own says nothing of requests on their way, so it is not inductive. `IInv` adds
`InStep`: a connection behind an open descriptor carries no message, or one, and
then the thread that reads from this descriptor waits for it. It survives the
main thread closing the descriptor under a reader because at most one descriptor
is open (`OneOpen`) and a new connection starts empty (`InboxUp`); a thread that
gives up leaves nothing behind, as requests on a connection that was closed are
gone. The mutex gives that there is one reader (`MutexHeld`).

**`MasterConnProofs`** (assumes `ConnAssumption`): `IInv` adds what the handlers
rely on: a connection waits at the listener for its peer (`BacklogPeers`); during
startup exactly the registered workers have descriptors (`StartupFds`), which
with more descriptors than workers and the pigeonhole principle gives that accept
succeeds; an event of a listener is the only one of it in a batch and has
something to accept (`BatchInv`), so that the events of a batch cannot steal from
each other. Nothing is required of `g_worker_fds` in the loop: also a stale entry
only closes a descriptor together with its `Connection`. A `Connection` without a
descriptor is one whose registration failed; it has nothing to send, and the next
connection under this number replaces it. The other two theorems
need more, in `JInv`: as long as nothing is reset, an entry of `g_worker_fds` is an
open descriptor of this worker (`Registered`), no descriptor has two events in a
batch and one that hung up still belongs to the peer that did (`EventsFresh`).
That a worker's new connection is accepted after its old one was closed rests on
`BacklogNewer`. `HealthyStaysOpen` is an action property; it follows from `JInv`
and the few actions that close a descriptor.

**`ClientProofs`** (assumes `ClientAssumption`: finitely many characters, and
ranges of workers that ascend and do not overlap, as those at `master.cc:80` do).
`ScanComplete` speaks of the end of a SCAN; `IInv` says what has been collected
on the way. `ExchangeInv`: unless a value that ends in END has cut a reply, there
is at most one request under way, that of the command being run, and what
arrives answers it; the lines of a SCAN that have arrived are in order, were
stored during it, and are complete once END is there. `CollectInv`: what was
collected from the workers before `idx` is in order, below what the others own,
and has everything these workers had to report and could read. `RouteInv` has a request at the
owner of its key, and a SCAN between the workers of its first and its last key.

**`VersionSetProofs`**: rule (A) of `DoCompactionWork` drops only what a newer
entry hides from every snapshot, so a read that found an entry finds the same
entry among the `Survivors`, or nothing if it was a deletion that is obsolete;
and then no level below the output has an entry of the key. It assumes that no
two entries have the same key and sequence number, and for the second theorem
that a file's range spans its keys. The case `"split"` of `Lsm` lies outside of
it: there the inputs do not have all entries of the key on the output level.

Where a proof has an invariant `IInv` or `JInv`, TLC has checked it on the instance of
the run.

Model-checked only:

- Liveness (`OldFilesCollected`, `ExchangesEnd`, `ShutdownEnds`,
  `RequestsAnswered`, `CommandsEnd`, `CallsReturn`, `WritesReturn`):
  the prover has neither fairness nor `ENABLED`.
- `WalkFindsAddresses`, the properties of `DBIter` and the safety of `WritePath`. They
  rest on recursion over sequences (records of a file, blocks and lists of
  iterators, operations of a batch), and what these compute for every input
  would need induction over data.
- The properties of `Lsm`, apart from what `VersionSetProofs` says of a compaction.

## Not modelled

- `fsync` and power failure: a slave never calls `fsync`; a crash is a crash of
  the process.
- A `write` that writes part of a vlog append and then fails.
- The bytes of records, blocks and manifests, checksums, compression, parsing of
  commands, logging.
- The slave's event loop for its clients. It has the shape of the master's, which
  `MasterConn` has; commands reach `SlaveGC` one at a time, as the loop runs them.
- COMPACT, whose reply the client only prints (`client.cc:501`); what it does to the
  tree is `CompactRange` in `Lsm`. The client's waits for the master, here and for
  HELLO, are not part of `CommandsEnd`.
- A sequential read that fails, in `VlogReader` and `SlaveGC`: the loop of GC ends as at
  the end of the file. In `SlaveRecovery` it is one of the reasons to end early.
- `RecoverLogFile`, `GetProperty`, `DestroyDB`, `ConcurrenceDBIter`, reads that
  fill caches; the master uses none of the first four.
- The log format (`log_writer`, `log_reader`), which only MANIFEST uses here, and
  the LRU cache.
- Encoding, hashing, arena, histogram; the environment; repair, dump, C
  bindings, benchmarks, test programs, the Windows port.

## Plan

1. The log format: fragments over blocks, with files cut off anywhere; MANIFEST
   with partial records.
2. The slave's event loop; partial appends.
3. The sharded LRU cache with pinned entries.
4. Proofs: `LevelsDisjoint`, `NewestOnTop` and `ReadsAgree` of `Lsm`.
