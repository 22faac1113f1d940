# Verification of the DCFS client

DCFS is a FUSE file system whose files are DataCapsules: append-only graphs of
records, named by hashes, on remote servers. This directory holds TLA+ models of
the client in `src/`, the TLC configurations that check them, and TLAPS proofs.

## The system

| Part | Source | Model |
|---|---|---|
| FUSE handlers, fd table | `fs/dcfs.cpp` | `Dcfs` |
| Directory | `fs/dir.cpp` | `Dcfs` |
| Inode table, reference counts | `fs/inode.cpp` 13-88, 163-176 | `Dcfs` |
| What an Inode promises its openers | `fs/inode.hpp` 15-20 | `FileService` |
| Inode and RecordCache | `fs/inode.cpp` 178-448 | `RecordCache` |
| StorageBackend | `fs/backend.cpp` | inside the actions of its callers |
| Middleware (DCFSMidSim), record format | `fs/backend_sim.cpp` | `Middleware` |
| DCServerNet, DCClient, ClientComm | `fs/backend_real.cpp`, `dc-client/` | `DCClient` |
| What DCServer promises | `fs/backend.hpp` 104-117 | `RecordService` |
| DC servers, ZeroMQ | not in the repository | external actions of `DCClient` |
| Crypto, encoding, logging, options, protobuf | `util/`, `dc-client/proto/` | not modelled |

The kernel calls a handler with a name or with the descriptor that `create` or
`open` stored. A name is looked up in the one directory, whose iterator all
handlers share; a descriptor leads through `fd_table` to a hashname, and the
hashname through `inode_table` to the Inode that all openers of a file share and
that counts them.

A write goes to the blocks of a file's RecordCache. At the last close FlushCache
hands the dirty blocks to `Modify` of the middleware, which runs in the same
process. `Modify` pushes the data blocks, a BLOCKMAP and an INODE record, one
synchronous `Put` each, and then moves `index_`. `Put` and `Get` turn messages to
the servers into synchronous calls, with one listener thread for all answers.

The FUSE library runs handlers in several threads (`fuse_main`, no `-s`).
Only `inode_table` has a lock. `index_`, `root_` and the directory live in memory only, so there is no recovery
to model.

## Modules

**Dcfs.** The handlers `getattr`, `readdir`, `create`, `open`, `read`, `write`
and `flush` in several threads. State: `entries` and `it` (the directory and its
iterator), `fd_cnt` and `fd_table`, `inode_table` and `mutex`
(`inode_table_mutex`), `inodes` (the objects, with their count, the version they
were loaded from and what their cache has that is dirty), `index` and
`versions` (the middleware), `files` (the kernel's open files, each with the
number of its descriptors), `writes` (the acknowledged writes) and `op` (the
locals of a thread in a handler). A handler is split wherever another thread may
run between two accesses to shared state: at each step of the walk through the
directory (`InitReaddir`; `ReaddirCompare`, which compares `it_` with the end,
and then `ReaddirEntry` or `ReaddirEnd`), around the answers of the backend in
`get_inode` and `allocate_inode` (`GetInodeMiss`, `LoadInode`, `AllocateStart`,
`AllocateInode`, all with the mutex held), between load and store of `i_ref_count_` and `fd_cnt` (`RefLoad`, `RefStore`, `UnrefLoad`,
`UnrefStore`, `FdLoad`, `FdStore`), in `Addent` (`AddentPush`, `AddentReset`),
and along `Unref`, `FlushCache`, `Modify` and `release_inode` (`FlushCollect`,
`ModifyStart`, `ModifyCommit`, `FlushDrop`, `Recount`, `ReleaseInode`). Use of a
deleted Inode, a dangling iterator, a descriptor behind the end of `fd_table` and
the failing assertion in `Unref` end the behaviour (`fault`). A fresh file has
version `None`, and the wait for a record of that name never ends (`LoadInode`
has no answer for it).

A data race leaves the outcomes that the build can produce. After the comparison
in `Readdir` the compiler may still have `it_` in a register or read it again,
so `ReaddirEntry` reads the entry and steps the iterator from either value, and
it may find that `push_back` has moved the vector meanwhile. `Unref` is modelled
for the default build (`-O2`), which tests the value it has just stored; the
`debug` target (`-O0`) would read the count again. The case matters only when two
closes of a file overlap.

A file's data is the set of writes made to it, and a version is the set of writes
whose blocks it was made from: bytes are the subject of `RecordCache` and records
that of `Middleware`. What a version gives back is `Readable`, and it follows
those modules. The first version gives back all its writes. A later one is
counted as giving back nothing: its key was wrapped twice (`mid_key`), its size
is that of the last flush alone and overwritten blocks were appended
(`mid_positional`). Of writes that a later version was made from the model says
that they were handed over, and no more. `Dcfs` also takes the block size option
not to exceed the default (`cache_block_size` shows why) and leaves the byte that
`cache_overwrite` is about to `RecordCache`.

`mode` says how the system is used. `overlap`: calls that conflict may run at
the same time, which the code does not prevent. `dup`: descriptors are
duplicated, and `flush` is called at the close of each. `fail`: the middleware
may report errors. The properties say in which usages they hold, so that a
reader sees what each guarantee depends on: `OneInode` on nothing, `ViewsLatest`
and `LookupExact` on conflicting calls kept apart, the reference count on one
flush per open file as well, and `WritesKept` and `ServiceRefined` also on a
middleware without errors.

**FileService.** The abstract service: files that are created, opened, written,
closed, stored and evicted from the cache. Only a file that nobody has open is
stored or evicted; it is stored with all that the cache has, and evicted only
when every write in the cache was handed over. The first version gives back
exactly these writes, and no promise is made for a later one. `Dcfs` implements
it with `opens` as the reference count in memory, `cached` as the dirty writes of
the Inode in the table, `stores` as the number of versions, `handed` as
`HandedOver` and `stored` as `Readable` (`ServiceRefined`): `RefStore` is `Open`, `UnrefStore` is `Close`, `ModifyCommit`
is `Store`, `FlushDrop` is `Evict`, and `ReleaseInode` changes nothing there.

**Middleware.** State: `store` (the records, named by their position: a new
record has a new name because its header holds the time), `index` (`index_`),
`sess` (the Inode a thread views), `op` (the locals of a thread in `Modify`) and
`ret`. Every read and write of a record is an action, because threads interleave
there: `LoadInode`, `LoadBlockMap`, `PushData`, `PushBlockMap`, `PushInode`,
`UpdateIndex`; each may end in `ServerError`. A DATABLOCK remembers the block it
was made from. A key is a number: 0 is the file's key, and `CipherPrefix` is the
key that results when ciphertext is taken for a key. There are two block sizes:
`BlockSize`, the option `--block_size_in_kb` by which the callers cut a file and
look into its block map, and `DefaultBlockSize`, in which `Modify` counts the
size it stores (`NewSize`). Nothing keeps two flushes of a file apart. The history
variable `overlapped` has the threads whose flush another flush of the same file
has overlapped, so that the properties can say what the staleness check at the
start of `Modify` is worth at its end: a flush outside `overlapped` replaces the
version its caller viewed (`UndisturbedSound`, `ReplacesCallersVersion`), and
only one inside may not.

**DCClient.** State: program counters of the FUSE threads and the listener, the
maps `put_status_` and `get_status_`, `m_recv_ack_map`, the messages on the way
and what the servers store. The maps have no lock. A thread that inserts or
erases is in a state of its own until the change is made, and in that time a
lookup by the listener may miss any entry (`FindPut`, `FindGet`) and the process
may die (`Race`, `Crash`). The same holds for the notification through an
iterator that `Put` has invalidated. Names put are new; names read belong to a
`Put` that has returned.

**RecordService.** The synchronous service that `DCServer` stands for. `DCClient`
is shown to implement it (`ServiceRefined`): `call` is the operation of a
thread, `holders`, `begun` and `complete` are `holders`, `issued` and `returned`,
and a quorum is any set of at least `WriteThreshold` servers.

**RecordCache.** One file, sequentially: bytes, block boundaries, the cached,
dirty and zero-filled blocks, the block map cache and its check. `content` is
what the file should hold. `Modify` is what `Middleware` does to one file, with the
size counted in `DefaultBlockSize` there too. A reopened file has its size rounded
up to whole default blocks, one more when it ended at a block edge; `content` has
`Any` behind the end of what the user wrote, so no property speaks of these
bytes. A `Read` copies what the code copies, which may be one byte more than it
returns, behind the caller's buffer (`result.copied`); what that byte destroys is
the caller's memory and not modelled. A `Write` after a failed `fillDcache` copies to memory that was not set up; the
model stops there (`phase = "broken"`). A position behind the end of the file is
moved to the end, as the code does.

`MCDcfs`, `MCMiddleware` and `MCDCClient` are the instances TLC checks. Definitions marked
"Mutated" are variants of the action or operator after them that contain a
plausible mistake; each property is violated when one of them replaces the
original.

## Runs

Runs that pass:

| Run | Shows |
|---|---|
| `dcfs_usage` | Two threads run the handlers in five usages: conflicting calls kept apart, a failing middleware, duplicated descriptors, two openers at once, lookups during use. One Inode per file, exact reference counts, descriptors that lead to their file, no fault, no stale view, no write dropped before it was handed over and none lost from a first version, exact lookups, refinement of `FileService`, each in the usages its definition names. Every handler returns unless some thread waits for the backend for ever |
| `mid_concurrent` | Two threads, one file of two blocks, three flushes, errors anywhere: records and `index_` never point to a missing or wrong record (`RecordGraphSound`, `IndexSound`), sizes in bytes are covered by the block map when the callers' blocks are at least the default (`SizeCovered`, with blocks of three against two), a first block map is positional, and a flush that no other one overlapped replaces the version its writer viewed |
| `client_race` | Two threads, two servers, two names (one a META record), threshold 1, message loss: durability, no lost wake-up, acks accounted for, refinement of `RecordService` |
| `client_live` | The same instance as `client_race`, under fairness: a `Put` returns unless messages were lost so that the acks cannot reach the threshold (`Starved`) or the listener missed its entry while the other thread changed the map (`Missed`); a `Get` returns unless its one request was used up without an answer: lost, answered with failure by a server that has not got the record, or missed (`Unanswered`). These are the only ways in which a call waits for ever |
| `cache_first` | Blocks of two bytes, files up to six bytes, three writes, requests up to five bytes, blocks smaller than the default, failing reads of data blocks: what is read is what was written, before and after the first flush. Record names with a leading zero byte, failing reads of the block map and failing flushes are excluded (see the other outcomes below), and nothing is said of bytes behind the user's end of the file |

Runs that end in a violation, each a disagreement between the code and what the
repository says of it:

| Run | Shows |
|---|---|
| `mid_positional` | The stored size is never loaded: a second flush appends overwritten blocks |
| `mid_key` | A second flush wraps the wrapped key |
| `cache_overwrite` | A write across a block boundary changes one byte too many |
| `cache_block_size` | With a block size option above the default the stored size is too small, and the end of the closed file cannot be read again |
| `dcfs_reopen` | An open between the last `Unref` and `release_inode` gets a reference to an Inode that is then deleted |
| `dcfs_dup` | Closing one of two descriptors of an open file clears `fd_table` for the other |
| `dcfs_empty` | After the lookup of a file that was closed without a write, `get_inode` waits for ever with `inode_table_mutex` held, although the backend answers whatever it can |

Other outcomes the modules contain and no run of its own asks about:

- `Middleware`: two flushes of a file pass the staleness check together, and one
  replaces a version its writer never saw (the threads in `overlapped`).
- `Middleware` with blocks smaller than the default: the stored size exceeds what
  the block map has entries for, and reads there find no name (`SizeCovered`
  without its condition). In `RecordCache` these bytes read as zeros.
- `Middleware`: a file closed before anything was written is opened under the
  empty record name (`ReadFileMetaEmpty`, which ends in `"stuck"`).
- `DCClient`: `CommitAck` may notify through an entry that `Put` has erased
  (`NotifiesErased`).
- `RecordCache` with `NulNames`: `strcmp` takes a record name that starts with a
  zero byte for an empty entry, and the block is read as zeros (`ReadCorrect`).
- `RecordCache` with `BlockMapFails`: a read after a failed read of the block map
  returns zeros (`ReadCorrect`).
- `RecordCache` with `FlushFails` and `Dcfs` with `fail`: the close after a failed
  flush loses the data (`ClosedIsStored`, `WritesKept` without its condition).
- `Dcfs` with a second version: what the first one had cannot be read any more
  (`Readable`).
- `Dcfs` with `overlap`: two lookups share the iterator and one misses a name that
  is there or steps past the end, a lookup uses the iterator that `Addent` is about
  to reset, two opens get one descriptor, a count loses an update, and a write
  that comes while `FlushCache` runs is dropped with the cache.

**Bounds.** In `Dcfs` two threads, two names, two opens (three with a failing
middleware) and two writes give two files with one opener, one file with two,
a file that is closed and opened again, and a second version; `FdTableMax = 13`
leaves room for two descriptors, so that the third open meets the end of
`fd_table`. The usages with overlap or duplicates keep to one name and one write:
each needs only one file. The proofs below remove these bounds. Two threads are
enough for every race listed: the code has pairs of conflicting steps, no chains.
`MaxFiles = 1` in `Middleware`: flushes of different files share only `index_`,
and the proofs hold for any number of files. Two blocks tell a positional block map from an
appended one, and three flushes are the first one, a later one and one that
overlaps it. Requests of up to five bytes on blocks of two cover the three
branches of `Read` and `Write` (one block, two blocks, more). `MaxFlushes = 1`
and `Overwrites = FALSE` in `cache_first` keep to the uses that the findings do
not break: writes may append, or overwrite inside a block.

**Deadlock.** All runs allow the system to stop: nobody has to call it, and the
bounds end the calls.

**Fairness.** In `Dcfs` only the scheduler is fair: weak fairness of each thread in
a handler that does not wait for the backend
(`WF_vars(~ WaitsForBackend(t) /\ Step(t))`). The code waits for answers without a
timeout, and `DCClient` shows that they may not come, so no answer is assumed, and
`HandlersReturn` says that handlers return unless some thread waits for the
backend for ever. It needs no fairness of the mutex, because a thread that holds
it enters the Inode in the table, and only one of the bounded number of closes
removes it again. `dcfs_empty` assumes answers (`AnsweringSpec`), which makes its
violation the stronger. In `DCClient`, weak fairness of each thread inside `Put` or
`Get`, of the listener, which polls in a loop, and of servers that have a message;
messages may still be lost. No operation has to be called. Spurious wake-ups have
no fairness, so they cannot repair a lost notification.

## Proofs

**Dcfs**, for any number of threads, names, files, opens, writes and descriptors.
`DcfsInvariant` defines the inductive invariant in four layers; each is proved
from the ones before it, and asks more of the usage. `DcfsSteps` says once what
each step does to the frames, the Inodes and the tables; the layers are proved in
the modules of the table, and `DcfsProofs` draws the theorems from them.

| Layer | Module | Usage | Says | Theorems |
|---|---|---|---|---|
| `Base` | `DcfsBase` | any | types, what a thread's frame names exists, the mutex is held exactly by the thread that waits for the backend, `OneInode` | `TypeCorrect`, `SingleInode` |
| `Apart` | `DcfsCounted` | no conflicting calls at once | which calls are in progress together, descriptors count the open files, the iterator has passed no entry of the name looked for, the Inode a closer holds stays in the table and only it changes the count, views are latest unless the Inode is about to be released | `ViewsAreLatest`, `LookupsAreExact` |
| `Counted` | `DcfsCounted` | and one flush per open file | `fd_table` has the file while it is open, a reader's Inode is the one in the table, the count is the number of openers, no fault | `CountsAreRight`, `NoFault`, `OpenFilesAreKept` |
| `Kept` | `DcfsKept` | and no errors | what `FlushCache` hands over is what the cache has, after the commit the cache was handed over, and a first version has all the writes of its file | `NoWriteIsLost`, `HandlersImplementService` |

The strengthening is needed because a handler works from its locals: that the
count it loaded is still the count when it stores it, that the pointer it got is
still the one in the table, and that the data it handed to `Modify` is still all
of the cache follow only from what the other threads cannot be doing meanwhile.
The count is related to the openers with facts about cardinality
(`FiniteSetFacts`, proved in `DcfsProofs` from the library's theorems): one step
moves one element between the open files and the threads that have a reference.
`HandlersImplementService` shows for every step which step of `FileService` it is.
`NoWriteIsLost` claims that a write can be read again only for the first version
of a file; for a later one it claims that the write was handed over.

**MiddlewareProofs**, for any number of threads, files, blocks and flushes:

- `TypeCorrect`, `NoDanglingPointer`, `IndexPointsIntoStore`, `MapCoversSize`,
  `BlockMapCorrect` and `SessionsNameStored`: the conjuncts of the inductive
  invariant, one theorem each. `FrameSound` is the strengthening: what the locals
  of a thread inside `Modify` name exists, belongs to its file and has its type,
  its counts fit its program counter, and a first flush has mapped blocks from 0
  without a gap. It is needed because a record is pushed from those locals, which
  other threads' steps must not invalidate: the store only grows. `MapCoversSize`
  is about bytes, for callers' blocks that are at least the default.
- `CheckedVersionStays` (`UndisturbedSound`) and, from it, the action property
  `NoLostVersion` (`ReplacesCallersVersion`), for every schedule: only a flush that
  another flush of the file overlapped can replace a version unseen. The argument
  is that `index_` moves for a file only in a flush of it, and that a flush which
  begins while another is in `Modify` puts both into `overlapped`.

**DCClientProofs**, for any threads, servers, names and threshold, with or without
loss:

- `TypeCorrect`, `ProtocolHolds`, `WakeUps`, and their consequence `Durability`:
  the inductive invariant is `TypeOK`, `ProtocolSound`
  and `NoLostWakeup`. Its core is `AcksCounted`: acks counted plus acks on the
  way are at most the servers that store the record.
- `Refinement`: every step is a step of `RecordService` or a stutter.

**RecordCacheProofs**, for any block map size, file size and number and length of
reads and writes:

- `TypeCorrect`, in every usage and for any two block sizes: no request reaches behind the slots that were
  filled for it.
- `ReadsAreCorrect`, `ClosedFilesAreStored`, `FirstFlushIsWhole` and
  `CleanBlocksAreStored`, under `Scope`: a write ends in its first block or at the
  end of the file, no record name starts with a zero byte, the block map can be
  read, `WriteRecord` does not fail, the file is flushed at most once, its blocks
  are not larger than the default, and the cached block map has room for it. Data blocks may be unreadable, so that a read
  may fail half way. Each condition but the last excludes an outcome that is
  listed above or that a run ends in (`cache_overwrite`; `mid_positional` for the
  second flush; `cache_block_size`), and the last is a limit that the code states.

The inductive invariant `CacheInv` says where the bytes are. A clean cached block
is the stored one (`SlotsOK`), a byte that the user wrote is in a dirty block or
else in the stored one (`Held`), the stored size is the number of the stored blocks
in default blocks (`BackendOK`), the cached block map is the stored one (`MapOK`), and before the
first flush all blocks from 0 to the last are dirty (`OpenOK`). The last part
makes the append in `Modify` positional, and it needs the arithmetic of
`StartBlock` and `EndBlock`, which the lemmas `Division` and `BlocksAscend` give.
That the stored size covers the file then follows because a block is not larger
than the default (`DefaultCovers`).

**Assumptions** are `DcfsAssumption` (finitely many threads, `FD_TABLE_MAX` above
the first descriptor), `ClientAssumption` (finitely many servers, a threshold of at
least one), `MiddlewareAssumption` and `CacheAssumption` (blocks are not empty);
otherwise they only give the constants their types.

**Checked by TLC only:** liveness (`HandlersReturn`, `PutReturns`,
`GetReturns`), which needs fairness and ENABLED and is beyond the
prover. Every safety property of a passing run has a theorem. No theorem needs
induction over data; where a least block is needed, it comes from the
well-foundedness of the naturals (`LeastElement`).

## Not modelled

The freshness service (no caller asks for it), the proxy sending modes
(`OUTGOING_MODE` is 1), shutdown and `dcfs_destroy`, which frees memory when the
process ends, the lookups by path in `read`, `write` and `flush` (the kernel always
passes the descriptor, which is never 0), signatures (one client whose
signatures always verify), `GetRoot` and `LoadRoot` (no effect), block maps
beyond `BLOCKMAP_COVER` (a stated limit), crypto, encoding, options and logging
(no state of the protocol), and the generated protobuf code.

`index_` is a `std::map` that `Modify` uses without a lock, while `CreateNew` inserts
into it under `inode_table_mutex`. The models have the values that its readers and
writers see in every order, and not what an insertion during a lookup does to the
tree; `DCClient` shows for `put_status_` what such a race can lead to. That a flush
finds its entry at all is therefore assumed.

Bytes and threads are not in one model: `RecordCache` has the bytes of one file
used sequentially, `Dcfs` the threads over sets of writes. Two unsynchronised
writes to one block race on memory in the code, and the product of both models is
beyond TLC.
