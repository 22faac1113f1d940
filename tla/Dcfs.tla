-------------------------------- MODULE Dcfs --------------------------------
(***************************************************************************)
(* The FUSE handlers of DCFS (src/fs/dcfs.cpp) over the root directory     *)
(* (class Directory), the descriptor table, the inode table and the        *)
(* reference counts of Inodes (src/fs/inode.cpp).                          *)
(*                                                                         *)
(* The FUSE library runs handlers in several threads.  Only the inode      *)
(* table has a lock, so a handler is split wherever another one can run    *)
(* between two of its accesses to shared state: the directory's one        *)
(* iterator, fd_cnt, a reference count, the dirty blocks of an Inode, the  *)
(* middleware's index_.                                                    *)
(*                                                                         *)
(* The bytes of a file are left to RecordCache and its records to          *)
(* Middleware: here a file's data is the set of writes that were made to   *)
(* it, and a version is the set of writes whose blocks it was made from.   *)
(***************************************************************************)
EXTENDS Integers, Sequences, FiniteSets

CONSTANTS
  Threads,      \* worker threads of the FUSE library
  Names,        \* file names
  NoName,       \* the name of no file
  FdTableMax,   \* FD_TABLE_MAX
  Modes         \* the usages of the system to look at, see Usage

(***************************************************************************)
(* How the system is used.  overlap: handlers run at the same time even if *)
(* they conflict; dup: descriptors are duplicated, and every close calls   *)
(* flush; fail: the middleware may report an error.  The rest are bounds:  *)
(* the handlers called, the names used, the numbers of calls of create and *)
(* open and of write, and the descriptors that share an open file.         *)
(***************************************************************************)
DirectoryCalls == {"getattr", "readdir", "create", "open"}
FileCalls == {"read", "write", "flush"}

Usage == [overlap : BOOLEAN, dup : BOOLEAN, fail : BOOLEAN,
          calls : SUBSET (DirectoryCalls \cup FileCalls),
          names : SUBSET Names, opens : Nat, writes : Nat, descs : Nat]

ASSUME DcfsAssumption ==
  /\ IsFiniteSet(Threads)
  /\ NoName \notin Names
  /\ FdTableMax \in Nat /\ FdTableMax > 10
  /\ Modes \subseteq Usage

VARIABLES
  mode,         \* the usage of this behaviour; never changes
  entries,      \* Directory::entries_
  it,           \* Directory::it_, a position in entries
  fd_cnt,       \* the descriptor handed out last
  fd_table,     \* descriptor -> hashname
  inode_table,  \* hashname -> the Inode in memory, or None
  mutex,        \* the threads that hold inode_table_mutex
  inodes,       \* the Inode objects allocated so far
  index,        \* the middleware's index_: hashname -> latest version, or None
  versions,     \* hashname -> what Modify made each version from
  files,        \* the kernel's open files
  writes,       \* the hashname each acknowledged write went to
  op,           \* per thread: the frame of its handler
  fault         \* what the process died of

directory == <<entries, it>>
descriptors == <<fd_cnt, fd_table, files>>
table == <<inode_table, mutex>>
backend == <<index, versions>>
vars == <<mode, directory, descriptors, table, inodes, backend, writes, op,
          fault>>

\* The empty string and the null pointer.
None == 0

\* A hashname is the position of the file in the order of creation.
Hashnames == DOMAIN index

\* fd_cnt starts at 10.
FirstFd == 11

PCs == {"idle", "init_readdir", "readdir", "entry", "rewind", "get_inode",
        "load", "allocate", "create_new", "use", "ref", "push_back", "reset",
        "fd", "fd_store", "unref", "collect", "modify", "commit", "drop",
        "recount", "release"}

Entries == [name : Names, hash : Nat]
Files == [fd : Nat, hash : Nat, descs : Nat]
Inodes == [hash : Nat, ref : Nat, version : Nat, dirty : SUBSET Nat,
           live : BOOLEAN]

(***************************************************************************)
(* The locals of a handler.  h is the open file the kernel names, ino the  *)
(* Inode pointer, tmp a register, end the register of entries_.end(),      *)
(* version the record name that get_inode or FlushCache hold, data what    *)
(* FlushCache hands to Modify.                                             *)
(***************************************************************************)
Frames == [call : DirectoryCalls \cup FileCalls \cup {"none"}, pc : PCs,
           name : Names \cup {NoName}, h : Nat, hash : Nat, ino : Nat,
           tmp : Nat, end : Nat, version : Nat, data : SUBSET Nat]

IdleFrame == [call |-> "none", pc |-> "idle", name |-> NoName, h |-> 0,
              hash |-> None, ino |-> None, tmp |-> 0, end |-> 0,
              version |-> None, data |-> {}]

Faults == {"none", "iterator", "fd_table", "freed", "assert"}

\* it_ when it is neither an entry's place nor the end: entries_ has moved to
\* another place in memory, or the iterator was stepped past the end.
Dangling == 0

TypeOK ==
  /\ mode \in Modes
  /\ entries \in Seq(Entries)
  /\ it \in 0 .. Len(entries) + 1
  /\ fd_cnt \in Nat
  /\ fd_table \in [0 .. FdTableMax - 1 -> 0 .. Len(index)]
  /\ inode_table \in Seq(0 .. Len(inodes))
  /\ mutex \in SUBSET Threads
  /\ inodes \in Seq(Inodes)
  /\ index \in Seq(Nat)
  /\ versions \in Seq(Seq(SUBSET Nat))
  /\ files \in Seq(Files)
  /\ writes \in Seq(Nat)
  /\ op \in [Threads -> Frames]
  /\ fault \in Faults
  /\ DOMAIN inode_table = Hashnames /\ DOMAIN versions = Hashnames

\* dcfs_init, init_inode, init_backend and LoadRoot.
Init ==
  /\ mode \in Modes
  /\ entries = <<>> /\ it = 1
  /\ fd_cnt = FirstFd - 1
  /\ fd_table = [fd \in 0 .. FdTableMax - 1 |-> None]
  /\ inode_table = <<>> /\ mutex = {}
  /\ inodes = <<>>
  /\ index = <<>> /\ versions = <<>>
  /\ files = <<>>
  /\ writes = <<>>
  /\ op = [t \in Threads |-> IdleFrame]
  /\ fault = "none"

-----------------------------------------------------------------------------
\* Updates of a thread's frame.
Goto(t, label) == op' = [op EXCEPT ![t].pc = label]

Return(t) == op' = [op EXCEPT ![t] = IdleFrame]

Die(cause) ==
  /\ fault' = cause
  /\ UNCHANGED <<mode, directory, descriptors, table, inodes, backend, writes,
                 op>>

(***************************************************************************)
(* The calls.  The kernel (external) calls a handler with a path, or with  *)
(* the fi->fh that create or open stored; it is never 0, so the lookups by *)
(* path in read, write and flush are not reached.  It holds the directory  *)
(* locked during create.  There is one flush per close of a descriptor.    *)
(***************************************************************************)
IsNamed(n, hash) == \E i \in DOMAIN entries : entries[i] = [name |-> n, hash |-> hash]

\* Flush may not run together with f's other openers and closers, nor with
\* the use of the open file it closes.
FlushConflict(h, o) ==
  \/ o.call \in {"getattr", "open"} /\ IsNamed(o.name, files[h].hash)
  \/ o.call = "flush" /\ files[o.h].hash = files[h].hash
  \/ o.call \in {"read", "write"} /\ o.h = h

\* The calls that a lock for the directory and the descriptors, and a lock
\* for every file, would keep from running at the same time.  The code has
\* no such locks.
Conflict(c, n, h, o) ==
  \/ c \in DirectoryCalls /\ o.call \in DirectoryCalls
  \/ c = "flush" /\ FlushConflict(h, o)
  \/ o.call = "flush" /\ FlushConflict(o.h, [call |-> c, name |-> n, h |-> h])

MayCall(t, c, n, h) ==
  /\ op[t].pc = "idle"
  /\ c \in mode.calls
  /\ ~ mode.overlap => \A u \in Threads : ~ Conflict(c, n, h, op[u])
  /\ c = "create" => \A u \in Threads : op[u].call # "create"

CallDirectory(t, c, n) ==
  /\ MayCall(t, c, n, 0)
  /\ IF c = "readdir" THEN n = NoName ELSE n \in mode.names
  /\ c \in {"create", "open"} => Len(files) < mode.opens
  /\ op' = [op EXCEPT ![t] = [IdleFrame EXCEPT !.call = c,
                                               !.pc = "init_readdir",
                                               !.name = n]]
  /\ UNCHANGED <<mode, directory, descriptors, table, inodes, backend, writes,
                 fault>>

\* The hashname is read from fd_table when the handler begins.
CallFile(t, c, h) ==
  /\ files[h].descs > 0
  /\ MayCall(t, c, NoName, h)
  /\ c = "write" => Len(writes) < mode.writes
  /\ op' = [op EXCEPT ![t] = [IdleFrame EXCEPT
                                !.call = c, !.pc = "get_inode", !.h = h,
                                !.hash = fd_table[files[h].fd]]]
  /\ files' = [files EXCEPT ![h].descs = IF c = "flush" THEN @ - 1 ELSE @]
  /\ UNCHANGED <<mode, directory, fd_cnt, fd_table, table, inodes, backend,
                 writes, fault>>

\* dup or fork: a process or its child has one more descriptor to close.
Dup(h) ==
  /\ mode.dup
  /\ files[h].descs \in 1 .. mode.descs - 1
  /\ files' = [files EXCEPT ![h].descs = @ + 1]
  /\ UNCHANGED <<mode, directory, fd_cnt, fd_table, table, inodes, backend,
                 writes, op, fault>>

-----------------------------------------------------------------------------
(***************************************************************************)
(* Looking a name up: getattr, readdir, create and open walk the directory *)
(* with its one iterator.                                                  *)
(***************************************************************************)

\* Mutated: the walk goes on where the last one stopped.
InitReaddirSkipped(t) ==
  /\ op[t].pc = "init_readdir"
  /\ Goto(t, "readdir")
  /\ UNCHANGED <<mode, directory, descriptors, table, inodes, backend, writes,
                 fault>>

InitReaddir(t) ==
  /\ op[t].pc = "init_readdir"
  /\ it' = 1
  /\ Goto(t, "readdir")
  /\ UNCHANGED <<mode, entries, descriptors, table, inodes, backend, writes,
                 fault>>

\* Readdir compares it_ with the end, and uses and steps it afterwards.
ReaddirCompare(t) ==
  LET end == Len(entries) + 1 IN
  /\ op[t].pc = "readdir"
  /\ op' = [op EXCEPT ![t].pc = IF it = end THEN "rewind" ELSE "entry",
                      ![t].tmp = it, ![t].end = end]
  /\ UNCHANGED <<mode, directory, descriptors, table, inodes, backend, writes,
                 fault>>

\* Another thread has called push_back since the comparison, so that the
\* vector may have moved.
MayHaveMoved(t) == op[t].end # Len(entries) + 1

\* An entry: create gives up if it has the name, getattr and open go on with
\* its hashname, and otherwise the walk goes on.  The entry is read at i and
\* it_ is set from j: from the value compared, if the compiler still has it, or
\* from it_ read again.
ReaddirEntry(t) ==
  /\ op[t].pc = "entry"
  /\ \E i, j \in {op[t].tmp, it} :
       LET found == entries[i].name = op[t].name IN
       /\ i \in DOMAIN entries
       /\ it' \in {IF j \in DOMAIN entries THEN j + 1 ELSE Dangling}
                  \cup (IF MayHaveMoved(t) THEN {Dangling} ELSE {})
       /\ CASE found /\ op[t].call = "create" -> Return(t)
            [] found /\ op[t].call # "create" ->
                 op' = [op EXCEPT ![t].pc = "get_inode", ![t].hash = entries[i].hash]
            [] OTHER -> Goto(t, "readdir")
  /\ UNCHANGED <<mode, entries, descriptors, table, inodes, backend, writes,
                 fault>>

\* The end of the entries: create goes on, getattr and open answer ENOENT,
\* and readdir is done.
ReaddirEnd(t) ==
  /\ op[t].pc = "rewind"
  /\ it' = 1
  /\ IF op[t].call = "create" THEN Goto(t, "allocate") ELSE Return(t)
  /\ UNCHANGED <<mode, entries, descriptors, table, inodes, backend, writes,
                 fault>>

\* An iterator that has no entry is used.
ReaddirDangling(t) ==
  /\ op[t].pc = "entry"
  /\ MayHaveMoved(t) \/ ~ ({op[t].tmp, it} \subseteq DOMAIN entries)
  /\ Die("iterator")

-----------------------------------------------------------------------------
(***************************************************************************)
(* The inode table.  get_inode and allocate_inode hold inode_table_mutex   *)
(* while they wait for the backend.                                        *)
(***************************************************************************)
NewInode(hash, version) ==
  [hash |-> hash, ref |-> 0, version |-> version, dirty |-> {}, live |-> TRUE]

\* get_inode finds the Inode in memory.
GetInodeHit(t) ==
  /\ op[t].pc = "get_inode"
  /\ mutex = {}
  /\ op[t].hash \in Hashnames
  /\ inode_table[op[t].hash] # None
  /\ op' = [op EXCEPT ![t].pc = "use", ![t].ino = inode_table[op[t].hash]]
  /\ UNCHANGED <<mode, directory, descriptors, table, inodes, backend, writes,
                 fault>>

\* The middleware does not know the empty hashname: ENOENT.
GetInodeUnknown(t) ==
  /\ op[t].pc = "get_inode"
  /\ mutex = {}
  /\ op[t].hash \notin Hashnames
  /\ Return(t)
  /\ UNCHANGED <<mode, directory, descriptors, table, inodes, backend, writes,
                 fault>>

\* Mutated: the table is not locked while the backend is asked.
GetInodeMissUnlocked(t) ==
  /\ op[t].pc = "get_inode"
  /\ mutex = {}
  /\ op[t].hash \in Hashnames
  /\ inode_table[op[t].hash] = None
  /\ op' = [op EXCEPT ![t].pc = "load", ![t].version = index[op[t].hash]]
  /\ UNCHANGED <<mode, directory, descriptors, table, inodes, backend, writes,
                 fault>>

\* ReadFileMeta begins: GetInodeName answers with the latest version.
GetInodeMiss(t) ==
  /\ op[t].pc = "get_inode"
  /\ mutex = {}
  /\ op[t].hash \in Hashnames
  /\ inode_table[op[t].hash] = None
  /\ mutex' = {t}
  /\ op' = [op EXCEPT ![t].pc = "load", ![t].version = index[op[t].hash]]
  /\ UNCHANGED <<mode, directory, descriptors, inode_table, inodes, backend,
                 writes, fault>>

\* Mutated: the lock is not given back.
LoadInodeKeepsLock(t) ==
  LET f == op[t] IN
  /\ f.pc = "load"
  /\ f.version # None
  /\ inodes' = Append(inodes, NewInode(f.hash, f.version))
  /\ inode_table' = [inode_table EXCEPT ![f.hash] = Len(inodes) + 1]
  /\ op' = [op EXCEPT ![t].pc = "use", ![t].ino = Len(inodes) + 1]
  /\ UNCHANGED <<mode, directory, descriptors, mutex, backend, writes, fault>>

\* ReadRecord answers.  It never answers for the empty name, which is what
\* GetInodeName gives for a file that was never flushed.
LoadInode(t) ==
  LET f == op[t] IN
  /\ f.pc = "load"
  /\ f.version # None
  /\ inodes' = Append(inodes, NewInode(f.hash, f.version))
  /\ inode_table' = [inode_table EXCEPT ![f.hash] = Len(inodes) + 1]
  /\ mutex' = mutex \ {t}
  /\ op' = [op EXCEPT ![t].pc = "use", ![t].ino = Len(inodes) + 1]
  /\ UNCHANGED <<mode, directory, descriptors, backend, writes, fault>>

\* allocate_inode calls CreateNewFile.
AllocateStart(t) ==
  /\ op[t].pc = "allocate"
  /\ mutex = {}
  /\ mutex' = {t}
  /\ Goto(t, "create_new")
  /\ UNCHANGED <<mode, directory, descriptors, inode_table, inodes, backend,
                 writes, fault>>

\* CreateNew enters the new file in index_ without a version.  Nobody else
\* knows the file yet.
AllocateInode(t) ==
  LET hash == Len(index) + 1 IN
  /\ op[t].pc = "create_new"
  /\ index' = Append(index, None)
  /\ versions' = Append(versions, <<>>)
  /\ inodes' = Append(inodes, NewInode(hash, None))
  /\ inode_table' = Append(inode_table, Len(inodes) + 1)
  /\ mutex' = mutex \ {t}
  /\ op' = [op EXCEPT ![t].pc = "use", ![t].hash = hash,
                      ![t].ino = Len(inodes) + 1]
  /\ UNCHANGED <<mode, directory, descriptors, writes, fault>>

\* CreateNewFile fails: ENOMEM.
AllocateFails(t) ==
  /\ mode.fail
  /\ op[t].pc = "create_new"
  /\ mutex' = mutex \ {t}
  /\ Return(t)
  /\ UNCHANGED <<mode, directory, descriptors, inode_table, inodes, backend,
                 writes, fault>>

-----------------------------------------------------------------------------
(***************************************************************************)
(* The Inode that get_inode returned is used without a lock.  Any use of   *)
(* an Inode that was deleted meanwhile ends the behaviour.                 *)
(***************************************************************************)
Inode(t) == inodes[op[t].ino]

UsePCs == {"use", "ref", "unref", "collect", "drop", "recount", "release"}

UseFreed(t) ==
  /\ op[t].pc \in UsePCs
  /\ ~ Inode(t).live
  /\ Die("freed")

At(t, label) == op[t].pc = label /\ Inode(t).live

\* getattr takes the size; read copies bytes, see RecordCache.
Read(t) ==
  /\ At(t, "use")
  /\ op[t].call \in {"getattr", "read"}
  /\ Return(t)
  /\ UNCHANGED <<mode, directory, descriptors, table, inodes, backend, writes,
                 fault>>

\* Inode::Write leaves its bytes in dirty blocks of the cache.  The caller
\* means the file it opened.
Write(t) ==
  /\ At(t, "use")
  /\ op[t].call = "write"
  /\ inodes' = [inodes EXCEPT ![op[t].ino].dirty = @ \cup {Len(writes) + 1}]
  /\ writes' = Append(writes, files[op[t].h].hash)
  /\ Return(t)
  /\ UNCHANGED <<mode, directory, descriptors, table, backend, fault>>

\* Mutated: the Inode is opened without counting the opener.
RefNotCounted(t) ==
  /\ At(t, "ref")
  /\ Goto(t, IF op[t].call = "create" THEN "push_back" ELSE "fd")
  /\ UNCHANGED <<mode, directory, descriptors, table, inodes, backend, writes,
                 fault>>

\* i_ref_count_++ is a load and a store, and so are ++fd_cnt and
\* i_ref_count_-- below.
RefLoad(t) ==
  /\ At(t, "use")
  /\ op[t].call \in {"create", "open"}
  /\ op' = [op EXCEPT ![t].pc = "ref", ![t].tmp = Inode(t).ref]
  /\ UNCHANGED <<mode, directory, descriptors, table, inodes, backend, writes,
                 fault>>

RefStore(t) ==
  /\ At(t, "ref")
  /\ inodes' = [inodes EXCEPT ![op[t].ino].ref = op[t].tmp + 1]
  /\ Goto(t, IF op[t].call = "create" THEN "push_back" ELSE "fd")
  /\ UNCHANGED <<mode, directory, descriptors, table, backend, writes, fault>>

\* Addent: push_back may move the vector, and then the iterator is reset.
AddentPush(t) ==
  /\ op[t].pc = "push_back"
  /\ entries' = Append(entries, [name |-> op[t].name, hash |-> op[t].hash])
  /\ it' \in {it, Dangling}
  /\ Goto(t, "reset")
  /\ UNCHANGED <<mode, descriptors, table, inodes, backend, writes, fault>>

AddentReset(t) ==
  /\ op[t].pc = "reset"
  /\ it' = 1
  /\ Goto(t, "fd")
  /\ UNCHANGED <<mode, entries, descriptors, table, inodes, backend, writes,
                 fault>>

FdLoad(t) ==
  /\ op[t].pc = "fd"
  /\ op' = [op EXCEPT ![t].pc = "fd_store", ![t].tmp = fd_cnt]
  /\ UNCHANGED <<mode, directory, descriptors, table, inodes, backend, writes,
                 fault>>

\* Mutated: a descriptor is handed out twice.
FdStoreNotCounted(t) ==
  LET fd == op[t].tmp + 1 IN
  /\ op[t].pc = "fd_store"
  /\ fd < FdTableMax
  /\ fd_table' = [fd_table EXCEPT ![fd] = op[t].hash]
  /\ files' = Append(files, [fd |-> fd, hash |-> op[t].hash, descs |-> 1])
  /\ Return(t)
  /\ UNCHANGED <<mode, directory, fd_cnt, table, inodes, backend, writes, fault>>

\* create and open return the descriptor to the kernel.
FdStore(t) ==
  LET fd == op[t].tmp + 1 IN
  /\ op[t].pc = "fd_store"
  /\ fd < FdTableMax
  /\ fd_cnt' = fd
  /\ fd_table' = [fd_table EXCEPT ![fd] = op[t].hash]
  /\ files' = Append(files, [fd |-> fd, hash |-> op[t].hash, descs |-> 1])
  /\ Return(t)
  /\ UNCHANGED <<mode, directory, table, inodes, backend, writes, fault>>

\* fd is not compared with FD_TABLE_MAX.
FdOutside(t) ==
  /\ op[t].pc = "fd_store"
  /\ op[t].tmp + 1 >= FdTableMax
  /\ Die("fd_table")

-----------------------------------------------------------------------------
(***************************************************************************)
(* flush: Unref, FlushCache if the count has become 0, and the release of  *)
(* the Inode if the count is still 0.                                      *)
(***************************************************************************)
\* Mutated: without the assertion.
UnrefLoadUnchecked(t) ==
  /\ At(t, "use")
  /\ op[t].call = "flush"
  /\ op' = [op EXCEPT ![t].pc = "unref", ![t].tmp = Inode(t).ref]
  /\ UNCHANGED <<mode, directory, descriptors, table, inodes, backend, writes,
                 fault>>

UnrefLoad(t) ==
  /\ At(t, "use")
  /\ op[t].call = "flush"
  /\ Inode(t).ref > 0
  /\ op' = [op EXCEPT ![t].pc = "unref", ![t].tmp = Inode(t).ref]
  /\ UNCHANGED <<mode, directory, descriptors, table, inodes, backend, writes,
                 fault>>

\* Mutated: the last opener does not count.
UnrefAssertOne(t) ==
  /\ At(t, "use")
  /\ op[t].call = "flush"
  /\ Inode(t).ref <= 1
  /\ Die("assert")

\* assert(i_ref_count_ > 0)
UnrefAssert(t) ==
  /\ At(t, "use")
  /\ op[t].call = "flush"
  /\ Inode(t).ref = 0
  /\ Die("assert")

\* Mutated: the cache is not flushed.
UnrefStoreNoFlush(t) ==
  /\ At(t, "unref")
  /\ inodes' = [inodes EXCEPT ![op[t].ino].ref = op[t].tmp - 1]
  /\ Goto(t, "recount")
  /\ UNCHANGED <<mode, directory, descriptors, table, backend, writes, fault>>

\* Mutated: every close flushes a file that has dirty blocks.
UnrefStoreFlushes(t) ==
  /\ At(t, "unref")
  /\ inodes' = [inodes EXCEPT ![op[t].ino].ref = op[t].tmp - 1]
  /\ Goto(t, IF op[t].tmp = 1 \/ Inode(t).dirty # {} THEN "collect" ELSE "recount")
  /\ UNCHANGED <<mode, directory, descriptors, table, backend, writes, fault>>

UnrefStore(t) ==
  /\ At(t, "unref")
  /\ inodes' = [inodes EXCEPT ![op[t].ino].ref = op[t].tmp - 1]
  /\ Goto(t, IF op[t].tmp = 1 THEN "collect" ELSE "recount")
  /\ UNCHANGED <<mode, directory, descriptors, table, backend, writes, fault>>

\* FlushCache encrypts the dirty blocks; WriteRecord does nothing if there
\* are none.
FlushCollect(t) ==
  /\ At(t, "collect")
  /\ op' = [op EXCEPT ![t].pc = IF Inode(t).dirty = {} THEN "drop" ELSE "modify",
                      ![t].version = Inode(t).version,
                      ![t].data = Inode(t).dirty]
  /\ UNCHANGED <<mode, directory, descriptors, table, inodes, backend, writes,
                 fault>>

\* Modify accepts the caller's version and loads the block map that it will
\* extend; see Middleware for its steps.
ModifyStart(t) ==
  /\ op[t].pc = "modify"
  /\ op[t].version = index[op[t].hash]
  /\ Goto(t, "commit")
  /\ UNCHANGED <<mode, directory, descriptors, table, inodes, backend, writes,
                 fault>>

\* The caller does not view the latest version.  FlushCache returns the error
\* and Unref drops it.
ModifyStale(t) ==
  /\ op[t].pc = "modify"
  /\ op[t].version # index[op[t].hash]
  /\ Goto(t, "recount")
  /\ UNCHANGED <<mode, directory, descriptors, table, inodes, backend, writes,
                 fault>>

ModifyFails(t) ==
  /\ mode.fail
  /\ op[t].pc \in {"modify", "commit"}
  /\ Goto(t, "recount")
  /\ UNCHANGED <<mode, directory, descriptors, table, inodes, backend, writes,
                 fault>>

\* index_ moves to the new version.
ModifyCommit(t) ==
  LET f == op[t] IN
  /\ f.pc = "commit"
  /\ versions' = [versions EXCEPT ![f.hash] = Append(@, f.data)]
  /\ index' = [index EXCEPT ![f.hash] = Len(versions[f.hash]) + 1]
  /\ Goto(t, "drop")
  /\ UNCHANGED <<mode, directory, descriptors, table, inodes, writes, fault>>

\* All blocks leave the cache.  The Inode still names the version it was
\* loaded from.
FlushDrop(t) ==
  /\ At(t, "drop")
  /\ inodes' = [inodes EXCEPT ![op[t].ino].dirty = {}]
  /\ Goto(t, "recount")
  /\ UNCHANGED <<mode, directory, descriptors, table, backend, writes, fault>>

\* Mutated: the Inode stays in the table.
RecountKeeps(t) ==
  /\ At(t, "recount")
  /\ Return(t)
  /\ UNCHANGED <<mode, directory, descriptors, table, inodes, backend, writes,
                 fault>>

\* Unref returns the count: the value it stored, if the compiler still has
\* it, or the value read again, as it must be after a flush.
Recount(t) ==
  /\ op[t].pc = "recount"
  /\ \/ op[t].tmp > 1 /\ Return(t)
     \/ Inode(t).live /\ Inode(t).ref > 0 /\ Return(t)
     \/ Inode(t).live /\ Inode(t).ref = 0 /\ Goto(t, "release")
  /\ UNCHANGED <<mode, directory, descriptors, table, inodes, backend, writes,
                 fault>>

\* release_inode deletes whatever the table has under the hashname; fd_table
\* forgets the file.  (fi is a copy: the kernel keeps its fh.)
ReleaseInode(t) ==
  LET f == op[t] IN
  /\ At(t, "release")
  /\ mutex = {}
  /\ inodes' = [o \in DOMAIN inodes |->
                  IF o = inode_table[f.hash] THEN [inodes[o] EXCEPT !.live = FALSE]
                                             ELSE inodes[o]]
  /\ inode_table' = [inode_table EXCEPT ![f.hash] = None]
  /\ fd_table' = [fd_table EXCEPT ![files[f.h].fd] = None]
  /\ Return(t)
  /\ UNCHANGED <<mode, directory, fd_cnt, files, mutex, backend, writes, fault>>

-----------------------------------------------------------------------------
\* What a thread does next once it is in a handler.
Step(t) ==
  /\ fault = "none"
  /\ \/ InitReaddir(t) \/ ReaddirCompare(t) \/ ReaddirEntry(t) \/ ReaddirEnd(t)
     \/ ReaddirDangling(t)
     \/ GetInodeHit(t) \/ GetInodeUnknown(t) \/ GetInodeMiss(t) \/ LoadInode(t)
     \/ AllocateStart(t) \/ AllocateInode(t) \/ AllocateFails(t)
     \/ UseFreed(t) \/ Read(t) \/ Write(t) \/ RefLoad(t) \/ RefStore(t)
     \/ AddentPush(t) \/ AddentReset(t) \/ FdLoad(t) \/ FdStore(t) \/ FdOutside(t)
     \/ UnrefLoad(t) \/ UnrefAssert(t) \/ UnrefStore(t)
     \/ FlushCollect(t) \/ ModifyStart(t) \/ ModifyStale(t) \/ ModifyFails(t)
     \/ ModifyCommit(t) \/ FlushDrop(t) \/ Recount(t) \/ ReleaseInode(t)

Call ==
  /\ fault = "none"
  /\ \/ \E t \in Threads, c \in DirectoryCalls, n \in Names \cup {NoName} :
          CallDirectory(t, c, n)
     \/ \E t \in Threads, c \in FileCalls, h \in DOMAIN files : CallFile(t, c, h)
     \/ \E h \in DOMAIN files : Dup(h)

Next == Call \/ \E t \in Threads : Step(t)

Spec == Init /\ [][Next]_vars

\* A thread in a call of the middleware that sends records or asks for them.
WaitsForBackend(t) ==
  \/ op[t].pc \in {"load", "create_new", "commit"}
  \/ op[t].pc = "modify" /\ op[t].version = index[op[t].hash]

\* The scheduler runs every thread in a handler.  Nobody has to call a handler,
\* and the backend need not answer.
FairSpec ==
  Spec /\ \A t \in Threads : WF_vars(~ WaitsForBackend(t) /\ Step(t))

\* The same with a backend that answers whatever it can answer.
AnsweringSpec == Spec /\ \A t \in Threads : WF_vars(Step(t))

-----------------------------------------------------------------------------
\* Conflicting calls exclude each other and every open file is closed once.
Regular == ~ mode.overlap /\ ~ mode.dup

\* At any time, in any usage, a file has at most one Inode that is not
\* deleted, and it is the one in the inode table: no second one is made while
\* the backend is asked for the first (get_inode, allocate_inode and
\* release_inode under inode_table_mutex).
OneInode ==
  /\ \A o \in DOMAIN inodes : inodes[o].live => inode_table[inodes[o].hash] = o
  /\ \A hash \in Hashnames :
       LET o == inode_table[hash] IN
       o # None => inodes[o].live /\ inodes[o].hash = hash

\* The open files of a file, and the calls of open, create and flush that
\* have a reference and no open file.
Holders(hash) == {h \in DOMAIN files : files[h].hash = hash /\ files[h].descs > 0}

HasReference(t) ==
  \/ op[t].pc \in {"push_back", "reset", "fd", "fd_store"}
  \/ op[t].call = "flush" /\ op[t].pc \in {"get_inode", "load", "use", "unref"}

Movers(hash) == {t \in Threads : op[t].hash = hash /\ HasReference(t)}

\* The references that the Inode in memory counts.
RefCount(hash) ==
  IF inode_table[hash] = None THEN 0 ELSE inodes[inode_table[hash]].ref

\* The Inode's reference count is the number of openers.
ReferencesCounted ==
  Regular =>
    \A hash \in Hashnames :
      RefCount(hash) = Cardinality(Holders(hash)) + Cardinality(Movers(hash))

\* An open file's descriptor leads to its own hashname and to an Inode that is
\* in memory, whatever other files are opened and closed meanwhile.
OpenFilesResolve ==
  Regular =>
    \A h \in DOMAIN files :
      files[h].descs > 0 =>
        /\ fd_table[files[h].fd] = files[h].hash
        /\ inode_table[files[h].hash] # None

\* No handler uses a deleted Inode or a dangling iterator, and the assertion
\* in Unref holds; the first fault is the open for which fd_table has no room.
FaultFree ==
  Regular =>
    \/ fault = "none"
    \/ fault = "fd_table" /\ Len(files) = FdTableMax - FirstFd

\* While a file is not being flushed its Inode views the latest version, so
\* that its next flush is not refused.
ViewsLatest ==
  ~ mode.overlap =>
    \A hash \in Hashnames :
      \/ inode_table[hash] = None
      \/ inodes[inode_table[hash]].version = index[hash]
      \/ \E t \in Threads :
           op[t].hash = hash /\ op[t].pc \in {"drop", "recount", "release"}

Cached(hash) ==
  IF inode_table[hash] = None THEN {} ELSE inodes[inode_table[hash]].dirty

\* The writes whose bytes the latest version gives back.  Modify makes the
\* first version from its blocks alone, and its size covers them if they are
\* not larger than the default; a later one has the key wrapped twice, so that
\* get_inode unwraps a key that decrypts none of its blocks.
Readable(hash) == IF index[hash] = 1 THEN versions[hash][1] ELSE {}

\* The writes whose blocks were handed over with some version.
HandedOver(hash) == UNION {versions[hash][v] : v \in DOMAIN versions[hash]}

\* A write that was acknowledged can be read from the latest version, or it is
\* in the cache of a file that is still open or being closed, or the file was
\* stored again since: a write is never dropped before its blocks were handed
\* over, and when the last close of a file that was stored once has returned,
\* its version gives back every write.
WritesKept ==
  Regular /\ ~ mode.fail =>
    \A i \in DOMAIN writes :
      LET hash == writes[i] IN
      \/ i \in Readable(hash)
      \/ /\ i \in Cached(hash)
         /\ \/ Holders(hash) # {}
            \/ \E t \in Threads : op[t].call = "flush" /\ op[t].hash = hash
      \/ index[hash] > 1 /\ i \in HandedOver(hash)

\* A lookup that ends without an entry: ENOENT, or a file to be created.
LookupFails(t) ==
  /\ op[t].pc = "rewind"
  /\ \/ op[t].call \in {"getattr", "open"} /\ op'[t].pc = "idle"
     \/ op'[t].pc = "allocate"

\* Only a name that is not in the directory is not found.
LookupExact ==
  [][~ mode.overlap =>
       \A t \in Threads :
         LookupFails(t) =>
           \A i \in DOMAIN entries : entries[i].name # op[t].name]_vars

Service == INSTANCE FileService WITH
  opens <- [hash \in Hashnames |-> RefCount(hash)],
  cached <- [hash \in Hashnames |-> Cached(hash)],
  stores <- index,
  handed <- [hash \in Hashnames |-> HandedOver(hash)],
  stored <- [hash \in Hashnames |-> Readable(hash)],
  writes <- writes

\* The handlers implement FileService: only a file that nobody has open is
\* stored, with all that the cache has, and nothing leaves the cache before.
ServiceRefined ==
  /\ Regular /\ ~ mode.fail => Service!Init
  /\ [][Regular /\ ~ mode.fail => Service!Next]_(Service!vars)

\* Every handler returns, unless the process dies or the backend leaves some
\* thread without an answer for ever: handlers do not wait for each other in a
\* circle, inode_table_mutex is always given back and every walk of the
\* directory ends.
HandlersReturn ==
  \A t \in Threads :
    ~ mode.overlap /\ op[t].pc # "idle"
      ~> \/ op[t].pc = "idle" \/ fault # "none"
         \/ \E u \in Threads : []WaitsForBackend(u)

-----------------------------------------------------------------------------
(***************************************************************************)
(* What the comments of the code say without a condition on the usage.     *)
(***************************************************************************)

\* inode.hpp: the Inode is released when its reference count becomes zero, so
\* a deleted one has no references.
ReleasedAtZero == \A o \in DOMAIN inodes : inodes[o].live \/ inodes[o].ref = 0

\* dcfs.cpp: the table has the hashname of the file under every descriptor
\* that is open.
FdTableNamesFile ==
  \A h \in DOMAIN files :
    files[h].descs > 0 => fd_table[files[h].fd] = files[h].hash

\* dcfs.cpp: the backend loads what an Inode that is not in memory needs, so
\* that get_inode comes to its end and releases inode_table_mutex.
BackendAnswers ==
  \A t \in Threads : op[t].pc = "load" ~> op[t].pc # "load" \/ fault # "none"

=============================================================================
