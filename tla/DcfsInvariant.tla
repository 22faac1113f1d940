---------------------------- MODULE DcfsInvariant ----------------------------
(***************************************************************************)
(* The inductive invariant of Dcfs, in the order in which it is proved:    *)
(* what holds in every usage (Base), what follows when conflicting calls   *)
(* exclude each other (Apart), when also every open file is closed once    *)
(* (Counted), and when also the middleware does not fail (Kept).           *)
(***************************************************************************)
EXTENDS Dcfs

\* The labels at which a handler has an Inode pointer.
InoPCs == UsePCs \cup {"modify", "commit", "push_back", "reset", "fd", "fd_store"}

\* The labels of Unref, FlushCache and release_inode.
FlushPCs == {"unref", "collect", "modify", "commit", "drop", "recount", "release"}

-----------------------------------------------------------------------------
\* The handlers that go through each label.
LabelOK(f) ==
  /\ f.pc = "idle" <=> f.call = "none"
  /\ f.pc \in {"init_readdir", "readdir", "entry", "rewind"} => f.call \in DirectoryCalls
  /\ f.pc \in {"allocate", "create_new", "push_back", "reset"} => f.call = "create"
  /\ f.pc \in {"get_inode", "load"} => f.call \in {"getattr", "open"} \cup FileCalls
  /\ f.pc \in {"ref", "fd", "fd_store"} => f.call \in {"create", "open"}
  /\ f.pc = "use" => f.call # "readdir"
  /\ f.pc \in FlushPCs => f.call = "flush"

\* The frame of a thread names things that exist.
FrameOK(t) ==
  LET f == op[t] IN
  /\ LabelOK(f)
  /\ f.call \in DirectoryCalls => (f.call = "readdir" <=> f.name = NoName)
  /\ f.call \in FileCalls => f.h \in DOMAIN files
  /\ f.hash \in 0 .. Len(index)
  /\ f.pc \in InoPCs \cup {"load"} => f.hash # None
  /\ f.pc \in InoPCs => f.ino \in DOMAIN inodes /\ inodes[f.ino].hash = f.hash
  /\ f.pc = "unref" => f.tmp > 0

\* The entries, the open files and the Inodes belong to files that exist.
ObjectsOK ==
  /\ \A i \in DOMAIN entries : entries[i].hash \in Hashnames
  /\ \A h \in DOMAIN files :
       files[h].hash \in Hashnames /\ files[h].fd \in 0 .. FdTableMax - 1
  /\ \A o \in DOMAIN inodes : inodes[o].hash \in Hashnames
  /\ \A hash \in Hashnames : index[hash] = Len(versions[hash])

\* The labels at which a thread holds the mutex.
LockPCs == {"load", "create_new"}

\* The mutex is held by the one thread that waits for the backend in get_inode
\* or allocate_inode, and the file that get_inode waits for is not in the table.
MutexOK ==
  /\ \A t \in Threads : t \in mutex <=> op[t].pc \in LockPCs
  /\ \A t, u \in mutex : t = u
  /\ \A t \in mutex : op[t].pc = "load" => inode_table[op[t].hash] = None

Base ==
  /\ TypeOK
  /\ ObjectsOK
  /\ \A t \in Threads : FrameOK(t)
  /\ MutexOK
  /\ OneInode

-----------------------------------------------------------------------------
\* Calls that conflict are not in progress together.
Exclusive ==
  \A t, u \in Threads :
    t # u =>
      /\ ~ (op[t].call \in DirectoryCalls /\ op[u].call \in DirectoryCalls)
      /\ op[t].call = "flush" => ~ FlushConflict(op[t].h, op[u])

\* Descriptors count the open files; fd_table has a file's own hashname or,
\* after a release, none.
FdOK ==
  /\ fd_cnt = FirstFd - 1 + Len(files)
  /\ Len(files) <= FdTableMax - FirstFd
  /\ \A h \in DOMAIN files :
       /\ files[h].fd = FirstFd - 1 + h
       /\ fd_table[files[h].fd] \in {None, files[h].hash}

\* What a thread has looked up.
LookupOK(t) ==
  LET f == op[t] IN
  /\ f.pc = "readdir" =>
       /\ it # Dangling
       /\ \A i \in 1 .. it - 1 : entries[i].name # f.name
  /\ f.pc = "entry" =>
       /\ it \in DOMAIN entries /\ f.tmp = it /\ f.end = Len(entries) + 1
       /\ \A i \in 1 .. it - 1 : entries[i].name # f.name
  /\ f.pc = "rewind" => \A i \in DOMAIN entries : entries[i].name # f.name
  /\ f.call \in {"getattr", "open"} /\ f.hash # None => IsNamed(f.name, f.hash)
  /\ f.call \in FileCalls => f.hash \in {None, files[f.h].hash}
  /\ f.call = "create" /\ f.pc \in InoPCs =>
       \A h \in DOMAIN files : files[h].hash # f.hash
  /\ f.pc = "fd_store" => f.tmp = fd_cnt

\* The Inode that a thread opens, closes or asks for its size stays in the
\* table, and nobody else changes its count.
AttachedOK(t) ==
  LET f == op[t] IN
  /\ f.call \notin {"read", "write"} /\ f.pc \in InoPCs => inode_table[f.hash] = f.ino
  /\ f.pc \in {"ref", "unref"} => f.tmp = inodes[f.ino].ref
  /\ f.pc \in {"collect", "modify", "commit", "drop", "recount", "release"} =>
       f.tmp = inodes[f.ino].ref + 1
  /\ f.pc \in {"collect", "modify", "commit", "drop", "release"} => f.tmp = 1

\* The Inode was flushed and is about to be released.
Flushed(t, hash) ==
  op[t].hash = hash /\ op[t].pc \in {"drop", "recount", "release"} /\ op[t].tmp = 1

ViewOK ==
  /\ \A hash \in Hashnames :
       \/ inode_table[hash] = None
       \/ inodes[inode_table[hash]].version = index[hash]
       \/ \E t \in Threads : Flushed(t, hash)
  /\ \A t \in Threads :
       /\ op[t].pc = "load" => op[t].version = index[op[t].hash]
       /\ op[t].pc = "modify" => op[t].version = inodes[op[t].ino].version

Apart ==
  ~ mode.overlap =>
    /\ Exclusive
    /\ FdOK
    /\ \A t \in Threads : LookupOK(t) /\ AttachedOK(t)
    /\ ViewOK

-----------------------------------------------------------------------------
\* A thread that reads or writes has its file open, and one that closes does
\* not.
OpenOK(t) ==
  LET f == op[t] IN
  /\ f.call \in FileCalls => f.hash = files[f.h].hash
  /\ f.call = "flush" => files[f.h].descs = 0
  /\ f.call \in {"read", "write"} => files[f.h].descs > 0
  /\ f.call \in {"read", "write"} /\ f.pc = "use" => inode_table[f.hash] = f.ino

Counted ==
  Regular =>
    /\ \A h \in DOMAIN files :
         /\ files[h].descs <= 1
         /\ files[h].descs > 0 => fd_table[files[h].fd] = files[h].hash
    /\ \A t \in Threads : OpenOK(t)
    /\ ReferencesCounted
    /\ FaultFree

-----------------------------------------------------------------------------
\* What FlushCache hands over is what the cache has.
DataOK(t) ==
  LET f == op[t]
      dirty == inodes[f.ino].dirty
  IN
  /\ f.pc \in {"modify", "commit"} => f.data = dirty
  /\ f.pc \in {"drop", "recount", "release"} /\ f.tmp = 1 =>
       dirty \subseteq HandedOver(f.hash)

Kept ==
  Regular /\ ~ mode.fail =>
    /\ \A t \in Threads : DataOK(t)
    /\ \A i \in DOMAIN writes : writes[i] \in Hashnames
    /\ WritesKept

=============================================================================
