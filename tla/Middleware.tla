----------------------------- MODULE Middleware -----------------------------
(***************************************************************************)
(* The DCFS middleware (class DCFSMidSim, src/fs/backend_sim.cpp) and the  *)
(* record store behind it (interface DCServer).                            *)
(*                                                                         *)
(* A file is a DataCapsule: an append-only collection of records that name *)
(* each other by hash.  A META record founds the capsule; every flush of   *)
(* the file appends DATABLOCK records, one BLOCKMAP record and one INODE   *)
(* record, in that order, and then moves index_[dcname] to the new INODE.  *)
(* Several FUSE worker threads call the middleware at once and it takes no *)
(* lock, so a call is split where it blocks on the record store.           *)
(*                                                                         *)
(* A record's name is the SHA-256 of its header, which holds a timestamp:  *)
(* a name is modelled as the record's position in the store, and None      *)
(* stands for the empty string.                                            *)
(***************************************************************************)
EXTENDS Integers, Sequences, FiniteSets

CONSTANTS
  Threads,      \* FUSE worker threads; each holds at most one Inode snapshot
  BlockSize,        \* bytes of a block of the callers: --block_size_in_kb
  DefaultBlockSize, \* bytes of a block here: DEFAULT_BLOCK_SIZE_IN_KB
  MaxBlocks,    \* bound: blocks of a file
  MaxFiles,     \* bound: capsules created
  MaxFlushes    \* bound: calls of Modify

ASSUME MiddlewareAssumption ==
  /\ BlockSize \in Nat \ {0} /\ DefaultBlockSize \in Nat \ {0}
  /\ MaxBlocks \in Nat \ {0}
  /\ MaxFiles \in Nat
  /\ MaxFlushes \in Nat

VARIABLES
  store,        \* the records the DC server holds; a name is a position
  index,        \* index_: dcname -> name of its latest INODE record, or None
  sess,         \* per thread: the Inode snapshot ReadFileMeta gave it
  op,           \* per thread: the frame of its call of Modify
  ret,          \* per thread: what its last call of Modify returned
  flushes,      \* how often Modify was called (only to bound the model)
  overlapped    \* history: the threads whose call of Modify ran together with
                \* another one for the same capsule

vars == <<store, index, sess, op, ret, flushes, overlapped>>

None == 0

Block == 0 .. MaxBlocks - 1

(***************************************************************************)
(* Records.  "blk" is the file block a DATABLOCK was made from; the record *)
(* does not hold it (only the buffer descriptor's file_offset does), the   *)
(* properties need it.  "key" of an INODE is the key that DecryptAESKey    *)
(* recovers from the payload; 0 is the per-file key CreateNew generated.   *)
(***************************************************************************)
MetaRecords     == [type : {"META"}, dc : Nat]
DataRecords     == [type : {"DATABLOCK"}, dc : Nat, prev : Nat, blk : Block]
BlockMapRecords == [type : {"BLOCKMAP"}, dc : Nat, prev : Nat \X Nat,
                    data_hashes : Seq(Nat)]
InodeRecords    == [type : {"INODE"}, dc : Nat, prev : Nat \X Nat,
                    isize : Nat, key : Nat]
Records == MetaRecords \cup DataRecords \cup BlockMapRecords \cup InodeRecords

\* The header fields of an Inode object that came from an INODE record.
Sessions == [dc : Nat, ino : Nat, isize : Nat, key : Nat]

NoSession == [dc |-> None, ino |-> None, isize |-> 0, key |-> 0]

PCs == {"idle", "load", "blockmap", "data", "push_bm", "push_ino", "commit",
        "stuck"}

(***************************************************************************)
(* The locals of Modify: todo are the descriptors still to be pushed,      *)
(* ndescs is descs->size(); isize, key, blockmap_hash are inode_record;    *)
(* data_hashes, latest_data are blockmap_record; data_block, new_blockmap  *)
(* and new_inode are the names of the records pushed so far.               *)
(***************************************************************************)
Frames == [pc : PCs, dc : Nat, todo : SUBSET Block, ndescs : Nat,
           isize : Nat, key : Nat, blockmap_hash : Nat,
           data_hashes : Seq(Nat), latest_data : Nat, data_block : Nat,
           new_blockmap : Nat, new_inode : Nat]

IdleFrame == [pc |-> "idle", dc |-> None, todo |-> {}, ndescs |-> 0,
              isize |-> 0, key |-> 0, blockmap_hash |-> None,
              data_hashes |-> <<>>, latest_data |-> None,
              data_block |-> None, new_blockmap |-> None,
              new_inode |-> None]

Returns == {"none", "ok", "stale", "io"}

TypeOK ==
  /\ store \in Seq(Records)
  /\ DOMAIN index \subseteq Nat
  /\ \A d \in DOMAIN index : index[d] \in Nat
  /\ sess \in [Threads -> Sessions]
  /\ op \in [Threads -> Frames]
  /\ ret \in [Threads -> Returns]
  /\ flushes \in Nat
  /\ overlapped \in SUBSET Threads

Init ==
  /\ store = <<>>
  /\ index = [d \in {} |-> None]
  /\ sess = [t \in Threads |-> NoSession]
  /\ op = [t \in Threads |-> IdleFrame]
  /\ ret = [t \in Threads |-> "none"]
  /\ flushes = 0
  /\ overlapped = {}

-----------------------------------------------------------------------------
NewName == Len(store) + 1

IsStored(n, type) == n \in 1 .. Len(store) /\ store[n].type = type

\* The blocks FlushCache may find dirty in an Inode of a size: a write starts
\* at or before the end of the file, so new blocks leave no hole.
DirtySets(isize) ==
  {D \in SUBSET Block :
     D # {} /\ \A b \in D : \A c \in isize \div BlockSize .. b : c \in D}

\* The first 16 bytes of a file key encrypted under the middleware's key.
CipherPrefix(k) == k + 1

\* CreateNew pushes the META record, enters the capsule in index_ and
\* generates the file's key; allocate_inode wraps them in a fresh Inode.
CreateNew(t) ==
  /\ op[t].pc = "idle"
  /\ Cardinality(DOMAIN index) < MaxFiles
  /\ store' = Append(store, [type |-> "META", dc |-> NewName])
  /\ index' = [d \in DOMAIN index \cup {NewName} |->
                 IF d = NewName THEN None ELSE index[d]]
  /\ sess' = [sess EXCEPT ![t] = [dc |-> NewName, ino |-> None,
                                  isize |-> 0, key |-> 0]]
  /\ UNCHANGED <<op, ret, flushes, overlapped>>

\* ReadFileMeta asks GetInodeName for the latest INODE record of an existing
\* capsule and reads it; the snapshot it returns becomes an Inode.
ReadFileMeta(t, d) ==
  /\ op[t].pc = "idle"
  /\ d \in DOMAIN index
  /\ index[d] # None
  /\ sess' = [sess EXCEPT ![t] = [dc |-> d, ino |-> index[d],
                                  isize |-> store[index[d]].isize,
                                  key |-> store[index[d]].key]]
  /\ UNCHANGED <<store, index, op, ret, flushes, overlapped>>

\* get_inode finds the file's Inode in the inode table: two threads share it.
ShareInode(t, u) ==
  /\ op[t].pc = "idle"
  /\ sess[u].dc # None
  /\ sess' = [sess EXCEPT ![t] = sess[u]]
  /\ UNCHANGED <<store, index, op, ret, flushes, overlapped>>

\* A capsule that was never flushed: GetInodeName answers with the empty
\* name, and the read of a record of that name is never answered.
ReadFileMetaEmpty(t, d) ==
  /\ op[t].pc = "idle"
  /\ d \in DOMAIN index
  /\ index[d] = None
  /\ op' = [op EXCEPT ![t].pc = "stuck"]
  /\ UNCHANGED <<store, index, sess, ret, flushes, overlapped>>

-----------------------------------------------------------------------------
CanFlush(t) ==
  /\ op[t].pc = "idle"
  /\ sess[t].dc # None
  /\ flushes < MaxFlushes

InModify(t) == op[t].pc \notin {"idle", "stuck"}

\* The other threads that are inside Modify for t's capsule.
Companions(t) == {u \in Threads \ {t} : InModify(u) /\ op[u].dc = sess[t].dc}

NoteOverlap(t) ==
  overlapped' = IF Companions(t) = {} THEN overlapped \ {t}
                ELSE overlapped \cup Companions(t) \cup {t}

\* Modify finds that the caller looks at an INODE that is not the latest.
ModifyStale(t) ==
  /\ CanFlush(t)
  /\ sess[t].ino # index[sess[t].dc]
  /\ ret' = [ret EXCEPT ![t] = "stale"]
  /\ flushes' = flushes + 1
  /\ UNCHANGED <<store, index, sess, op, overlapped>>

\* Mutated form: the version the caller looks at is not compared.
ModifyStartUnchecked(t, D) ==
  /\ CanFlush(t)
  /\ D \in DirtySets(sess[t].isize)
  /\ op' = [op EXCEPT ![t] = [IdleFrame EXCEPT !.pc = "load",
                                               !.dc = sess[t].dc,
                                               !.todo = D,
                                               !.ndescs = Cardinality(D)]]
  /\ flushes' = flushes + 1
  /\ NoteOverlap(t)
  /\ UNCHANGED <<store, index, sess, ret>>

\* Modify accepts the call with one descriptor per dirty block.
ModifyStart(t, D) ==
  /\ CanFlush(t)
  /\ sess[t].ino = index[sess[t].dc]
  /\ D \in DirtySets(sess[t].isize)
  /\ op' = [op EXCEPT ![t] = [IdleFrame EXCEPT !.pc = "load",
                                               !.dc = sess[t].dc,
                                               !.todo = D,
                                               !.ndescs = Cardinality(D)]]
  /\ flushes' = flushes + 1
  /\ NoteOverlap(t)
  /\ UNCHANGED <<store, index, sess, ret>>

\* The first flush of a file has no INODE to read; it takes the client's key.
LoadNothing(t) ==
  /\ op[t].pc = "load"
  /\ index[op[t].dc] = None
  /\ op' = [op EXCEPT ![t].pc = "data"]
  /\ UNCHANGED <<store, index, sess, ret, flushes, overlapped>>

\* A later flush reads the INODE that index_ names now.  The size in its
\* payload is not read, and the key is taken still encrypted.
LoadInode(t) ==
  LET ino == store[index[op[t].dc]] IN
  /\ op[t].pc = "load"
  /\ index[op[t].dc] # None
  /\ op' = [op EXCEPT ![t].pc = "blockmap",
                      ![t].blockmap_hash = ino.prev[2],
                      ![t].key = CipherPrefix(ino.key)]
  /\ UNCHANGED <<store, index, sess, ret, flushes, overlapped>>

LoadBlockMap(t) ==
  LET bm == store[op[t].blockmap_hash] IN
  /\ op[t].pc = "blockmap"
  /\ op' = [op EXCEPT ![t].pc = "data",
                      ![t].latest_data = bm.prev[2],
                      ![t].data_hashes = bm.data_hashes]
  /\ UNCHANGED <<store, index, sess, ret, flushes, overlapped>>

-----------------------------------------------------------------------------
\* Mutated form: the first block of a capsule is not linked to its META.
PreviousDataUnlinked(f) ==
  IF f.data_block # None THEN f.data_block ELSE f.latest_data

\* The record a new DATABLOCK points to: the one pushed before it, else the
\* latest one of the old block map, else the capsule's META record.
PreviousData(f) ==
  IF f.data_block # None THEN f.data_block
  ELSE IF f.latest_data # None THEN f.latest_data ELSE f.dc

\* Mutated form: a new block is put in front of the others.
UpdateHashesInFront(f, b, name) ==
  IF b * BlockSize < f.isize
  THEN [f.data_hashes EXCEPT ![(b * BlockSize) \div DefaultBlockSize + 1] = name]
  ELSE <<name>> \o f.data_hashes

\* What the block map update does with the data block of one descriptor, whose
\* file_offset is counted in the caller's blocks.  data_hashes is a local of
\* the call, so this loop is run together with the loop that pushes the data
\* blocks.
UpdateHashes(f, b, name) ==
  IF b * BlockSize < f.isize
  THEN [f.data_hashes EXCEPT ![(b * BlockSize) \div DefaultBlockSize + 1] = name]
  ELSE Append(f.data_hashes, name)

\* Mutated form: the loop over the descriptors runs once too often.
PushDataOffByOne(t) ==
  LET f == op[t] IN
  /\ f.pc = "data"
  /\ \E b \in f.todo :
       /\ \A c \in f.todo : b <= c
       /\ store' = Append(store, [type |-> "DATABLOCK", dc |-> f.dc,
                                  prev |-> PreviousData(f), blk |-> b])
       /\ op' = [op EXCEPT
                   ![t].pc = IF f.todo = {} THEN "push_bm" ELSE "data",
                   ![t].todo = f.todo \ {b},
                   ![t].data_block = NewName,
                   ![t].data_hashes = UpdateHashes(f, b, NewName)]
  /\ UNCHANGED <<index, sess, ret, flushes, overlapped>>

\* Descriptors come in the order of their blocks.
PushData(t) ==
  LET f == op[t] IN
  /\ f.pc = "data"
  /\ \E b \in f.todo :
       /\ \A c \in f.todo : b <= c
       /\ store' = Append(store, [type |-> "DATABLOCK", dc |-> f.dc,
                                  prev |-> PreviousData(f), blk |-> b])
       /\ op' = [op EXCEPT
                   ![t].pc = IF f.todo = {b} THEN "push_bm" ELSE "data",
                   ![t].todo = f.todo \ {b},
                   ![t].data_block = NewName,
                   ![t].data_hashes = UpdateHashes(f, b, NewName)]
  /\ UNCHANGED <<index, sess, ret, flushes, overlapped>>

\* Mutated form: the pointer to the latest data block is not pushed.
PushBlockMapOnePointer(t) ==
  LET f == op[t] IN
  /\ f.pc = "push_bm"
  /\ store' = Append(store,
       [type |-> "BLOCKMAP", dc |-> f.dc,
        prev |-> <<IF f.blockmap_hash # None THEN f.blockmap_hash ELSE f.dc>>,
        data_hashes |-> f.data_hashes])
  /\ op' = [op EXCEPT ![t].pc = "push_ino", ![t].new_blockmap = NewName]
  /\ UNCHANGED <<index, sess, ret, flushes, overlapped>>

\* The BLOCKMAP points to the one before it, or to the META record, and to the
\* last data block pushed; its payload are the data blocks' names.
PushBlockMap(t) ==
  LET f == op[t] IN
  /\ f.pc = "push_bm"
  /\ store' = Append(store,
       [type |-> "BLOCKMAP", dc |-> f.dc,
        prev |-> <<IF f.blockmap_hash # None THEN f.blockmap_hash ELSE f.dc,
                   f.data_block>>,
        data_hashes |-> f.data_hashes])
  /\ op' = [op EXCEPT ![t].pc = "push_ino", ![t].new_blockmap = NewName]
  /\ UNCHANGED <<index, sess, ret, flushes, overlapped>>

\* Mutated form: one block too many in the new size.
PushInodeOversize(t) ==
  LET f == op[t] IN
  /\ f.pc = "push_ino"
  /\ store' = Append(store,
       [type |-> "INODE", dc |-> f.dc,
        prev |-> <<IF index[f.dc] # None THEN index[f.dc] ELSE f.dc,
                   f.new_blockmap>>,
        isize |-> (f.ndescs + 1) * DefaultBlockSize,
        key |-> f.key])
  /\ op' = [op EXCEPT ![t].pc = "commit", ![t].new_inode = NewName]
  /\ UNCHANGED <<index, sess, ret, flushes, overlapped>>

\* The size of a version in bytes, counted in blocks of the default size.
NewSize(f) ==
  LET flushed == f.ndescs * DefaultBlockSize IN
  IF f.isize <= flushed THEN flushed ELSE f.isize

\* The new INODE points to the INODE that index_ names at this moment.
PushInode(t) ==
  LET f == op[t] IN
  /\ f.pc = "push_ino"
  /\ store' = Append(store,
       [type |-> "INODE", dc |-> f.dc,
        prev |-> <<IF index[f.dc] # None THEN index[f.dc] ELSE f.dc,
                   f.new_blockmap>>,
        isize |-> NewSize(f),
        key |-> f.key])
  /\ op' = [op EXCEPT ![t].pc = "commit", ![t].new_inode = NewName]
  /\ UNCHANGED <<index, sess, ret, flushes, overlapped>>

\* Mutated form: index_ moves to the block map instead of the INODE.
UpdateIndexBlockMap(t) ==
  LET f == op[t] IN
  /\ f.pc = "commit"
  /\ index' = [index EXCEPT ![f.dc] = f.new_blockmap]
  /\ op' = [op EXCEPT ![t] = IdleFrame]
  /\ ret' = [ret EXCEPT ![t] = "ok"]
  /\ UNCHANGED <<store, sess, flushes, overlapped>>

UpdateIndex(t) ==
  LET f == op[t] IN
  /\ f.pc = "commit"
  /\ index' = [index EXCEPT ![f.dc] = f.new_inode]
  /\ op' = [op EXCEPT ![t] = IdleFrame]
  /\ ret' = [ret EXCEPT ![t] = "ok"]
  /\ UNCHANGED <<store, sess, flushes, overlapped>>

\* A read or a write of a record fails: Modify returns the error at once and
\* leaves behind what it has pushed.
ServerError(t) ==
  /\ op[t].pc \in {"load", "blockmap", "data", "push_bm", "push_ino"}
  /\ op[t].pc = "load" => index[op[t].dc] # None
  /\ op' = [op EXCEPT ![t] = IdleFrame]
  /\ ret' = [ret EXCEPT ![t] = "io"]
  /\ UNCHANGED <<store, index, sess, flushes, overlapped>>

ModifyStep(t) ==
  \/ LoadNothing(t) \/ LoadInode(t) \/ LoadBlockMap(t) \/ PushData(t)
  \/ PushBlockMap(t) \/ PushInode(t) \/ UpdateIndex(t)

Next ==
  \E t \in Threads :
    \/ CreateNew(t)
    \/ \E d \in DOMAIN index : ReadFileMeta(t, d) \/ ReadFileMetaEmpty(t, d)
    \/ \E u \in Threads : ShareInode(t, u)
    \/ ModifyStale(t)
    \/ \E D \in SUBSET Block : ModifyStart(t, D)
    \/ ModifyStep(t)
    \/ ServerError(t)

Spec == Init /\ [][Next]_vars

-----------------------------------------------------------------------------
\* Name m, below n, is stored in capsule d and has one of the types.
PointsTo(n, m, d, types) ==
  /\ m \in 1 .. n - 1
  /\ store[m].dc = d
  /\ store[m].type \in types

DataSound(n) ==
  store[n].type = "DATABLOCK" =>
    PointsTo(n, store[n].prev, store[n].dc, {"META", "DATABLOCK"})

BlockMapSound(n) ==
  store[n].type = "BLOCKMAP" =>
    /\ PointsTo(n, store[n].prev[1], store[n].dc, {"META", "BLOCKMAP"})
    /\ PointsTo(n, store[n].prev[2], store[n].dc, {"DATABLOCK"})
    /\ \A i \in 1 .. Len(store[n].data_hashes) :
         PointsTo(n, store[n].data_hashes[i], store[n].dc, {"DATABLOCK"})

InodeSound(n) ==
  store[n].type = "INODE" =>
    /\ PointsTo(n, store[n].prev[1], store[n].dc, {"META", "INODE"})
    /\ PointsTo(n, store[n].prev[2], store[n].dc, {"BLOCKMAP"})

\* No hash pointer dangles.  Whatever flushes interleave and wherever one
\* fails, each name in a stored record (its prevhashes, the entries of a
\* block map) is a record that was stored earlier, in the same capsule and
\* of the kind the record format prescribes; so the hash graph has no cycle.
\* It rests on Modify's push order: data blocks, block map, inode.
RecordGraphSound ==
  \A n \in 1 .. Len(store) : DataSound(n) /\ BlockMapSound(n) /\ InodeSound(n)

\* Every capsule that index_ knows has its META record, and the version that
\* index_ names is a stored INODE of that capsule: GetInodeName never gives
\* out a name before the whole version behind it is stored.
IndexSound ==
  \A d \in DOMAIN index :
    /\ IsStored(d, "META") /\ store[d].dc = d
    /\ index[d] # None => IsStored(index[d], "INODE") /\ store[index[d]].dc = d

\* A version's size never exceeds the bytes that its block map has blocks for,
\* so that a read inside the size always finds a hash in the block map
\* (bmCheck), as long as the callers' blocks are not smaller than the default
\* size in which Modify counts them.
SizeCovered ==
  DefaultBlockSize <= BlockSize =>
    \A n \in 1 .. Len(store) :
      store[n].type = "INODE" =>
        store[n].isize <= Len(store[store[n].prev[2]].data_hashes) * BlockSize

\* Entry i of the block map at n names the data block made from block i.
Positional(n) ==
  \A i \in 1 .. Len(store[n].data_hashes) :
    store[store[n].data_hashes[i]].blk = i - 1

\* The first block map of a capsule is positional, as the record format in
\* backend_sim.cpp says, even if two threads make first flushes at once.
FirstBlockMapPositional ==
  \A n \in 1 .. Len(store) :
    /\ store[n].type = "BLOCKMAP"
    /\ store[store[n].prev[1]].type = "META"
    => Positional(n)

\* The blocks still to be pushed are the ones that follow the first n.
FollowOn(todo, n) ==
  \A b \in todo : n <= b /\ \A c \in n .. b : c \in todo

InCapsule(m, d, type) == IsStored(m, type) /\ store[m].dc = d

NoneOrInCapsule(m, d, type) == m # None => InCapsule(m, d, type)

\* An Inode snapshot is of a known capsule, and has size 0 before the first
\* version exists.
SessionSound(t) ==
  /\ sess[t].dc # None => sess[t].dc \in DOMAIN index
  /\ sess[t].ino = None => sess[t].isize = 0

\* Between two blocking calls a thread inside Modify holds names only of
\* records of its own capsule that are already stored ...
NamesSound(t) ==
  LET f == op[t] IN
  InModify(t) =>
    /\ f.dc \in DOMAIN index
    /\ f.isize = 0
    /\ NoneOrInCapsule(f.blockmap_hash, f.dc, "BLOCKMAP")
    /\ NoneOrInCapsule(f.latest_data, f.dc, "DATABLOCK")
    /\ NoneOrInCapsule(f.data_block, f.dc, "DATABLOCK")
    /\ \A i \in 1 .. Len(f.data_hashes) :
         InCapsule(f.data_hashes[i], f.dc, "DATABLOCK")
    /\ f.pc = "blockmap" => f.blockmap_hash # None
    /\ f.pc \in {"load", "blockmap", "data"} => f.todo # {}
    /\ f.pc = "push_bm" => f.todo = {} /\ f.data_block # None
    /\ f.pc = "push_ino" => InCapsule(f.new_blockmap, f.dc, "BLOCKMAP")
    /\ f.pc = "commit" => InCapsule(f.new_inode, f.dc, "INODE")

\* ... its block map so far has an entry for each descriptor done ...
CountsSound(t) ==
  LET f == op[t] IN
  /\ f.pc \in {"load", "blockmap", "data", "push_bm"} =>
       f.ndescs <= Cardinality(f.todo) + Len(f.data_hashes)
  /\ f.pc = "push_ino" => f.ndescs <= Len(store[f.new_blockmap].data_hashes)

\* ... and in a first flush that block map is positional.
FirstFlushSound(t) ==
  LET f == op[t] IN
  /\ f.pc \in {"load", "blockmap"} => f.data_hashes = <<>>
  /\ f.pc = "load" /\ index[f.dc] = None => FollowOn(f.todo, 0)
  /\ f.pc \in {"data", "push_bm"} /\ f.blockmap_hash = None =>
       /\ FollowOn(f.todo, Len(f.data_hashes))
       /\ \A i \in 1 .. Len(f.data_hashes) :
            store[f.data_hashes[i]].blk = i - 1

\* What holds of a call of Modify at each of its steps.
FrameSound ==
  \A t \in Threads :
    SessionSound(t) /\ NamesSound(t) /\ CountsSound(t) /\ FirstFlushSound(t)

\* The record format: "32bytes HASH to first data block (0-16kb)", "32bytes
\* HASH to second data block (16kb-32kb)", for every block map of a capsule.
BlockMapPositional ==
  \A n \in 1 .. Len(store) : store[n].type = "BLOCKMAP" => Positional(n)

\* The per-file key: what a client decrypts from any version of the file is
\* the key its data blocks were encrypted with.
KeyPreserved ==
  \A n \in 1 .. Len(store) : store[n].type = "INODE" => store[n].key = 0

\* Where the chain of versions of capsule d ends now.
ChainEnd(d) == IF index[d] = None THEN d ELSE index[d]

\* A flush replaces exactly the version its caller was looking at, and the new
\* INODE's first prevhash is that version, so that no version is lost from the
\* chain, unless another flush of the same file ran at some time during the
\* call: then the comparison at the start of Modify may be stale at its end.
ReplacesCallersVersion ==
  [][\A d \in DOMAIN index :
       index'[d] # index[d] =>
         \E t \in Threads :
           /\ sess[t].dc = d
           /\ op[t].pc = "commit" /\ op[t].new_inode = index'[d]
           /\ t \notin overlapped =>
                /\ sess[t].ino = index[d]
                /\ store[index'[d]].prev[1] = ChainEnd(d)
    ]_index

\* A thread that has been alone in Modify with its file still looks at the
\* latest version at each of its steps, whatever calls came before, failed half
\* way or work on other files, and its new INODE extends that version.
UndisturbedSound ==
  \A t \in Threads : InModify(t) =>
    /\ sess[t].dc = op[t].dc
    /\ t \notin overlapped =>
         /\ sess[t].ino = index[op[t].dc]
         /\ \A u \in Threads : InModify(u) /\ u # t => op[u].dc # op[t].dc
         /\ op[t].pc = "commit" =>
              store[op[t].new_inode].prev[1] = ChainEnd(op[t].dc)

=============================================================================
