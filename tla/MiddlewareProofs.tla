-------------------------- MODULE MiddlewareProofs --------------------------
(*****************************************************************************)
(* The theorems about Middleware. The inductive invariant adds to the        *)
(* properties what a call of Modify knows between its blocking steps         *)
(* (FrameSound): RecordGraphSound says nothing about the names a thread is   *)
(* about to write into a record.                                             *)
(*****************************************************************************)
EXTENDS Middleware, FiniteSetTheorems, TLAPS

IInv ==
  /\ TypeOK
  /\ RecordGraphSound
  /\ IndexSound
  /\ SizeCovered
  /\ FirstBlockMapPositional
  /\ FrameSound

\* A record's type tells which fields it has.
LEMMA RecordByType ==
  ASSUME NEW r \in Records
  PROVE  /\ r.type \in {"META", "DATABLOCK", "BLOCKMAP", "INODE"}
         /\ r.dc \in Nat
         /\ r.type = "DATABLOCK" => r \in DataRecords
         /\ r.type = "BLOCKMAP" => r \in BlockMapRecords
         /\ r.type = "INODE" => r \in InodeRecords
  BY Zenon DEF Records, MetaRecords, DataRecords, BlockMapRecords, InodeRecords

\* Appending keeps every record under its name and gives the new record the
\* new name.
LEMMA AppendKeeps ==
  ASSUME store \in Seq(Records), NEW r \in Records, store' = Append(store, r)
  PROVE  /\ store' \in Seq(Records)
         /\ Len(store') = Len(store) + 1
         /\ Len(store) \in Nat
         /\ \A n \in 1 .. Len(store) : store'[n] = store[n] /\ store[n] \in Records
         /\ store'[Len(store) + 1] = r
  OBVIOUS

\* The blocks of a file are finitely many, and so is any set of them.
LEMMA BlocksFinite ==
  ASSUME NEW D \in SUBSET Block
  PROVE  IsFiniteSet(D) /\ Cardinality(D) \in Nat
<1>1. IsFiniteSet(Block)
  BY FS_Interval, MiddlewareAssumption DEF Block
<1>2. QED
  BY <1>1, FS_Subset, FS_CardinalityType, Zenon

-----------------------------------------------------------------------------
\* Nothing is stored and nobody has called anything in the first state.
LEMMA InitIInv == Init => IInv
<1> SUFFICES ASSUME Init PROVE IInv
  OBVIOUS
<1> USE DEF Init
<1>1. TypeOK
  <2>1. IdleFrame \in Frames
    BY DEF IdleFrame, Frames, PCs, None
  <2>2. NoSession \in Sessions
    BY Zenon DEF NoSession, Sessions, None
  <2>3. store \in Seq(Records) /\ DOMAIN index = {}
    OBVIOUS
  <2>4. QED
    BY <2>1, <2>2, <2>3, Zenon DEF TypeOK, Returns
<1>2. RecordGraphSound /\ SizeCovered /\ FirstBlockMapPositional /\ IndexSound
  <2>1. Len(store) = 0 /\ 1 .. 0 = {} /\ DOMAIN index = {}
    OBVIOUS
  <2>2. QED
    BY <2>1, Zenon DEF RecordGraphSound, SizeCovered, FirstBlockMapPositional, IndexSound
<1>3. FrameSound
  BY Zenon DEF FrameSound, SessionSound, NamesSound, CountsSound, FirstFlushSound,
         InModify, NoSession, IdleFrame, None
<1>4. QED
  BY <1>1, <1>2, <1>3, Zenon DEF IInv

-----------------------------------------------------------------------------
\* No step removes a record, a capsule or a capsule's last version.
StoreGrows ==
  /\ Len(store) \in Nat /\ Len(store') \in Nat /\ Len(store) <= Len(store')
  /\ \A n \in 1 .. Len(store) : store'[n] = store[n]

IndexGrows ==
  \A d \in DOMAIN index :
    d \in DOMAIN index' /\ (index'[d] = None => index[d] = None)

\* What is stored in a capsule stays there.
LEMMA InCapsuleKept ==
  ASSUME StoreGrows, NEW m, NEW d, NEW type, InCapsule(m, d, type)
  PROVE  /\ InCapsule(m, d, type)'
         /\ m \in 1 .. Len(store)
         /\ store'[m] = store[m]
  BY DEF StoreGrows, InCapsule, IsStored

\* A name that is empty or names a record stays so while the store grows.
LEMMA NoneOrInCapsuleKept ==
  ASSUME StoreGrows, NEW m, NEW d, NEW type, NoneOrInCapsule(m, d, type)
  PROVE  NoneOrInCapsule(m, d, type)'
  BY InCapsuleKept, Zenon DEF NoneOrInCapsule

\* A pointer to one kind of record is a name in the capsule, and the converse.
LEMMA PointsToInCapsule ==
  ASSUME TypeOK, NEW n \in 1 .. Len(store) + 1, NEW m, NEW d, NEW type,
         PointsTo(n, m, d, {type})
  PROVE  InCapsule(m, d, type) /\ m # None
  BY DEF TypeOK, PointsTo, InCapsule, IsStored, None

\* A record of a type in a capsule is a sound target of a pointer.
LEMMA InCapsulePointsTo ==
  ASSUME TypeOK, NEW m, NEW d, NEW types, NEW type \in types,
         InCapsule(m, d, type)
  PROVE  PointsTo(NewName, m, d, types)
  BY DEF TypeOK, PointsTo, InCapsule, IsStored, NewName

\* The names a thread holds after its own step, one by one.
LEMMA NamesPrimed ==
  ASSUME NEW t \in Threads, NEW g, op'[t] = g,
         g.dc \in DOMAIN index', g.isize = 0,
         NoneOrInCapsule(g.blockmap_hash, g.dc, "BLOCKMAP")',
         NoneOrInCapsule(g.latest_data, g.dc, "DATABLOCK")',
         NoneOrInCapsule(g.data_block, g.dc, "DATABLOCK")',
         \A i \in 1 .. Len(g.data_hashes) :
           InCapsule(g.data_hashes[i], g.dc, "DATABLOCK")',
         g.pc = "blockmap" => g.blockmap_hash # None,
         g.pc \in {"load", "blockmap", "data"} => g.todo # {},
         g.pc = "push_bm" => g.todo = {} /\ g.data_block # None,
         g.pc = "push_ino" => InCapsule(g.new_blockmap, g.dc, "BLOCKMAP")',
         g.pc = "commit" => InCapsule(g.new_inode, g.dc, "INODE")'
  PROVE  NamesSound(t)'
  BY DEF NamesSound, NoneOrInCapsule, InCapsule, IsStored

\* A thread that takes no step keeps what it knows.
LEMMA FrameKept ==
  ASSUME TypeOK, FrameSound, StoreGrows, IndexGrows, NEW t \in Threads,
         op'[t] = op[t], sess'[t] = sess[t]
  PROVE  /\ SessionSound(t)' /\ NamesSound(t)'
         /\ CountsSound(t)' /\ FirstFlushSound(t)'
<1> DEFINE f == op[t]
<1>0. SessionSound(t) /\ NamesSound(t) /\ CountsSound(t) /\ FirstFlushSound(t)
  BY Zenon DEF FrameSound
<1>1. SessionSound(t)'
  BY <1>0, Zenon DEF SessionSound, IndexGrows
<1>2. NamesSound(t)'
  <2> SUFFICES ASSUME InModify(t) PROVE NamesSound(t)'
    BY Zenon DEF NamesSound, InModify
  <2>1. f.dc \in DOMAIN index'
    BY <1>0, Zenon DEF NamesSound, IndexGrows
  <2>2. \A type : NoneOrInCapsule(f.blockmap_hash, f.dc, type) =>
                    NoneOrInCapsule(f.blockmap_hash, f.dc, type)'
    BY InCapsuleKept, Zenon DEF NoneOrInCapsule
  <2>3. \A type : NoneOrInCapsule(f.latest_data, f.dc, type) =>
                    NoneOrInCapsule(f.latest_data, f.dc, type)'
    BY InCapsuleKept, Zenon DEF NoneOrInCapsule
  <2>4. \A type : NoneOrInCapsule(f.data_block, f.dc, type) =>
                    NoneOrInCapsule(f.data_block, f.dc, type)'
    BY InCapsuleKept, Zenon DEF NoneOrInCapsule
  <2>5. \A i \in 1 .. Len(f.data_hashes) :
          InCapsule(f.data_hashes[i], f.dc, "DATABLOCK")'
    BY <1>0, InCapsuleKept, Zenon DEF NamesSound
  <2>6. /\ f.pc = "push_ino" => InCapsule(f.new_blockmap, f.dc, "BLOCKMAP")'
        /\ f.pc = "commit" => InCapsule(f.new_inode, f.dc, "INODE")'
    BY <1>0, InCapsuleKept, Zenon DEF NamesSound
  <2>7. /\ f.isize = 0
        /\ NoneOrInCapsule(f.blockmap_hash, f.dc, "BLOCKMAP")
        /\ NoneOrInCapsule(f.latest_data, f.dc, "DATABLOCK")
        /\ NoneOrInCapsule(f.data_block, f.dc, "DATABLOCK")
        /\ f.pc = "blockmap" => f.blockmap_hash # None
        /\ f.pc \in {"load", "blockmap", "data"} => f.todo # {}
        /\ f.pc = "push_bm" => f.todo = {} /\ f.data_block # None
    BY <1>0, Zenon DEF NamesSound
  <2>8. /\ NoneOrInCapsule(f.blockmap_hash, f.dc, "BLOCKMAP")'
        /\ NoneOrInCapsule(f.latest_data, f.dc, "DATABLOCK")'
        /\ NoneOrInCapsule(f.data_block, f.dc, "DATABLOCK")'
    BY <2>2, <2>3, <2>4, <2>7, Zenon
  <2>9. QED
    BY <2>1, <2>5, <2>6, <2>7, <2>8, NamesPrimed, Zenon
<1>3. CountsSound(t)'
  <2>1. f.pc = "push_ino" => store'[f.new_blockmap] = store[f.new_blockmap]
    BY <1>0, InCapsuleKept, Zenon DEF NamesSound, InModify
  <2>2. QED
    BY <1>0, <2>1, Zenon DEF CountsSound
<1>4. FirstFlushSound(t)'
  <2>1. InModify(t) => \A i \in 1 .. Len(f.data_hashes) :
                         store'[f.data_hashes[i]] = store[f.data_hashes[i]]
    BY <1>0, InCapsuleKept, Zenon DEF NamesSound
  <2>2. f.pc = "load" /\ index'[f.dc] = None => index[f.dc] = None
    BY <1>0, Zenon DEF NamesSound, InModify, IndexGrows
  <2>3. /\ f.pc \in {"load", "blockmap"} => f.data_hashes = <<>>
        /\ f.pc = "load" /\ index'[f.dc] = None => FollowOn(f.todo, 0)
    BY <1>0, <2>2, Zenon DEF FirstFlushSound
  <2>4. ASSUME f.pc \in {"data", "push_bm"}, f.blockmap_hash = None
        PROVE  /\ FollowOn(f.todo, Len(f.data_hashes))
               /\ \A i \in 1 .. Len(f.data_hashes) :
                    store'[f.data_hashes[i]].blk = i - 1
    <3>1. InModify(t)
      BY <2>4, Zenon DEF InModify
    <3>2. /\ FollowOn(f.todo, Len(f.data_hashes))
          /\ \A i \in 1 .. Len(f.data_hashes) : store[f.data_hashes[i]].blk = i - 1
      BY <1>0, <2>4, Zenon DEF FirstFlushSound
    <3>3. QED
      BY <2>1, <3>1, <3>2, Zenon
  <2>5. QED
    BY <2>3, <2>4, Zenon DEF FirstFlushSound, FollowOn
<1>5. QED
  BY <1>1, <1>2, <1>3, <1>4, Zenon

\* A block map has blocks for a size, if the callers' blocks are large enough.
SizeOf(isize, data_hashes) ==
  DefaultBlockSize <= BlockSize => isize <= Len(data_hashes) * BlockSize

\* A new record whose pointers are sound on their own keeps the graph sound.
LEMMA AppendGraph ==
  ASSUME TypeOK, RecordGraphSound, SizeCovered, FirstBlockMapPositional,
         NEW r \in Records, store' = Append(store, r),
         r.type = "DATABLOCK" =>
           PointsTo(NewName, r.prev, r.dc, {"META", "DATABLOCK"}),
         r.type = "BLOCKMAP" =>
           /\ PointsTo(NewName, r.prev[1], r.dc, {"META", "BLOCKMAP"})
           /\ PointsTo(NewName, r.prev[2], r.dc, {"DATABLOCK"})
           /\ \A i \in 1 .. Len(r.data_hashes) :
                PointsTo(NewName, r.data_hashes[i], r.dc, {"DATABLOCK"})
           /\ store[r.prev[1]].type = "META" =>
                \A i \in 1 .. Len(r.data_hashes) :
                  store[r.data_hashes[i]].blk = i - 1,
         r.type = "INODE" =>
           /\ PointsTo(NewName, r.prev[1], r.dc, {"META", "INODE"})
           /\ PointsTo(NewName, r.prev[2], r.dc, {"BLOCKMAP"})
           /\ SizeOf(r.isize, store[r.prev[2]].data_hashes)
  PROVE  /\ RecordGraphSound' /\ SizeCovered' /\ FirstBlockMapPositional'
         /\ StoreGrows
<1>0. /\ Len(store') = Len(store) + 1 /\ Len(store) \in Nat
      /\ \A n \in 1 .. Len(store) : store'[n] = store[n]
      /\ store'[Len(store) + 1] = r
  BY AppendKeeps, Zenon DEF TypeOK
<1>1. \A n \in 1 .. Len(store) + 1 : \A m, d, types :
        PointsTo(n, m, d, types) => PointsTo(n, m, d, types)' /\ store'[m] = store[m]
  <2> SUFFICES ASSUME NEW n \in 1 .. Len(store) + 1, NEW m, NEW d, NEW types,
                      PointsTo(n, m, d, types)
               PROVE  PointsTo(n, m, d, types)' /\ store'[m] = store[m]
    BY Zenon
  <2>1. m \in 1 .. n - 1 /\ store[m].dc = d /\ store[m].type \in types
    BY Zenon DEF PointsTo
  <2>2. store'[m] = store[m]
    BY <1>0, <2>1
  <2>3. QED
    BY <2>1, <2>2, Zenon DEF PointsTo
<1>2. ASSUME NEW n \in 1 .. Len(store')
      PROVE  DataSound(n)' /\ BlockMapSound(n)' /\ InodeSound(n)'
  <2>1. CASE n \in 1 .. Len(store)
    <3>1. DataSound(n) /\ BlockMapSound(n) /\ InodeSound(n)
      BY <2>1, Zenon DEF RecordGraphSound
    <3>2. store'[n] = store[n]
      BY <2>1, <1>0, Zenon
    <3>3. QED
      BY <2>1, <3>1, <3>2, <1>0, <1>1 DEF DataSound, BlockMapSound, InodeSound
  <2>2. CASE n = NewName
    BY <2>2, <1>0, <1>1, Zenon DEF NewName, DataSound, BlockMapSound, InodeSound
  <2>3. QED
    BY <1>0, <2>1, <2>2 DEF NewName
<1>3. ASSUME NEW n \in 1 .. Len(store'), store'[n].type = "INODE"
      PROVE  SizeOf(store'[n].isize, store'[store'[n].prev[2]].data_hashes)
  <2>1. CASE n \in 1 .. Len(store)
    <3>1. InodeSound(n) /\ store'[n] = store[n]
      BY <2>1, <1>0, Zenon DEF RecordGraphSound
    <3>2. store'[store[n].prev[2]] = store[store[n].prev[2]]
      BY <2>1, <1>3, <3>1, <1>0, <1>1, Zenon DEF InodeSound
    <3>3. QED
      BY <2>1, <1>3, <3>1, <3>2, Zenon DEF SizeCovered, SizeOf
  <2>2. CASE n = NewName
    BY <2>2, <1>3, <1>0, <1>1, Zenon DEF NewName
  <2>3. n \in 1 .. Len(store) \/ n = NewName
    BY <1>0 DEF NewName
  <2>4. QED
    BY <2>1, <2>2, <2>3, Zenon
<1>4. ASSUME NEW n \in 1 .. Len(store'), store'[n].type = "BLOCKMAP",
             store'[store'[n].prev[1]].type = "META",
             NEW i \in 1 .. Len(store'[n].data_hashes)
      PROVE  store'[store'[n].data_hashes[i]].blk = i - 1
  <2>1. CASE n \in 1 .. Len(store)
    <3>1. BlockMapSound(n) /\ store'[n] = store[n]
      BY <2>1, <1>0, Zenon DEF RecordGraphSound
    <3>2. /\ store'[store[n].prev[1]] = store[store[n].prev[1]]
          /\ store'[store[n].data_hashes[i]] = store[store[n].data_hashes[i]]
      <4>1. /\ PointsTo(n, store[n].prev[1], store[n].dc, {"META", "BLOCKMAP"})
            /\ PointsTo(n, store[n].data_hashes[i], store[n].dc, {"DATABLOCK"})
        BY <1>4, <3>1, Zenon DEF BlockMapSound
      <4>2. n \in 1 .. Len(store) + 1
        BY <2>1, <1>0, Zenon
      <4>3. QED
        BY <4>1, <4>2, <1>1, Zenon
    <3>3. Positional(n)
      BY <2>1, <1>4, <3>1, <3>2, Zenon DEF FirstBlockMapPositional
    <3>4. QED
      BY <3>1, <3>2, <3>3, <1>4, Zenon DEF Positional
  <2>2. CASE n = NewName
    <3>1. store'[n] = r /\ r.type = "BLOCKMAP" /\ NewName \in 1 .. Len(store) + 1
      BY <2>2, <1>4, <1>0, Zenon DEF NewName
    <3>2. /\ PointsTo(NewName, r.prev[1], r.dc, {"META", "BLOCKMAP"})
          /\ PointsTo(NewName, r.data_hashes[i], r.dc, {"DATABLOCK"})
      BY <3>1, Zenon
    <3>3. /\ store'[r.prev[1]] = store[r.prev[1]]
          /\ store'[r.data_hashes[i]] = store[r.data_hashes[i]]
      BY <3>1, <3>2, <1>1, Zenon
    <3>4. store[r.prev[1]].type = "META"
      BY <3>1, <3>3, <1>4, Zenon
    <3>5. store[r.data_hashes[i]].blk = i - 1
      BY <3>1, <3>4, Zenon
    <3>6. QED
      BY <3>1, <3>3, <3>5, Zenon
  <2>3. n \in 1 .. Len(store) \/ n = NewName
    BY <1>0 DEF NewName
  <2>4. QED
    BY <2>1, <2>2, <2>3, Zenon
<1>5. RecordGraphSound'
  BY <1>2, Zenon DEF RecordGraphSound
<1>6. SizeCovered'
  BY <1>3, Zenon DEF SizeCovered, SizeOf
<1>7. FirstBlockMapPositional'
  BY <1>4, Zenon DEF FirstBlockMapPositional, Positional
<1>8. StoreGrows
  BY <1>0 DEF StoreGrows
<1>9. QED
  BY <1>5, <1>6, <1>7, <1>8, Zenon

\* A step that pushes nothing keeps what is known of the stored records.
LEMMA SameStoreSound ==
  ASSUME RecordGraphSound, SizeCovered, FirstBlockMapPositional, store' = store
  PROVE  RecordGraphSound' /\ SizeCovered' /\ FirstBlockMapPositional'
<1>1. RecordGraphSound'
  <2> SUFFICES ASSUME NEW n \in 1 .. Len(store)
               PROVE  DataSound(n)' /\ BlockMapSound(n)' /\ InodeSound(n)'
    BY Zenon DEF RecordGraphSound
  <2>1. DataSound(n) /\ BlockMapSound(n) /\ InodeSound(n)
    BY Zenon DEF RecordGraphSound
  <2>2. DataSound(n)'
    BY <2>1, Zenon DEF DataSound, PointsTo
  <2>3. BlockMapSound(n)'
    BY <2>1, Zenon DEF BlockMapSound, PointsTo
  <2>4. InodeSound(n)'
    BY <2>1, Zenon DEF InodeSound, PointsTo
  <2>5. QED
    BY <2>2, <2>3, <2>4, Zenon
<1>2. SizeCovered'
  BY Zenon DEF SizeCovered
<1>3. FirstBlockMapPositional'
  BY Zenon DEF FirstBlockMapPositional, Positional
<1>4. QED
  BY <1>1, <1>2, <1>3, Zenon

\* A step that leaves the store and index_ alone, and whose own thread keeps
\* what it must know, keeps the invariant.
LEMMA LocalStep ==
  ASSUME IInv, NEW t \in Threads, UNCHANGED <<store, index>>, TypeOK',
         \A u \in Threads \ {t} : op'[u] = op[u] /\ sess'[u] = sess[u],
         SessionSound(t)', NamesSound(t)', CountsSound(t)', FirstFlushSound(t)'
  PROVE  IInv'
<1>1. StoreGrows /\ IndexGrows
  BY DEF IInv, TypeOK, StoreGrows, IndexGrows
<1>2. FrameSound'
  <2> SUFFICES ASSUME NEW u \in Threads
               PROVE  /\ SessionSound(u)' /\ NamesSound(u)'
                      /\ CountsSound(u)' /\ FirstFlushSound(u)'
    BY Zenon DEF FrameSound
  <2>1. CASE u = t
    BY <2>1, Zenon
  <2>2. CASE u # t
    BY <2>2, <1>1, FrameKept, Zenon DEF IInv
  <2>3. QED
    BY <2>1, <2>2, Zenon
<1>3. RecordGraphSound' /\ IndexSound' /\ SizeCovered' /\ FirstBlockMapPositional'
  <2>1. RecordGraphSound' /\ SizeCovered' /\ FirstBlockMapPositional'
    BY SameStoreSound, Zenon DEF IInv
  <2>2. IndexSound'
    BY Zenon DEF IInv, IndexSound, IsStored
  <2>3. QED
    BY <2>1, <2>2, Zenon
<1>4. QED
  BY <1>2, <1>3, Zenon DEF IInv

\* A step that appends a sound record.
LEMMA PushStep ==
  ASSUME IInv, NEW t \in Threads, UNCHANGED <<index, sess>>, TypeOK',
         RecordGraphSound', SizeCovered', FirstBlockMapPositional', StoreGrows,
         \A u \in Threads \ {t} : op'[u] = op[u],
         NamesSound(t)', CountsSound(t)', FirstFlushSound(t)'
  PROVE  IInv'
<1>1. IndexGrows
  BY Zenon DEF IndexGrows
<1>2. FrameSound'
  <2> SUFFICES ASSUME NEW u \in Threads
               PROVE  /\ SessionSound(u)' /\ NamesSound(u)'
                      /\ CountsSound(u)' /\ FirstFlushSound(u)'
    BY Zenon DEF FrameSound
  <2>1. CASE u = t
    BY <2>1, Zenon DEF IInv, FrameSound, SessionSound
  <2>2. CASE u # t
    BY <2>2, <1>1, FrameKept, Zenon DEF IInv
  <2>3. QED
    BY <2>1, <2>2, Zenon
<1>3. IndexSound'
  BY DEF IInv, IndexSound, IsStored, StoreGrows
<1>4. QED
  BY <1>2, <1>3, Zenon DEF IInv

-----------------------------------------------------------------------------
\* The steps that only move data into the thread's own frame or snapshot.
LEMMA ReadFileMetaKeeps ==
  ASSUME IInv, NEW t \in Threads, NEW d \in DOMAIN index, ReadFileMeta(t, d)
  PROVE  IInv'
<1>1. index[d] \in 1 .. Len(store) /\ store[index[d]].type = "INODE" /\ d \in Nat
  BY Zenon DEF IInv, IndexSound, IsStored, ReadFileMeta, TypeOK
<1>2. store[index[d]] \in InodeRecords
  BY <1>1, RecordByType DEF IInv, TypeOK
<1>3. TypeOK'
  BY <1>1, <1>2, Zenon DEF IInv, TypeOK, ReadFileMeta, Sessions, InodeRecords
<1>4. sess'[t].dc = d /\ sess'[t].ino # None
  BY <1>1, Zenon DEF IInv, TypeOK, ReadFileMeta, None
<1>5. SessionSound(t)'
  BY <1>4, Zenon DEF SessionSound, ReadFileMeta
<1>6. NamesSound(t)' /\ CountsSound(t)' /\ FirstFlushSound(t)'
  BY Zenon DEF IInv, FrameSound, ReadFileMeta, NamesSound, InModify, CountsSound,
         FirstFlushSound
<1>7. QED
  BY <1>3, <1>5, <1>6, LocalStep, Zenon DEF ReadFileMeta, IInv, TypeOK

\* A thread that finds the Inode of another one (get_inode) keeps the invariant.
LEMMA ShareInodeKeeps ==
  ASSUME IInv, NEW t \in Threads, NEW u \in Threads, ShareInode(t, u)
  PROVE  IInv'
<1>1. TypeOK'
  BY Zenon DEF IInv, TypeOK, ShareInode
<1>2. SessionSound(t)'
  BY Zenon DEF IInv, TypeOK, FrameSound, SessionSound, ShareInode
<1>3. NamesSound(t)' /\ CountsSound(t)' /\ FirstFlushSound(t)'
  BY Zenon DEF IInv, FrameSound, ShareInode, NamesSound, InModify, CountsSound,
         FirstFlushSound
<1>4. QED
  BY <1>1, <1>2, <1>3, LocalStep, Zenon DEF ShareInode, IInv, TypeOK

\* A thread outside Modify, or that leaves it, knows nothing it must keep.
LEMMA OutsideKeeps ==
  ASSUME IInv, NEW t \in Threads, UNCHANGED <<store, index, sess>>, TypeOK',
         \A u \in Threads \ {t} : op'[u] = op[u],
         op'[t].pc \in {"idle", "stuck"}
  PROVE  IInv'
<1>1. SessionSound(t)'
  BY Zenon DEF IInv, FrameSound, SessionSound
<1>2. NamesSound(t)' /\ CountsSound(t)' /\ FirstFlushSound(t)'
  BY Zenon DEF NamesSound, InModify, CountsSound, FirstFlushSound
<1>3. QED
  BY <1>1, <1>2, LocalStep, Zenon

\* The frame of a thread outside Modify is a frame.
LEMMA IdleFrameType == IdleFrame \in Frames /\ IdleFrame.pc = "idle"
  BY DEF IdleFrame, Frames, PCs, None

\* Opening a file that has no INODE yet keeps the invariant.
LEMMA ReadFileMetaEmptyKeeps ==
  ASSUME IInv, NEW t \in Threads, NEW d \in DOMAIN index, ReadFileMetaEmpty(t, d)
  PROVE  IInv'
<1>1. TypeOK' /\ op'[t].pc = "stuck"
  <2>1. op[t] \in Frames /\ op' = [op EXCEPT ![t] = [op[t] EXCEPT !.pc = "stuck"]]
    BY Zenon DEF IInv, TypeOK, ReadFileMetaEmpty
  <2>2. /\ [op[t] EXCEPT !.pc = "stuck"] \in Frames
        /\ [op[t] EXCEPT !.pc = "stuck"].pc = "stuck"
    BY <2>1, Zenon DEF Frames, PCs
  <2>3. QED
    BY <2>1, <2>2, Zenon DEF IInv, TypeOK, ReadFileMetaEmpty
<1>2. QED
  BY <1>1, OutsideKeeps, Zenon DEF ReadFileMetaEmpty, IInv, TypeOK

\* Modify refusing a stale caller keeps the invariant.
LEMMA ModifyStaleKeeps ==
  ASSUME IInv, NEW t \in Threads, ModifyStale(t)
  PROVE  IInv'
<1>1. TypeOK' /\ op'[t].pc = "idle"
  BY DEF IInv, TypeOK, ModifyStale, CanFlush, Returns
<1>2. QED
  BY <1>1, OutsideKeeps, Zenon DEF ModifyStale

\* Modify giving up on a server error keeps the invariant: records that it
\* pushed stay behind, and nothing refers to them.
LEMMA ServerErrorKeeps ==
  ASSUME IInv, NEW t \in Threads, ServerError(t)
  PROVE  IInv'
<1>1. TypeOK' /\ op'[t].pc = "idle"
  BY IdleFrameType, Zenon DEF IInv, TypeOK, ServerError, Returns
<1>2. QED
  BY <1>1, OutsideKeeps, Zenon DEF ServerError, IInv, TypeOK

-----------------------------------------------------------------------------
\* The steps of Modify up to the first push.
LEMMA ModifyStartKeeps ==
  ASSUME IInv, NEW t \in Threads, NEW D \in SUBSET Block, ModifyStart(t, D)
  PROVE  IInv'
<1> DEFINE g == [IdleFrame EXCEPT !.pc = "load", !.dc = sess[t].dc,
                                  !.todo = D, !.ndescs = Cardinality(D)]
<1>1. /\ g.pc = "load" /\ g.dc = sess[t].dc /\ g.todo = D
      /\ g.ndescs = Cardinality(D) /\ g.isize = 0 /\ g.data_hashes = <<>>
      /\ g.blockmap_hash = None /\ g.latest_data = None /\ g.data_block = None
  BY Zenon DEF IdleFrame
<1>2. sess[t] \in Sessions /\ Cardinality(D) \in Nat
  BY BlocksFinite, Zenon DEF IInv, TypeOK
<1>3. g \in Frames
  BY <1>2, IdleFrameType, Zenon DEF Frames, PCs, Sessions
<1>4. op'[t] = g
  BY Zenon DEF ModifyStart, IInv, TypeOK
<1> HIDE DEF g
<1>5. TypeOK'
  <2>1. overlapped' \in SUBSET Threads /\ flushes' \in Nat
    BY DEF ModifyStart, NoteOverlap, Companions, IInv, TypeOK
  <2>2. QED
    BY <1>3, <2>1, Zenon DEF ModifyStart, IInv, TypeOK, g
<1>6. sess[t].dc \in DOMAIN index /\ SessionSound(t)'
  BY Zenon DEF ModifyStart, CanFlush, IInv, FrameSound, SessionSound
<1>7. NamesSound(t)'
  <2>1. Len(g.data_hashes) = 0 /\ g.todo # {}
    BY <1>1, Zenon DEF ModifyStart, DirtySets
  <2>2. g.dc \in DOMAIN index'
    BY <1>1, <1>6, Zenon DEF ModifyStart
  <2>3. QED
    BY <1>1, <1>4, <2>1, <2>2 DEF NamesSound, NoneOrInCapsule
<1>8. CountsSound(t)'
  BY <1>1, <1>2, <1>4 DEF CountsSound
<1>9. FirstFlushSound(t)'
  <2>1. index'[g.dc] = None => sess[t].isize = 0
    BY <1>1, Zenon DEF ModifyStart, IInv, FrameSound, SessionSound
  <2>2. sess[t].isize = 0 => FollowOn(D, 0)
    <3>1. 0 \div BlockSize = 0
      BY MiddlewareAssumption
    <3>2. QED
      BY <3>1 DEF ModifyStart, DirtySets, FollowOn, Block
  <2>3. QED
    BY <1>1, <1>4, <2>1, <2>2, Zenon DEF FirstFlushSound, FollowOn
<1>10. QED
  BY <1>5, <1>6, <1>7, <1>8, <1>9, LocalStep, Zenon DEF ModifyStart, IInv, TypeOK

\* A load step changes only its thread's frame, to another frame.
LEMMA LoadType ==
  ASSUME TypeOK, NEW t \in Threads, NEW g \in Frames, op' = [op EXCEPT ![t] = g],
         UNCHANGED <<store, index, sess, ret, flushes, overlapped>>
  PROVE  TypeOK'
<1>1. op' \in [Threads -> Frames]
  BY Zenon DEF TypeOK
<1>2. /\ store' \in Seq(Records) /\ sess' \in [Threads -> Sessions]
      /\ ret' \in [Threads -> Returns] /\ flushes' \in Nat
      /\ overlapped' \in SUBSET Threads
  BY Zenon DEF TypeOK
<1>3. DOMAIN index' \subseteq Nat /\ \A d \in DOMAIN index' : index'[d] \in Nat
  BY Zenon DEF TypeOK
<1>4. QED
  BY <1>1, <1>2, <1>3, Zenon DEF TypeOK

\* Modify of a file without INODE keeps the invariant.
LEMMA LoadNothingKeeps ==
  ASSUME IInv, NEW t \in Threads, LoadNothing(t)
  PROVE  IInv'
<1> DEFINE f == op[t]
           g == [f EXCEPT !.pc = "data"]
<1>1. f \in Frames /\ op' = [op EXCEPT ![t] = g] /\ op'[t] = g
  BY Zenon DEF IInv, TypeOK, LoadNothing
<1>2. /\ g \in Frames /\ g.pc = "data" /\ g.dc = f.dc /\ g.todo = f.todo
      /\ g.ndescs = f.ndescs /\ g.isize = f.isize
      /\ g.data_hashes = f.data_hashes /\ g.blockmap_hash = f.blockmap_hash
      /\ g.latest_data = f.latest_data /\ g.data_block = f.data_block
  BY <1>1, Zenon DEF Frames, PCs
<1>3. /\ SessionSound(t) /\ NamesSound(t) /\ CountsSound(t) /\ FirstFlushSound(t)
      /\ f.pc = "load" /\ index[f.dc] = None /\ UNCHANGED <<store, index, sess>>
  BY Zenon DEF IInv, FrameSound, LoadNothing
<1> HIDE DEF g
<1>4. TypeOK'
  <2>1. TypeOK /\ UNCHANGED <<store, index, sess, ret, flushes, overlapped>>
    BY Zenon DEF LoadNothing, IInv
  <2>2. QED
    BY <1>1, <1>2, <2>1, LoadType, Zenon
<1>5. SessionSound(t)'
  BY <1>3, Zenon DEF SessionSound
<1>6. NamesSound(t)' /\ CountsSound(t)' /\ FirstFlushSound(t)'
  <2>1. NamesSound(t)'
    BY <1>1, <1>2, <1>3
       DEF NamesSound, InModify, NoneOrInCapsule, InCapsule, IsStored
  <2>2. CountsSound(t)'
    BY <1>1, <1>2, <1>3, Zenon DEF CountsSound
  <2>3. f.data_hashes = <<>> /\ FollowOn(f.todo, 0)
    BY <1>3, Zenon DEF FirstFlushSound
  <2>4. FirstFlushSound(t)'
    BY <1>1, <1>2, <2>3 DEF FirstFlushSound, FollowOn
  <2>5. QED
    BY <2>1, <2>2, <2>4, Zenon
<1>7. QED
  BY <1>1, <1>3, <1>4, <1>5, <1>6, LocalStep, Zenon DEF IInv, TypeOK

\* Modify reading the latest INODE keeps the invariant.
LEMMA LoadInodeKeeps ==
  ASSUME IInv, NEW t \in Threads, LoadInode(t)
  PROVE  IInv'
<1> DEFINE f == op[t]
           n == index[f.dc]
<1>0. PICK g : g = [f EXCEPT !.pc = "blockmap",
                             !.blockmap_hash = store[n].prev[2],
                             !.key = CipherPrefix(store[n].key)]
  OBVIOUS
<1>1. f \in Frames /\ op' = [op EXCEPT ![t] = g] /\ op'[t] = g
  BY <1>0, Zenon DEF IInv, TypeOK, LoadInode
<1>2. /\ SessionSound(t) /\ NamesSound(t) /\ CountsSound(t) /\ FirstFlushSound(t)
      /\ f.pc = "load" /\ n # None /\ UNCHANGED <<store, index, sess>>
  BY Zenon DEF IInv, FrameSound, LoadInode
<1>3. /\ f.dc \in DOMAIN index /\ n \in 1 .. Len(store)
      /\ store[n].type = "INODE" /\ store[n].dc = f.dc
  BY <1>2, Zenon DEF NamesSound, InModify, IInv, IndexSound, IsStored
<1>4. store[n] \in InodeRecords /\ InodeSound(n)
  <2>1. store[n] \in Records
    BY <1>3 DEF IInv, TypeOK
  <2>2. store[n] \in InodeRecords
    BY <1>3, <2>1, RecordByType, Zenon
  <2>3. QED
    BY <1>3, <2>2, Zenon DEF IInv, RecordGraphSound
<1>5. InCapsule(store[n].prev[2], f.dc, "BLOCKMAP") /\ store[n].prev[2] # None
  <2>1. PointsTo(n, store[n].prev[2], f.dc, {"BLOCKMAP"})
    BY <1>3, <1>4, Zenon DEF InodeSound
  <2>2. TypeOK /\ n \in 1 .. Len(store) + 1
    BY <1>3 DEF IInv, TypeOK
  <2>3. QED
    BY <2>1, <2>2, PointsToInCapsule, Zenon
<1>6. store[n].prev[2] \in Nat /\ CipherPrefix(store[n].key) \in Nat
  BY <1>4 DEF InodeRecords, CipherPrefix
<1>7. /\ g \in Frames /\ g.pc = "blockmap" /\ g.dc = f.dc /\ g.todo = f.todo
      /\ g.ndescs = f.ndescs /\ g.isize = f.isize
      /\ g.data_hashes = f.data_hashes /\ g.blockmap_hash = store[n].prev[2]
      /\ g.latest_data = f.latest_data /\ g.data_block = f.data_block
  BY <1>0, <1>1, <1>6, Zenon DEF Frames, PCs
<1>8. TypeOK'
  <2>1. TypeOK /\ UNCHANGED <<store, index, sess, ret, flushes, overlapped>>
    BY Zenon DEF LoadInode, IInv
  <2>2. QED
    BY <1>1, <1>7, <2>1, LoadType, Zenon
<1>9. SessionSound(t)' /\ CountsSound(t)' /\ FirstFlushSound(t)'
  BY <1>1, <1>2, <1>7, Zenon DEF SessionSound, CountsSound, FirstFlushSound
<1>10. NamesSound(t)'
  <2>1. StoreGrows
    BY <1>2 DEF StoreGrows, IInv, TypeOK
  <2>2. NoneOrInCapsule(g.blockmap_hash, g.dc, "BLOCKMAP")
    BY <1>5, <1>7, Zenon DEF NoneOrInCapsule
  <2>3. /\ NoneOrInCapsule(g.latest_data, g.dc, "DATABLOCK")
        /\ NoneOrInCapsule(g.data_block, g.dc, "DATABLOCK")
        /\ \A i \in 1 .. Len(g.data_hashes) :
             InCapsule(g.data_hashes[i], g.dc, "DATABLOCK")
        /\ g.isize = 0 /\ g.todo # {}
    BY <1>2, <1>7, Zenon DEF NamesSound, InModify
  <2>4. /\ NoneOrInCapsule(g.blockmap_hash, g.dc, "BLOCKMAP")'
        /\ NoneOrInCapsule(g.latest_data, g.dc, "DATABLOCK")'
        /\ NoneOrInCapsule(g.data_block, g.dc, "DATABLOCK")'
    BY <2>1, <2>2, <2>3, NoneOrInCapsuleKept, Zenon
  <2>5. \A i \in 1 .. Len(g.data_hashes) :
          InCapsule(g.data_hashes[i], g.dc, "DATABLOCK")'
    BY <2>1, <2>3, InCapsuleKept, Zenon
  <2>6. QED
    BY <1>1, <1>2, <1>3, <1>5, <1>7, <2>3, <2>4, <2>5, NamesPrimed, Zenon
<1>11. QED
  BY <1>1, <1>2, <1>8, <1>9, <1>10, LocalStep, Zenon DEF IInv, TypeOK

\* Modify reading the latest BLOCKMAP keeps the invariant.
LEMMA LoadBlockMapKeeps ==
  ASSUME IInv, NEW t \in Threads, LoadBlockMap(t)
  PROVE  IInv'
<1> DEFINE f == op[t]
           bm == store[f.blockmap_hash]
<1>0. PICK g : g = [f EXCEPT !.pc = "data", !.latest_data = bm.prev[2],
                             !.data_hashes = bm.data_hashes]
  OBVIOUS
<1>1. f \in Frames /\ op' = [op EXCEPT ![t] = g] /\ op'[t] = g
  BY <1>0, Zenon DEF IInv, TypeOK, LoadBlockMap
<1>2. /\ SessionSound(t) /\ NamesSound(t) /\ CountsSound(t) /\ FirstFlushSound(t)
      /\ f.pc = "blockmap" /\ UNCHANGED <<store, index, sess>>
  BY Zenon DEF IInv, FrameSound, LoadBlockMap
<1>3. /\ f.dc \in DOMAIN index /\ f.blockmap_hash # None
      /\ f.blockmap_hash \in 1 .. Len(store)
      /\ bm.type = "BLOCKMAP" /\ bm.dc = f.dc
  BY <1>2, Zenon DEF NamesSound, InModify, NoneOrInCapsule, InCapsule, IsStored
<1>4. bm \in BlockMapRecords /\ BlockMapSound(f.blockmap_hash)
  BY <1>3, RecordByType DEF IInv, TypeOK, RecordGraphSound
<1>5. f.blockmap_hash \in 1 .. Len(store) + 1
  BY <1>3 DEF IInv, TypeOK
<1>6. /\ InCapsule(bm.prev[2], f.dc, "DATABLOCK")
      /\ \A i \in 1 .. Len(bm.data_hashes) :
           InCapsule(bm.data_hashes[i], f.dc, "DATABLOCK")
  BY <1>3, <1>4, <1>5, PointsToInCapsule, Zenon DEF BlockMapSound, IInv
<1>7. bm.prev[2] \in Nat /\ bm.data_hashes \in Seq(Nat)
  BY <1>4, Zenon DEF BlockMapRecords
<1>8. /\ g \in Frames /\ g.pc = "data" /\ g.dc = f.dc /\ g.todo = f.todo
      /\ g.ndescs = f.ndescs /\ g.isize = f.isize
      /\ g.data_hashes = bm.data_hashes /\ g.blockmap_hash = f.blockmap_hash
      /\ g.latest_data = bm.prev[2] /\ g.data_block = f.data_block
  BY <1>0, <1>1, <1>7, Zenon DEF Frames, PCs
<1>9. TypeOK'
  <2>1. TypeOK /\ UNCHANGED <<store, index, sess, ret, flushes, overlapped>>
    BY Zenon DEF LoadBlockMap, IInv
  <2>2. QED
    BY <1>1, <1>8, <2>1, LoadType, Zenon
<1>10. SessionSound(t)' /\ FirstFlushSound(t)'
  BY <1>1, <1>2, <1>3, <1>8, Zenon DEF SessionSound, FirstFlushSound
<1>11. CountsSound(t)'
  <2>1. f.ndescs <= Cardinality(f.todo) + Len(f.data_hashes)
    BY <1>2, Zenon DEF CountsSound
  <2>2. f.data_hashes = <<>>
    BY <1>2, Zenon DEF FirstFlushSound
  <2>3. Cardinality(f.todo) \in Nat /\ f.ndescs \in Nat
    BY <1>1, BlocksFinite, Zenon DEF Frames
  <2>4. f.ndescs <= Cardinality(g.todo) + Len(g.data_hashes)
    BY <1>7, <1>8, <2>1, <2>2, <2>3
  <2>5. QED
    BY <1>1, <1>8, <2>4, Zenon DEF CountsSound
<1>12. NamesSound(t)'
  <2>1. StoreGrows
    BY <1>2 DEF StoreGrows, IInv, TypeOK
  <2>2. NoneOrInCapsule(g.latest_data, g.dc, "DATABLOCK")
    BY <1>6, <1>8, Zenon DEF NoneOrInCapsule
  <2>3. /\ NoneOrInCapsule(g.blockmap_hash, g.dc, "BLOCKMAP")
        /\ NoneOrInCapsule(g.data_block, g.dc, "DATABLOCK")
        /\ g.isize = 0 /\ g.todo # {}
    BY <1>2, <1>8, Zenon DEF NamesSound, InModify
  <2>4. /\ NoneOrInCapsule(g.blockmap_hash, g.dc, "BLOCKMAP")'
        /\ NoneOrInCapsule(g.latest_data, g.dc, "DATABLOCK")'
        /\ NoneOrInCapsule(g.data_block, g.dc, "DATABLOCK")'
    BY <2>1, <2>2, <2>3, NoneOrInCapsuleKept, Zenon
  <2>5. \A i \in 1 .. Len(g.data_hashes) :
          InCapsule(g.data_hashes[i], g.dc, "DATABLOCK")'
    BY <2>1, <1>6, <1>8, InCapsuleKept, Zenon
  <2>6. QED
    BY <1>1, <1>2, <1>3, <1>8, <2>3, <2>4, <2>5, NamesPrimed, Zenon
<1>13. QED
  BY <1>1, <1>2, <1>9, <1>10, <1>11, <1>12, LocalStep, Zenon DEF IInv, TypeOK

-----------------------------------------------------------------------------
\* A thread in Modify may point to its capsule's META record.
LEMMA MetaInCapsule ==
  ASSUME IInv, NEW t \in Threads, InModify(t)
  PROVE  /\ op[t].dc \in DOMAIN index /\ op[t].dc \in Nat
         /\ InCapsule(op[t].dc, op[t].dc, "META")
<1>1. op[t].dc \in DOMAIN index
  BY Zenon DEF IInv, FrameSound, NamesSound
<1>2. QED
  BY <1>1, Zenon DEF IInv, IndexSound, InCapsule, TypeOK

\* The push steps: each new record points only to what its thread holds.
LEMMA PushDataKeeps ==
  ASSUME IInv, NEW t \in Threads, PushData(t)
  PROVE  IInv'
<1> DEFINE f == op[t]
<1>1. /\ f \in Frames /\ f.pc = "data" /\ InModify(t)
      /\ NamesSound(t) /\ CountsSound(t) /\ FirstFlushSound(t)
      /\ UNCHANGED <<index, sess, ret, flushes, overlapped>>
  BY Zenon DEF PushData, IInv, TypeOK, FrameSound, InModify
<1>2. PICK b \in f.todo :
        /\ \A c \in f.todo : b <= c
        /\ store' = Append(store, [type |-> "DATABLOCK", dc |-> f.dc,
                                   prev |-> PreviousData(f), blk |-> b])
        /\ op' = [op EXCEPT
                    ![t].pc = IF f.todo = {b} THEN "push_bm" ELSE "data",
                    ![t].todo = f.todo \ {b},
                    ![t].data_block = NewName,
                    ![t].data_hashes = UpdateHashes(f, b, NewName)]
  BY Zenon DEF PushData
<1>3. f.isize = 0 /\ f.todo \in SUBSET Block /\ b \in Block /\ f.data_hashes \in Seq(Nat)
  BY <1>1, <1>2, Zenon DEF NamesSound, Frames
<1>4. UpdateHashes(f, b, NewName) = Append(f.data_hashes, NewName)
  <2>1. b * BlockSize \in Nat
    BY <1>3, MiddlewareAssumption DEF Block
  <2>2. ~ (b * BlockSize < 0)
    BY <2>1
  <2>3. QED
    BY <1>3, <2>2, Zenon DEF UpdateHashes
<1>5. PICK r : r = [type |-> "DATABLOCK", dc |-> f.dc,
                    prev |-> PreviousData(f), blk |-> b]
  BY Zenon
<1>6. PICK g : g = [f EXCEPT !.pc = IF f.todo = {b} THEN "push_bm" ELSE "data",
                             !.todo = f.todo \ {b}, !.data_block = NewName,
                             !.data_hashes = Append(f.data_hashes, NewName)]
  BY Zenon
<1>7. op' = [op EXCEPT ![t] = g] /\ op'[t] = g
  BY <1>2, <1>4, <1>6, Zenon DEF IInv, TypeOK
<1>8. NewName \in Nat /\ NewName # None
  BY DEF IInv, TypeOK, NewName, None
<1>9. /\ g \in Frames
      /\ g.pc = IF f.todo = {b} THEN "push_bm" ELSE "data"
      /\ g.dc = f.dc /\ g.todo = f.todo \ {b} /\ g.ndescs = f.ndescs
      /\ g.isize = f.isize /\ g.data_hashes = Append(f.data_hashes, NewName)
      /\ g.blockmap_hash = f.blockmap_hash /\ g.latest_data = f.latest_data
      /\ g.data_block = NewName
  <2>1. /\ f.todo \ {b} \in SUBSET Block
        /\ Append(f.data_hashes, NewName) \in Seq(Nat)
        /\ (IF f.todo = {b} THEN "push_bm" ELSE "data") \in PCs
    BY <1>3, <1>8 DEF PCs
  <2>2. QED
    BY <1>1, <1>6, <1>8, <2>1, Zenon DEF Frames
<1>10. PointsTo(NewName, PreviousData(f), f.dc, {"META", "DATABLOCK"})
  <2>1. /\ f.data_block # None => InCapsule(f.data_block, f.dc, "DATABLOCK")
        /\ f.latest_data # None => InCapsule(f.latest_data, f.dc, "DATABLOCK")
        /\ InCapsule(f.dc, f.dc, "META")
    BY <1>1, MetaInCapsule, Zenon DEF NamesSound, NoneOrInCapsule
  <2>2. QED
    BY <2>1, InCapsulePointsTo, Zenon DEF PreviousData, IInv
<1>11. r \in Records /\ store' = Append(store, r)
  BY <1>1, <1>2, <1>3, <1>5, Zenon DEF Frames, Records, DataRecords, PreviousData
<1>12. /\ RecordGraphSound' /\ SizeCovered' /\ FirstBlockMapPositional'
       /\ StoreGrows
  BY <1>5, <1>10, <1>11, AppendGraph, Zenon DEF IInv
<1>13. /\ Len(store') = NewName /\ store'[NewName] = r /\ store' \in Seq(Records)
  BY <1>11, AppendKeeps, Zenon DEF NewName, IInv, TypeOK
<1>14. TypeOK'
  BY <1>1, <1>7, <1>9, <1>13, Zenon DEF IInv, TypeOK
<1>15. PICK nn : nn = NewName
  OBVIOUS
<1>16. InCapsule(nn, g.dc, "DATABLOCK")'
  <2>1. nn \in 1 .. Len(store')
    BY <1>8, <1>13, <1>15 DEF None
  <2>2. store'[nn].type = "DATABLOCK" /\ store'[nn].dc = g.dc
    BY <1>5, <1>9, <1>13, <1>15
  <2>3. QED
    BY <2>1, <2>2, Zenon DEF InCapsule, IsStored
<1>17. /\ Len(g.data_hashes) = Len(f.data_hashes) + 1
       /\ Len(f.data_hashes) \in Nat
       /\ \A i \in 1 .. Len(f.data_hashes) : g.data_hashes[i] = f.data_hashes[i]
       /\ g.data_hashes[Len(g.data_hashes)] = nn
  BY <1>3, <1>8, <1>9, <1>15
<1>18. PICK dc, hs : dc = f.dc /\ hs = f.data_hashes
  OBVIOUS
<1>19. NamesSound(t)'
  <2>1. \A i \in 1 .. Len(g.data_hashes) :
          InCapsule(g.data_hashes[i], g.dc, "DATABLOCK")'
    <3>1. \A i \in 1 .. Len(hs) : InCapsule(hs[i], dc, "DATABLOCK")
      BY <1>1, <1>18, Zenon DEF NamesSound
    <3>2. \A i \in 1 .. Len(hs) : InCapsule(hs[i], dc, "DATABLOCK")'
      BY <3>1, <1>12, InCapsuleKept, Zenon
    <3>3. QED
      BY <3>2, <1>9, <1>16, <1>17, <1>18
  <2>2. /\ NoneOrInCapsule(g.blockmap_hash, g.dc, "BLOCKMAP")
        /\ NoneOrInCapsule(g.latest_data, g.dc, "DATABLOCK")
    BY <1>1, <1>9, Zenon DEF NamesSound
  <2>3. /\ NoneOrInCapsule(g.blockmap_hash, g.dc, "BLOCKMAP")'
        /\ NoneOrInCapsule(g.latest_data, g.dc, "DATABLOCK")'
    BY <2>2, <1>12, NoneOrInCapsuleKept, Zenon
  <2>4. NoneOrInCapsule(g.data_block, g.dc, "DATABLOCK")'
    BY <1>9, <1>15, <1>16, Zenon DEF NoneOrInCapsule
  <2>5. g.dc \in DOMAIN index' /\ g.isize = 0
    BY <1>1, <1>3, <1>9, MetaInCapsule, Zenon
  <2>6. /\ g.pc = "data" => g.todo # {}
        /\ g.pc = "push_bm" => g.todo = {} /\ g.data_block # None
        /\ g.pc \in {"data", "push_bm"}
    BY <1>2, <1>8, <1>9, Zenon
  <2>7. QED
    BY <1>7, <2>1, <2>3, <2>4, <2>5, <2>6, NamesPrimed, Zenon
<1>20. CountsSound(t)'
  <2>1. f.ndescs <= Cardinality(f.todo) + Len(f.data_hashes)
    BY <1>1, Zenon DEF CountsSound
  <2>2. IsFiniteSet(f.todo) /\ Cardinality(f.todo) \in Nat
    BY <1>3, BlocksFinite, Zenon
  <2>3. Cardinality(g.todo) = Cardinality(f.todo) - 1
    <3>1. b \in f.todo /\ g.todo = f.todo \ {b}
      BY <1>2, <1>9, Zenon
    <3>2. Cardinality(f.todo \ {b}) = Cardinality(f.todo) - 1
      BY <2>2, <3>1, FS_RemoveElement, Zenon
    <3>3. QED
      BY <3>1, <3>2, Zenon
  <2>4. f.ndescs \in Nat
    BY <1>1, Zenon DEF Frames
  <2>5. g.ndescs <= Cardinality(g.todo) + Len(g.data_hashes)
    <3>1. g.ndescs = f.ndescs /\ Len(g.data_hashes) = Len(f.data_hashes) + 1
          /\ Len(f.data_hashes) \in Nat
      BY <1>9, <1>17, Zenon
    <3>2. QED
      BY <2>1, <2>2, <2>3, <2>4, <3>1
  <2>6. g.pc \in {"data", "push_bm"}
    BY <1>9, Zenon
  <2>7. QED
    BY <1>7, <2>5, <2>6, Zenon DEF CountsSound
<1>21. FirstFlushSound(t)'
  <2>1. g.pc \in {"data", "push_bm"}
    BY <1>9, Zenon
  <2>2. SUFFICES ASSUME g.blockmap_hash = None
                 PROVE  /\ FollowOn(g.todo, Len(g.data_hashes))
                        /\ \A i \in 1 .. Len(g.data_hashes) :
                             store'[g.data_hashes[i]].blk = i - 1
    BY <1>7, <2>1, Zenon DEF FirstFlushSound, FollowOn
  <2>3. /\ FollowOn(f.todo, Len(f.data_hashes))
        /\ \A i \in 1 .. Len(f.data_hashes) : store[f.data_hashes[i]].blk = i - 1
    BY <1>1, <1>9, <2>2, Zenon DEF FirstFlushSound
  <2>4. b = Len(f.data_hashes)
    <3>1. b \in f.todo /\ (\A c \in f.todo : b <= c) /\ b \in Int
      <4>1. \A c \in f.todo : b <= c
        BY <1>2, Zenon
      <4>2. b \in Int
        BY <1>3, MiddlewareAssumption DEF Block
      <4>3. QED
        BY <4>1, <4>2, Zenon
    <3>2. Len(f.data_hashes) <= b /\ \A c \in Len(f.data_hashes) .. b : c \in f.todo
      BY <2>3, <3>1, Zenon DEF FollowOn
    <3>3. Len(f.data_hashes) \in f.todo
      BY <1>17, <3>1, <3>2
    <3>4. QED
      BY <1>17, <3>1, <3>2, <3>3
  <2>5. FollowOn(g.todo, Len(g.data_hashes))
    <3> SUFFICES ASSUME NEW c \in g.todo
                 PROVE  /\ Len(g.data_hashes) <= c
                        /\ \A e \in Len(g.data_hashes) .. c : e \in g.todo
      BY Zenon DEF FollowOn
    <3>1. c \in f.todo /\ c # b /\ c \in Int
      BY <1>3, <1>9, MiddlewareAssumption DEF Block
    <3>2. b <= c /\ \A e \in b .. c : e \in f.todo
      BY <2>3, <2>4, <3>1, Zenon DEF FollowOn
    <3>3. QED
      BY <1>9, <1>17, <2>4, <3>1, <3>2
  <2>6. ASSUME NEW i \in 1 .. Len(g.data_hashes)
        PROVE  store'[g.data_hashes[i]].blk = i - 1
    <3>1. CASE i \in 1 .. Len(f.data_hashes)
      <4>1. InCapsule(f.data_hashes[i], f.dc, "DATABLOCK")
        BY <1>1, <3>1, Zenon DEF NamesSound
      <4>2. store'[f.data_hashes[i]] = store[f.data_hashes[i]]
        BY <4>1, <1>12, Zenon DEF StoreGrows, InCapsule, IsStored
      <4>3. QED
        BY <1>17, <2>3, <3>1, <4>2, Zenon
    <3>2. CASE i = Len(g.data_hashes)
      BY <3>2, <1>5, <1>13, <1>15, <1>17, <2>4
    <3>3. i \in 1 .. Len(f.data_hashes) \/ i = Len(g.data_hashes)
      <4>1. Len(g.data_hashes) = Len(f.data_hashes) + 1 /\ Len(f.data_hashes) \in Nat
        BY <1>17, Zenon
      <4>2. QED
        BY <2>6, <4>1
    <3>4. QED
      BY <3>1, <3>2, <3>3, Zenon
  <2>7. QED
    BY <2>5, <2>6, Zenon
<1>22. QED
  BY <1>1, <1>7, <1>12, <1>14, <1>19, <1>20, <1>21, PushStep, Zenon DEF IInv, TypeOK

\* Modify pushing a BLOCKMAP keeps the invariant.
LEMMA PushBlockMapKeeps ==
  ASSUME IInv, NEW t \in Threads, PushBlockMap(t)
  PROVE  IInv'
<1> DEFINE f == op[t]
<1>1. /\ f \in Frames /\ f.pc = "push_bm" /\ InModify(t)
      /\ NamesSound(t) /\ CountsSound(t) /\ FirstFlushSound(t)
      /\ UNCHANGED <<index, sess, ret, flushes, overlapped>>
  BY Zenon DEF PushBlockMap, IInv, TypeOK, FrameSound, InModify
<1>2. PICK p1 : p1 = IF f.blockmap_hash # None THEN f.blockmap_hash ELSE f.dc
  OBVIOUS
<1>3. PICK r : r = [type |-> "BLOCKMAP", dc |-> f.dc,
                    prev |-> <<p1, f.data_block>>, data_hashes |-> f.data_hashes]
  BY Zenon
<1>4. PICK g : g = [f EXCEPT !.pc = "push_ino", !.new_blockmap = NewName]
  OBVIOUS
<1>5. /\ store' = Append(store, r)
      /\ op' = [op EXCEPT ![t] = g] /\ op'[t] = g
  BY <1>2, <1>3, <1>4, Zenon DEF PushBlockMap, IInv, TypeOK
<1>6. NewName \in Nat /\ NewName # None
  BY DEF IInv, TypeOK, NewName, None
<1>7. /\ g \in Frames /\ g.pc = "push_ino" /\ g.dc = f.dc
      /\ g.ndescs = f.ndescs /\ g.isize = f.isize
      /\ g.data_hashes = f.data_hashes /\ g.blockmap_hash = f.blockmap_hash
      /\ g.latest_data = f.latest_data /\ g.data_block = f.data_block
      /\ g.new_blockmap = NewName
  BY <1>1, <1>4, <1>6, Zenon DEF Frames, PCs
<1>8. /\ p1 \in Nat /\ f.data_block \in Nat /\ f.data_hashes \in Seq(Nat)
      /\ f.dc \in Nat
  BY <1>1, <1>2, Zenon DEF Frames
<1>9. /\ r \in Records /\ r.type = "BLOCKMAP" /\ r.dc = f.dc /\ r.prev[1] = p1
      /\ r.prev[2] = f.data_block /\ r.data_hashes = f.data_hashes
  BY <1>3, <1>8, Zenon DEF Records, BlockMapRecords
<1>10. /\ PointsTo(NewName, p1, f.dc, {"META", "BLOCKMAP"})
       /\ PointsTo(NewName, f.data_block, f.dc, {"DATABLOCK"})
       /\ \A i \in 1 .. Len(f.data_hashes) :
            PointsTo(NewName, f.data_hashes[i], f.dc, {"DATABLOCK"})
  <2>1. /\ f.blockmap_hash # None => InCapsule(f.blockmap_hash, f.dc, "BLOCKMAP")
        /\ InCapsule(f.data_block, f.dc, "DATABLOCK")
        /\ InCapsule(f.dc, f.dc, "META")
        /\ \A i \in 1 .. Len(f.data_hashes) :
             InCapsule(f.data_hashes[i], f.dc, "DATABLOCK")
    BY <1>1, MetaInCapsule, Zenon DEF NamesSound, NoneOrInCapsule
  <2>2. QED
    BY <1>2, <2>1, InCapsulePointsTo, Zenon DEF IInv
<1>11. ASSUME store[p1].type = "META"
       PROVE  \A i \in 1 .. Len(f.data_hashes) : store[f.data_hashes[i]].blk = i - 1
  <2>1. f.blockmap_hash # None => store[f.blockmap_hash].type = "BLOCKMAP"
    BY <1>1, Zenon DEF NamesSound, NoneOrInCapsule, InCapsule, IsStored
  <2>2. f.blockmap_hash = None
    BY <1>2, <1>11, <2>1, Zenon
  <2>3. QED
    BY <1>1, <2>2, Zenon DEF FirstFlushSound
<1>12. /\ RecordGraphSound' /\ SizeCovered' /\ FirstBlockMapPositional'
       /\ StoreGrows
  BY <1>5, <1>9, <1>10, <1>11, AppendGraph, Zenon DEF IInv
<1>13. Len(store') = NewName /\ store'[NewName] = r /\ store' \in Seq(Records)
  BY <1>5, <1>9, AppendKeeps, Zenon DEF NewName, IInv, TypeOK
<1>14. TypeOK'
  BY <1>1, <1>5, <1>7, <1>13, Zenon DEF IInv, TypeOK
<1>15. PICK nn : nn = NewName
  OBVIOUS
<1>16. NamesSound(t)'
  <2>1. InCapsule(nn, g.dc, "BLOCKMAP")'
    BY <1>6, <1>7, <1>9, <1>13, <1>15 DEF InCapsule, IsStored, None
  <2>2. /\ NoneOrInCapsule(g.blockmap_hash, g.dc, "BLOCKMAP")
        /\ NoneOrInCapsule(g.latest_data, g.dc, "DATABLOCK")
        /\ NoneOrInCapsule(g.data_block, g.dc, "DATABLOCK")
        /\ \A i \in 1 .. Len(g.data_hashes) :
             InCapsule(g.data_hashes[i], g.dc, "DATABLOCK")
        /\ g.isize = 0
    BY <1>1, <1>7, Zenon DEF NamesSound
  <2>3. /\ NoneOrInCapsule(g.blockmap_hash, g.dc, "BLOCKMAP")'
        /\ NoneOrInCapsule(g.latest_data, g.dc, "DATABLOCK")'
        /\ NoneOrInCapsule(g.data_block, g.dc, "DATABLOCK")'
    BY <2>2, <1>12, NoneOrInCapsuleKept, Zenon
  <2>4. \A i \in 1 .. Len(g.data_hashes) :
          InCapsule(g.data_hashes[i], g.dc, "DATABLOCK")'
    BY <2>2, <1>12, InCapsuleKept, Zenon
  <2>5. g.dc \in DOMAIN index'
    BY <1>1, <1>7, MetaInCapsule, Zenon
  <2>6. QED
    BY <1>5, <1>7, <1>15, <2>1, <2>2, <2>3, <2>4, <2>5, NamesPrimed
<1>17. CountsSound(t)'
  <2>1. f.ndescs <= Cardinality(f.todo) + Len(f.data_hashes) /\ f.todo = {}
    BY <1>1, Zenon DEF CountsSound, NamesSound
  <2>2. Cardinality(f.todo) = 0
    BY <2>1, FS_EmptySet, Zenon
  <2>3. g.ndescs <= Len(store'[g.new_blockmap].data_hashes)
    BY <1>7, <1>8, <1>9, <1>13, <2>1, <2>2
  <2>4. QED
    BY <1>5, <1>7, <2>3, Zenon DEF CountsSound
<1>18. FirstFlushSound(t)'
  BY <1>5, <1>7, Zenon DEF FirstFlushSound
<1>19. QED
  BY <1>1, <1>5, <1>12, <1>14, <1>16, <1>17, <1>18, PushStep DEF IInv, TypeOK

\* Modify pushing an INODE keeps the invariant.
LEMMA PushInodeKeeps ==
  ASSUME IInv, NEW t \in Threads, PushInode(t)
  PROVE  IInv'
<1> DEFINE f == op[t]
<1>1. /\ f \in Frames /\ f.pc = "push_ino" /\ InModify(t)
      /\ NamesSound(t) /\ CountsSound(t) /\ FirstFlushSound(t)
      /\ UNCHANGED <<index, sess, ret, flushes, overlapped>>
  BY Zenon DEF PushInode, IInv, TypeOK, FrameSound, InModify
<1>2. PICK p1 : p1 = IF index[f.dc] # None THEN index[f.dc] ELSE f.dc
  OBVIOUS
<1>3. PICK r : r = [type |-> "INODE", dc |-> f.dc,
                    prev |-> <<p1, f.new_blockmap>>,
                    isize |-> NewSize(f),
                    key |-> f.key]
  BY Zenon
<1>4. PICK g : g = [f EXCEPT !.pc = "commit", !.new_inode = NewName]
  OBVIOUS
<1>5. /\ store' = Append(store, r)
      /\ op' = [op EXCEPT ![t] = g] /\ op'[t] = g
  BY <1>2, <1>3, <1>4, Zenon DEF PushInode, IInv, TypeOK
<1>6. NewName \in Nat /\ NewName # None
  BY DEF IInv, TypeOK, NewName, None
<1>7. /\ g \in Frames /\ g.pc = "commit" /\ g.dc = f.dc /\ g.isize = f.isize
      /\ g.data_hashes = f.data_hashes /\ g.blockmap_hash = f.blockmap_hash
      /\ g.latest_data = f.latest_data /\ g.data_block = f.data_block
      /\ g.new_inode = NewName
  BY <1>1, <1>4, <1>6, Zenon DEF Frames, PCs
<1>8. /\ f.isize = 0 /\ f.ndescs \in Nat /\ f.key \in Nat /\ f.dc \in Nat
      /\ f.new_blockmap \in Nat /\ p1 \in Nat
  BY <1>1, <1>2, MetaInCapsule, Zenon DEF Frames, NamesSound, IInv, TypeOK
<1>s. NewSize(f) = f.ndescs * DefaultBlockSize /\ NewSize(f) \in Nat
  <2>1. f.ndescs * DefaultBlockSize \in Nat
    BY <1>8, MiddlewareAssumption
  <2>2. QED
    BY <1>8, <2>1 DEF NewSize
<1>9. /\ r \in Records /\ r.type = "INODE" /\ r.dc = f.dc /\ r.prev[1] = p1
      /\ r.prev[2] = f.new_blockmap /\ r.isize = NewSize(f)
  <2>1. /\ r.type = "INODE" /\ r.dc = f.dc /\ r.prev[1] = p1
        /\ r.prev[2] = f.new_blockmap /\ r.isize = NewSize(f)
    BY <1>3
  <2>2. r \in InodeRecords
    BY <1>3, <1>8, <1>s DEF InodeRecords
  <2>3. QED
    BY <2>1, <2>2, Zenon DEF Records
<1>10. /\ PointsTo(NewName, p1, f.dc, {"META", "INODE"})
       /\ PointsTo(NewName, f.new_blockmap, f.dc, {"BLOCKMAP"})
  <2>1. /\ InCapsule(f.new_blockmap, f.dc, "BLOCKMAP")
        /\ InCapsule(f.dc, f.dc, "META")
        /\ index[f.dc] # None => InCapsule(index[f.dc], f.dc, "INODE")
    BY <1>1, MetaInCapsule, Zenon DEF NamesSound, IInv, IndexSound, InCapsule
  <2>2. QED
    BY <1>2, <2>1, InCapsulePointsTo, Zenon DEF IInv
<1>11. SizeOf(NewSize(f), store[f.new_blockmap].data_hashes)
  <2> DEFINE k == Len(store[f.new_blockmap].data_hashes)
  <2>1. f.ndescs <= k
    BY <1>1, Zenon DEF CountsSound
  <2>2. k \in Nat
    <3>1. f.new_blockmap \in 1 .. Len(store) /\ store[f.new_blockmap].type = "BLOCKMAP"
      BY <1>1, Zenon DEF NamesSound, InCapsule, IsStored
    <3>2. store[f.new_blockmap] \in BlockMapRecords
      BY <3>1, RecordByType DEF IInv, TypeOK
    <3>3. store[f.new_blockmap].data_hashes \in Seq(Nat)
      BY <3>2, Zenon DEF BlockMapRecords
    <3>4. QED
      BY <3>3
  <2>3. ASSUME DefaultBlockSize <= BlockSize PROVE f.ndescs * DefaultBlockSize <= k * BlockSize
    <3> HIDE DEF k
    <3>1. \A x, y, z \in Nat : x <= y => x * z <= y * z /\ z * x <= z * y
      OBVIOUS
    <3>2. f.ndescs * DefaultBlockSize <= f.ndescs * BlockSize
      BY <1>8, <2>3, <3>1, MiddlewareAssumption
    <3>3. f.ndescs * BlockSize <= k * BlockSize
      BY <1>8, <2>1, <2>2, <3>1, MiddlewareAssumption
    <3>4. /\ f.ndescs * DefaultBlockSize \in Nat /\ f.ndescs * BlockSize \in Nat
          /\ k * BlockSize \in Nat
      BY <1>8, <2>2, MiddlewareAssumption
    <3>5. QED
      BY <3>2, <3>3, <3>4
  <2>4. QED
    BY <1>s, <2>3, Zenon DEF SizeOf
<1>12. /\ RecordGraphSound' /\ SizeCovered' /\ FirstBlockMapPositional'
       /\ StoreGrows
  BY <1>5, <1>9, <1>10, <1>11, AppendGraph, Zenon DEF IInv
<1>13. Len(store') = NewName /\ store'[NewName] = r /\ store' \in Seq(Records)
  BY <1>5, <1>9, AppendKeeps, Zenon DEF NewName, IInv, TypeOK
<1>14. TypeOK'
  BY <1>1, <1>5, <1>7, <1>13, Zenon DEF IInv, TypeOK
<1>15. PICK nn : nn = NewName
  OBVIOUS
<1>16. NamesSound(t)'
  <2>1. InCapsule(nn, g.dc, "INODE")'
    BY <1>6, <1>7, <1>9, <1>13, <1>15 DEF InCapsule, IsStored, None
  <2>2. /\ NoneOrInCapsule(g.blockmap_hash, g.dc, "BLOCKMAP")
        /\ NoneOrInCapsule(g.latest_data, g.dc, "DATABLOCK")
        /\ NoneOrInCapsule(g.data_block, g.dc, "DATABLOCK")
        /\ \A i \in 1 .. Len(g.data_hashes) :
             InCapsule(g.data_hashes[i], g.dc, "DATABLOCK")
        /\ g.isize = 0
    BY <1>1, <1>7 DEF NamesSound
  <2>3. /\ NoneOrInCapsule(g.blockmap_hash, g.dc, "BLOCKMAP")'
        /\ NoneOrInCapsule(g.latest_data, g.dc, "DATABLOCK")'
        /\ NoneOrInCapsule(g.data_block, g.dc, "DATABLOCK")'
    BY <2>2, <1>12, NoneOrInCapsuleKept, Zenon
  <2>4. \A i \in 1 .. Len(g.data_hashes) :
          InCapsule(g.data_hashes[i], g.dc, "DATABLOCK")'
    BY <2>2, <1>12, InCapsuleKept, Zenon
  <2>5. g.dc \in DOMAIN index'
    BY <1>1, <1>7, MetaInCapsule, Zenon
  <2>6. QED
    BY <1>5, <1>7, <1>15, <2>1, <2>2, <2>3, <2>4, <2>5, NamesPrimed, Zenon
<1>17. CountsSound(t)' /\ FirstFlushSound(t)'
  BY <1>5, <1>7, Zenon DEF CountsSound, FirstFlushSound
<1>18. QED
  BY <1>1, <1>5, <1>12, <1>14, <1>16, <1>17, PushStep, Zenon DEF IInv, TypeOK

\* Modify moving index_ to the new INODE keeps the invariant.
LEMMA UpdateIndexKeeps ==
  ASSUME IInv, NEW t \in Threads, UpdateIndex(t)
  PROVE  IInv'
<1> DEFINE f == op[t]
<1>1. /\ f \in Frames /\ f.pc = "commit" /\ InModify(t) /\ NamesSound(t)
      /\ UNCHANGED <<store, sess, flushes, overlapped>>
      /\ index' = [index EXCEPT ![f.dc] = f.new_inode]
      /\ op' = [op EXCEPT ![t] = IdleFrame]
      /\ ret' = [ret EXCEPT ![t] = "ok"]
  BY Zenon DEF UpdateIndex, IInv, TypeOK, FrameSound, InModify
<1>2. /\ f.dc \in DOMAIN index /\ f.new_inode \in Nat
      /\ InCapsule(f.new_inode, f.dc, "INODE") /\ f.new_inode # None
  <2>1. f.dc \in DOMAIN index /\ InCapsule(f.new_inode, f.dc, "INODE")
    BY <1>1, Zenon DEF NamesSound
  <2>2. f.new_inode \in Nat
    BY <1>1, Zenon DEF Frames
  <2>3. f.new_inode # None
    BY <2>1 DEF InCapsule, IsStored, None
  <2>4. QED
    BY <2>1, <2>2, <2>3, Zenon
<1>3. /\ DOMAIN index' = DOMAIN index /\ index'[f.dc] = f.new_inode
      /\ \A d \in DOMAIN index : d # f.dc => index'[d] = index[d]
  BY <1>1, <1>2, Zenon
<1>4. TypeOK'
  BY <1>1, <1>2, <1>3, IdleFrameType, Zenon DEF IInv, TypeOK, Returns
<1>5. IndexGrows /\ StoreGrows
  BY <1>1, <1>2, <1>3 DEF IndexGrows, StoreGrows, IInv, TypeOK
<1>6. IndexSound'
  BY <1>1, <1>2, <1>3, Zenon DEF IInv, IndexSound, InCapsule, IsStored
<1>7. RecordGraphSound' /\ SizeCovered' /\ FirstBlockMapPositional'
  BY <1>1, SameStoreSound, Zenon DEF IInv
<1>8. FrameSound'
  <2> SUFFICES ASSUME NEW u \in Threads
               PROVE  /\ SessionSound(u)' /\ NamesSound(u)'
                      /\ CountsSound(u)' /\ FirstFlushSound(u)'
    BY Zenon DEF FrameSound
  <2>1. CASE u = t
    <3>1. op'[t].pc = "idle"
      BY <1>1, IdleFrameType, Zenon DEF IInv, TypeOK
    <3>2. NamesSound(t)' /\ CountsSound(t)' /\ FirstFlushSound(t)'
      BY <3>1, Zenon DEF NamesSound, InModify, CountsSound, FirstFlushSound
    <3>3. SessionSound(t)'
      BY <1>1, <1>3, Zenon DEF IInv, FrameSound, SessionSound
    <3>4. QED
      BY <2>1, <3>2, <3>3, Zenon
  <2>2. CASE u # t
    BY <2>2, <1>1, <1>5, FrameKept, Zenon DEF IInv, TypeOK
  <2>3. QED
    BY <2>1, <2>2, Zenon
<1>9. QED
  BY <1>4, <1>6, <1>7, <1>8, Zenon DEF IInv

\* CreateNew keeps the invariant.
LEMMA CreateNewKeeps ==
  ASSUME IInv, NEW t \in Threads, CreateNew(t)
  PROVE  IInv'
<1>1. PICK nn : nn = NewName
  OBVIOUS
<1>2. PICK r : r = [type |-> "META", dc |-> nn]
  BY Zenon
<1>3. nn \in Nat /\ nn # None /\ nn = Len(store) + 1 /\ Len(store) \in Nat
  BY <1>1 DEF IInv, TypeOK, NewName, None
<1>4. r \in Records /\ r.type = "META" /\ r.dc = nn /\ store' = Append(store, r)
  BY <1>1, <1>2, <1>3, Zenon DEF Records, MetaRecords, CreateNew
<1>5. /\ RecordGraphSound' /\ SizeCovered' /\ FirstBlockMapPositional'
      /\ StoreGrows
  BY <1>4, AppendGraph, Zenon DEF IInv
<1>6. /\ Len(store') = nn /\ store'[nn] = r /\ store' \in Seq(Records)
  BY <1>3, <1>4, AppendKeeps, Zenon DEF IInv, TypeOK
<1>7. nn \notin DOMAIN index
  BY <1>3 DEF IInv, IndexSound, IsStored
<1>8. /\ DOMAIN index' = DOMAIN index \cup {nn} /\ index'[nn] = None
      /\ \A d \in DOMAIN index : index'[d] = index[d]
  BY <1>1, <1>7, Zenon DEF CreateNew
<1>9. IndexGrows
  BY <1>8, Zenon DEF IndexGrows
<1>10. IndexSound'
  BY <1>3, <1>4, <1>5, <1>6, <1>8
     DEF IInv, IndexSound, IsStored, StoreGrows, None
<1>11. /\ sess' = [sess EXCEPT ![t] = [dc |-> nn, ino |-> None,
                                       isize |-> 0, key |-> 0]]
       /\ sess'[t].dc = nn /\ sess'[t].isize = 0
       /\ UNCHANGED <<op, ret, flushes, overlapped>> /\ op[t].pc = "idle"
  BY <1>1, Zenon DEF CreateNew, IInv, TypeOK
<1>12. TypeOK'
  BY <1>3, <1>6, <1>8, <1>11 DEF IInv, TypeOK, Sessions, None
<1>13. FrameSound'
  <2> SUFFICES ASSUME NEW u \in Threads
               PROVE  /\ SessionSound(u)' /\ NamesSound(u)'
                      /\ CountsSound(u)' /\ FirstFlushSound(u)'
    BY Zenon DEF FrameSound
  <2>1. CASE u = t
    <3>1. NamesSound(t)' /\ CountsSound(t)' /\ FirstFlushSound(t)'
      BY <1>11, Zenon DEF NamesSound, InModify, CountsSound, FirstFlushSound
    <3>2. SessionSound(t)'
      BY <1>8, <1>11, Zenon DEF SessionSound
    <3>3. QED
      BY <2>1, <3>1, <3>2, Zenon
  <2>2. CASE u # t
    BY <2>2, <1>5, <1>9, <1>11, FrameKept, Zenon DEF IInv, TypeOK
  <2>3. QED
    BY <2>1, <2>2, Zenon
<1>14. QED
  BY <1>5, <1>10, <1>12, <1>13, Zenon DEF IInv

-----------------------------------------------------------------------------
\* Every step of every thread keeps the invariant.
LEMMA NextKeeps ==
  ASSUME IInv, [Next]_vars
  PROVE  IInv'
<1>1. ASSUME NEW t \in Threads, CreateNew(t) PROVE IInv'
  BY <1>1, CreateNewKeeps, Zenon
<1>2. ASSUME NEW t \in Threads, NEW d \in DOMAIN index,
             ReadFileMeta(t, d) \/ ReadFileMetaEmpty(t, d)
      PROVE  IInv'
  BY <1>2, ReadFileMetaKeeps, ReadFileMetaEmptyKeeps, Zenon
<1>3. ASSUME NEW t \in Threads, NEW u \in Threads, ShareInode(t, u) PROVE IInv'
  BY <1>3, ShareInodeKeeps, Zenon
<1>4. ASSUME NEW t \in Threads, ModifyStale(t) PROVE IInv'
  BY <1>4, ModifyStaleKeeps, Zenon
<1>5. ASSUME NEW t \in Threads, NEW D \in SUBSET Block, ModifyStart(t, D)
      PROVE  IInv'
  BY <1>5, ModifyStartKeeps, Zenon
<1>6. ASSUME NEW t \in Threads, ModifyStep(t) PROVE IInv'
  BY <1>6, LoadNothingKeeps, LoadInodeKeeps, LoadBlockMapKeeps, PushDataKeeps,
     PushBlockMapKeeps, PushInodeKeeps, UpdateIndexKeeps, Zenon DEF ModifyStep
<1>7. ASSUME NEW t \in Threads, ServerError(t) PROVE IInv'
  BY <1>7, ServerErrorKeeps, Zenon
<1>8. CASE UNCHANGED vars
  <2> USE <1>8 DEF vars
  <2>1. TypeOK'
    BY Zenon DEF IInv, TypeOK
  <2>2. RecordGraphSound' /\ SizeCovered' /\ FirstBlockMapPositional'
    BY SameStoreSound, Zenon DEF IInv
  <2>3. IndexSound'
    BY Zenon DEF IInv, IndexSound, IsStored
  <2>4. StoreGrows /\ IndexGrows
    BY DEF IInv, TypeOK, StoreGrows, IndexGrows
  <2>5. FrameSound'
    BY <2>4, FrameKept, Zenon DEF IInv, FrameSound
  <2>6. QED
    BY <2>1, <2>2, <2>3, <2>5, Zenon DEF IInv
<1>9. QED
  BY <1>1, <1>2, <1>3, <1>4, <1>5, <1>6, <1>7, <1>8, Zenon DEF Next

\* The inductive invariant holds in every reachable state.
THEOREM Invariance == Spec => []IInv
<1>1. Init => IInv
  BY InitIInv, Zenon
<1>2. IInv /\ [Next]_vars => IInv'
  BY NextKeeps, Zenon
<1>3. QED
  BY <1>1, <1>2, PTL DEF Spec

\* Every variable keeps its type.
THEOREM TypeCorrect == Spec => []TypeOK
<1>1. IInv => TypeOK
  BY Zenon DEF IInv
<1>2. QED
  BY <1>1, Invariance, PTL

\* The push order of Modify keeps the hash graph free of dangling pointers,
\* for any number of threads that flush any files at once and any failures.
THEOREM NoDanglingPointer == Spec => []RecordGraphSound
<1>1. IInv => RecordGraphSound
  BY Zenon DEF IInv
<1>2. QED
  BY <1>1, Invariance, PTL

\* index_ never names an inode record that is not stored: UpdateIndex comes
\* after the pushes, and no failure in between moves it.
THEOREM IndexPointsIntoStore == Spec => []IndexSound
<1>1. IInv => IndexSound
  BY Zenon DEF IInv
<1>2. QED
  BY <1>1, Invariance, PTL

\* What bmCheck relies on: a block inside the size of an inode record has an
\* entry in the record's block map, however flushes interleave, for blocks that
\* are at least as large as the middleware takes them to be.
THEOREM MapCoversSize == Spec => []SizeCovered
<1>1. IInv => SizeCovered
  BY Zenon DEF IInv
<1>2. QED
  BY <1>1, Invariance, PTL

\* In the first version of a file the entry of a block is at its position.
THEOREM BlockMapCorrect == Spec => []FirstBlockMapPositional
<1>1. IInv => FirstBlockMapPositional
  BY Zenon DEF IInv
<1>2. QED
  BY <1>1, Invariance, PTL

\* What a thread inside Modify holds across its pushes is in the store: the
\* names it has loaded or pushed, and not yet linked, are of its own capsule.
THEOREM SessionsNameStored == Spec => []FrameSound
<1>1. IInv => FrameSound
  BY Zenon DEF IInv
<1>2. QED
  BY <1>1, Invariance, PTL

-----------------------------------------------------------------------------
\* What a thread that is alone in Modify with its file compared at the start
\* still holds when it moves index_.
Undisturbed(t) ==
  /\ sess[t].ino = index[op[t].dc]
  /\ \A u \in Threads : InModify(u) /\ u # t => op[u].dc # op[t].dc
  /\ op[t].pc = "commit" => store[op[t].new_inode].prev[1] = ChainEnd(op[t].dc)

\* UndisturbedSound, thread by thread.
LEMMA UndisturbedAll ==
  UndisturbedSound <=>
    \A t \in Threads : InModify(t) =>
      sess[t].dc = op[t].dc /\ (t \notin overlapped => Undisturbed(t))
  BY Zenon DEF UndisturbedSound, Undisturbed

\* Nobody is in Modify at first.
LEMMA UndisturbedInit == Init => UndisturbedSound
  BY SMTT(30) DEF Init, UndisturbedSound, InModify, IdleFrame

\* The same after a step that does not start a call.
LEMMA UndisturbedPrimed ==
  ASSUME overlapped' = overlapped,
         \A u \in Threads : InModify(u)' =>
           sess'[u].dc = op'[u].dc /\ (u \notin overlapped => Undisturbed(u)')
  PROVE  UndisturbedSound'
  BY Zenon DEF UndisturbedSound, Undisturbed

\* A step inside Modify that leaves index_ and the snapshots alone.
LEMMA UndisturbedFrameStep ==
  ASSUME IInv, UndisturbedSound, NEW t \in Threads, InModify(t),
         UNCHANGED <<index, sess, overlapped>>, StoreGrows,
         \A u \in Threads \ {t} : op'[u] = op[u],
         op'[t].dc = op[t].dc,
         op'[t].pc = "commit" =>
           store'[op'[t].new_inode].prev[1] = ChainEnd(op[t].dc)
  PROVE  UndisturbedSound'
<1>1. SUFFICES ASSUME NEW u \in Threads, InModify(u)'
               PROVE  sess'[u].dc = op'[u].dc /\ (u \notin overlapped => Undisturbed(u)')
  BY UndisturbedPrimed, Zenon
<1>2. InModify(u) /\ op'[u].dc = op[u].dc
  BY <1>1, Zenon DEF InModify
<1>3. \A w \in Threads : InModify(w)' => InModify(w) /\ op'[w].dc = op[w].dc
  BY Zenon DEF InModify
<1>4. sess[u].dc = op[u].dc /\ (u \notin overlapped => Undisturbed(u))
  BY <1>2, UndisturbedAll, Zenon
<1>5. ASSUME u \notin overlapped
      PROVE  op'[u].pc = "commit" =>
               store'[op'[u].new_inode].prev[1] = ChainEnd(op[u].dc)'
  <2>1. CASE u = t
    BY <2>1, <1>2, Zenon DEF ChainEnd
  <2>2. CASE u # t
    <3>1. op'[u] = op[u]
      BY <2>2, Zenon
    <3>2. op[u].pc = "commit" =>
            /\ InCapsule(op[u].new_inode, op[u].dc, "INODE")
            /\ store[op[u].new_inode].prev[1] = ChainEnd(op[u].dc)
      BY <1>2, <1>4, <1>5, Zenon DEF IInv, FrameSound, NamesSound, Undisturbed
    <3>3. op[u].pc = "commit" => store'[op[u].new_inode] = store[op[u].new_inode]
      BY <3>2, Zenon DEF InCapsule, IsStored, StoreGrows
    <3>4. QED
      BY <3>1, <3>2, <3>3, Zenon DEF ChainEnd
  <2>3. QED
    BY <2>1, <2>2, Zenon
<1>6. ASSUME u \notin overlapped
      PROVE  \A w \in Threads : InModify(w)' /\ w # u => op'[w].dc # op'[u].dc
  BY <1>2, <1>3, <1>4, <1>6, Zenon DEF Undisturbed
<1>7. ASSUME u \notin overlapped PROVE Undisturbed(u)'
  BY <1>2, <1>4, <1>5, <1>6, <1>7, Zenon DEF Undisturbed
<1>8. QED
  BY <1>2, <1>4, <1>7, Zenon

\* A step of a thread that is then outside Modify, and that moves index_ for
\* no file another thread flushes.
LEMMA UndisturbedIdleStep ==
  ASSUME IInv, UndisturbedSound, NEW t \in Threads, ~InModify(t)',
         \A u \in Threads \ {t} : op'[u] = op[u] /\ sess'[u] = sess[u],
         StoreGrows, overlapped' = overlapped,
         \A u \in Threads \ {t} :
           InModify(u) /\ u \notin overlapped => index'[op[u].dc] = index[op[u].dc]
  PROVE  UndisturbedSound'
<1>1. SUFFICES ASSUME NEW u \in Threads, InModify(u)'
               PROVE  sess'[u].dc = op'[u].dc /\ (u \notin overlapped => Undisturbed(u)')
  BY UndisturbedPrimed, Zenon
<1>2. u # t /\ op'[u] = op[u] /\ sess'[u] = sess[u] /\ InModify(u)
  BY <1>1, Zenon DEF InModify
<1>3. \A w \in Threads : InModify(w)' => InModify(w) /\ op'[w] = op[w]
  BY Zenon DEF InModify
<1>4. sess[u].dc = op[u].dc /\ (u \notin overlapped => Undisturbed(u))
  BY <1>2, UndisturbedAll, Zenon
<1>5. op[u].pc = "commit" => store'[op[u].new_inode] = store[op[u].new_inode]
  BY <1>2, Zenon DEF IInv, FrameSound, NamesSound, InCapsule, IsStored, StoreGrows
<1>6. ASSUME u \notin overlapped PROVE Undisturbed(u)'
  <2>1. index'[op[u].dc] = index[op[u].dc] /\ Undisturbed(u)
    BY <1>2, <1>4, <1>6, Zenon
  <2>2. \A w \in Threads : InModify(w)' /\ w # u => op'[w].dc # op'[u].dc
    BY <1>2, <1>3, <2>1, Zenon DEF Undisturbed
  <2>3. ChainEnd(op[u].dc)' = ChainEnd(op[u].dc)
    BY <1>2, <2>1, Zenon DEF ChainEnd
  <2>4. op'[u].pc = "commit" =>
          store'[op'[u].new_inode].prev[1] = ChainEnd(op[u].dc)'
    BY <1>2, <1>5, <2>1, <2>3, Zenon DEF Undisturbed
  <2>5. QED
    BY <1>2, <2>1, <2>2, <2>4, Zenon DEF Undisturbed
<1>7. QED
  BY <1>2, <1>4, <1>6, Zenon

\* Pushing a record makes the store grow.
LEMMA AppendGrows ==
  ASSUME TypeOK, NEW r, store' = Append(store, r)
  PROVE  /\ StoreGrows
         /\ store'[NewName] = r
  BY DEF TypeOK, StoreGrows, NewName

\* An unchanged store counts as grown.
LEMMA SameStoreGrows == TypeOK /\ store' = store => StoreGrows
  BY DEF TypeOK, StoreGrows

\* Every step keeps UndisturbedSound.
LEMMA UndisturbedStep ==
  ASSUME IInv, UndisturbedSound, [Next]_vars
  PROVE  UndisturbedSound'
<1> USE DEF IInv
<1>1. ASSUME NEW t \in Threads, CreateNew(t) PROVE UndisturbedSound'
  <2>1. ~InModify(t)' /\ StoreGrows /\ overlapped' = overlapped
    BY <1>1, AppendGrows, Zenon DEF CreateNew, InModify
  <2>2. \A u \in Threads : InModify(u) => index'[op[u].dc] = index[op[u].dc]
    <3>1. NewName \notin DOMAIN index
      BY SMTT(30) DEF IndexSound, IsStored, NewName, TypeOK
    <3>2. \A d \in DOMAIN index : index'[d] = index[d]
      BY <1>1, <3>1, Zenon DEF CreateNew
    <3>3. QED
      BY <3>2, Zenon DEF FrameSound, NamesSound
  <2>3. \A u \in Threads \ {t} : op'[u] = op[u] /\ sess'[u] = sess[u]
    BY <1>1, Zenon DEF CreateNew, TypeOK
  <2>4. QED
    BY <2>1, <2>2, <2>3, UndisturbedIdleStep, Zenon
<1>2. ASSUME NEW t \in Threads, NEW d \in DOMAIN index,
             ReadFileMeta(t, d) \/ ReadFileMetaEmpty(t, d)
      PROVE  UndisturbedSound'
  <2>1. ~InModify(t)' /\ StoreGrows /\ UNCHANGED <<index, overlapped>>
    <3>1. store' = store /\ UNCHANGED <<index, overlapped>>
      BY <1>2, Zenon DEF ReadFileMeta, ReadFileMetaEmpty
    <3>2. op'[t].pc \in {"idle", "stuck"}
      <4>1. CASE ReadFileMeta(t, d)
        BY <4>1, Zenon DEF ReadFileMeta
      <4>2. CASE ReadFileMetaEmpty(t, d)
        BY <4>2, Zenon DEF ReadFileMetaEmpty, TypeOK, Frames
      <4>3. QED
        BY <1>2, <4>1, <4>2, Zenon
    <3>3. QED
      BY <3>1, <3>2, SameStoreGrows, Zenon DEF InModify
  <2>2. \A u \in Threads \ {t} : op'[u] = op[u] /\ sess'[u] = sess[u]
    BY <1>2, Zenon DEF ReadFileMeta, ReadFileMetaEmpty, TypeOK
  <2>3. QED
    BY <2>1, <2>2, UndisturbedIdleStep, Zenon
<1>3. ASSUME NEW t \in Threads, NEW u \in Threads, ShareInode(t, u)
      PROVE  UndisturbedSound'
  <2>1. ~InModify(t)' /\ StoreGrows /\ UNCHANGED <<index, overlapped>>
    BY <1>3, SameStoreGrows, Zenon DEF ShareInode, InModify
  <2>2. \A w \in Threads \ {t} : op'[w] = op[w] /\ sess'[w] = sess[w]
    BY <1>3, Zenon DEF ShareInode, TypeOK
  <2>3. QED
    BY <2>1, <2>2, UndisturbedIdleStep, Zenon
<1>4. ASSUME NEW t \in Threads, ModifyStale(t) PROVE UndisturbedSound'
  <2>1. ~InModify(t)' /\ StoreGrows /\ UNCHANGED <<index, op, sess, overlapped>>
    BY <1>4, SameStoreGrows, Zenon DEF ModifyStale, CanFlush, InModify
  <2>2. QED
    BY <2>1, UndisturbedIdleStep, Zenon
<1>5. ASSUME NEW t \in Threads, NEW D \in SUBSET Block, ModifyStart(t, D)
      PROVE  UndisturbedSound'
  <2>1. /\ op'[t].pc = "load" /\ op'[t].dc = sess[t].dc
        /\ \A u \in Threads \ {t} : op'[u] = op[u]
        /\ UNCHANGED <<store, index, sess>>
        /\ sess[t].ino = index[sess[t].dc]
        /\ ~ InModify(t)
    BY <1>5, Zenon DEF ModifyStart, CanFlush, InModify, IdleFrame, TypeOK
  <2>2. /\ t \notin overlapped' =>
             \A u \in Threads \ {t} : InModify(u) => op[u].dc # sess[t].dc
        /\ \A u \in Threads \ {t} : u \notin overlapped' =>
             u \notin overlapped /\ (InModify(u) => op[u].dc # sess[t].dc)
    BY <1>5, Zenon DEF ModifyStart, NoteOverlap, Companions
  <2>3. SUFFICES ASSUME NEW u \in Threads, InModify(u)'
                 PROVE  sess'[u].dc = op'[u].dc /\ (u \notin overlapped' => Undisturbed(u)')
    BY Zenon DEF UndisturbedSound, Undisturbed
  <2>4. \A w \in Threads \ {t} : InModify(w)' => InModify(w)
    BY <2>1, Zenon DEF InModify
  <2>5. CASE u = t
    BY <2>1, <2>2, <2>4, <2>5, Zenon DEF Undisturbed
  <2>6. CASE u # t
    <3>1. op'[u] = op[u] /\ InModify(u)
      BY <2>1, <2>3, <2>4, <2>6, Zenon
    <3>2. sess[u].dc = op[u].dc /\ (u \notin overlapped => Undisturbed(u))
      BY <3>1, UndisturbedAll, Zenon
    <3>3. ASSUME u \notin overlapped' PROVE Undisturbed(u)'
      <4>1. Undisturbed(u) /\ op[u].dc # sess[t].dc
        BY <2>2, <2>6, <3>1, <3>2, <3>3, Zenon
      <4>2. \A w \in Threads : InModify(w)' /\ w # u => op'[w].dc # op'[u].dc
        BY <2>1, <2>4, <3>1, <4>1, Zenon DEF Undisturbed
      <4>3. ChainEnd(op[u].dc)' = ChainEnd(op[u].dc)
        BY <2>1, <3>1, Zenon DEF ChainEnd
      <4>4. QED
        BY <2>1, <3>1, <4>1, <4>2, <4>3, Zenon DEF Undisturbed
    <3>4. QED
      BY <2>1, <3>1, <3>2, <3>3, Zenon
  <2>7. QED
    BY <2>5, <2>6, Zenon
<1>6. ASSUME NEW t \in Threads,
             LoadNothing(t) \/ LoadInode(t) \/ LoadBlockMap(t)
      PROVE  UndisturbedSound'
  <2>1. /\ InModify(t) /\ UNCHANGED <<store, index, sess, overlapped>>
        /\ op'[t].dc = op[t].dc /\ op'[t].pc # "commit"
        /\ \A u \in Threads \ {t} : op'[u] = op[u]
    <3>1. CASE LoadNothing(t)
      BY <3>1, Zenon DEF LoadNothing, InModify, TypeOK, Frames
    <3>2. CASE LoadInode(t)
      BY <3>2 DEF LoadInode, InModify, TypeOK, Frames
    <3>3. CASE LoadBlockMap(t)
      BY <3>3 DEF LoadBlockMap, InModify, TypeOK, Frames
    <3>4. QED
      BY <1>6, <3>1, <3>2, <3>3
  <2>2. QED
    BY <2>1, SameStoreGrows, UndisturbedFrameStep, Zenon
<1>7. ASSUME NEW t \in Threads, PushData(t) \/ PushBlockMap(t)
      PROVE  UndisturbedSound'
  <2>1. /\ InModify(t) /\ UNCHANGED <<index, sess, overlapped>>
        /\ op'[t].dc = op[t].dc /\ op'[t].pc # "commit"
        /\ \A u \in Threads \ {t} : op'[u] = op[u]
    <3>1. CASE PushData(t)
      <4>1. PICK b \in op[t].todo :
              op' = [op EXCEPT
                       ![t].pc = IF op[t].todo = {b} THEN "push_bm" ELSE "data",
                       ![t].todo = op[t].todo \ {b},
                       ![t].data_block = NewName,
                       ![t].data_hashes = UpdateHashes(op[t], b, NewName)]
        BY <3>1, Zenon DEF PushData
      <4>2. op[t] \in Frames /\ op[t].pc = "data" /\ UNCHANGED <<index, sess, overlapped>>
        BY <3>1, Zenon DEF PushData, TypeOK
      <4>3. QED
        BY <4>1, <4>2, Zenon DEF InModify, TypeOK, Frames
    <3>2. CASE PushBlockMap(t)
      BY <3>2, Zenon DEF PushBlockMap, InModify, TypeOK, Frames
    <3>3. QED
      BY <1>7, <3>1, <3>2, Zenon
  <2>2. StoreGrows
    BY <1>7, AppendGrows, Zenon DEF PushData, PushBlockMap
  <2>3. QED
    BY <2>1, <2>2, UndisturbedFrameStep, Zenon
<1>8. ASSUME NEW t \in Threads, PushInode(t) PROVE UndisturbedSound'
  <2>1. /\ InModify(t) /\ UNCHANGED <<index, sess, overlapped>>
        /\ op'[t].dc = op[t].dc /\ op'[t].new_inode = NewName
        /\ \A u \in Threads \ {t} : op'[u] = op[u]
    BY <1>8, Zenon DEF PushInode, InModify, TypeOK, Frames
  <2>2. StoreGrows /\ store'[NewName].prev[1] = ChainEnd(op[t].dc)
    <3>1. PICK r :
            /\ store' = Append(store, r)
            /\ r.prev = <<IF index[op[t].dc] # None THEN index[op[t].dc]
                          ELSE op[t].dc, op[t].new_blockmap>>
      BY <1>8 DEF PushInode
    <3>2. r.prev[1] = ChainEnd(op[t].dc)
      BY <3>1 DEF ChainEnd
    <3>3. QED
      BY <3>1, <3>2, AppendGrows, Zenon
  <2>3. QED
    BY <2>1, <2>2, UndisturbedFrameStep, Zenon
<1>9. ASSUME NEW t \in Threads, UpdateIndex(t) PROVE UndisturbedSound'
  <2>1. /\ InModify(t) /\ ~InModify(t)' /\ StoreGrows /\ overlapped' = overlapped
        /\ \A u \in Threads \ {t} : op'[u] = op[u] /\ sess'[u] = sess[u]
    BY <1>9, IdleFrameType, SameStoreGrows, Zenon DEF UpdateIndex, InModify, TypeOK
  <2>2. \A u \in Threads \ {t} : InModify(u) /\ u \notin overlapped => op[u].dc # op[t].dc
    BY <2>1, Zenon DEF UndisturbedSound
  <2>3. \A u \in Threads \ {t} :
          InModify(u) /\ u \notin overlapped => index'[op[u].dc] = index[op[u].dc]
    BY <1>9, <2>2, Zenon DEF UpdateIndex, FrameSound, NamesSound
  <2>4. QED
    BY <2>1, <2>3, UndisturbedIdleStep, Zenon
<1>10. ASSUME NEW t \in Threads, ServerError(t) PROVE UndisturbedSound'
  <2>1. /\ ~InModify(t)' /\ StoreGrows /\ UNCHANGED <<index, overlapped>>
        /\ \A u \in Threads \ {t} : op'[u] = op[u] /\ sess'[u] = sess[u]
    BY <1>10, IdleFrameType, SameStoreGrows, Zenon DEF ServerError, InModify, TypeOK
  <2>2. QED
    BY <2>1, UndisturbedIdleStep, Zenon
<1>11. CASE UNCHANGED vars
  BY <1>11, Zenon DEF vars, UndisturbedSound, InModify, ChainEnd
<1>12. QED
  BY <1>1, <1>2, <1>3, <1>4, <1>5, <1>6, <1>7, <1>8, <1>9, <1>10, <1>11, Zenon
     DEF Next, ModifyStep

\* What a thread inside Modify compared at its start still holds at every later
\* step of it, unless another thread has flushed the file meanwhile.
THEOREM CheckedVersionStays == Spec => []UndisturbedSound
<1>1. IInv /\ UndisturbedSound /\ [Next]_vars => UndisturbedSound'
  BY UndisturbedStep, Zenon
<1>2. QED
  BY <1>1, UndisturbedInit, Invariance, PTL DEF Spec

\* Modify replaces exactly the version its caller was looking at, and chains the
\* new version to it, unless another thread has flushed the file during the
\* call: a version is lost only by flushes of one file that overlap.
THEOREM NoLostVersion == Spec => ReplacesCallersVersion
<1> DEFINE Step == \A d \in DOMAIN index :
             index'[d] # index[d] =>
               \E t \in Threads :
                 /\ sess[t].dc = d
                 /\ op[t].pc = "commit" /\ op[t].new_inode = index'[d]
                 /\ t \notin overlapped =>
                      /\ sess[t].ino = index[d]
                      /\ store[index'[d]].prev[1] = ChainEnd(d)
<1>1. IInv /\ UndisturbedSound /\ [Next]_vars => UndisturbedSound'
  BY UndisturbedStep, Zenon
<1>2. IInv /\ UndisturbedSound /\ [Next]_vars => [Step]_index
  <2> SUFFICES ASSUME IInv, UndisturbedSound, [Next]_vars,
                      NEW d \in DOMAIN index, index'[d] # index[d]
               PROVE  \E t \in Threads :
                        /\ sess[t].dc = d
                        /\ op[t].pc = "commit" /\ op[t].new_inode = index'[d]
                        /\ t \notin overlapped =>
                             /\ sess[t].ino = index[d]
                             /\ store[index'[d]].prev[1] = ChainEnd(d)
    OBVIOUS
  <2>1. NewName \notin DOMAIN index
    BY SMTT(30) DEF IInv, IndexSound, IsStored, NewName, TypeOK
  <2>2. PICK t \in Threads : UpdateIndex(t)
    BY ZenonT(30), <2>1 DEF Next, vars, CreateNew, ReadFileMeta, ReadFileMetaEmpty, ShareInode,
         ModifyStale, ModifyStart, ModifyStep, LoadNothing, LoadInode,
         LoadBlockMap, PushData, PushBlockMap, PushInode, ServerError
  <2>3. d = op[t].dc /\ index'[d] = op[t].new_inode /\ op[t].pc = "commit"
    BY <2>2, Zenon DEF UpdateIndex
  <2>4. QED
    BY <2>3, Zenon DEF UndisturbedSound, InModify
<1>3. QED
  BY <1>1, <1>2, UndisturbedInit, Invariance, PTL DEF Spec, ReplacesCallersVersion

=============================================================================
