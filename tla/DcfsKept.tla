------------------------------ MODULE DcfsKept ------------------------------
(*****************************************************************************)
(* What holds when also the middleware does not fail: Kept is inductive      *)
(* relative to Base, Apart and Counted, and every step is one of FileService *)
(* or leaves it alone.                                                       *)
(*****************************************************************************)
EXTENDS DcfsSteps

\* The steps that lead to the end of a flush, and the steps in which a flush
\* returns.
LEMMA StepFlush ==
  ASSUME Base, NEW t \in Threads, Step(t)
  PROVE  /\ op'[t].pc \in {"drop", "recount", "release"} =>
              \/ UNCHANGED <<op, inode_table, inodes, backend>>
              \/ FlushCollect(t) \/ ModifyStale(t) \/ ModifyFails(t) \/ ModifyCommit(t)
              \/ UnrefStore(t) \/ FlushDrop(t) \/ Recount(t)
         /\ op[t].call = "flush" /\ op'[t] = IdleFrame =>
              GetInodeUnknown(t) \/ Recount(t) \/ ReleaseInode(t)
  <1>t. op \in [Threads -> Frames] /\ op[t] \in Frames /\ LabelOK(op[t])
    BY Zenon DEF Base, TypeOK, FrameOK
  <1> DEFINE End == {"drop", "recount", "release"}
             Q == /\ op'[t].pc \in End =>
                       \/ UNCHANGED <<op, inode_table, inodes, backend>>
                       \/ FlushCollect(t) \/ ModifyStale(t) \/ ModifyFails(t) \/ ModifyCommit(t)
                       \/ UnrefStore(t) \/ FlushDrop(t) \/ Recount(t)
                  /\ op[t].call = "flush" /\ op'[t] = IdleFrame =>
                       GetInodeUnknown(t) \/ Recount(t) \/ ReleaseInode(t)
  <1>i. IdleFrame.pc = "idle" /\ op[t].pc # "idle"
    BY StepFrame, Zenon DEF IdleFrame
  <1>r. ASSUME Return(t) PROVE op'[t].pc = "idle"
    BY <1>r, <1>t, <1>i, ReturnUpdate, Zenon
  <1>1. ASSUME GetInodeUnknown(t) \/ ReleaseInode(t) PROVE Q
    <2>1. Return(t)
      BY <1>1, Zenon DEF GetInodeUnknown, ReleaseInode
    <2> QED
      BY <1>1, <2>1, <1>r, Zenon
  <1>2. ASSUME AllocateFails(t) \/ Read(t) \/ Write(t) \/ FdStore(t) PROVE Q
    <2>1. Return(t) /\ op[t].call # "flush"
      BY <1>2, <1>t, Zenon DEF AllocateFails, Read, Write, FdStore, LabelOK
    <2> QED
      BY <2>1, <1>r, Zenon
  <1>3. ASSUME ReaddirDangling(t) \/ UseFreed(t) \/ FdOutside(t) \/ UnrefAssert(t) PROVE Q
    <2>1. UNCHANGED <<op, inode_table, inodes, backend>>
      BY <1>3, Zenon DEF ReaddirDangling, UseFreed, FdOutside, UnrefAssert, Die, table
    <2> QED
      BY <2>1, <1>i, Zenon
  <1>4. ASSUME InitReaddir(t) \/ ReaddirEntry(t) \/ ReaddirEnd(t) \/ AllocateStart(t) PROVE Q
    <2>1. op[t].pc \in {"init_readdir", "entry", "rewind", "allocate"} /\ op[t].call # "flush"
      BY <1>4, <1>t, Zenon DEF InitReaddir, ReaddirEntry, ReaddirEnd, AllocateStart, LabelOK, DirectoryCalls
    <2>2. op'[t].pc \notin End
      <3>1. CASE Return(t)
        BY <1>r, <3>1, Zenon
      <3>2. ASSUME NEW label \in {"readdir", "allocate", "create_new"}, Goto(t, label)
            PROVE  op'[t].pc \notin End
        <4>1. op'[t].pc = label
          BY <3>2, GotoFields, Zenon
        <4> QED
          BY <3>2, <4>1, Zenon
      <3>3. ASSUME NEW i, op' = [op EXCEPT ![t].pc = "get_inode", ![t].hash = entries[i].hash]
            PROVE  op'[t].pc \notin End
        BY <3>3, <1>t, Zenon DEF Frames
      <3>4. CASE ReaddirEntry(t)
        BY <3>1, <3>2, <3>3, <3>4, EntryStep, Zenon
      <3> QED
        BY <1>4, <3>1, <3>2, <3>4, Zenon DEF InitReaddir, ReaddirEnd, AllocateStart
    <2> QED
      BY <2>1, <2>2, Zenon
  <1>5. ASSUME \/ GetInodeHit(t) \/ GetInodeMiss(t) \/ LoadInode(t) \/ AllocateInode(t)
               \/ RefLoad(t) \/ FdLoad(t) \/ UnrefLoad(t) \/ ModifyStart(t)
               \/ ReaddirCompare(t)
        PROVE  Q
    <2>1. op'[t].pc \in {"use", "load", "ref", "fd_store", "unref", "commit", "entry", "rewind"}
      BY <1>5, ReadFields, Zenon
    <2> QED
      BY <2>1, <1>i, Zenon
  <1>6. ASSUME RefStore(t) \/ AddentPush(t) \/ AddentReset(t) PROVE Q
    <2>1. \E label \in {"push_back", "fd", "reset"} : Goto(t, label)
      BY <1>6, Zenon DEF RefStore, AddentPush, AddentReset
    <2>2. op'[t].pc \in {"push_back", "fd", "reset"}
      BY <2>1, GotoFields, Zenon
    <2> QED
      BY <2>2, <1>i, Zenon
  <1>7. ASSUME \/ FlushCollect(t) \/ ModifyStale(t) \/ ModifyFails(t) \/ ModifyCommit(t)
               \/ UnrefStore(t) \/ FlushDrop(t)
        PROVE  Q
    <2>1. op'[t].pc # "idle"
      <3>1. CASE FlushCollect(t)
        BY <3>1, ReadFields, Zenon
      <3>2. CASE ModifyStale(t) \/ ModifyFails(t) \/ ModifyCommit(t) \/ UnrefStore(t) \/ FlushDrop(t)
        <4>1. \E label \in {"recount", "drop", "collect"} : Goto(t, label)
          BY <3>2, Zenon DEF ModifyStale, ModifyFails, ModifyCommit, UnrefStore, FlushDrop
        <4> QED
          BY <4>1, GotoFields, Zenon
      <3> QED
        BY <1>7, <3>1, <3>2, Zenon
    <2> QED
      BY <1>7, <2>1, <1>i, Zenon
  <1>8. ASSUME Recount(t) PROVE Q
    BY <1>8, Zenon
  <1> HIDE DEF Q
  <1>9. Q
    BY <1>1, <1>2, <1>3, <1>4, <1>5, <1>6, <1>7, <1>8, Zenon DEF Step
  <1> QED
    BY <1>9, Zenon DEF Q

\* The hypothesis of the steps below.
Keeping ==
  /\ Sound /\ ViewOK /\ ~ mode.fail
  /\ \A t \in Threads : DataOK(t)
  /\ \A i \in DOMAIN writes : writes[i] \in Hashnames

\* The Inode that a handler uses is the one in memory.
LEMMA UsesCached ==
  ASSUME Sound, NEW t \in Threads, op[t].pc \in InoPCs,
         op[t].call \in {"read", "write"} => op[t].pc = "use"
  PROVE  /\ op[t].hash \in Hashnames /\ inode_table[op[t].hash] = op[t].ino /\ op[t].ino # None
         /\ Cached(op[t].hash) = inodes[op[t].ino].dirty
         /\ RefCount(op[t].hash) = inodes[op[t].ino].ref
  <1>1. Base /\ AttachedOK(t) /\ OpenOK(t)
    BY Zenon DEF Sound
  <1>2. op[t].hash \in Hashnames /\ op[t].ino # None
    BY <1>1, InodeUpdate, Zenon
  <1>3. inode_table[op[t].hash] = op[t].ino
    BY <1>1, Zenon DEF AttachedOK, OpenOK
  <1> QED
    BY <1>2, <1>3, Zenon DEF Cached, RefCount

\* A file that is being flushed for its last close has no opener.
LEMMA LastClose ==
  ASSUME Sound, NEW t \in Threads,
         \/ op[t].pc \in {"collect", "modify", "commit", "drop", "release"}
         \/ op[t].pc = "recount" /\ op[t].tmp = 1
  PROVE  /\ op[t].call = "flush" /\ op[t].tmp = 1 /\ op[t].pc \in InoPCs
         /\ op[t].hash \in Hashnames /\ RefCount(op[t].hash) = 0
  <1>1. Base /\ AttachedOK(t)
    BY Zenon DEF Sound
  <1>2. op[t].call = "flush" /\ op[t].pc \in InoPCs
    BY <1>1, Zenon DEF Base, FrameOK, LabelOK, FlushPCs, InoPCs, UsePCs
  <1>3. op[t].tmp = 1 /\ op[t].tmp = inodes[op[t].ino].ref + 1
    BY <1>1, Zenon DEF AttachedOK
  <1>4. inodes[op[t].ino] \in Inodes
    BY <1>1, <1>2, InodeUpdate, Zenon
  <1>5. inodes[op[t].ino].ref = 0
    BY <1>3, <1>4 DEF Inodes
  <1> QED
    BY <1>2, <1>3, <1>5, UsesCached, Zenon

\* Nobody writes to such a file, and nobody else flushes it.
LEMMA FlushesAlone ==
  ASSUME Sound, NEW t \in Threads, NEW u \in Threads, t # u,
         \/ op[t].pc \in {"collect", "modify", "commit", "drop", "release"}
         \/ op[t].pc = "recount" /\ op[t].tmp = 1,
         op[u].pc \in InoPCs
  PROVE  op[u].hash # op[t].hash /\ op[u].ino # op[t].ino
  <1>1. Base /\ Exclusive /\ LookupOK(t) /\ LookupOK(u) /\ OpenOK(u)
    BY Zenon DEF Sound
  <1>2. /\ op[t].call = "flush" /\ op[t].pc \in InoPCs
        /\ op[t].hash \in Hashnames /\ RefCount(op[t].hash) = 0
    BY LastClose, Zenon
  <1>3. op[u].hash # op[t].hash
    <2>1. CASE op[u].call \notin {"read", "write"}
      BY <1>1, <1>2, <2>1, FlushAlone, Zenon
    <2>2. CASE op[u].call \in {"read", "write"}
      <3>1. op[u].h \in DOMAIN files /\ files[op[u].h].descs > 0 /\ files[op[u].h].hash = op[u].hash
        BY <1>1, <2>2, Zenon DEF OpenOK, FileCalls, Base, FrameOK
      <3>2. RefCount(op[u].hash) > 0
        BY <3>1, OpenCounted, Zenon
      <3> QED
        BY <1>2, <3>2
    <2> QED
      BY <2>1, <2>2, Zenon
  <1>4. inodes[op[t].ino].hash = op[t].hash /\ inodes[op[u].ino].hash = op[u].hash
    BY <1>1, <1>2, InodeUpdate, Zenon
  <1> QED
    BY <1>3, <1>4, Zenon

\* What the versions are made from when one is added.
LEMMA VersionAdded ==
  ASSUME NEW s \in Seq(SUBSET Nat), NEW d \in SUBSET Nat
  PROVE  UNION {Append(s, d)[v] : v \in DOMAIN Append(s, d)}
           = (UNION {s[v] : v \in DOMAIN s}) \cup d
  <1> DEFINE a == Append(s, d)
             before == UNION {s[v] : v \in DOMAIN s}
             after == UNION {a[v] : v \in DOMAIN a}
  <1>1. /\ Len(s) \in Nat /\ DOMAIN a = DOMAIN s \cup {Len(s) + 1}
        /\ a[Len(s) + 1] = d /\ \A v \in DOMAIN s : a[v] = s[v]
    OBVIOUS
  <1> HIDE DEF a
  <1>2. \A x : x \in after <=> \E v \in DOMAIN a : x \in a[v]
    BY Zenon
  <1>3. \A x : x \in before <=> \E v \in DOMAIN s : x \in s[v]
    BY Zenon
  <1>4. \A x : (\E v \in DOMAIN a : x \in a[v]) <=> (\E v \in DOMAIN s : x \in s[v]) \/ x \in d
    BY <1>1
  <1> HIDE DEF before, after
  <1>5. after = before \cup d
    BY <1>2, <1>3, <1>4, Zenon
  <1> QED
    BY <1>5, Zenon DEF a, before, after

\* A write that was handed over can be read, or the file was stored again.
LEMMA HandedOverMeans ==
  ASSUME Base, NEW p \in Hashnames, NEW i
  PROVE  i \in HandedOver(p) <=> i \in Readable(p) \/ (index[p] > 1 /\ i \in HandedOver(p))
  <1>1. index[p] = Len(versions[p]) /\ versions[p] \in Seq(SUBSET Nat)
    BY ElementTypes, Zenon DEF Base, ObjectsOK
  <1>2. Len(versions[p]) \in Nat /\ DOMAIN versions[p] = 1 .. Len(versions[p])
    BY <1>1
  <1>3. ASSUME i \in HandedOver(p), ~ (index[p] > 1) PROVE i \in Readable(p)
    <2>1. PICK v \in DOMAIN versions[p] : i \in versions[p][v]
      BY <1>3, Zenon DEF HandedOver
    <2>2. index[p] = 1 /\ v = 1
      <3>1. v \in 1 .. index[p] /\ index[p] \in Nat
        BY <1>1, <1>2, Zenon
      <3> QED
        BY <1>3, <3>1
    <2> QED
      BY <2>1, <2>2, Zenon DEF Readable
  <1>4. ASSUME i \in Readable(p) PROVE i \in HandedOver(p)
    <2>1. index[p] = 1 /\ i \in versions[p][1]
      BY <1>4, Zenon DEF Readable
    <2>2. 1 \in DOMAIN versions[p]
      BY <1>1, <1>2, <2>1
    <2> QED
      BY <2>1, <2>2, Zenon DEF HandedOver
  <1> QED
    BY <1>3, <1>4, Zenon

\* What the steps do to the writes in the cache and to those handed over.
LEMMA DataStep ==
  ASSUME Keeping, NEW t \in Threads, Step(t), NEW p \in Hashnames
  PROVE  LET own == p = op[t].hash IN
         /\ Write(t) =>
              Cached(p)' = IF own THEN Cached(p) \cup {Len(writes) + 1} ELSE Cached(p)
         /\ FlushDrop(t) \/ ReleaseInode(t) =>
              /\ Cached(p)' = IF own THEN {} ELSE Cached(p)
              /\ own => Cached(p) \subseteq HandedOver(p)
         /\ ModifyCommit(t) =>
              HandedOver(p)' = IF own THEN HandedOver(p) \cup Cached(p) ELSE HandedOver(p)
         /\ ~ Write(t) /\ ~ FlushDrop(t) /\ ~ ReleaseInode(t) => Cached(p)' = Cached(p)
         /\ ~ ModifyCommit(t) => HandedOver(p)' = HandedOver(p)
  <1> DEFINE o == inode_table[p]
  <1>b. Base /\ Sound /\ OpenOK(t) /\ DataOK(t) /\ LabelOK(op[t])
    BY Zenon DEF Keeping, Sound, Base, FrameOK
  <1>s. InodesStay(t)
    BY <1>b, StepInodesStay, Zenon
  <1>o. o # None => o \in DOMAIN inodes /\ inodes[o].hash = p
    BY <1>b, NoneFacts, Zenon DEF Base, OneInode
  <1>c. ASSUME inode_table'[p] = o, o = op[t].ino => op[t].pc \notin {"use", "drop"}
        PROVE  Cached(p)' = Cached(p)
    BY <1>c, <1>o, <1>s, Zenon DEF Cached, InodesStay
  <1>v. ASSUME op[t].pc # "commit" PROVE HandedOver(p)' = HandedOver(p)
    <2>1. index'[p] = index[p] /\ versions'[p] = versions[p]
      BY <1>v, <1>s, Zenon DEF InodesStay
    <2> QED
      BY <2>1, Zenon DEF HandedOver
  <1>a. op[t].pc \notin {"load", "release"} \/ p # op[t].hash => inode_table'[p] = o
    BY <1>s, Zenon DEF InodesStay
  <1>n. ASSUME p # op[t].hash, op[t].pc \in InoPCs PROVE o # op[t].ino
    <2>1. inodes[op[t].ino].hash = op[t].hash /\ op[t].ino # None
      BY <1>b, <1>n, InodeUpdate, Zenon
    <2> QED
      BY <1>n, <2>1, <1>o, Zenon
  <1>1. CASE Write(t)
    <2>1. op[t].pc = "use" /\ op[t].call = "write" /\ op[t].pc \in InoPCs
      BY <1>1, Zenon DEF Write, At, InoPCs, UsePCs
    <2>2. ~ FlushDrop(t) /\ ~ ReleaseInode(t) /\ ~ ModifyCommit(t)
      BY <2>1, Zenon DEF FlushDrop, ReleaseInode, ModifyCommit, At
    <2>3. CASE p = op[t].hash
      <3>1. o = op[t].ino /\ o # None /\ Cached(p) = inodes[o].dirty
        BY <1>b, <2>1, <2>3, UsesCached, Zenon
      <3>2. inode_table'[p] = o /\ inodes'[o].dirty = inodes[o].dirty \cup {Len(writes) + 1}
        BY <1>1, <1>a, <1>b, <2>1, <3>1, InodeEffects, Zenon
      <3>3. Cached(p)' = Cached(p) \cup {Len(writes) + 1}
        BY <3>1, <3>2, Zenon DEF Cached
      <3> QED
        BY <1>1, <1>v, <2>1, <2>2, <2>3, <3>3, Zenon
    <2>4. CASE p # op[t].hash
      BY <1>1, <1>a, <1>c, <1>n, <1>v, <2>1, <2>2, <2>4, SMTT(30)
    <2> QED
      BY <2>3, <2>4, Zenon
  <1>2. CASE FlushDrop(t) \/ ReleaseInode(t)
    <2>1. op[t].pc \in {"drop", "release"}
      BY <1>2, Zenon DEF FlushDrop, ReleaseInode, At
    <2>2. ~ Write(t) /\ ~ ModifyCommit(t)
      BY <2>1, Zenon DEF Write, ModifyCommit, At
    <2>3. op[t].tmp = 1 /\ op[t].call = "flush" /\ op[t].pc \in InoPCs
      BY <1>b, <2>1, LastClose, Zenon
    <2>4. CASE p = op[t].hash
      <3>1. o = op[t].ino /\ o # None /\ Cached(p) = inodes[o].dirty
        BY <1>b, <2>3, <2>4, UsesCached, Zenon
      <3>2. Cached(p) \subseteq HandedOver(p)
        BY <1>b, <2>1, <2>3, <2>4, <3>1, Zenon DEF DataOK
      <3>3. Cached(p)' = {}
        <4>1. CASE FlushDrop(t)
          <5>1. op[t].pc = "drop"
            BY <4>1, Zenon DEF FlushDrop, At
          <5>2. inode_table'[p] = o /\ inodes'[o].dirty = {}
            BY <1>a, <1>b, <3>1, <4>1, <5>1, InodeEffects, Zenon
          <5> QED
            BY <5>2, Zenon DEF Cached
        <4>2. CASE ReleaseInode(t)
          <5>1. inode_table'[p] = None
            BY <1>b, <2>4, <4>2, InodeEffects, Zenon
          <5> QED
            BY <5>1, Zenon DEF Cached
        <4> QED
          BY <1>2, <4>1, <4>2, Zenon
      <3> QED
        BY <1>2, <1>v, <2>1, <2>2, <2>4, <3>2, <3>3, Zenon
    <2>5. CASE p # op[t].hash
      BY <1>2, <1>a, <1>c, <1>n, <1>v, <2>1, <2>2, <2>3, <2>5, SMTT(30)
    <2> QED
      BY <2>4, <2>5, Zenon
  <1>3. CASE ModifyCommit(t)
    <2>1. op[t].pc = "commit"
      BY <1>3, Zenon DEF ModifyCommit
    <2>2. ~ Write(t) /\ ~ FlushDrop(t) /\ ~ ReleaseInode(t)
      BY <2>1, Zenon DEF Write, FlushDrop, ReleaseInode, At
    <2>3. op[t].call = "flush" /\ op[t].pc \in InoPCs
      BY <1>b, <2>1, LastClose, Zenon
    <2>4. Cached(p)' = Cached(p)
      BY <1>a, <1>c, <2>1, Zenon
    <2>5. CASE p = op[t].hash
      <3>1. Cached(p) = inodes[op[t].ino].dirty
        BY <1>b, <2>3, <2>5, UsesCached
      <3>2. op[t].data = Cached(p)
        BY <1>b, <2>1, <3>1, Zenon DEF DataOK
      <3>3. /\ index'[p] = index[p] + 1
            /\ versions'[p] = Append(versions[p], op[t].data)
        BY <1>3, <1>b, <2>5, InodeEffects
      <3>4. versions[p] \in Seq(SUBSET Nat)
        BY <1>b, ElementTypes, Zenon DEF Base
      <3>5. op[t].data \in SUBSET Nat
        <4>1. op[t] \in Frames
          BY <1>b, Zenon DEF Base, TypeOK
        <4> QED
          BY <4>1, Zenon DEF Frames
      <3>6. HandedOver(p)' = HandedOver(p) \cup op[t].data
        <4> DEFINE s == versions[p]
                   a == Append(s, op[t].data)
                   before == UNION {s[v] : v \in DOMAIN s}
                   after == UNION {a[v] : v \in DOMAIN a}
        <4>1. HandedOver(p) = before
          BY Zenon DEF HandedOver
        <4>2. HandedOver(p)' = after
          <5>1. ASSUME NEW b, versions'[p] = b PROVE HandedOver(p)' = UNION {b[v] : v \in DOMAIN b}
            BY <5>1, Zenon DEF HandedOver
          <5> QED
            BY <3>3, <5>1, Zenon
        <4>3. after = before \cup op[t].data
          BY <3>4, <3>5, VersionAdded, Zenon
        <4> HIDE DEF a, s, before, after
        <4> QED
          BY <4>1, <4>2, <4>3, Zenon
      <3> QED
        BY <1>3, <2>2, <2>4, <2>5, <3>2, <3>6, Zenon
    <2>6. CASE p # op[t].hash
      <3>1. index'[p] = index[p] /\ versions'[p] = versions[p]
        BY <1>s, <2>6, Zenon DEF InodesStay
      <3>2. HandedOver(p)' = HandedOver(p)
        BY <3>1, Zenon DEF HandedOver
      <3> QED
        BY <2>2, <2>4, <2>6, <3>2, Zenon
    <2> QED
      BY <2>5, <2>6, Zenon
  <1>4. CASE ~ Write(t) /\ ~ FlushDrop(t) /\ ~ ReleaseInode(t) /\ ~ ModifyCommit(t)
    <2>1. ASSUME UNCHANGED <<inode_table, inodes, backend>>
          PROVE  Cached(p)' = Cached(p) /\ HandedOver(p)' = HandedOver(p)
      BY <2>1, Zenon DEF Cached, HandedOver, backend
    <2>2. ASSUME AllocateInode(t) \/ RefStore(t) \/ UnrefStore(t)
          PROVE  Cached(p)' = Cached(p) /\ HandedOver(p)' = HandedOver(p)
      <3>1. op[t].pc \in {"create_new", "ref", "unref"}
        BY <2>2, Zenon DEF AllocateInode, RefStore, UnrefStore, At
      <3> QED
        BY <3>1, <1>a, <1>c, <1>v, Zenon
    <2>3. ASSUME LoadInode(t) PROVE Cached(p)' = Cached(p) /\ HandedOver(p)' = HandedOver(p)
      <3>1. op[t].pc = "load"
        BY <2>3, Zenon DEF LoadInode
      <3>2. CASE p # op[t].hash
        BY <3>1, <3>2, <1>a, <1>c, <1>v, Zenon
      <3>3. CASE p = op[t].hash
        <4>1. o = None
          BY <1>b, <3>1, <3>3, Zenon DEF Base, MutexOK, LockPCs
        <4>2. /\ inode_table'[p] = Len(inodes) + 1 /\ Len(inodes) + 1 # None
              /\ inodes'[Len(inodes) + 1] = NewInode(op[t].hash, op[t].version)
          BY <1>b, <2>3, <3>3, InodeEffects, Zenon
        <4> QED
          BY <3>1, <4>1, <4>2, <1>v DEF Cached, NewInode
      <3> QED
        BY <3>2, <3>3, Zenon
    <2>4. Cached(p)' = Cached(p) /\ HandedOver(p)' = HandedOver(p)
      BY <1>4, <1>b, <2>1, <2>2, <2>3, StepInodes, Zenon
    <2> QED
      BY <1>4, <2>4, Zenon
  <1> QED
    BY <1>1, <1>2, <1>3, <1>4, Zenon

\* Who changes the versions.
LEMMA StepVersions ==
  ASSUME Base, NEW t \in Threads, Step(t), ~ ModifyCommit(t), ~ AllocateInode(t)
  PROVE  index' = index /\ versions' = versions
  <1>1. CASE UNCHANGED <<inode_table, inodes, backend>>
    BY <1>1, Zenon DEF backend
  <1>2. CASE \/ LoadInode(t) \/ Write(t) \/ RefStore(t) \/ UnrefStore(t) \/ FlushDrop(t)
             \/ ReleaseInode(t)
    BY <1>2, Zenon DEF LoadInode, Write, RefStore, UnrefStore, FlushDrop, ReleaseInode, backend
  <1> QED
    BY <1>1, <1>2, StepInodes, Zenon

\* What the steps do to the versions and to what the latest one gives back.
LEMMA ReadableStep ==
  ASSUME Keeping, NEW t \in Threads, Step(t), NEW p \in Hashnames
  PROVE  /\ ~ ModifyCommit(t) \/ p # op[t].hash => Readable(p)' = Readable(p)
         /\ ModifyCommit(t) /\ p = op[t].hash =>
              Readable(p)' = IF index[p] = 0 THEN Cached(p) ELSE {}
         /\ ModifyCommit(t) => index' = [index EXCEPT ![op[t].hash] = @ + 1]
  <1>b. Base /\ Sound /\ DataOK(t)
    BY Zenon DEF Keeping, Sound
  <1>1. ASSUME ~ ModifyCommit(t) \/ p # op[t].hash PROVE Readable(p)' = Readable(p)
    <2>1. index'[p] = index[p] /\ versions'[p] = versions[p]
      <3>1. CASE ~ ModifyCommit(t) /\ ~ AllocateInode(t)
        BY <1>b, <3>1, StepVersions, Zenon
      <3>2. CASE AllocateInode(t)
        <4>1. op[t].pc = "create_new"
          BY <3>2, Zenon DEF AllocateInode
        <4> QED
          BY <1>b, <4>1, StepInodesStay, Zenon DEF InodesStay
      <3>3. CASE p # op[t].hash
        BY <1>b, <3>3, StepInodesStay, Zenon DEF InodesStay
      <3> QED
        BY <1>1, <3>1, <3>2, <3>3, Zenon
    <2> QED
      BY <2>1, Zenon DEF Readable
  <1>2. ASSUME ModifyCommit(t)
        PROVE  /\ index' = [index EXCEPT ![op[t].hash] = @ + 1]
               /\ p = op[t].hash => Readable(p)' = IF index[p] = 0 THEN Cached(p) ELSE {}
    <2>1. op[t].pc = "commit" /\ index' = [index EXCEPT ![op[t].hash] = Len(versions[op[t].hash]) + 1]
      BY <1>2, Zenon DEF ModifyCommit
    <2>2. op[t].call = "flush" /\ op[t].pc \in InoPCs /\ op[t].hash \in Hashnames
      BY <1>b, <2>1, LastClose, Zenon
    <2>3. index[op[t].hash] = Len(versions[op[t].hash])
      BY <1>b, <2>2, Zenon DEF Base, ObjectsOK
    <2>4. index' = [index EXCEPT ![op[t].hash] = @ + 1]
      BY <2>1, <2>3, Zenon
    <2>5. ASSUME p = op[t].hash PROVE Readable(p)' = IF index[p] = 0 THEN Cached(p) ELSE {}
      <3>1. op[t].data = Cached(p)
        BY <1>b, <2>1, <2>2, <2>5, UsesCached, Zenon DEF DataOK
      <3>2. index'[p] = index[p] + 1 /\ versions'[p] = Append(versions[p], op[t].data)
        BY <1>2, <1>b, <2>5, InodeEffects
      <3>3. versions[p] \in Seq(SUBSET Nat) /\ op[t].data \in SUBSET Nat
        <4>1. op[t] \in Frames
          BY <1>b, Zenon DEF Base, TypeOK
        <4> QED
          BY <1>b, <4>1, ElementTypes, Zenon DEF Base, Frames
      <3>4. Len(versions[p]) \in Nat
        BY <3>3
      <3>5. index[p] = 0 => versions'[p][1] = op[t].data
        <4> DEFINE s == versions[p]
        <4>1. s \in Seq(SUBSET Nat) /\ op[t].data \in SUBSET Nat
          BY <3>3, Zenon
        <4>2. Len(s) = 0 => Append(s, op[t].data)[1] = op[t].data
          BY <4>1
        <4> QED
          BY <2>3, <2>5, <3>2, <4>2, Zenon
      <3>6. index'[p] = 1 <=> index[p] = 0
        BY <2>3, <2>5, <3>2, <3>4
      <3> QED
        BY <3>1, <3>5, <3>6, Zenon DEF Readable
    <2> QED
      BY <2>4, <2>5, Zenon
  <1> QED
    BY <1>1, <1>2, Zenon

\* DataOK in terms of the writes in the cache and of those handed over.
HandsOver(t) ==
  LET f == op[t] IN
  /\ f.pc \in {"modify", "commit"} => f.data = Cached(f.hash)
  /\ f.pc \in {"drop", "recount", "release"} /\ f.tmp = 1 => Cached(f.hash) \subseteq HandedOver(f.hash)

\* Both say the same.
LEMMA DataMeans == Sound => \A v \in Threads : DataOK(v) <=> HandsOver(v)
  <1> SUFFICES ASSUME Sound, NEW t \in Threads,
                      op[t].pc \in {"modify", "commit", "drop", "recount", "release"}
               PROVE  Cached(op[t].hash) = inodes[op[t].ino].dirty
    BY DEF DataOK, HandsOver
  <1>1. op[t].call = "flush" /\ op[t].pc \in InoPCs
    BY Zenon DEF Sound, Base, FrameOK, LabelOK, FlushPCs, InoPCs, UsePCs
  <1> QED
    BY <1>1, UsesCached, Zenon

\* The version that a flush offers to Modify is the latest one.
LEMMA NeverStale ==
  ASSUME Keeping, NEW t \in Threads, op[t].pc = "modify"
  PROVE  op[t].version = index[op[t].hash]
  <1>1. Sound /\ ViewOK
    BY Zenon DEF Keeping
  <1>2. op[t].call = "flush" /\ op[t].pc \in InoPCs
    BY <1>1, LastClose, Zenon
  <1>3. op[t].hash \in Hashnames /\ inode_table[op[t].hash] = op[t].ino /\ op[t].ino # None
    BY <1>1, <1>2, UsesCached, Zenon
  <1>4. op[t].version = inodes[op[t].ino].version
    BY <1>1, Zenon DEF ViewOK
  <1>5. ASSUME NEW u \in Threads, Flushed(u, op[t].hash) PROVE FALSE
    <2>1. op[u].hash = op[t].hash /\ op[u].pc \in {"drop", "recount", "release"} /\ op[u].tmp = 1
      BY <1>5, Zenon DEF Flushed
    <2> QED
      BY <1>1, <1>2, <2>1, FlushesAlone, Zenon
  <1> QED
    BY <1>1, <1>3, <1>4, <1>5, Zenon DEF ViewOK

\* What FlushCache hands over stays what the cache has.
LEMMA DataOKStep ==
  ASSUME Keeping, Sound', NEW t \in Threads, Step(t), NEW u \in Threads
  PROVE  DataOK(u)'
  <1>b. Sound /\ Base /\ DataOK(t) /\ DataOK(u)
    BY Zenon DEF Keeping, Sound
  <1>m. (Sound => \A v \in Threads : DataOK(v) <=> HandsOver(v))'
    BY DataMeans, PTL
  <1> SUFFICES ASSUME NEW p, p = op'[u].hash
               PROVE  /\ op'[u].pc \in {"modify", "commit"} => op'[u].data = Cached(p)'
                      /\ op'[u].pc \in {"drop", "recount", "release"} /\ op'[u].tmp = 1 =>
                           Cached(p)' \subseteq HandedOver(p)'
    BY <1>m, Zenon DEF HandsOver, Cached, HandedOver
  <1>1. CASE u # t
    <2>1. op'[u] = op[u] /\ p = op[u].hash
      BY <1>1, <1>b, StepFrame, Zenon DEF OthersStay
    <2>2. SUFFICES ASSUME \/ op[u].pc \in {"modify", "commit"}
                          \/ op[u].pc \in {"drop", "recount", "release"} /\ op[u].tmp = 1
                   PROVE  Cached(p)' = Cached(p) /\ HandedOver(p)' = HandedOver(p)
      <3>1. /\ op[u].pc \in {"modify", "commit"} => op[u].data = Cached(p)
            /\ op[u].pc \in {"drop", "recount", "release"} /\ op[u].tmp = 1 =>
                 Cached(p) \subseteq HandedOver(p)
        BY <1>b, <2>1, DataMeans, Zenon DEF HandsOver
      <3> QED
        BY <2>1, <2>2, <3>1, Zenon
    <2>3. p \in Hashnames
      BY <1>b, <2>1, <2>2, LastClose, Zenon
    <2>4. op[t].pc \in InoPCs => p # op[t].hash
      BY <1>1, <1>b, <2>1, <2>2, FlushesAlone, Zenon
    <2>5. Write(t) \/ FlushDrop(t) \/ ReleaseInode(t) \/ ModifyCommit(t) => op[t].pc \in InoPCs
      BY Zenon DEF Write, FlushDrop, ReleaseInode, ModifyCommit, At, InoPCs, UsePCs
    <2> QED
      BY <2>3, <2>4, <2>5, DataStep, Zenon
  <1>2. CASE u = t
    <2>1. ASSUME op'[t].pc = "modify" PROVE op'[t].data = Cached(p)'
      <3>1. FlushCollect(t)
        BY <1>b, <2>1, StepEntry, Zenon
      <3>2. op[t].pc = "collect" /\ UNCHANGED <<inode_table, inodes>>
        BY <3>1, Zenon DEF FlushCollect, At, table
      <3>3. p = op[t].hash /\ op'[t].data = inodes[op[t].ino].dirty
        BY <1>2, <1>b, <3>1, ReadFields
      <3>4. op[t].call = "flush" /\ op[t].pc \in InoPCs
        BY <1>b, <3>2, LastClose, Zenon
      <3>5. Cached(p) = inodes[op[t].ino].dirty
        BY <1>b, <3>3, <3>4, UsesCached, Zenon
      <3> QED
        BY <3>2, <3>3, <3>5, Zenon DEF Cached
    <2>2. ASSUME op'[t].pc = "commit"
          PROVE  op'[t].data = Cached(p)'
      <3>1. ModifyStart(t)
        BY <1>b, <2>2, StepEntry, Zenon
      <3>2. op[t].pc = "modify" /\ UNCHANGED <<inode_table, inodes>>
        BY <3>1, Zenon DEF ModifyStart, table
      <3>3. p = op[t].hash /\ op'[t].data = op[t].data
        BY <1>2, <1>b, <3>1, ReadFields, Zenon
      <3>4. op[t].data = Cached(p)
        BY <1>b, <3>2, <3>3, DataMeans, Zenon DEF HandsOver
      <3> QED
        BY <3>2, <3>3, <3>4, Zenon DEF Cached
    <2>3. ASSUME op'[t].pc \in {"drop", "recount", "release"}, op'[t].tmp = 1
          PROVE  Cached(p)' \subseteq HandedOver(p)'
      <3>1. ASSUME UNCHANGED <<op, inode_table, inodes, backend>>
            PROVE  Cached(p)' \subseteq HandedOver(p)'
        <4>1. Cached(p) \subseteq HandedOver(p)
          BY <1>2, <1>b, <2>3, <3>1, DataMeans, Zenon DEF HandsOver
        <4> QED
          <5>1. UNCHANGED <<inode_table, inodes, versions>>
            BY <3>1, Zenon DEF backend
          <5>2. Cached(p)' = Cached(p) /\ HandedOver(p)' = HandedOver(p)
            BY <5>1, Zenon DEF Cached, HandedOver
          <5> QED
            BY <4>1, <5>2, Zenon
      <3>2. ASSUME FlushCollect(t)
            PROVE  Cached(p)' \subseteq HandedOver(p)'
        <4>1. op[t].pc = "collect" /\ UNCHANGED <<inode_table, inodes>>
          BY <3>2, Zenon DEF FlushCollect, At, table
        <4>2. p = op[t].hash /\ inodes[op[t].ino].dirty = {}
          BY <1>2, <1>b, <2>3, <3>2, ReadFields, SMTT(30)
        <4>3. op[t].call = "flush" /\ op[t].pc \in InoPCs
          BY <1>b, <4>1, LastClose, Zenon
        <4>4. Cached(p) = {}
          BY <1>b, <4>2, <4>3, UsesCached
        <4> QED
          BY <4>1, <4>2, <4>4, Zenon DEF Cached
      <3>3. ~ ModifyStale(t) /\ ~ ModifyFails(t)
        BY NeverStale, Zenon DEF ModifyStale, ModifyFails, Keeping
      <3>4. ASSUME ModifyCommit(t) \/ FlushDrop(t)
            PROVE  Cached(p)' \subseteq HandedOver(p)'
        <4>1. op[t].pc \in {"commit", "drop"} /\ \E label \in {"drop", "recount"} : Goto(t, label)
          BY <3>4, Zenon DEF ModifyCommit, FlushDrop, At
        <4>2. p = op[t].hash
          BY <1>2, <1>b, <4>1, GotoFields, Zenon
        <4>3. p \in Hashnames
          BY <1>b, <4>1, <4>2, LastClose, Zenon
        <4>4. CASE ModifyCommit(t)
          <5>1. ~ Write(t) /\ ~ FlushDrop(t) /\ ~ ReleaseInode(t)
            BY <4>4, Zenon DEF ModifyCommit, Write, FlushDrop, ReleaseInode, At
          <5> QED
            BY <4>2, <4>3, <4>4, <5>1, DataStep
        <4>5. CASE FlushDrop(t)
          BY <4>2, <4>3, <4>5, DataStep, Zenon
        <4> QED
          BY <3>4, <4>4, <4>5, Zenon
      <3>5. ~ UnrefStore(t)
        <4> SUFFICES ASSUME UnrefStore(t) PROVE FALSE
          OBVIOUS
        <4>1. CASE op[t].tmp = 1
          <5>1. Goto(t, "collect")
            BY <4>1, Zenon DEF UnrefStore
          <5> QED
            BY <1>b, <2>3, <5>1, GotoFields
        <4>2. CASE op[t].tmp # 1
          <5>1. Goto(t, "recount")
            BY <4>2, Zenon DEF UnrefStore
          <5> QED
            BY <1>b, <2>3, <4>2, <5>1, GotoFields, Zenon
        <4> QED
          BY <4>1, <4>2, Zenon
      <3>6. ASSUME Recount(t)
            PROVE  Cached(p)' \subseteq HandedOver(p)'
        <4>1. op[t].pc = "recount" /\ UNCHANGED <<inode_table, inodes, index, versions>>
          BY <3>6, Zenon DEF Recount, table, backend
        <4>2. ~ Return(t)
          <5>1. op \in [Threads -> Frames]
            BY <1>b, Zenon DEF Base, TypeOK
          <5> QED
            BY <2>3, <5>1, ReturnUpdate DEF IdleFrame
        <4>3. Goto(t, "release")
          BY <3>6, <4>2, Zenon DEF Recount
        <4>4. p = op[t].hash /\ op'[t].tmp = op[t].tmp
          BY <1>2, <1>b, <4>3, GotoFields, Zenon
        <4>5. Cached(p) \subseteq HandedOver(p)
          BY <1>b, <2>3, <4>1, <4>4, DataMeans, Zenon DEF HandsOver
        <4> QED
          BY <4>1, <4>4, <4>5, Zenon DEF Cached, HandedOver
      <3> QED
        BY <1>b, <2>3, <3>1, <3>2, <3>3, <3>4, <3>5, <3>6, StepFlush, SMTT(30)
    <2> QED
      BY <1>2, <2>1, <2>2, <2>3, Zenon
  <1> QED
    BY <1>1, <1>2, Zenon

\* Somebody will still flush what is in the cache of the file.
Awaited(hash) ==
  Holders(hash) # {} \/ \E u \in Threads : op[u].call = "flush" /\ op[u].hash = hash

WritesOK ==
  \A i \in DOMAIN writes :
    \/ i \in HandedOver(writes[i])
    \/ i \in Cached(writes[i]) /\ Awaited(writes[i])

\* While a file is being flushed and its count was taken down, nobody else has
\* a reference without an open file.
LEMMA NoMover ==
  ASSUME Sound, NEW t \in Threads, op[t].pc = "recount"
  PROVE  Movers(op[t].hash) = {}
  <1>b. Base /\ Exclusive /\ \A u \in Threads : LookupOK(u) /\ OpenOK(u)
    BY Zenon DEF Sound
  <1>1. op[t].call = "flush" /\ op[t].pc \in InoPCs /\ ~ HasReference(t)
    BY <1>b, Zenon DEF Base, FrameOK, LabelOK, FlushPCs, InoPCs, UsePCs, HasReference
  <1>2. ASSUME NEW u \in Threads, op[u].hash = op[t].hash, HasReference(u) PROVE FALSE
    <2>1. u # t
      BY <1>1, <1>2, Zenon
    <2>2. CASE op[u].call = "flush"
      <3>1. files[op[u].h].hash # files[op[t].h].hash
        BY <1>b, <1>1, <2>1, <2>2, Zenon DEF Exclusive, FlushConflict
      <3>2. op[u].hash = files[op[u].h].hash /\ op[t].hash = files[op[t].h].hash
        BY <1>b, <1>1, <2>2, Zenon DEF OpenOK, FileCalls
      <3> QED
        BY <1>2, <3>1, <3>2, Zenon
    <2>3. CASE op[u].call # "flush"
      <3>1. op[u].pc \in {"push_back", "reset", "fd", "fd_store"}
        BY <1>2, <2>3, Zenon DEF HasReference
      <3>2. op[u].pc \in InoPCs /\ op[u].call \notin {"read", "write"}
        BY <1>b, <3>1, Zenon DEF InoPCs, Base, FrameOK, LabelOK
      <3> QED
        BY <1>b, <1>1, <1>2, <2>1, <3>2, FlushAlone, Zenon
    <2> QED
      BY <2>2, <2>3, Zenon
  <1> QED
    BY <1>2, Zenon DEF Movers

\* A flush that returns without a release leaves the file open.
LEMMA StillOpen ==
  ASSUME Sound, NEW t \in Threads, Recount(t), op'[t] = IdleFrame
  PROVE  Holders(op[t].hash) # {}
  <1>b. Base /\ AttachedOK(t) /\ TypeOK
    BY Zenon DEF Sound, Base
  <1>1. op[t].pc = "recount"
    BY Zenon DEF Recount
  <1>2. op[t].call = "flush" /\ op[t].pc \in InoPCs
    BY <1>b, <1>1, Zenon DEF Base, FrameOK, LabelOK, FlushPCs, InoPCs, UsePCs
  <1>3. op[t].hash \in Hashnames /\ RefCount(op[t].hash) = inodes[op[t].ino].ref
    BY <1>2, UsesCached, Zenon
  <1>4. op[t].tmp = inodes[op[t].ino].ref + 1
    BY <1>b, <1>1, Zenon DEF AttachedOK
  <1>5. inodes[op[t].ino].ref > 0
    <2>1. ~ Goto(t, "release")
      BY <1>b, GotoFields DEF IdleFrame
    <2>2. inodes[op[t].ino].ref \in Nat
      <3>1. inodes[op[t].ino] \in Inodes
        BY <1>b, <1>2, InodeUpdate, Zenon
      <3> QED
        BY <3>1, Zenon DEF Inodes
    <2>3. op[t].tmp > 1 \/ inodes[op[t].ino].ref > 0
      BY <2>1, Zenon DEF Recount, Inode
    <2> QED
      BY <1>4, <2>2, <2>3
  <1>6. Movers(op[t].hash) = {}
    BY <1>1, NoMover, Zenon
  <1> QED
    BY <1>3, <1>5, <1>6, Zenon DEF Sound, Opened

\* A step keeps every acknowledged write.
LEMMA WritesStep ==
  ASSUME Keeping, WritesOK, NEW t \in Threads, Step(t)
  PROVE  WritesOK' /\ \A i \in DOMAIN writes' : writes'[i] \in Hashnames'
  <1>b. /\ Sound /\ Base /\ OpenOK(t) /\ TypeOK /\ writes \in Seq(Nat) /\ Len(writes) \in Nat
        /\ \A i \in DOMAIN writes : writes[i] \in Hashnames
    BY TypeFacts, Zenon DEF Keeping, Sound, Base, TypeOK
  <1>s. /\ OthersStay(t) /\ (op'[t] = IdleFrame \/ SameCall(t)) /\ InodesStay(t)
        /\ \A h \in DOMAIN files : h \in DOMAIN files' /\ files'[h] = files[h]
    BY <1>b, StepFrame, StepGrows, StepInodesStay, Zenon
  <1>h. \A p \in Hashnames : p \in Hashnames'
    BY <1>s, Zenon DEF InodesStay
  <1>o. \A p : Holders(p) # {} => Holders(p)' # {}
    BY <1>s, Zenon DEF Holders
  <1>1. ASSUME NEW i \in DOMAIN writes, NEW p \in Hashnames, p = writes[i]
        PROVE  i \in HandedOver(p)' \/ (i \in Cached(p)' /\ Awaited(p)')
    <2>1. CASE i \in HandedOver(p)
      BY <2>1, DataStep, Zenon
    <2>2. CASE (FlushDrop(t) \/ ReleaseInode(t)) /\ p = op[t].hash /\ i \in Cached(p)
      <3>1. ~ ModifyCommit(t)
        BY <2>2, Zenon DEF FlushDrop, ReleaseInode, ModifyCommit, At
      <3> QED
        BY <2>2, <3>1, DataStep, Zenon
    <2>3. CASE ~ ((FlushDrop(t) \/ ReleaseInode(t)) /\ p = op[t].hash) /\ i \in Cached(p) /\ Awaited(p)
      <3>1. i \in Cached(p)'
        <4>1. Write(t) => i \in Cached(p)'
          BY <2>3, DataStep, Zenon
        <4>2. FlushDrop(t) \/ ReleaseInode(t) => i \in Cached(p)'
          BY <2>3, DataStep, Zenon
        <4> QED
          BY <2>3, <4>1, <4>2, DataStep, Zenon
      <3>2. Awaited(p)'
        <4>1. CASE Holders(p) # {}
          BY <1>o, <4>1, Zenon DEF Awaited
        <4>2. ASSUME NEW u \in Threads, op[u].call = "flush", op[u].hash = p PROVE Awaited(p)'
          <5>1. CASE u # t
            <6>1. op'[u] = op[u]
              BY <1>s, <5>1, Zenon DEF OthersStay
            <6> QED
              BY <4>2, <6>1, Zenon DEF Awaited
          <5>2. CASE u = t /\ op'[t] # IdleFrame
            <6>1. op'[t].hash = op[t].hash /\ op'[t].call = op[t].call
              BY <1>b, <1>s, <4>2, <5>2, StepUse, Zenon DEF SameCall, FileCalls
            <6> QED
              BY <4>2, <5>2, <6>1, Zenon DEF Awaited
          <5>3. CASE u = t /\ op'[t] = IdleFrame
            <6>1. ~ GetInodeUnknown(t)
              BY <4>2, <5>3, Zenon DEF GetInodeUnknown
            <6>2. Recount(t)
              BY <1>b, <2>3, <4>2, <5>3, <6>1, StepFlush, Zenon
            <6>3. Holders(p) # {}
              BY <1>b, <4>2, <5>3, <6>2, StillOpen, Zenon
            <6> QED
              BY <1>o, <6>3, Zenon DEF Awaited
          <5> QED
            BY <5>1, <5>2, <5>3, Zenon
        <4> QED
          BY <2>3, <4>1, <4>2, Zenon DEF Awaited
      <3> QED
        BY <3>1, <3>2, Zenon
    <2> QED
      BY <1>1, <2>1, <2>2, <2>3, Zenon DEF WritesOK
  <1>2. CASE writes' = writes
    <2>1. ASSUME NEW i \in DOMAIN writes', NEW p, p = writes'[i]
          PROVE  p \in Hashnames' /\ (i \in HandedOver(p)' \/ (i \in Cached(p)' /\ Awaited(p)'))
      BY <1>1, <1>2, <1>b, <1>h, <2>1, Zenon
    <2> QED
      BY <2>1 DEF WritesOK, Cached, HandedOver, Awaited, Holders
  <1>3. CASE Write(t)
    <2> DEFINE n == Len(writes) + 1
    <2>1. /\ op[t].pc = "use" /\ op[t].call = "write" /\ op[t].pc \in InoPCs
          /\ writes' = Append(writes, files[op[t].h].hash) /\ files' = files
      BY <1>3, Zenon DEF Write, At, InoPCs, UsePCs, descriptors
    <2>2. /\ op[t].h \in DOMAIN files /\ files[op[t].h].hash = op[t].hash
          /\ files[op[t].h].descs > 0
      BY <1>b, <2>1, Zenon DEF OpenOK, FileCalls, Base, FrameOK
    <2>3. op[t].hash \in Hashnames
      BY <1>b, <2>1, UsesCached, Zenon
    <2>4. op[t].hash \in Nat
      BY <1>b, <2>3, TypeFacts
    <2>5. /\ DOMAIN writes' = DOMAIN writes \cup {n} /\ writes'[n] = op[t].hash
          /\ \A i \in DOMAIN writes : writes'[i] = writes[i]
      BY <1>b, <2>1, <2>2, <2>4
    <2>6. ASSUME NEW p, p = op[t].hash PROVE n \in Cached(p)' /\ Awaited(p)'
      <3>1. n \in Cached(p)'
        BY <1>3, <2>3, <2>6, DataStep, Zenon
      <3>2. op[t].h \in Holders(p)'
        BY <2>1, <2>2, <2>6, Zenon DEF Holders
      <3> QED
        BY <3>1, <3>2, Zenon DEF Awaited
    <2> HIDE DEF n
    <2>7. ASSUME NEW i \in DOMAIN writes', NEW p, p = writes'[i]
          PROVE  p \in Hashnames' /\ (i \in HandedOver(p)' \/ (i \in Cached(p)' /\ Awaited(p)'))
      BY <1>1, <1>b, <1>h, <2>3, <2>5, <2>6, <2>7, Zenon
    <2> QED
      BY <2>7 DEF WritesOK, Cached, HandedOver, Awaited, Holders
  <1> QED
    BY <1>2, <1>3, <1>b, StepInodes, Zenon

\* The state of FileService.
Opens == [hash \in Hashnames |-> RefCount(hash)]

CachedWrites == [hash \in Hashnames |-> Cached(hash)]

HandedWrites == [hash \in Hashnames |-> HandedOver(hash)]

ReadableWrites == [hash \in Hashnames |-> Readable(hash)]

Versions == <<index, HandedWrites, ReadableWrites>>

\* A function that has grown by one element is a sequence with an element
\* appended.
LEMMA GrownFunction ==
  ASSUME NEW n \in Nat, NEW e, NEW f, NEW g,
         f = [i \in 1 .. n |-> f[i]], g = [i \in 1 .. n + 1 |-> g[i]],
         g[n + 1] = e, \A i \in 1 .. n : g[i] = f[i]
  PROVE  g = Append(f, e)
  <1> DEFINE S == {f[i] : i \in 1 .. n} \cup {e}
  <1>i. \A i \in 1 .. n + 1 : i \in 1 .. n \/ i = n + 1
    OBVIOUS
  <1>f. e \in S /\ \A i \in 1 .. n : f[i] \in S
    OBVIOUS
  <1> HIDE DEF S
  <1>g. \A i \in 1 .. n + 1 : g[i] \in S
    BY <1>i, <1>f, Zenon
  <1>s. f \in [1 .. n -> S] /\ g \in [1 .. n + 1 -> S]
    BY <1>f, <1>g, Zenon
  <1>1. f \in Seq(S) /\ Len(f) = n /\ g \in Seq(S) /\ Len(g) = n + 1
    BY <1>s
  <1>2. /\ Append(f, e) \in Seq(S) /\ Len(Append(f, e)) = n + 1
        /\ Append(f, e)[n + 1] = e /\ \A i \in 1 .. n : Append(f, e)[i] = f[i]
    BY <1>1, <1>f
  <1>3. \A i \in 1 .. n + 1 : Append(f, e)[i] = g[i]
    <2> DEFINE a == Append(f, e)
    <2>1. a[n + 1] = e /\ \A i \in 1 .. n : a[i] = f[i]
      BY <1>2, Zenon
    <2> HIDE DEF a
    <2>2. \A i \in 1 .. n + 1 : a[i] = g[i]
      BY <2>1, <1>i, Zenon
    <2> QED
      BY <2>2, Zenon DEF a
  <1> QED
    BY <1>1, <1>2, <1>3

\* A step that leaves the files' state alone.
LEMMA SameState ==
  ASSUME Hashnames' = Hashnames, \A p \in Hashnames : RefCount(p)' = RefCount(p),
         \A p \in Hashnames : Cached(p)' = Cached(p),
         \A p \in Hashnames : HandedOver(p)' = HandedOver(p),
         \A p \in Hashnames : Readable(p)' = Readable(p), index' = index, writes' = writes
  PROVE  UNCHANGED <<Opens, CachedWrites, Versions, writes>>
  BY Zenon DEF Opens, CachedWrites, Versions, HandedWrites, ReadableWrites

\* It is a stuttering step of FileService.
LEMMA ServiceStutters ==
  ASSUME UNCHANGED <<Opens, CachedWrites, Versions, writes>>
  PROVE  UNCHANGED Service!vars
  BY Zenon DEF Opens, CachedWrites, Versions, HandedWrites, ReadableWrites, Service!vars

\* The steps of FileService in terms of that state.
LEMMA ServiceSteps ==
  ASSUME NEW f \in Hashnames
  PROVE  /\ /\ Opens' = [Opens EXCEPT ![f] = @ + 1]
            /\ UNCHANGED <<CachedWrites, Versions, writes>>
            => Service!Next
         /\ /\ Opens[f] > 0 /\ writes' = Append(writes, f)
            /\ CachedWrites' = [CachedWrites EXCEPT ![f] = @ \cup {Len(writes) + 1}]
            /\ UNCHANGED <<Opens, Versions>>
            => Service!Next
         /\ /\ Opens[f] > 0 /\ Opens' = [Opens EXCEPT ![f] = @ - 1]
            /\ UNCHANGED <<CachedWrites, Versions, writes>>
            => Service!Next
         /\ /\ Opens[f] = 0 /\ CachedWrites[f] \subseteq HandedWrites[f]
            /\ CachedWrites' = [CachedWrites EXCEPT ![f] = {}]
            /\ UNCHANGED <<Opens, Versions, writes>>
            => Service!Next
  <1> USE DEF Opens, CachedWrites, Versions, HandedWrites, ReadableWrites
  <1>1. DOMAIN Opens = Hashnames
    BY Zenon
  <1>2. Service!Open(f) \/ Service!Write(f) \/ Service!Close(f) \/ Service!Evict(f)
        => Service!Next
    BY <1>1, Zenon DEF Service!Next
  <1>3. /\ Opens' = [Opens EXCEPT ![f] = @ + 1]
        /\ UNCHANGED <<CachedWrites, Versions, writes>>
        => Service!Open(f)
    BY Zenon DEF Service!Open
  <1>4. /\ Opens[f] > 0 /\ writes' = Append(writes, f)
        /\ CachedWrites' = [CachedWrites EXCEPT ![f] = @ \cup {Len(writes) + 1}]
        /\ UNCHANGED <<Opens, Versions>>
        => Service!Write(f)
    BY Zenon DEF Service!Write
  <1>5. /\ Opens[f] > 0 /\ Opens' = [Opens EXCEPT ![f] = @ - 1]
        /\ UNCHANGED <<CachedWrites, Versions, writes>>
        => Service!Close(f)
    BY Zenon DEF Service!Close
  <1>6. /\ Opens[f] = 0 /\ CachedWrites[f] \subseteq HandedWrites[f]
        /\ CachedWrites' = [CachedWrites EXCEPT ![f] = {}]
        /\ UNCHANGED <<Opens, Versions, writes>>
        => Service!Evict(f)
    BY Zenon DEF Service!Evict
  <1> HIDE DEF Opens, CachedWrites, Versions, HandedWrites, ReadableWrites
  <1> QED
    BY <1>2, <1>3, <1>4, <1>5, <1>6, Zenon

\* A new version in terms of that state.
LEMMA ServiceStore ==
  ASSUME NEW f \in Hashnames, Opens[f] = 0,
         NEW kept \in SUBSET (ReadableWrites[f] \cup CachedWrites[f]),
         index[f] = 0 => kept = CachedWrites[f],
         index' = [index EXCEPT ![f] = @ + 1],
         HandedWrites' = [HandedWrites EXCEPT ![f] = @ \cup CachedWrites[f]],
         ReadableWrites' = [ReadableWrites EXCEPT ![f] = kept],
         UNCHANGED <<Opens, CachedWrites, writes>>
  PROVE  Service!Next
  <1>1. Service!Store(f)
    BY Zenon DEF Service!Store, Opens, CachedWrites, HandedWrites, ReadableWrites
  <1>2. f \in DOMAIN Opens
    BY Zenon DEF Opens
  <1> QED
    BY <1>1, <1>2, Zenon DEF Service!Next, Opens

\* The creation of a file in terms of that state.
LEMMA ServiceCreate ==
  ASSUME Opens' = Append(Opens, 0), CachedWrites' = Append(CachedWrites, {}),
         index' = Append(index, 0), HandedWrites' = Append(HandedWrites, {}),
         ReadableWrites' = Append(ReadableWrites, {}), UNCHANGED writes
  PROVE  Service!Next
  <1>1. Service!Create
    BY Zenon DEF Service!Create, Opens, CachedWrites, HandedWrites, ReadableWrites
  <1> QED
    BY <1>1, Zenon DEF Service!Next

\* Every step of a handler is a step of FileService or leaves it alone.
LEMMA RefinedStep ==
  ASSUME Keeping, NEW t \in Threads, Step(t)
  PROVE  Service!Next \/ UNCHANGED Service!vars
  <1> DEFINE f == op[t].hash
  <1>b. Sound /\ Base /\ AttachedOK(t) /\ OpenOK(t) /\ TypeOK /\ LabelOK(op[t])
    BY Zenon DEF Keeping, Sound, Base, FrameOK
  <1>c. \A p \in Hashnames :
          /\ p = f /\ RefStore(t) => RefCount(p)' = RefCount(p) + 1
          /\ p = f /\ UnrefStore(t) => RefCount(p)' = RefCount(p) - 1
          /\ ~ (p = f /\ (RefStore(t) \/ UnrefStore(t))) => RefCount(p)' = RefCount(p)
    BY <1>b, CountStep, Zenon
  <1>d. \A p \in Hashnames :
          /\ ~ Write(t) /\ ~ FlushDrop(t) /\ ~ ReleaseInode(t) => Cached(p)' = Cached(p)
          /\ ~ ModifyCommit(t) => HandedOver(p)' = HandedOver(p) /\ Readable(p)' = Readable(p)
    BY DataStep, ReadableStep, Zenon
  <1>h. Hashnames' = Hashnames \/ AllocateInode(t)
    BY <1>b, StepHashnames, Zenon
  <1>x. ASSUME ~ ModifyCommit(t), ~ AllocateInode(t) PROVE index' = index
    BY <1>b, <1>x, StepVersions, Zenon
  <1>v. ASSUME ~ ModifyCommit(t), ~ AllocateInode(t) PROVE UNCHANGED Versions
    BY <1>d, <1>h, <1>v, <1>x, Zenon DEF Versions, HandedWrites, ReadableWrites
  <1>w. writes' = writes \/ Write(t)
    BY <1>b, StepInodes, Zenon
  <1>1. CASE AllocateInode(t)
    <2> DEFINE n == Len(index)
    <2>1. op[t].pc = "create_new" /\ index' = Append(index, 0) /\ versions' = Append(versions, <<>>)
      BY <1>1, Zenon DEF AllocateInode, None
    <2>2. /\ ~ RefStore(t) /\ ~ UnrefStore(t) /\ ~ Write(t) /\ ~ FlushDrop(t)
          /\ ~ ReleaseInode(t) /\ ~ ModifyCommit(t)
      BY <2>1, Zenon DEF RefStore, UnrefStore, Write, FlushDrop, ReleaseInode, ModifyCommit, At
    <2>3. n \in Nat /\ Hashnames = 1 .. n
      BY <1>b, TypeFacts, Zenon
    <2>4. Hashnames' = 1 .. n + 1
      <3>1. Hashnames' = Hashnames \cup {n + 1}
        BY <1>1, <1>b, InodeEffects, Zenon
      <3> QED
        BY <2>3, <3>1
    <2>5. \A p \in 1 .. n : /\ RefCount(p)' = RefCount(p) /\ Cached(p)' = Cached(p)
                            /\ HandedOver(p)' = HandedOver(p) /\ Readable(p)' = Readable(p)
      BY <1>c, <1>d, <2>2, <2>3, Zenon
    <2>6. ASSUME NEW p, p = n + 1
          PROVE  RefCount(p)' = 0 /\ Cached(p)' = {} /\ HandedOver(p)' = {} /\ Readable(p)' = {}
      <3>1. /\ inode_table'[p] = Len(inodes) + 1 /\ Len(inodes) + 1 # None
            /\ inodes'[Len(inodes) + 1] = NewInode(p, None) /\ index'[p] = None
        BY <1>1, <1>b, <2>6, InodeEffects, Zenon
      <3>2. versions'[p] = <<>>
        <4>1. versions \in Seq(Seq(SUBSET Nat)) /\ Len(versions) = n
          BY <1>b, TypeFacts, Zenon DEF TypeOK
        <4> QED
          BY <2>1, <2>6, <4>1
      <3>3. RefCount(p)' = 0 /\ Cached(p)' = {}
        BY <3>1 DEF RefCount, Cached, NewInode
      <3>4. HandedOver(p)' = {}
        BY <3>2 DEF HandedOver
      <3>5. Readable(p)' = {}
        BY <3>1 DEF Readable, None
      <3> QED
        BY <3>3, <3>4, <3>5, Zenon
    <2> HIDE DEF n
    <2>7. /\ Opens = [p \in 1 .. n |-> RefCount(p)] /\ CachedWrites = [p \in 1 .. n |-> Cached(p)]
          /\ HandedWrites = [p \in 1 .. n |-> HandedOver(p)]
          /\ ReadableWrites = [p \in 1 .. n |-> Readable(p)]
      BY <2>3, Zenon DEF Opens, CachedWrites, HandedWrites, ReadableWrites
    <2>8. /\ Opens' = [p \in 1 .. n + 1 |-> RefCount(p)']
          /\ CachedWrites' = [p \in 1 .. n + 1 |-> Cached(p)']
          /\ HandedWrites' = [p \in 1 .. n + 1 |-> HandedOver(p)']
          /\ ReadableWrites' = [p \in 1 .. n + 1 |-> Readable(p)']
      BY <2>4, Zenon DEF Opens, CachedWrites, HandedWrites, ReadableWrites
    <2>9. n + 1 \in 1 .. n + 1 /\ \A p \in 1 .. n : p \in 1 .. n + 1
      BY <2>3
    <2>10. /\ Opens = [p \in 1 .. n |-> Opens[p]] /\ Opens' = [p \in 1 .. n + 1 |-> Opens'[p]]
           /\ Opens'[n + 1] = 0 /\ \A p \in 1 .. n : Opens'[p] = Opens[p]
      BY <2>5, <2>6, <2>7, <2>8, <2>9, Zenon
    <2>11. /\ CachedWrites = [p \in 1 .. n |-> CachedWrites[p]]
           /\ CachedWrites' = [p \in 1 .. n + 1 |-> CachedWrites'[p]]
           /\ CachedWrites'[n + 1] = {} /\ \A p \in 1 .. n : CachedWrites'[p] = CachedWrites[p]
      BY <2>5, <2>6, <2>7, <2>8, <2>9, Zenon
    <2>12. /\ HandedWrites = [p \in 1 .. n |-> HandedWrites[p]]
           /\ HandedWrites' = [p \in 1 .. n + 1 |-> HandedWrites'[p]]
           /\ HandedWrites'[n + 1] = {} /\ \A p \in 1 .. n : HandedWrites'[p] = HandedWrites[p]
      BY <2>5, <2>6, <2>7, <2>8, <2>9, Zenon
    <2>13. /\ ReadableWrites = [p \in 1 .. n |-> ReadableWrites[p]]
           /\ ReadableWrites' = [p \in 1 .. n + 1 |-> ReadableWrites'[p]]
           /\ ReadableWrites'[n + 1] = {} /\ \A p \in 1 .. n : ReadableWrites'[p] = ReadableWrites[p]
      BY <2>5, <2>6, <2>7, <2>8, <2>9, Zenon
    <2>14. Opens' = Append(Opens, 0)
      BY <2>3, <2>10, GrownFunction
    <2>15. CachedWrites' = Append(CachedWrites, {})
      BY <2>3, <2>11, GrownFunction
    <2>16. HandedWrites' = Append(HandedWrites, {})
      BY <2>3, <2>12, GrownFunction
    <2>17. ReadableWrites' = Append(ReadableWrites, {})
      BY <2>3, <2>13, GrownFunction
    <2> QED
      BY <1>w, <2>1, <2>2, <2>14, <2>15, <2>16, <2>17, ServiceCreate, Zenon
  <1>2. CASE RefStore(t) \/ UnrefStore(t)
    <2>1. op[t].pc \in {"ref", "unref"} /\ op[t].pc \in InoPCs
      BY <1>2, Zenon DEF RefStore, UnrefStore, At, InoPCs, UsePCs
    <2>2. /\ ~ AllocateInode(t) /\ ~ Write(t) /\ ~ FlushDrop(t)
          /\ ~ ReleaseInode(t) /\ ~ ModifyCommit(t)
      BY <2>1, Zenon DEF AllocateInode, Write, FlushDrop, ReleaseInode, ModifyCommit, At
    <2>3. op[t].call \notin {"read", "write"}
      BY <1>b, <2>1, Zenon DEF LabelOK, FlushPCs
    <2>4. f \in Hashnames /\ RefCount(f) = inodes[op[t].ino].ref
      BY <1>b, <2>1, <2>3, UsesCached, Zenon
    <2>5. UNCHANGED <<CachedWrites, Versions, writes>>
      BY <1>d, <1>h, <1>v, <1>w, <2>2, <2>4, Zenon DEF CachedWrites
    <2>6. CASE RefStore(t)
      <3>1. ~ UnrefStore(t)
        BY <2>6, Zenon DEF RefStore, UnrefStore, At
      <3>2. Opens' = [Opens EXCEPT ![f] = @ + 1]
        BY <1>c, <1>h, <2>2, <2>4, <2>6, <3>1 DEF Opens
      <3> QED
        BY <2>4, <2>5, <3>2, ServiceSteps, Zenon
    <2>7. CASE UnrefStore(t)
      <3>1. ~ RefStore(t) /\ op[t].pc = "unref"
        BY <2>7, Zenon DEF RefStore, UnrefStore, At
      <3>2. Opens' = [Opens EXCEPT ![f] = @ - 1]
        BY <1>c, <1>h, <2>2, <2>4, <2>7, <3>1 DEF Opens
      <3>3. op[t].tmp > 0 /\ op[t].tmp = inodes[op[t].ino].ref
        BY <1>b, <3>1, Zenon DEF Base, FrameOK, AttachedOK
      <3>4. Opens[f] > 0
        BY <2>4, <3>3, Zenon DEF Opens
      <3> QED
        BY <2>4, <2>5, <3>2, <3>4, ServiceSteps, Zenon
    <2> QED
      BY <1>2, <2>6, <2>7, Zenon
  <1>3. CASE Write(t)
    <2>1. /\ op[t].pc = "use" /\ op[t].call = "write" /\ op[t].pc \in InoPCs
          /\ writes' = Append(writes, files[op[t].h].hash)
      BY <1>3, Zenon DEF Write, At, InoPCs, UsePCs
    <2>2. ~ AllocateInode(t) /\ ~ RefStore(t) /\ ~ UnrefStore(t) /\ ~ ModifyCommit(t)
      BY <2>1, Zenon DEF AllocateInode, RefStore, UnrefStore, ModifyCommit, At
    <2>3. /\ op[t].h \in DOMAIN files /\ files[op[t].h].hash = f /\ files[op[t].h].descs > 0
          /\ f \in Hashnames
      BY <1>b, <2>1, UsesCached DEF OpenOK, FileCalls, Base, FrameOK
    <2>4. Opens[f] > 0
      BY <1>b, <2>3, OpenCounted, Zenon DEF Opens
    <2>5. UNCHANGED <<Opens, Versions>>
      BY <1>c, <1>h, <1>v, <2>2, <2>3, Zenon DEF Opens
    <2>6. \A p \in Hashnames :
            Cached(p)' = IF p = f THEN Cached(p) \cup {Len(writes) + 1} ELSE Cached(p)
      BY <1>3, DataStep, Zenon
    <2>7. CachedWrites' = [CachedWrites EXCEPT ![f] = @ \cup {Len(writes) + 1}]
      BY <1>h, <2>2, <2>3, <2>6, Zenon DEF CachedWrites
    <2> QED
      BY <2>1, <2>3, <2>4, <2>5, <2>7, ServiceSteps, Zenon
  <1>4. CASE FlushDrop(t) \/ ReleaseInode(t)
    <2>1. op[t].pc \in {"drop", "release"}
      BY <1>4, Zenon DEF FlushDrop, ReleaseInode, At
    <2>2. ~ AllocateInode(t) /\ ~ RefStore(t) /\ ~ UnrefStore(t) /\ ~ ModifyCommit(t) /\ ~ Write(t)
      BY <2>1, Zenon DEF AllocateInode, RefStore, UnrefStore, ModifyCommit, Write, At
    <2>3. f \in Hashnames /\ RefCount(f) = 0
      BY <1>b, <2>1, LastClose
    <2>4. \A p \in Hashnames : /\ Cached(p)' = IF p = f THEN {} ELSE Cached(p)
                               /\ p = f => Cached(p) \subseteq HandedOver(p)
      BY <1>4, DataStep, Zenon
    <2>5. UNCHANGED <<Opens, Versions, writes>>
      BY <1>c, <1>h, <1>v, <1>w, <2>2, <2>3, Zenon DEF Opens
    <2>6. CachedWrites' = [CachedWrites EXCEPT ![f] = {}]
      BY <1>h, <2>2, <2>3, <2>4, Zenon DEF CachedWrites
    <2>7. Opens[f] = 0 /\ CachedWrites[f] \subseteq HandedWrites[f]
      BY <2>3, <2>4, Zenon DEF Opens, CachedWrites, HandedWrites
    <2> QED
      BY <2>3, <2>5, <2>6, <2>7, ServiceSteps, Zenon
  <1>5. CASE ModifyCommit(t)
    <2>1. op[t].pc = "commit"
      BY <1>5, Zenon DEF ModifyCommit
    <2>2. /\ ~ AllocateInode(t) /\ ~ RefStore(t) /\ ~ UnrefStore(t) /\ ~ Write(t)
          /\ ~ FlushDrop(t) /\ ~ ReleaseInode(t)
      BY <2>1, Zenon DEF AllocateInode, RefStore, UnrefStore, Write, FlushDrop, ReleaseInode, At
    <2>3. f \in Hashnames /\ RefCount(f) = 0
      BY <1>b, <2>1, LastClose, Zenon
    <2>4. \A p \in Hashnames : HandedOver(p)' = IF p = f THEN HandedOver(p) \cup Cached(p) ELSE HandedOver(p)
      BY <1>5, DataStep, Zenon
    <2>5. UNCHANGED <<Opens, CachedWrites, writes>>
      BY <1>c, <1>d, <1>h, <1>w, <2>2, Zenon DEF Opens, CachedWrites
    <2>6. HandedWrites' = [HandedWrites EXCEPT ![f] = @ \cup CachedWrites[f]]
      BY <1>h, <2>2, <2>3, <2>4, Zenon DEF HandedWrites, CachedWrites
    <2>7. Opens[f] = 0
      BY <2>3, Zenon DEF Opens
    <2> DEFINE kept == IF index[f] = 0 THEN CachedWrites[f] ELSE {}
    <2>8. kept \in SUBSET (ReadableWrites[f] \cup CachedWrites[f])
      BY Zenon
    <2>9. ReadableWrites' = [ReadableWrites EXCEPT ![f] = kept]
      <3>1. \A p \in Hashnames :
              Readable(p)' = IF p = f THEN kept ELSE Readable(p)
        BY <1>5, <2>3, ReadableStep, Zenon DEF CachedWrites
      <3> HIDE DEF kept
      <3> QED
        BY <1>h, <2>2, <3>1, Zenon DEF ReadableWrites
    <2>10. index' = [index EXCEPT ![f] = @ + 1] /\ (index[f] = 0 => kept = CachedWrites[f])
      BY <1>5, <2>3, ReadableStep, Zenon
    <2> HIDE DEF kept
    <2> QED
      BY <2>3, <2>5, <2>6, <2>7, <2>8, <2>9, <2>10, ServiceStore, Zenon
  <1>6. CASE /\ ~ AllocateInode(t) /\ ~ RefStore(t) /\ ~ UnrefStore(t) /\ ~ Write(t)
             /\ ~ FlushDrop(t) /\ ~ ReleaseInode(t) /\ ~ ModifyCommit(t)
    <2>1. index' = index
      BY <1>6, <1>x, Zenon
    <2> QED
      BY <1>6, <1>c, <1>d, <1>h, <1>w, <2>1, SameState, ServiceStutters, SMTT(30)
  <1> QED
    BY <1>1, <1>2, <1>3, <1>4, <1>5, <1>6

\* A call leaves the files' data alone.
LEMMA CallData ==
  ASSUME CallStays
  PROVE  /\ Hashnames' = Hashnames /\ writes' = writes /\ UNCHANGED Service!vars
         /\ \A p : /\ Cached(p)' = Cached(p) /\ HandedOver(p)' = HandedOver(p)
                  /\ Readable(p)' = Readable(p)
         /\ \A u \in Threads : op'[u] = op[u] /\ DataOK(u) => DataOK(u)'
  <1>1. UNCHANGED <<inode_table, inodes, index, versions, writes>>
    BY Zenon DEF CallStays, table, backend
  <1>2. Hashnames' = Hashnames /\ \A p : RefCount(p)' = RefCount(p)
    BY CallCounts, Zenon
  <1>3. \A p : /\ Cached(p)' = Cached(p) /\ HandedOver(p)' = HandedOver(p)
              /\ Readable(p)' = Readable(p)
    BY <1>1, Zenon DEF Cached, HandedOver, Readable
  <1>4. UNCHANGED Service!vars
    BY <1>1, <1>2, <1>3, SameState, ServiceStutters, Zenon
  <1>5. \A u \in Threads : op'[u] = op[u] /\ DataOK(u) => DataOK(u)'
    BY <1>1, Zenon DEF DataOK, HandedOver
  <1> QED
    BY <1>1, <1>2, <1>3, <1>4, <1>5, Zenon

\* A call keeps every acknowledged write: a close becomes a flush that will
\* store it.
LEMMA KeptCall ==
  ASSUME Keeping, WritesOK, NEW t \in Threads, CallStays, OthersStay(t), op[t].pc = "idle",
         op'[t].pc \in {"init_readdir", "get_inode"},
         \A h \in DOMAIN files :
           \/ files'[h].descs = files[h].descs
           \/ op'[t].call = "flush" /\ op'[t].hash = files[h].hash
  PROVE  /\ WritesOK' /\ \A u \in Threads : DataOK(u)'
         /\ \A i \in DOMAIN writes' : writes'[i] \in Hashnames'
  <1>1. /\ Hashnames' = Hashnames /\ writes' = writes
        /\ \A p : Cached(p)' = Cached(p) /\ HandedOver(p)' = HandedOver(p)
        /\ \A u \in Threads : op'[u] = op[u] /\ DataOK(u) => DataOK(u)'
    BY CallData, Zenon
  <1>2. ASSUME NEW u \in Threads PROVE DataOK(u)'
    <2>1. CASE u = t
      BY <2>1, Zenon DEF DataOK
    <2>2. CASE u # t
      BY <1>1, <2>2, Zenon DEF OthersStay, Keeping
    <2> QED
      BY <2>1, <2>2, Zenon
  <1>3. ASSUME NEW p, Awaited(p) PROVE Awaited(p)'
    <2>1. ASSUME NEW h \in Holders(p) PROVE Awaited(p)'
      <3>1. /\ h \in DOMAIN files /\ h \in DOMAIN files' /\ files[h].descs > 0
            /\ files[h].hash = p /\ files'[h].hash = p
        BY <2>1, Zenon DEF Holders, CallStays
      <3>2. CASE files'[h].descs = files[h].descs
        <4>1. h \in Holders(p)'
          BY <3>1, <3>2, Zenon DEF Holders
        <4> QED
          BY <4>1, Zenon DEF Awaited
      <3>3. CASE op'[t].call = "flush" /\ op'[t].hash = files[h].hash
        BY <3>1, <3>3, Zenon DEF Awaited
      <3> QED
        BY <3>1, <3>2, <3>3, Zenon
    <2>2. ASSUME NEW u \in Threads, op[u].call = "flush", op[u].hash = p PROVE Awaited(p)'
      <3>1. u # t
        BY <2>2, Zenon DEF Keeping, Sound, Base, FrameOK, LabelOK
      <3>2. op'[u] = op[u]
        BY <3>1, Zenon DEF OthersStay
      <3> QED
        BY <2>2, <3>2, Zenon DEF Awaited
    <2> QED
      BY <1>3, <2>1, <2>2, Zenon DEF Awaited
  <1>4. ASSUME NEW i \in DOMAIN writes', NEW p, p = writes'[i]
        PROVE  p \in Hashnames' /\ (i \in HandedOver(p)' \/ (i \in Cached(p)' /\ Awaited(p)'))
    <2>1. i \in DOMAIN writes /\ p = writes[i]
      BY <1>1, <1>4, Zenon
    <2>2. p \in Hashnames'
      BY <1>1, <2>1, Zenon DEF Keeping
    <2>3. i \in HandedOver(p) \/ (i \in Cached(p) /\ Awaited(p))
      BY <2>1, Zenon DEF WritesOK
    <2> QED
      BY <1>1, <1>3, <2>2, <2>3, Zenon
  <1>5. WritesOK'
    BY <1>4 DEF WritesOK, Cached, HandedOver, Awaited, Holders
  <1>6. \A i \in DOMAIN writes' : writes'[i] \in Hashnames'
    BY <1>4, Zenon
  <1> QED
    BY <1>2, <1>5, <1>6, Zenon

\* Kept in terms of the facts above.
LEMMA KeptMeans ==
  Base /\ Regular /\ ~ mode.fail =>
    (Kept <=> /\ \A t \in Threads : DataOK(t)
              /\ \A i \in DOMAIN writes : writes[i] \in Hashnames
              /\ WritesOK)
  <1> SUFFICES ASSUME Base, Regular, ~ mode.fail,
                      \A i \in DOMAIN writes : writes[i] \in Hashnames
               PROVE  WritesKept <=> WritesOK
    BY Zenon DEF Kept
  <1>1. ASSUME NEW i \in DOMAIN writes, NEW p, p = writes[i]
        PROVE  i \in HandedOver(p) <=> i \in Readable(p) \/ (index[p] > 1 /\ i \in HandedOver(p))
    BY <1>1, HandedOverMeans, Zenon
  <1> QED
    BY <1>1, Zenon DEF WritesKept, WritesOK, Awaited

\* Every step keeps Kept, and it is a step of FileService or leaves it alone.
LEMMA KeptNext ==
  ASSUME Base, Regular => Sound /\ ViewOK, (Regular => Sound)', Kept, [Next]_vars
  PROVE  /\ Kept'
         /\ Regular /\ ~ mode.fail => Service!Next \/ UNCHANGED Service!vars
  <1>1. CASE UNCHANGED vars
    <2>1. Kept'
      <3>1. UNCHANGED <<mode, files, inode_table, inodes, index, versions, writes, op>>
        BY <1>1, Zenon DEF vars, descriptors, table, backend
      <3>2. \A p : /\ Cached(p)' = Cached(p) /\ HandedOver(p)' = HandedOver(p)
                  /\ Readable(p)' = Readable(p) /\ Holders(p)' = Holders(p)
        BY <3>1, Zenon DEF Cached, HandedOver, Readable, Holders
      <3>3. ASSUME NEW u \in Threads, DataOK(u) PROVE DataOK(u)'
        BY <3>1, <3>2, <3>3, Zenon DEF DataOK
      <3>4. WritesKept' <=> WritesKept
        BY <3>1, <3>2, Zenon DEF WritesKept, Regular
      <3> QED
        BY <3>1, <3>3, <3>4, Zenon DEF Kept, Regular, Hashnames
    <2>2. UNCHANGED Service!vars
      <3>1. UNCHANGED <<inode_table, inodes, index, versions, writes>>
        BY <1>1, Zenon DEF vars, table, backend
      <3>2. UNCHANGED <<Opens, CachedWrites, Versions, writes>>
        BY <3>1, Zenon DEF Opens, CachedWrites, Versions, HandedWrites, ReadableWrites, RefCount, Cached,
           HandedOver, Readable, Hashnames
      <3> QED
        BY <3>2, ServiceStutters, Zenon
    <2> QED
      BY <2>1, <2>2, Zenon
  <1>2. ASSUME Next
        PROVE  /\ Kept'
               /\ Regular /\ ~ mode.fail => Service!Next \/ UNCHANGED Service!vars
    <2>1. mode' = mode
      <3>1. ASSUME NEW t \in Threads, Step(t) PROVE mode' = mode
        BY <3>1, StepFrame, Zenon
      <3>2. ASSUME Call PROVE mode' = mode
        BY <3>2, Zenon DEF Call, CallDirectory, CallFile, Dup
      <3> QED
        BY <1>2, <3>1, <3>2, Zenon DEF Next
    <2>2. Regular' <=> Regular
      BY <2>1, Zenon DEF Regular
    <2>3. (Base /\ Regular /\ ~ mode.fail =>
             (Kept <=> /\ \A t \in Threads : DataOK(t)
                       /\ \A i \in DOMAIN writes : writes[i] \in Hashnames
                       /\ WritesOK))'
      BY KeptMeans, PTL
    <2>r. ASSUME ~ (Regular /\ ~ mode.fail) PROVE Kept'
      BY <2>1, <2>2, <2>r, Zenon DEF Kept
    <2>s. Regular => Base'
      BY <2>2, Zenon DEF Sound
    <2> SUFFICES ASSUME Regular, ~ mode.fail
                 PROVE  /\ WritesOK' /\ \A t \in Threads : DataOK(t)'
                        /\ \A i \in DOMAIN writes' : writes'[i] \in Hashnames'
                        /\ Service!Next \/ UNCHANGED Service!vars
      BY <2>1, <2>2, <2>3, <2>r, <2>s, Zenon
    <2>4. Keeping /\ WritesOK /\ Sound' /\ ~ mode.overlap /\ ~ mode.dup
      BY <2>2, <2>3, KeptMeans, Zenon DEF Keeping, Regular
    <2>5. ASSUME NEW t \in Threads, Step(t)
          PROVE  /\ WritesOK' /\ \A u \in Threads : DataOK(u)'
                 /\ \A i \in DOMAIN writes' : writes'[i] \in Hashnames'
                 /\ Service!Next \/ UNCHANGED Service!vars
      BY <2>4, <2>5, WritesStep, DataOKStep, RefinedStep
    <2>6. ASSUME NEW t \in Threads, NEW c \in DirectoryCalls, NEW n, CallDirectory(t, c, n)
          PROVE  /\ WritesOK' /\ \A u \in Threads : DataOK(u)'
                 /\ \A i \in DOMAIN writes' : writes'[i] \in Hashnames'
                 /\ Service!Next \/ UNCHANGED Service!vars
      <3>1. /\ OthersStay(t) /\ CallStays /\ files' = files /\ op[t].pc = "idle"
            /\ op'[t].pc = "init_readdir"
        BY <2>6, CallDirectoryEffect, Zenon DEF MayCall
      <3> QED
        BY <2>4, <3>1, KeptCall, CallData, Zenon
    <2>7. ASSUME NEW t \in Threads, NEW c \in FileCalls, NEW h \in DOMAIN files, CallFile(t, c, h)
          PROVE  /\ WritesOK' /\ \A u \in Threads : DataOK(u)'
                 /\ \A i \in DOMAIN writes' : writes'[i] \in Hashnames'
                 /\ Service!Next \/ UNCHANGED Service!vars
      <3>i. op[t].pc = "idle"
        BY <2>7, Zenon DEF CallFile, MayCall
      <3>1. /\ OthersStay(t) /\ CallStays /\ op'[t].call = c
            /\ op'[t].pc = "get_inode" /\ op'[t].hash = fd_table[files[h].fd]
            /\ files[h].descs > 0
            /\ files'[h].descs = IF c = "flush" THEN files[h].descs - 1 ELSE files[h].descs
            /\ \A k \in DOMAIN files : k # h => files'[k] = files[k]
        BY <2>7, CallFileEffect
      <3>2. op'[t].hash = files[h].hash
        BY <2>4, <3>1, Zenon DEF Keeping, Sound, FilesOK
      <3>3. \A k \in DOMAIN files :
              \/ files'[k].descs = files[k].descs
              \/ op'[t].call = "flush" /\ op'[t].hash = files[k].hash
        BY <3>1, <3>2, Zenon
      <3> QED
        BY <2>4, <3>i, <3>1, <3>3, KeptCall, CallData
    <2>8. ASSUME NEW h \in DOMAIN files, Dup(h) PROVE FALSE
      BY <2>4, <2>8, Zenon DEF Dup
    <2> QED
      BY <1>2, <2>5, <2>6, <2>7, <2>8, Zenon DEF Next, Call
  <1> QED
    BY <1>1, <1>2, Zenon

\* Nothing is written at first.
LEMMA KeptInit == Init => Kept /\ Service!Init
  <1> SUFFICES ASSUME Init PROVE Kept /\ Service!Init
    OBVIOUS
  <1>1. Kept
    <2>1. writes = <<>> /\ \A t \in Threads : op[t].pc = "idle"
      BY Zenon DEF Init, IdleFrame
    <2> QED
      BY <2>1 DEF Kept, DataOK, WritesKept
  <1>2. Hashnames = {} /\ writes = <<>> /\ index = <<>>
    BY DEF Init, Hashnames
  <1>3. Service!Init
    BY <1>2 DEF Service!Init
  <1> QED
    BY <1>1, <1>3, Zenon

=============================================================================
