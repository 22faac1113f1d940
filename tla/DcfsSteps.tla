----------------------------- MODULE DcfsSteps ------------------------------
(*****************************************************************************)
(* What the steps of Dcfs do and leave alone: the facts that the proofs of the *)
(* layers of its inductive invariant share.                                  *)
(*****************************************************************************)
EXTENDS DcfsInvariant, TLAPS

\* The sequences of the state, their domains and their elements.
LEMMA TypeFacts ==
  ASSUME TypeOK
  PROVE  /\ Len(entries) \in Nat /\ DOMAIN entries = 1 .. Len(entries)
         /\ Len(files) \in Nat /\ DOMAIN files = 1 .. Len(files)
         /\ Len(inodes) \in Nat /\ DOMAIN inodes = 1 .. Len(inodes)
         /\ Len(index) \in Nat /\ Hashnames = 1 .. Len(index)
         /\ DOMAIN inode_table = Hashnames /\ DOMAIN versions = Hashnames
         /\ Len(inode_table) = Len(index) /\ Len(versions) = Len(index)
         /\ Len(writes) \in Nat
  BY DEF TypeOK, Hashnames

\* The types of the elements of the sequences.
LEMMA ElementTypes ==
  ASSUME TypeOK
  PROVE  /\ \A i \in DOMAIN entries : entries[i].name \in Names /\ entries[i].hash \in Nat
         /\ \A h \in DOMAIN files : files[h] \in Files
         /\ \A o \in DOMAIN inodes : inodes[o] \in Inodes
         /\ \A hash \in Hashnames : /\ inode_table[hash] \in 0 .. Len(inodes)
                                    /\ index[hash] \in Nat
                                    /\ versions[hash] \in Seq(SUBSET Nat)
  <1>1. \A i \in DOMAIN entries : entries[i] \in Entries
    BY DEF TypeOK
  <1>2. \A h \in DOMAIN files : files[h] \in Files
    BY DEF TypeOK
  <1>3. \A o \in DOMAIN inodes : inodes[o] \in Inodes
    BY DEF TypeOK
  <1>4. \A hash \in Hashnames : inode_table[hash] \in 0 .. Len(inodes)
    <2> DEFINE Pointers == 0 .. Len(inodes)
    <2>1. inode_table \in Seq(Pointers) /\ DOMAIN inode_table = Hashnames
      BY Zenon DEF TypeOK
    <2> HIDE DEF Pointers
    <2>2. \A hash \in Hashnames : inode_table[hash] \in Pointers
      BY <2>1
    <2> QED
      BY <2>2, Zenon DEF Pointers
  <1>5. \A hash \in Hashnames : index[hash] \in Nat
    <2>1. index \in Seq(Nat)
      BY Zenon DEF TypeOK
    <2> QED
      BY <2>1 DEF Hashnames
  <1>6. \A hash \in Hashnames : versions[hash] \in Seq(SUBSET Nat)
    <2>1. versions \in Seq(Seq(SUBSET Nat)) /\ DOMAIN versions = Hashnames
      BY Zenon DEF TypeOK
    <2> QED
      BY <2>1
  <1> QED
    BY <1>1, <1>2, <1>3, <1>4, <1>5, <1>6, Zenon DEF Entries

\* None is neither a hashname nor the name of an Inode.
LEMMA NoneFacts ==
  ASSUME TypeOK
  PROVE  /\ \A hash \in 0 .. Len(index) : hash # None <=> hash \in Hashnames
         /\ \A hash \in Hashnames : hash # None
         /\ \A hash \in Hashnames : inode_table[hash] # None => inode_table[hash] \in DOMAIN inodes
  <1>1. /\ Len(index) \in Nat /\ Hashnames = 1 .. Len(index)
        /\ Len(inodes) \in Nat /\ DOMAIN inodes = 1 .. Len(inodes)
    BY TypeFacts, Zenon
  <1>2. \A hash \in Hashnames : inode_table[hash] \in 0 .. Len(inodes)
    BY ElementTypes, Zenon
  <1>3. None = 0
    BY Zenon DEF None
  <1> QED
    BY <1>1, <1>2, <1>3

\* Only t's frame changes.
OthersStay(t) == \A u \in Threads : u # t => op'[u] = op[u]

\* An update of the label only, and the return from a handler.
LEMMA GotoUpdate ==
  ASSUME NEW t \in Threads, op \in [Threads -> Frames], NEW label \in PCs,
         Goto(t, label)
  PROVE  /\ op' \in [Threads -> Frames] /\ OthersStay(t)
         /\ op'[t] = [op[t] EXCEPT !.pc = label]
  BY DEF Goto, OthersStay, Frames

\* The frame of a thread after the return.
LEMMA ReturnUpdate ==
  ASSUME NEW t \in Threads, op \in [Threads -> Frames], Return(t)
  PROVE  /\ op' \in [Threads -> Frames] /\ OthersStay(t)
         /\ op'[t] = IdleFrame
  BY Zenon DEF Return, OthersStay, Frames, IdleFrame, PCs, None

\* A sequence with one more element.
LEMMA AppendFacts ==
  ASSUME NEW S, NEW s \in Seq(S), NEW e \in S
  PROVE  /\ Append(s, e) \in Seq(S)
         /\ Len(s) \in Nat /\ Len(Append(s, e)) = Len(s) + 1
         /\ DOMAIN s = 1 .. Len(s) /\ DOMAIN Append(s, e) = 1 .. Len(s) + 1
         /\ Append(s, e)[Len(s) + 1] = e
         /\ \A i \in DOMAIN s : Append(s, e)[i] = s[i]
         /\ \A i \in DOMAIN Append(s, e) :
              Append(s, e)[i] = e \/ (i \in DOMAIN s /\ Append(s, e)[i] = s[i])
  <1> DEFINE r == Append(s, e)
  <1>1. /\ r \in Seq(S) /\ Len(s) \in Nat /\ Len(r) = Len(s) + 1
        /\ DOMAIN s = 1 .. Len(s) /\ DOMAIN r = 1 .. Len(s) + 1
        /\ r[Len(s) + 1] = e /\ \A i \in DOMAIN s : r[i] = s[i]
    OBVIOUS
  <1> HIDE DEF r
  <1>2. ASSUME NEW i \in DOMAIN r PROVE r[i] = e \/ (i \in DOMAIN s /\ r[i] = s[i])
    <2> DEFINE n == Len(s)
    <2>2. n \in Nat /\ DOMAIN s = 1 .. n /\ i \in 1 .. n + 1
      BY <1>1, <1>2, Zenon
    <2> HIDE DEF n
    <2>3. i = n + 1 \/ i \in 1 .. n
      BY <2>2
    <2>1. i = Len(s) + 1 \/ i \in DOMAIN s
      BY <2>2, <2>3, Zenon DEF n
    <2> QED
      BY <1>1, <2>1, Zenon
  <1>3. /\ r \in Seq(S) /\ Len(s) \in Nat /\ Len(r) = Len(s) + 1
        /\ DOMAIN s = 1 .. Len(s) /\ DOMAIN r = 1 .. Len(s) + 1
        /\ r[Len(s) + 1] = e /\ \A i \in DOMAIN s : r[i] = s[i]
        /\ \A i \in DOMAIN r : r[i] = e \/ (i \in DOMAIN s /\ r[i] = s[i])
    BY <1>1, <1>2, Zenon
  <1> QED
    BY <1>3, Zenon DEF r

\* What a handler was called with never changes.
SameCall(t) ==
  op'[t].call = op[t].call /\ op'[t].name = op[t].name /\ op'[t].h = op[t].h

\* What Readdir does with an entry: the walk ends at an entry with the name, or
\* it goes on.
LEMMA EntryStep ==
  ASSUME Base, NEW t \in Threads, ReaddirEntry(t)
  PROVE  /\ op[t].pc = "entry" /\ it' \in 0 .. Len(entries) + 1
         /\ \/ op[t].call = "create" /\ Return(t)
            \/ /\ op[t].call # "create"
               /\ \E i \in DOMAIN entries :
                    /\ entries[i].name = op[t].name
                    /\ op' = [op EXCEPT ![t].pc = "get_inode", ![t].hash = entries[i].hash]
            \/ Goto(t, "readdir")
  <1>1. PICK i, j \in {op[t].tmp, it} :
          /\ i \in DOMAIN entries
          /\ it' \in {IF j \in DOMAIN entries THEN j + 1 ELSE Dangling}
                     \cup (IF MayHaveMoved(t) THEN {Dangling} ELSE {})
          /\ CASE entries[i].name = op[t].name /\ op[t].call = "create" -> Return(t)
               [] entries[i].name = op[t].name /\ op[t].call # "create" ->
                    op' = [op EXCEPT ![t].pc = "get_inode", ![t].hash = entries[i].hash]
               [] OTHER -> Goto(t, "readdir")
    BY Zenon DEF ReaddirEntry
  <1>2. it' \in 0 .. Len(entries) + 1
    <2>1. Len(entries) \in Nat /\ DOMAIN entries = 1 .. Len(entries)
      BY TypeFacts, Zenon DEF Base
    <2>2. it' = Dangling \/ (j \in DOMAIN entries /\ it' = j + 1)
      BY <1>1, Zenon
    <2> QED
      BY <2>1, <2>2 DEF Dangling
  <1>3. op[t].pc = "entry"
    BY Zenon DEF ReaddirEntry
  <1> QED
    BY <1>1, <1>2, <1>3, Zenon

\* A step of t changes no other frame, and t's handler goes on or returns.
LEMMA StepFrame ==
  ASSUME Base, NEW t \in Threads, Step(t)
  PROVE  /\ OthersStay(t) /\ (op'[t] = IdleFrame \/ SameCall(t))
         /\ op[t].pc # "idle" /\ mode' = mode
  <1>t. op \in [Threads -> Frames] /\ op[t] \in Frames
    BY Zenon DEF Base, TypeOK
  <1> DEFINE P == OthersStay(t) /\ (op'[t] = IdleFrame \/ SameCall(t))
  <1>r. ASSUME Return(t) PROVE P
    BY <1>r, <1>t, ReturnUpdate, Zenon
  <1>u. ASSUME UNCHANGED op PROVE P
    BY <1>u, Zenon DEF OthersStay, SameCall
  <1>g. ASSUME NEW label, Goto(t, label) PROVE P
    BY <1>g, <1>t, Zenon DEF Goto, OthersStay, SameCall, Frames
  <1>p. op[t].pc # "idle" /\ mode' = mode
    <2> USE DEF Die, At, UsePCs
    <2>1. CASE \/ GetInodeUnknown(t) \/ AllocateFails(t) \/ Read(t) \/ Write(t)
               \/ FdStore(t) \/ ReleaseInode(t)
      BY <2>1, Zenon DEF GetInodeUnknown, AllocateFails, Read, Write, FdStore, ReleaseInode
    <2>2. CASE \/ InitReaddir(t) \/ RefStore(t) \/ AddentPush(t) \/ AddentReset(t) \/ UnrefStore(t)
               \/ ModifyStale(t) \/ ModifyFails(t) \/ ModifyCommit(t) \/ FlushDrop(t)
      BY <2>2, Zenon DEF InitReaddir, RefStore, AddentPush, AddentReset, UnrefStore, ModifyStale,
         ModifyFails, ModifyCommit, FlushDrop
    <2>3. CASE ReaddirDangling(t) \/ UseFreed(t) \/ FdOutside(t) \/ UnrefAssert(t)
      BY <2>3, Zenon DEF ReaddirDangling, UseFreed, FdOutside, UnrefAssert
    <2>4. CASE \/ GetInodeHit(t) \/ GetInodeMiss(t) \/ LoadInode(t) \/ AllocateInode(t) \/ RefLoad(t)
               \/ FdLoad(t) \/ UnrefLoad(t) \/ FlushCollect(t) \/ ModifyStart(t)
      BY <2>4, Zenon DEF GetInodeHit, GetInodeMiss, LoadInode, AllocateInode, RefLoad, FdLoad,
         UnrefLoad, FlushCollect, ModifyStart
    <2>5. CASE \/ ReaddirCompare(t) \/ ReaddirEntry(t) \/ ReaddirEnd(t) \/ AllocateStart(t)
               \/ Recount(t)
      BY <2>5, Zenon DEF ReaddirCompare, ReaddirEntry, ReaddirEnd, AllocateStart, Recount
    <2> QED
      BY <2>1, <2>2, <2>3, <2>4, <2>5, Zenon DEF Step
  <1>1. ASSUME \/ GetInodeUnknown(t) \/ AllocateFails(t) \/ Read(t) \/ Write(t)
               \/ FdStore(t) \/ ReleaseInode(t)
        PROVE  P
    <2>1. Return(t)
      BY <1>1, Zenon DEF GetInodeUnknown, AllocateFails, Read, Write, FdStore, ReleaseInode
    <2> QED
      BY <2>1, <1>r, Zenon
  <1>2. ASSUME \/ InitReaddir(t) \/ RefStore(t) \/ AddentPush(t) \/ AddentReset(t) \/ UnrefStore(t)
               \/ ModifyStart(t) \/ ModifyStale(t) \/ ModifyFails(t) \/ ModifyCommit(t)
               \/ FlushDrop(t) \/ AllocateStart(t)
        PROVE  P
    <2>1. \E label : Goto(t, label)
      BY <1>2, Zenon DEF InitReaddir, RefStore, AddentPush, AddentReset, UnrefStore, ModifyStart,
         ModifyStale, ModifyFails, ModifyCommit, FlushDrop, AllocateStart
    <2> QED
      BY <2>1, <1>g, Zenon
  <1>3. ASSUME ReaddirDangling(t) \/ UseFreed(t) \/ FdOutside(t) \/ UnrefAssert(t) PROVE P
    <2>1. UNCHANGED op
      BY <1>3, Zenon DEF ReaddirDangling, UseFreed, FdOutside, UnrefAssert, Die
    <2> QED
      BY <2>1, <1>u, Zenon
  <1>4. ASSUME GetInodeHit(t) PROVE P
    BY <1>4, <1>t, Zenon DEF GetInodeHit, OthersStay, SameCall, Frames
  <1>5. ASSUME GetInodeMiss(t) PROVE P
    BY <1>5, <1>t, Zenon DEF GetInodeMiss, OthersStay, SameCall, Frames
  <1>6. ASSUME LoadInode(t) PROVE P
    BY <1>6, <1>t, Zenon DEF LoadInode, OthersStay, SameCall, Frames
  <1>7. ASSUME AllocateInode(t) PROVE P
    BY <1>7, <1>t, Zenon DEF AllocateInode, OthersStay, SameCall, Frames
  <1>8. ASSUME RefLoad(t) PROVE P
    BY <1>8, <1>t, Zenon DEF RefLoad, OthersStay, SameCall, Frames
  <1>9. ASSUME FdLoad(t) PROVE P
    BY <1>9, <1>t, Zenon DEF FdLoad, OthersStay, SameCall, Frames
  <1>10. ASSUME UnrefLoad(t) PROVE P
    BY <1>10, <1>t, Zenon DEF UnrefLoad, OthersStay, SameCall, Frames
  <1>11. ASSUME FlushCollect(t) PROVE P
    BY <1>11, <1>t, Zenon DEF FlushCollect, OthersStay, SameCall, Frames
  <1>12. ASSUME ReaddirCompare(t) PROVE P
    <2>1. ASSUME NEW label, NEW end,
                 op' = [op EXCEPT ![t].pc = label, ![t].tmp = it, ![t].end = end]
          PROVE  P
      BY <2>1, <1>t, Zenon DEF OthersStay, SameCall, Frames
    <2> QED
      BY <1>12, <2>1, Zenon DEF ReaddirCompare
  <1>13. ASSUME ReaddirEntry(t) PROVE P
    <2>1. ASSUME NEW i,
                 op' = [op EXCEPT ![t].pc = "get_inode", ![t].hash = entries[i].hash]
          PROVE  P
      BY <2>1, <1>t, Zenon DEF OthersStay, SameCall, Frames
    <2> HIDE DEF P
    <2> QED
      BY <2>1, <1>13, <1>r, <1>g, EntryStep, Zenon
  <1>14. ASSUME ReaddirEnd(t) \/ Recount(t) PROVE P
    <2>1. Return(t) \/ Goto(t, "allocate") \/ Goto(t, "release")
      BY <1>14, Zenon DEF ReaddirEnd, Recount
    <2> QED
      BY <2>1, <1>r, <1>g, Zenon
  <1> HIDE DEF P
  <1>q. P
    BY <1>1, <1>2, <1>3, <1>4, <1>5, <1>6, <1>7, <1>8, <1>9, <1>10, <1>11, <1>12,
       <1>13, <1>14, Zenon DEF Step
  <1> QED
    BY <1>p, <1>q, Zenon DEF P

\* Who changes the directory and the descriptors.
LEMMA StepDirectory ==
  ASSUME Base, NEW t \in Threads, Step(t)
  PROVE  /\ op[t].call \notin DirectoryCalls => UNCHANGED <<entries, it, fd_cnt, files>>
         /\ entries' = entries \/ AddentPush(t)
         /\ UNCHANGED <<fd_cnt, files>> \/ FdStore(t)
         /\ fd_table' = fd_table \/ FdStore(t) \/ ReleaseInode(t)
         /\ op[t].pc \notin {"init_readdir", "entry", "rewind", "push_back", "reset"} => it' = it
  <1> USE DEF directory, descriptors
  <1>t. LabelOK(op[t])
    BY Zenon DEF Base, FrameOK
  <1> DEFINE Q == /\ entries' = entries \/ AddentPush(t)
                  /\ UNCHANGED <<fd_cnt, files>> \/ FdStore(t)
                  /\ fd_table' = fd_table \/ FdStore(t) \/ ReleaseInode(t)
                  /\ op[t].pc \notin {"init_readdir", "entry", "rewind", "push_back", "reset"} => it' = it
  <1>1. ASSUME \/ InitReaddir(t) \/ ReaddirCompare(t) \/ ReaddirEntry(t) \/ ReaddirEnd(t)
               \/ ReaddirDangling(t)
        PROVE  Q
    BY <1>1, Zenon DEF InitReaddir, ReaddirCompare, ReaddirEntry, ReaddirEnd, ReaddirDangling, Die
  <1>2. ASSUME GetInodeHit(t) \/ GetInodeUnknown(t) \/ GetInodeMiss(t) \/ LoadInode(t)
        PROVE  Q
    BY <1>2, Zenon DEF GetInodeHit, GetInodeUnknown, GetInodeMiss, LoadInode
  <1>3. ASSUME \/ AllocateStart(t) \/ AllocateInode(t) \/ AllocateFails(t) \/ UseFreed(t)
               \/ Read(t) \/ Write(t)
        PROVE  Q
    BY <1>3, Zenon DEF AllocateStart, AllocateInode, AllocateFails, UseFreed, Read, Write, Die
  <1>4. ASSUME RefLoad(t) \/ RefStore(t) \/ AddentPush(t) \/ AddentReset(t)
        PROVE  Q
    <2>1. CASE AddentPush(t)
      BY <2>1, Zenon DEF AddentPush
    <2> QED
      BY <1>4, <2>1, Zenon DEF RefLoad, RefStore, AddentReset
  <1>5. ASSUME FdLoad(t) \/ FdStore(t) \/ FdOutside(t)
        PROVE  Q
    <2>1. CASE FdStore(t)
      BY <2>1, Zenon DEF FdStore
    <2> QED
      BY <1>5, <2>1, Zenon DEF FdLoad, FdOutside, Die
  <1>6. ASSUME UnrefLoad(t) \/ UnrefAssert(t) \/ UnrefStore(t) \/ FlushCollect(t)
        PROVE  Q
    BY <1>6, Zenon DEF UnrefLoad, UnrefAssert, UnrefStore, FlushCollect, Die
  <1>7. ASSUME ModifyStart(t) \/ ModifyStale(t) \/ ModifyFails(t) \/ ModifyCommit(t)
        PROVE  Q
    BY <1>7, Zenon DEF ModifyStart, ModifyStale, ModifyFails, ModifyCommit
  <1>8. ASSUME FlushDrop(t) \/ Recount(t) \/ ReleaseInode(t)
        PROVE  Q
    <2>1. CASE ReleaseInode(t)
      BY <2>1, Zenon DEF ReleaseInode, At
    <2> QED
      BY <1>8, <2>1, Zenon DEF FlushDrop, Recount
  <1>9. Q
    BY <1>1, <1>2, <1>3, <1>4, <1>5, <1>6, <1>7, <1>8, Zenon DEF Step
  <1>10. /\ AddentPush(t) => op[t].pc = "push_back" /\ it' \in {it, Dangling}
         /\ FdStore(t) => op[t].pc = "fd_store"
    BY Zenon DEF AddentPush, FdStore
  <1> QED
    BY <1>9, <1>10, <1>t, Zenon DEF LabelOK, DirectoryCalls

\* The directory and the kernel's files only grow.
LEMMA StepGrows ==
  ASSUME Base, NEW t \in Threads, Step(t)
  PROVE  /\ \A i \in DOMAIN entries : i \in DOMAIN entries' /\ entries'[i] = entries[i]
         /\ \A h \in DOMAIN files : h \in DOMAIN files' /\ files'[h] = files[h]
  <1>t. entries \in Seq(Entries) /\ files \in Seq(Files)
    BY Zenon DEF Base, TypeOK
  <1>1. ASSUME AddentPush(t)
        PROVE  \A i \in DOMAIN entries : i \in DOMAIN entries' /\ entries'[i] = entries[i]
    BY <1>1, <1>t DEF AddentPush
  <1>2. ASSUME FdStore(t)
        PROVE  \A h \in DOMAIN files : h \in DOMAIN files' /\ files'[h] = files[h]
    BY <1>2, <1>t DEF FdStore
  <1> QED
    BY <1>1, <1>2, StepDirectory, Zenon

\* A flush shares its file with no other thread that opens, closes or asks for
\* the size of one.
LEMMA FlushAlone ==
  ASSUME Base, Exclusive, NEW t \in Threads, NEW u \in Threads, t # u,
         LookupOK(t), LookupOK(u), op[t].pc \in InoPCs, op[u].pc \in InoPCs,
         op[t].call = "flush", op[u].call \notin {"read", "write"}
  PROVE  op[t].hash # op[u].hash
  <1>1. op[t].hash # None /\ op[u].hash # None /\ op[t].h \in DOMAIN files
    BY Zenon DEF Base, FrameOK, FileCalls
  <1>2. op[t].hash = files[op[t].h].hash
    BY <1>1, Zenon DEF LookupOK, FileCalls
  <1>3. ~ FlushConflict(op[t].h, op[u])
    BY Zenon DEF Exclusive
  <1>4. op[u].call \in {"getattr", "open", "create", "flush"}
    <2>1. LabelOK(op[u]) /\ op[u] \in Frames
      BY Zenon DEF Base, FrameOK, TypeOK
    <2> QED
      BY <2>1, Zenon DEF LabelOK, InoPCs, UsePCs, FlushPCs, Frames, DirectoryCalls, FileCalls
  <1>5. CASE op[u].call = "flush"
    <2>1. op[u].hash = files[op[u].h].hash
      BY <1>1, <1>5, Zenon DEF LookupOK, FileCalls
    <2> QED
      BY <1>2, <1>3, <1>5, <2>1, Zenon DEF FlushConflict
  <1>6. CASE op[u].call \in {"getattr", "open"}
    <2>1. IsNamed(op[u].name, op[u].hash)
      BY <1>1, <1>6, Zenon DEF LookupOK
    <2> QED
      BY <1>2, <1>3, <1>6, <2>1, Zenon DEF FlushConflict
  <1>7. CASE op[u].call = "create"
    BY <1>1, <1>2, <1>7, Zenon DEF LookupOK
  <1> QED
    BY <1>4, <1>5, <1>6, <1>7, Zenon

\* The frame after Goto.
LEMMA GotoFields ==
  ASSUME Base, NEW t \in Threads, NEW label, Goto(t, label)
  PROVE  /\ SameCall(t) /\ op'[t].pc = label /\ op'[t].hash = op[t].hash
         /\ op'[t].ino = op[t].ino /\ op'[t].tmp = op[t].tmp
         /\ op'[t].version = op[t].version /\ op'[t].data = op[t].data
  <1>1. op \in [Threads -> Frames] /\ op[t] \in Frames
    BY Zenon DEF Base, TypeOK
  <1> QED
    BY <1>1, Zenon DEF Goto, SameCall, Frames

\* The frame after a step that puts something into it.
LEMMA ReadFields ==
  ASSUME Base, NEW t \in Threads
  PROVE  /\ GetInodeHit(t) =>
              /\ SameCall(t) /\ op'[t].pc = "use" /\ op'[t].hash = op[t].hash
              /\ op'[t].ino = inode_table[op[t].hash]
         /\ GetInodeMiss(t) =>
              /\ SameCall(t) /\ op'[t].pc = "load" /\ op'[t].hash = op[t].hash
              /\ op'[t].version = index[op[t].hash]
         /\ LoadInode(t) =>
              /\ SameCall(t) /\ op'[t].pc = "use" /\ op'[t].hash = op[t].hash
              /\ op'[t].ino = Len(inodes) + 1
         /\ AllocateInode(t) =>
              /\ SameCall(t) /\ op'[t].pc = "use" /\ op'[t].hash = Len(index) + 1
              /\ op'[t].ino = Len(inodes) + 1
         /\ RefLoad(t) =>
              /\ SameCall(t) /\ op'[t].pc = "ref" /\ op'[t].hash = op[t].hash
              /\ op'[t].ino = op[t].ino /\ op'[t].tmp = inodes[op[t].ino].ref
         /\ FdLoad(t) =>
              /\ SameCall(t) /\ op'[t].pc = "fd_store" /\ op'[t].hash = op[t].hash
              /\ op'[t].ino = op[t].ino /\ op'[t].tmp = fd_cnt
         /\ UnrefLoad(t) =>
              /\ SameCall(t) /\ op'[t].pc = "unref" /\ op'[t].hash = op[t].hash
              /\ op'[t].ino = op[t].ino /\ op'[t].tmp = inodes[op[t].ino].ref
         /\ FlushCollect(t) =>
              /\ SameCall(t) /\ op'[t].hash = op[t].hash /\ op'[t].ino = op[t].ino
              /\ op'[t].pc = IF inodes[op[t].ino].dirty = {} THEN "drop" ELSE "modify"
              /\ op'[t].tmp = op[t].tmp /\ op'[t].version = inodes[op[t].ino].version
              /\ op'[t].data = inodes[op[t].ino].dirty
         /\ ModifyStart(t) =>
              /\ SameCall(t) /\ op'[t].pc = "commit" /\ op'[t].hash = op[t].hash
              /\ op'[t].ino = op[t].ino /\ op'[t].tmp = op[t].tmp
              /\ op'[t].data = op[t].data
         /\ ReaddirCompare(t) =>
              /\ SameCall(t) /\ op'[t].hash = op[t].hash /\ op'[t].tmp = it
              /\ op'[t].pc = IF it = Len(entries) + 1 THEN "rewind" ELSE "entry"
              /\ op'[t].end = Len(entries) + 1
  <1>t. op \in [Threads -> Frames] /\ op[t] \in Frames
    BY Zenon DEF Base, TypeOK
  <1> USE DEF SameCall, Frames, Inode
  <1>1. GetInodeHit(t) => /\ SameCall(t) /\ op'[t].pc = "use" /\ op'[t].hash = op[t].hash
                          /\ op'[t].ino = inode_table[op[t].hash]
    BY <1>t DEF GetInodeHit
  <1>2. GetInodeMiss(t) => /\ SameCall(t) /\ op'[t].pc = "load" /\ op'[t].hash = op[t].hash
                           /\ op'[t].version = index[op[t].hash]
    BY <1>t DEF GetInodeMiss
  <1>3. LoadInode(t) => /\ SameCall(t) /\ op'[t].pc = "use" /\ op'[t].hash = op[t].hash
                        /\ op'[t].ino = Len(inodes) + 1
    BY <1>t DEF LoadInode
  <1>4. AllocateInode(t) => /\ SameCall(t) /\ op'[t].pc = "use" /\ op'[t].hash = Len(index) + 1
                            /\ op'[t].ino = Len(inodes) + 1
    BY <1>t DEF AllocateInode
  <1>5. RefLoad(t) => /\ SameCall(t) /\ op'[t].pc = "ref" /\ op'[t].hash = op[t].hash
                      /\ op'[t].ino = op[t].ino /\ op'[t].tmp = inodes[op[t].ino].ref
    BY <1>t DEF RefLoad
  <1>6. FdLoad(t) => /\ SameCall(t) /\ op'[t].pc = "fd_store" /\ op'[t].hash = op[t].hash
                     /\ op'[t].ino = op[t].ino /\ op'[t].tmp = fd_cnt
    BY <1>t DEF FdLoad
  <1>7. UnrefLoad(t) => /\ SameCall(t) /\ op'[t].pc = "unref" /\ op'[t].hash = op[t].hash
                        /\ op'[t].ino = op[t].ino /\ op'[t].tmp = inodes[op[t].ino].ref
    BY <1>t DEF UnrefLoad
  <1>8. FlushCollect(t) =>
          /\ SameCall(t) /\ op'[t].hash = op[t].hash /\ op'[t].ino = op[t].ino
          /\ op'[t].pc = IF inodes[op[t].ino].dirty = {} THEN "drop" ELSE "modify"
          /\ op'[t].tmp = op[t].tmp /\ op'[t].version = inodes[op[t].ino].version
          /\ op'[t].data = inodes[op[t].ino].dirty
    <2> DEFINE i == inodes[op[t].ino]
               label == IF i.dirty = {} THEN "drop" ELSE "modify"
               g == [op[t] EXCEPT !.pc = label, !.version = i.version, !.data = i.dirty]
    <2>1. FlushCollect(t) => op'[t] = g
      BY <1>t, Zenon DEF FlushCollect
    <2>2. /\ g.call = op[t].call /\ g.name = op[t].name /\ g.h = op[t].h /\ g.hash = op[t].hash
          /\ g.ino = op[t].ino /\ g.tmp = op[t].tmp /\ g.pc = label /\ g.version = i.version
          /\ g.data = i.dirty
      BY <1>t, Zenon
    <2> HIDE DEF g
    <2> QED
      BY <2>1, <2>2, Zenon
  <1>9. ModifyStart(t) =>
          /\ SameCall(t) /\ op'[t].pc = "commit" /\ op'[t].hash = op[t].hash
          /\ op'[t].ino = op[t].ino /\ op'[t].tmp = op[t].tmp
          /\ op'[t].data = op[t].data
    BY GotoFields, Zenon DEF ModifyStart
  <1>10. ReaddirCompare(t) =>
           /\ SameCall(t) /\ op'[t].hash = op[t].hash /\ op'[t].tmp = it
           /\ op'[t].pc = IF it = Len(entries) + 1 THEN "rewind" ELSE "entry"
           /\ op'[t].end = Len(entries) + 1
    <2> DEFINE end == Len(entries) + 1
               label == IF it = end THEN "rewind" ELSE "entry"
               g == [op[t] EXCEPT !.pc = label, !.tmp = it, !.end = end]
    <2>1. ReaddirCompare(t) => op'[t] = g
      BY <1>t, Zenon DEF ReaddirCompare
    <2> HIDE DEF end, label
    <2>2. /\ g.call = op[t].call /\ g.name = op[t].name /\ g.h = op[t].h /\ g.hash = op[t].hash
          /\ g.tmp = it /\ g.pc = label /\ g.end = end
      BY <1>t, Zenon
    <2> HIDE DEF g
    <2> QED
      BY <2>1, <2>2, Zenon DEF label, end
  <1> HIDE DEF SameCall, Frames, Inode
  <1> QED
    BY <1>1, <1>2, <1>3, <1>4, <1>5, <1>6, <1>7, <1>8, <1>9, <1>10, Zenon

\* The steps that take or release inode_table_mutex over a wait.
Locks(t) ==
  \/ GetInodeMiss(t) \/ LoadInode(t)
  \/ AllocateStart(t) \/ AllocateInode(t) \/ AllocateFails(t)

\* Who changes the inode table, the Inodes and the versions.
LEMMA StepInodes ==
  ASSUME Base, NEW t \in Threads, Step(t)
  PROVE  /\ UNCHANGED <<inode_table, inodes, backend>> \/ LoadInode(t) \/ AllocateInode(t)
              \/ Write(t) \/ RefStore(t) \/ UnrefStore(t) \/ FlushDrop(t)
              \/ ModifyCommit(t) \/ ReleaseInode(t)
         /\ mutex' = mutex \/ Locks(t)
         /\ writes' = writes \/ Write(t)
  <1> DEFINE Q == /\ \/ UNCHANGED <<inode_table, inodes, backend>> \/ LoadInode(t) \/ AllocateInode(t)
                     \/ Write(t) \/ RefStore(t) \/ UnrefStore(t) \/ FlushDrop(t)
                     \/ ModifyCommit(t) \/ ReleaseInode(t)
                  /\ mutex' = mutex \/ Locks(t)
                  /\ writes' = writes \/ Write(t)
  <1> USE DEF table
  <1>1. ASSUME \/ InitReaddir(t) \/ ReaddirCompare(t) \/ ReaddirEntry(t) \/ ReaddirEnd(t)
               \/ ReaddirDangling(t)
        PROVE  Q
    BY <1>1, Zenon DEF InitReaddir, ReaddirCompare, ReaddirEntry, ReaddirEnd, ReaddirDangling, Die
  <1>2. ASSUME GetInodeHit(t) \/ GetInodeUnknown(t) \/ LoadInode(t) PROVE Q
    <2>1. CASE LoadInode(t)
      <3>1. writes' = writes
        BY <2>1, Zenon DEF LoadInode
      <3> QED
        BY <2>1, <3>1, Zenon DEF Locks
    <2> QED
      BY <1>2, <2>1, Zenon DEF GetInodeHit, GetInodeUnknown
  <1>3. ASSUME GetInodeMiss(t) \/ AllocateStart(t) \/ AllocateFails(t) PROVE Q
    <2>1. UNCHANGED <<inode_table, inodes, backend, writes>>
      BY <1>3, Zenon DEF GetInodeMiss, AllocateStart, AllocateFails
    <2> QED
      BY <1>3, <2>1, Zenon DEF Locks
  <1>4. ASSUME AllocateInode(t) PROVE Q
    <2>1. UNCHANGED writes
      BY <1>4, Zenon DEF AllocateInode
    <2> QED
      BY <1>4, <2>1, Zenon DEF Locks
  <1>5. ASSUME UseFreed(t) \/ Read(t) \/ FdOutside(t) \/ UnrefAssert(t) PROVE Q
    BY <1>5, Zenon DEF UseFreed, Read, FdOutside, UnrefAssert, Die
  <1>6. ASSUME Write(t) \/ RefStore(t) \/ UnrefStore(t) \/ FlushDrop(t) \/ ModifyCommit(t) \/ ReleaseInode(t)
        PROVE  Q
    <2>1. mutex' = mutex /\ (writes' = writes \/ Write(t))
      BY <1>6, Zenon DEF RefStore, UnrefStore, FlushDrop, ModifyCommit, ReleaseInode, Write
    <2> QED
      BY <1>6, <2>1, Zenon
  <1>7. ASSUME RefLoad(t) \/ AddentPush(t) \/ AddentReset(t) \/ FdLoad(t) \/ FdStore(t) PROVE Q
    BY <1>7, Zenon DEF RefLoad, AddentPush, AddentReset, FdLoad, FdStore
  <1>8. ASSUME UnrefLoad(t) \/ FlushCollect(t) \/ ModifyStart(t) \/ ModifyStale(t) \/ ModifyFails(t) \/ Recount(t)
        PROVE  Q
    BY <1>8, Zenon DEF UnrefLoad, FlushCollect, ModifyStart, ModifyStale, ModifyFails, Recount
  <1> HIDE DEF Q
  <1>9. Q
    BY <1>1, <1>2, <1>3, <1>4, <1>5, <1>6, <1>7, <1>8, Zenon DEF Step
  <1> QED
    BY <1>9, Zenon DEF Q

\* What a step leaves alone: the files other than the thread's own, and the
\* Inodes other than the one it uses.
InodesStay(t) ==
  /\ \A p \in Hashnames :
       /\ p \in Hashnames'
       /\ inode_table'[p] = inode_table[p]
            \/ (p = op[t].hash /\ op[t].pc \in {"load", "release"})
       /\ (index'[p] = index[p] /\ versions'[p] = versions[p])
            \/ (p = op[t].hash /\ op[t].pc = "commit")
  /\ \A o \in DOMAIN inodes :
       /\ o \in DOMAIN inodes'
       /\ inodes'[o].version = inodes[o].version
       /\ inodes'[o].ref = inodes[o].ref \/ (o = op[t].ino /\ op[t].pc \in {"ref", "unref"})
       /\ inodes'[o].dirty = inodes[o].dirty \/ (o = op[t].ino /\ op[t].pc \in {"use", "drop"})

\* The Inode that t uses after an update of one of its fields.
LEMMA InodeUpdate ==
  ASSUME Base, NEW t \in Threads, op[t].pc \in InoPCs
  PROVE  LET o == op[t].ino IN
         /\ o \in DOMAIN inodes /\ inodes[o] \in Inodes /\ inodes \in Seq(Inodes)
         /\ op[t].hash \in Hashnames /\ inodes[o].hash = op[t].hash /\ o # None
  <1>1. /\ op[t].ino \in DOMAIN inodes /\ inodes[op[t].ino].hash = op[t].hash
        /\ inodes \in Seq(Inodes)
    BY Zenon DEF Base, FrameOK, TypeOK
  <1>2. inodes[op[t].ino] \in Inodes /\ op[t].hash \in Hashnames
    BY <1>1, ElementTypes, Zenon DEF Base, ObjectsOK
  <1>3. op[t].ino # None
    BY <1>1, TypeFacts DEF Base, None
  <1> QED
    BY <1>1, <1>2, <1>3, Zenon

\* The effects of the steps that change Inodes and versions.
LEMMA InodeEffects ==
  ASSUME Base, NEW t \in Threads
  PROVE  LET o == op[t].ino
             new == Len(inodes) + 1
         IN
         /\ LoadInode(t) =>
              /\ inode_table'[op[t].hash] = new /\ new \notin DOMAIN inodes /\ new # None
              /\ inodes'[new] = NewInode(op[t].hash, op[t].version)
         /\ AllocateInode(t) =>
              /\ Hashnames' = Hashnames \cup {Len(index) + 1} /\ Len(index) + 1 \notin Hashnames
              /\ index'[Len(index) + 1] = None
              /\ inode_table'[Len(index) + 1] = new /\ new \notin DOMAIN inodes /\ new # None
              /\ inodes'[new] = NewInode(Len(index) + 1, None)
         /\ Write(t) => inodes'[o].dirty = inodes[o].dirty \cup {Len(writes) + 1}
         /\ RefStore(t) => inodes'[o].ref = op[t].tmp + 1
         /\ UnrefStore(t) => inodes'[o].ref = op[t].tmp - 1
         /\ FlushDrop(t) => inodes'[o].dirty = {}
         /\ ModifyCommit(t) =>
              /\ index'[op[t].hash] = index[op[t].hash] + 1
              /\ versions'[op[t].hash] = Append(versions[op[t].hash], op[t].data)
         /\ ReleaseInode(t) => inode_table'[op[t].hash] = None
  <1> DEFINE o == op[t].ino
             new == Len(inodes) + 1
             hash == Len(index) + 1
  <1>t. /\ inodes \in Seq(Inodes) /\ Len(inodes) \in Nat /\ DOMAIN inodes = 1 .. Len(inodes)
        /\ Len(index) \in Nat /\ Hashnames = 1 .. Len(index) /\ index \in Seq(Nat)
        /\ DOMAIN inode_table = Hashnames /\ DOMAIN versions = Hashnames
        /\ Len(inode_table) = Len(index)
    BY TypeFacts, Zenon DEF Base, TypeOK
  <1>s. inode_table \in Seq(0 .. Len(inodes))
    BY Zenon DEF Base, TypeOK
  <1>u. ASSUME op[t].pc \in InoPCs
        PROVE  o \in DOMAIN inodes /\ inodes[o] \in Inodes /\ op[t].hash \in Hashnames
    BY <1>u, InodeUpdate, Zenon
  <1>l. ASSUME op[t].pc = "load" PROVE op[t].hash \in Hashnames
    BY <1>l, <1>t DEF Base, FrameOK, None
  <1>n. new \notin DOMAIN inodes /\ new # None /\ new \in Nat
    BY <1>t DEF None
  <1>a. ASSUME NEW i, inodes' = Append(inodes, i) PROVE inodes'[new] = i
    BY <1>a, <1>t
  <1>1. ASSUME LoadInode(t)
        PROVE  /\ inode_table'[op[t].hash] = new
               /\ inodes'[new] = NewInode(op[t].hash, op[t].version)
    <2>1. op[t].hash \in DOMAIN inode_table
      BY <1>1, <1>l, <1>t, Zenon DEF LoadInode
    <2>2. /\ inode_table' = [inode_table EXCEPT ![op[t].hash] = new]
          /\ inodes' = Append(inodes, NewInode(op[t].hash, op[t].version))
      BY <1>1, Zenon DEF LoadInode
    <2> QED
      BY <1>a, <2>1, <2>2, Zenon
  <1>2. ASSUME AllocateInode(t)
        PROVE  /\ Hashnames' = Hashnames \cup {hash} /\ hash \notin Hashnames
               /\ index'[hash] = None /\ inode_table'[hash] = new
               /\ inodes'[new] = NewInode(hash, None)
    <2>1. /\ index' = Append(index, None) /\ inode_table' = Append(inode_table, new)
          /\ inodes' = Append(inodes, NewInode(hash, None))
      BY <1>2, Zenon DEF AllocateInode
    <2>2. Hashnames' = 1 .. hash /\ index'[hash] = None
      BY <2>1, <1>t DEF Hashnames, None
    <2>3. inode_table'[hash] = new
      BY <2>1, <1>t, <1>s
    <2>4. Hashnames' = Hashnames \cup {hash} /\ hash \notin Hashnames
      BY <2>2, <1>t
    <2> QED
      BY <2>1, <2>2, <2>3, <2>4, <1>a, Zenon
  <1>3. ASSUME Write(t) PROVE inodes'[o].dirty = inodes[o].dirty \cup {Len(writes) + 1}
    <2>1. op[t].pc \in InoPCs
      BY <1>3, Zenon DEF Write, At, InoPCs, UsePCs
    <2> QED
      BY <1>3, <1>u, <2>1, Zenon DEF Write, Inodes
  <1>4. ASSUME RefStore(t) PROVE inodes'[o].ref = op[t].tmp + 1
    <2>1. op[t].pc \in InoPCs
      BY <1>4, Zenon DEF RefStore, At, InoPCs, UsePCs
    <2> QED
      BY <1>4, <1>u, <2>1, Zenon DEF RefStore, Inodes
  <1>5. ASSUME UnrefStore(t) PROVE inodes'[o].ref = op[t].tmp - 1
    <2>1. op[t].pc \in InoPCs
      BY <1>5, Zenon DEF UnrefStore, At, InoPCs, UsePCs
    <2> QED
      BY <1>5, <1>u, <2>1, Zenon DEF UnrefStore, Inodes
  <1>6. ASSUME FlushDrop(t) PROVE inodes'[o].dirty = {}
    <2>1. op[t].pc \in InoPCs
      BY <1>6, Zenon DEF FlushDrop, At, InoPCs, UsePCs
    <2> QED
      BY <1>6, <1>u, <2>1, Zenon DEF FlushDrop, Inodes
  <1>7. ASSUME ModifyCommit(t)
        PROVE  /\ index'[op[t].hash] = index[op[t].hash] + 1
               /\ versions'[op[t].hash] = Append(versions[op[t].hash], op[t].data)
    <2>1. op[t].pc \in InoPCs
      BY <1>7, Zenon DEF ModifyCommit, InoPCs
    <2>2. op[t].hash \in Hashnames /\ index[op[t].hash] = Len(versions[op[t].hash])
      BY <1>u, <2>1, Zenon DEF Base, ObjectsOK
    <2> QED
      BY <1>7, <1>t, <2>2, Zenon DEF ModifyCommit, Hashnames
  <1>8. ASSUME ReleaseInode(t) PROVE inode_table'[op[t].hash] = None
    <2>1. op[t].pc \in InoPCs
      BY <1>8, Zenon DEF ReleaseInode, At, InoPCs, UsePCs
    <2>2. op[t].hash \in DOMAIN inode_table
      BY <1>u, <2>1, <1>t, Zenon
    <2> QED
      BY <1>8, <2>2, Zenon DEF ReleaseInode
  <1> HIDE DEF o, new, hash
  <1>9. /\ LoadInode(t) =>
             /\ inode_table'[op[t].hash] = new /\ new \notin DOMAIN inodes /\ new # None
             /\ inodes'[new] = NewInode(op[t].hash, op[t].version)
        /\ AllocateInode(t) =>
             /\ Hashnames' = Hashnames \cup {hash} /\ hash \notin Hashnames
             /\ index'[hash] = None
             /\ inode_table'[hash] = new /\ new \notin DOMAIN inodes /\ new # None
             /\ inodes'[new] = NewInode(hash, None)
        /\ Write(t) => inodes'[o].dirty = inodes[o].dirty \cup {Len(writes) + 1}
        /\ RefStore(t) => inodes'[o].ref = op[t].tmp + 1
        /\ UnrefStore(t) => inodes'[o].ref = op[t].tmp - 1
        /\ FlushDrop(t) => inodes'[o].dirty = {}
        /\ ModifyCommit(t) =>
             /\ index'[op[t].hash] = index[op[t].hash] + 1
             /\ versions'[op[t].hash] = Append(versions[op[t].hash], op[t].data)
        /\ ReleaseInode(t) => inode_table'[op[t].hash] = None
    BY <1>1, <1>2, <1>3, <1>4, <1>5, <1>6, <1>7, <1>8, <1>n, Zenon
  <1> QED
    BY <1>9, Zenon DEF o, new, hash

\* A step changes the table, index_ and an Inode only where InodesStay says.
LEMMA StepInodesStay ==
  ASSUME Base, NEW t \in Threads, Step(t)
  PROVE  InodesStay(t)
  <1>t. /\ inodes \in Seq(Inodes) /\ Len(inodes) \in Nat /\ DOMAIN inodes = 1 .. Len(inodes)
        /\ Len(index) \in Nat /\ Hashnames = 1 .. Len(index) /\ index \in Seq(Nat)
        /\ DOMAIN inode_table = Hashnames /\ DOMAIN versions = Hashnames
        /\ Len(inode_table) = Len(index) /\ Len(versions) = Len(index)
        /\ versions \in Seq(Seq(SUBSET Nat))
    BY TypeFacts, Zenon DEF Base, TypeOK
  <1>s. inode_table \in Seq(0 .. Len(inodes))
    BY Zenon DEF Base, TypeOK
  <1>1. CASE UNCHANGED <<inode_table, inodes, backend>>
    BY <1>1, Zenon DEF InodesStay, backend, Hashnames
  <1>2. CASE LoadInode(t)
    <2>1. /\ op[t].pc = "load" /\ \E i : inodes' = Append(inodes, i)
          /\ inode_table' = [inode_table EXCEPT ![op[t].hash] = Len(inodes) + 1]
          /\ index' = index /\ versions' = versions
      BY <1>2, Zenon DEF LoadInode, backend
    <2>2. \A o \in DOMAIN inodes : o \in DOMAIN inodes' /\ inodes'[o] = inodes[o]
      BY <2>1, <1>t
    <2>3. \A p \in Hashnames : p \in Hashnames' /\ (inode_table'[p] = inode_table[p] \/ p = op[t].hash)
      BY <2>1, <1>t, Zenon DEF Hashnames
    <2> QED
      BY <2>1, <2>2, <2>3, Zenon DEF InodesStay
  <1>3. CASE AllocateInode(t)
    <2>1. /\ \E i : inodes' = Append(inodes, i)
          /\ index' = Append(index, None) /\ versions' = Append(versions, <<>>)
          /\ inode_table' = Append(inode_table, Len(inodes) + 1)
      BY <1>3, Zenon DEF AllocateInode
    <2>2. \A o \in DOMAIN inodes : o \in DOMAIN inodes' /\ inodes'[o] = inodes[o]
      BY <2>1, <1>t
    <2>3. \A p \in Hashnames : p \in Hashnames' /\ index'[p] = index[p]
      BY <2>1, <1>t DEF Hashnames, None
    <2>4. \A p \in Hashnames : versions'[p] = versions[p]
      BY <2>1, <1>t
    <2>5. \A p \in Hashnames : inode_table'[p] = inode_table[p]
      BY <2>1, <1>t, <1>s
    <2> QED
      BY <2>2, <2>3, <2>4, <2>5, Zenon DEF InodesStay
  <1>4. CASE Write(t) \/ RefStore(t) \/ UnrefStore(t) \/ FlushDrop(t)
    <2> DEFINE o == op[t].ino
    <2>1. op[t].pc \in {"use", "ref", "unref", "drop"} /\ UNCHANGED <<inode_table, backend>>
      BY <1>4, Zenon DEF Write, RefStore, UnrefStore, FlushDrop, At, table
    <2>2. o \in DOMAIN inodes /\ inodes[o] \in Inodes
      BY <2>1, InodeUpdate, Zenon DEF InoPCs, UsePCs
    <2>3. /\ DOMAIN inodes' = DOMAIN inodes
          /\ \A p \in DOMAIN inodes : p # o => inodes'[p] = inodes[p]
      BY <1>4, <1>t, <2>2, Zenon DEF Write, RefStore, UnrefStore, FlushDrop
    <2>4. /\ inodes'[o].version = inodes[o].version
          /\ inodes'[o].ref = inodes[o].ref \/ op[t].pc \in {"ref", "unref"}
          /\ inodes'[o].dirty = inodes[o].dirty \/ op[t].pc \in {"use", "drop"}
      <3>1. CASE Write(t)
        BY <3>1, <1>t, <2>2, Zenon DEF Write, At, Inodes
      <3>2. CASE RefStore(t)
        BY <3>2, <1>t, <2>2, Zenon DEF RefStore, At, Inodes
      <3>3. CASE UnrefStore(t)
        BY <3>3, <1>t, <2>2, Zenon DEF UnrefStore, At, Inodes
      <3>4. CASE FlushDrop(t)
        BY <3>4, <1>t, <2>2, Zenon DEF FlushDrop, At, Inodes
      <3> QED
        BY <1>4, <3>1, <3>2, <3>3, <3>4, Zenon
    <2>5. index' = index /\ versions' = versions /\ inode_table' = inode_table
      BY <2>1, Zenon DEF backend
    <2> HIDE DEF o
    <2>6. \A p \in DOMAIN inodes :
            /\ p \in DOMAIN inodes' /\ inodes'[p].version = inodes[p].version
            /\ inodes'[p].ref = inodes[p].ref \/ (p = o /\ op[t].pc \in {"ref", "unref"})
            /\ inodes'[p].dirty = inodes[p].dirty \/ (p = o /\ op[t].pc \in {"use", "drop"})
      BY <2>3, <2>4, Zenon
    <2> QED
      BY <2>5, <2>6, Zenon DEF InodesStay, Hashnames, o
  <1>5. CASE ModifyCommit(t)
    <2>1. /\ op[t].pc = "commit" /\ UNCHANGED <<inode_table, inodes>> /\ Hashnames' = Hashnames
          /\ \A p \in Hashnames : p # op[t].hash => index'[p] = index[p] /\ versions'[p] = versions[p]
      BY <1>5, <1>t, Zenon DEF ModifyCommit, table, Hashnames
    <2> QED
      BY <2>1, Zenon DEF InodesStay
  <1>6. CASE ReleaseInode(t)
    <2>1. /\ op[t].pc = "release" /\ index' = index /\ versions' = versions
          /\ inode_table' = [inode_table EXCEPT ![op[t].hash] = None]
          /\ inodes' = [o \in DOMAIN inodes |->
                          IF o = inode_table[op[t].hash] THEN [inodes[o] EXCEPT !.live = FALSE]
                                                         ELSE inodes[o]]
      BY <1>6, Zenon DEF ReleaseInode, At, backend
    <2>2. \A o \in DOMAIN inodes : inodes[o] \in Inodes
      BY ElementTypes, Zenon DEF Base
    <2>3. \A o \in DOMAIN inodes :
            /\ o \in DOMAIN inodes' /\ inodes'[o].version = inodes[o].version
            /\ inodes'[o].ref = inodes[o].ref /\ inodes'[o].dirty = inodes[o].dirty
      BY <2>1, <2>2, Zenon DEF Inodes
    <2>4. \A p \in Hashnames : p # op[t].hash => inode_table'[p] = inode_table[p]
      BY <2>1, <1>t, Zenon
    <2> QED
      BY <2>1, <2>3, <2>4, Zenon DEF InodesStay, Hashnames
  <1> QED
    BY <1>1, <1>2, <1>3, <1>4, <1>5, <1>6, StepInodes, Zenon

\* The steps that lead to some of the labels, and the steps from some of them.
LEMMA StepEntry ==
  ASSUME Base, NEW t \in Threads, Step(t)
  PROVE  /\ op'[t].pc = "load" => GetInodeMiss(t)
         /\ op'[t].pc = "modify" => FlushCollect(t)
         /\ op'[t].pc = "commit" => ModifyStart(t)
         /\ op'[t].pc = "allocate" => ReaddirEnd(t)
  <1>t. op \in [Threads -> Frames] /\ op[t] \in Frames
    BY Zenon DEF Base, TypeOK
  <1> DEFINE Q == /\ op'[t].pc = "load" => GetInodeMiss(t)
                  /\ op'[t].pc = "modify" => FlushCollect(t)
                  /\ op'[t].pc = "commit" => ModifyStart(t)
                  /\ op'[t].pc = "allocate" => ReaddirEnd(t)
  <1>n. ASSUME op'[t].pc \notin {"load", "modify", "commit", "allocate"} PROVE Q
    BY <1>n, Zenon
  <1>r. ASSUME Return(t) PROVE Q
    <2>1. op'[t].pc = "idle"
      BY <1>r, <1>t, ReturnUpdate DEF IdleFrame
    <2> QED
      BY <2>1, Zenon
  <1> HIDE DEF Q
  <1>1. ASSUME \/ GetInodeUnknown(t) \/ AllocateFails(t) \/ Read(t) \/ Write(t)
               \/ FdStore(t) \/ ReleaseInode(t)
        PROVE  Q
    BY <1>1, <1>r, Zenon DEF GetInodeUnknown, AllocateFails, Read, Write, FdStore, ReleaseInode
  <1>2. ASSUME ReaddirDangling(t) \/ UseFreed(t) \/ FdOutside(t) \/ UnrefAssert(t)
        PROVE  Q
    BY <1>2, <1>n, Zenon DEF ReaddirDangling, UseFreed, UsePCs, FdOutside, UnrefAssert, At, Die
  <1>3. ASSUME \/ InitReaddir(t) \/ RefStore(t) \/ AddentPush(t) \/ AddentReset(t) \/ UnrefStore(t)
               \/ ModifyStale(t) \/ ModifyFails(t) \/ ModifyCommit(t) \/ FlushDrop(t)
               \/ AllocateStart(t)
        PROVE  Q
    <2>1. \E label \in {"readdir", "push_back", "reset", "fd", "collect", "recount", "drop",
                        "create_new"} : Goto(t, label)
      BY <1>3, Zenon DEF InitReaddir, RefStore, AddentPush, AddentReset, UnrefStore, ModifyStale,
         ModifyFails, ModifyCommit, FlushDrop, AllocateStart
    <2> QED
      BY <2>1, <1>n, GotoFields, Zenon
  <1>4. ASSUME \/ GetInodeHit(t) \/ LoadInode(t) \/ AllocateInode(t) \/ RefLoad(t)
               \/ FdLoad(t) \/ UnrefLoad(t) \/ ReaddirCompare(t)
        PROVE  Q
    BY <1>4, <1>n, ReadFields, Zenon
  <1>5. ASSUME GetInodeMiss(t) PROVE Q
    <2>1. op'[t].pc = "load"
      BY <1>5, ReadFields, Zenon
    <2> QED
      BY <1>5, <2>1, Zenon DEF Q
  <1>6. ASSUME FlushCollect(t) PROVE Q
    <2>1. op'[t].pc \in {"drop", "modify"}
      BY <1>6, ReadFields, Zenon
    <2> QED
      BY <1>6, <2>1, Zenon DEF Q
  <1>7. ASSUME ModifyStart(t) PROVE Q
    <2>1. op'[t].pc = "commit"
      BY <1>7, ReadFields, Zenon
    <2> QED
      BY <1>7, <2>1, Zenon DEF Q
  <1>8. ASSUME ReaddirEnd(t) PROVE Q
    <2>1. Return(t) \/ Goto(t, "allocate")
      BY <1>8, Zenon DEF ReaddirEnd
    <2>2. op'[t].pc \in {"idle", "allocate"}
      BY <2>1, <1>t, ReturnUpdate, GotoFields DEF IdleFrame
    <2> QED
      BY <1>8, <2>2, Zenon DEF Q
  <1>9. ASSUME Recount(t) PROVE Q
    <2>1. Return(t) \/ Goto(t, "release")
      BY <1>9, Zenon DEF Recount
    <2> QED
      BY <2>1, <1>r, <1>n, GotoFields
  <1>10. ASSUME ReaddirEntry(t) PROVE Q
    <2>1. ASSUME NEW i,
                 op' = [op EXCEPT ![t].pc = "get_inode", ![t].hash = entries[i].hash]
          PROVE  Q
      <3>1. op'[t].pc = "get_inode"
        BY <2>1, <1>t, Zenon DEF Frames
      <3> QED
        BY <3>1, <1>n, Zenon
    <2>2. CASE Goto(t, "readdir")
      <3>1. op'[t].pc = "readdir"
        BY <2>2, GotoFields, Zenon
      <3> QED
        BY <3>1, <1>n, Zenon
    <2> QED
      BY <1>10, <1>r, <2>1, <2>2, EntryStep, Zenon
  <1>11. Q
    BY <1>1, <1>2, <1>3, <1>4, <1>5, <1>6, <1>7, <1>8, <1>9, <1>10, Zenon DEF Step
  <1> QED
    BY <1>11, Zenon DEF Q

\* Files come only from allocate_inode.
LEMMA StepHashnames ==
  ASSUME Base, NEW t \in Threads, Step(t)
  PROVE  Hashnames' = Hashnames \/ AllocateInode(t)
  <1>1. CASE UNCHANGED <<inode_table, inodes, backend>>
    BY <1>1, Zenon DEF backend, Hashnames
  <1>2. CASE \/ LoadInode(t) \/ Write(t) \/ RefStore(t) \/ UnrefStore(t) \/ FlushDrop(t)
             \/ ReleaseInode(t)
    BY <1>2, Zenon DEF LoadInode, Write, RefStore, UnrefStore, FlushDrop, ReleaseInode, backend, Hashnames
  <1>3. CASE ModifyCommit(t)
    BY <1>3, Zenon DEF ModifyCommit, Hashnames
  <1> QED
    BY <1>1, <1>2, <1>3, StepInodes, Zenon

\* A call changes nothing but the caller's frame and the number of descriptors
\* of the file that it closes.
CallStays ==
  /\ UNCHANGED <<mode, directory, fd_cnt, fd_table, table, inodes, backend, writes, fault>>
  /\ Len(files') = Len(files) /\ DOMAIN files' = DOMAIN files
  /\ \A h \in DOMAIN files : files'[h].hash = files[h].hash /\ files'[h].fd = files[h].fd

\* A change of the number of descriptors of one open file.
LEMMA DescsUpdate ==
  ASSUME Base, NEW h \in DOMAIN files, NEW d,
         files' = [files EXCEPT ![h].descs = d]
  PROVE  /\ Len(files') = Len(files) /\ DOMAIN files' = DOMAIN files
         /\ \A k \in DOMAIN files : files'[k].hash = files[k].hash /\ files'[k].fd = files[k].fd
         /\ files'[h].descs = d
         /\ \A k \in DOMAIN files : k # h => files'[k] = files[k]
  <1>1. files \in Seq(Files) /\ files[h] \in Files
    BY ElementTypes, Zenon DEF Base, TypeOK
  <1> DEFINE k == [files[h] EXCEPT !.descs = d]
  <1>2. files' = [files EXCEPT ![h] = k]
    OBVIOUS
  <1>3. k.hash = files[h].hash /\ k.fd = files[h].fd /\ k.descs = d
    BY <1>1, Zenon DEF Files
  <1> HIDE DEF k
  <1> QED
    BY <1>1, <1>2, <1>3

\* What a call by name changes.
LEMMA CallDirectoryEffect ==
  ASSUME Base, NEW t \in Threads, NEW c \in DirectoryCalls, NEW n, CallDirectory(t, c, n)
  PROVE  /\ OthersStay(t) /\ CallStays /\ files' = files /\ MayCall(t, c, n, 0)
         /\ op'[t].call = c /\ op'[t].name = n /\ op'[t].h = 0 /\ op'[t].hash = None
         /\ op'[t].pc = "init_readdir"
  <1>1. op \in [Threads -> Frames] /\ op' = [op EXCEPT ![t] =
          [IdleFrame EXCEPT !.call = c, !.pc = "init_readdir", !.name = n]]
    BY Zenon DEF CallDirectory, Base, TypeOK
  <1>2. /\ OthersStay(t) /\ op'[t].call = c /\ op'[t].name = n /\ op'[t].h = 0
        /\ op'[t].hash = None /\ op'[t].pc = "init_readdir"
    BY <1>1, Zenon DEF OthersStay, IdleFrame
  <1> QED
    BY <1>2, Zenon DEF CallDirectory, CallStays, descriptors

\* What a call on an open file changes.
LEMMA CallFileEffect ==
  ASSUME Base, NEW t \in Threads, NEW c \in FileCalls, NEW h \in DOMAIN files, CallFile(t, c, h)
  PROVE  /\ OthersStay(t) /\ CallStays /\ MayCall(t, c, NoName, h)
         /\ op'[t].call = c /\ op'[t].name = NoName /\ op'[t].h = h
         /\ op'[t].hash = fd_table[files[h].fd] /\ op'[t].pc = "get_inode"
         /\ files[h].descs > 0
         /\ files'[h].descs = IF c = "flush" THEN files[h].descs - 1 ELSE files[h].descs
         /\ \A k \in DOMAIN files : k # h => files'[k] = files[k]
  <1>1. op \in [Threads -> Frames] /\ op' = [op EXCEPT ![t] =
          [IdleFrame EXCEPT !.call = c, !.pc = "get_inode", !.h = h, !.hash = fd_table[files[h].fd]]]
    BY Zenon DEF CallFile, Base, TypeOK
  <1>2. /\ OthersStay(t) /\ op'[t].call = c /\ op'[t].name = NoName /\ op'[t].h = h
        /\ op'[t].hash = fd_table[files[h].fd] /\ op'[t].pc = "get_inode"
    BY <1>1, Zenon DEF OthersStay, IdleFrame
  <1> DEFINE d == IF c = "flush" THEN files[h].descs - 1 ELSE files[h].descs
  <1>3. files' = [files EXCEPT ![h].descs = d]
    BY Zenon DEF CallFile
  <1> HIDE DEF d
  <1>4. /\ Len(files') = Len(files) /\ DOMAIN files' = DOMAIN files
        /\ \A k \in DOMAIN files : files'[k].hash = files[k].hash /\ files'[k].fd = files[k].fd
        /\ files'[h].descs = d
        /\ \A k \in DOMAIN files : k # h => files'[k] = files[k]
    BY <1>3, DescsUpdate, Zenon
  <1>5. /\ UNCHANGED <<mode, directory, fd_cnt, fd_table, table, inodes, backend, writes, fault>>
        /\ files[h].descs > 0 /\ MayCall(t, c, NoName, h)
    BY Zenon DEF CallFile
  <1> QED
    BY <1>2, <1>4, <1>5, Zenon DEF CallStays, d

\* What dup and fork change.
LEMMA DupEffect ==
  ASSUME Base, NEW h \in DOMAIN files, Dup(h)
  PROVE  CallStays /\ op' = op /\ mode.dup
  <1>1. files' = [files EXCEPT ![h].descs = files[h].descs + 1]
    BY Zenon DEF Dup
  <1>2. /\ Len(files') = Len(files) /\ DOMAIN files' = DOMAIN files
        /\ \A k \in DOMAIN files : files'[k].hash = files[k].hash /\ files'[k].fd = files[k].fd
    BY <1>1, DescsUpdate, Zenon
  <1> QED
    BY <1>2, Zenon DEF Dup, CallStays

\* The other changes of the frame of a handler that has an open file, the
\* steps that lead to the use of an Inode, and the steps that end the process.
LEMMA StepUse ==
  ASSUME Base, NEW t \in Threads, Step(t)
  PROVE  /\ op[t].call \in FileCalls => op'[t] = IdleFrame \/ op'[t].hash = op[t].hash
         /\ op'[t].pc = "use" =>
              \/ UNCHANGED <<op, inode_table>>
              \/ GetInodeHit(t) \/ LoadInode(t) \/ AllocateInode(t)
         /\ \/ fault' = "none" \/ ReaddirDangling(t) \/ UseFreed(t) \/ FdOutside(t)
            \/ UnrefAssert(t)
  <1>t. op \in [Threads -> Frames] /\ op[t] \in Frames /\ LabelOK(op[t]) /\ fault = "none"
    BY Zenon DEF Base, TypeOK, FrameOK, Step
  <1> DEFINE D == ReaddirDangling(t) \/ UseFreed(t) \/ FdOutside(t) \/ UnrefAssert(t)
             Q == /\ op[t].call \in FileCalls => op'[t] = IdleFrame \/ op'[t].hash = op[t].hash
                  /\ op'[t].pc = "use" =>
                       \/ UNCHANGED <<op, inode_table>>
                       \/ GetInodeHit(t) \/ LoadInode(t) \/ AllocateInode(t)
                  /\ fault' = "none" \/ D
  <1>r. ASSUME Return(t) PROVE op'[t] = IdleFrame /\ op'[t].pc # "use"
    <2>1. op'[t] = IdleFrame
      BY <1>r, <1>t, ReturnUpdate, Zenon
    <2> QED
      BY <2>1 DEF IdleFrame
  <1>1. ASSUME GetInodeUnknown(t) \/ AllocateFails(t) \/ Read(t) \/ Write(t) \/ FdStore(t) \/ ReleaseInode(t)
        PROVE  Q
    <2>1. Return(t) /\ fault' = fault
      BY <1>1, Zenon DEF GetInodeUnknown, AllocateFails, Read, Write, FdStore, ReleaseInode
    <2> QED
      BY <2>1, <1>t, <1>r, Zenon
  <1>2. ASSUME ReaddirDangling(t) \/ UseFreed(t) \/ FdOutside(t) \/ UnrefAssert(t) PROVE Q
    <2>1. UNCHANGED <<op, inode_table>>
      BY <1>2, Zenon DEF ReaddirDangling, UseFreed, FdOutside, UnrefAssert, Die, table
    <2> QED
      BY <1>2, <2>1, Zenon
  <1>3. ASSUME \/ InitReaddir(t) \/ ReaddirEnd(t) \/ RefStore(t) \/ AddentPush(t) \/ AddentReset(t)
               \/ UnrefStore(t) \/ ModifyStale(t) \/ ModifyFails(t) \/ ModifyCommit(t)
               \/ FlushDrop(t) \/ Recount(t) \/ AllocateStart(t)
        PROVE  Q
    <2>1. /\ fault' = fault
          /\ \/ Return(t)
             \/ \E label \in {"readdir", "allocate", "push_back", "fd", "reset", "collect",
                              "recount", "drop", "release", "create_new"} : Goto(t, label)
      BY <1>3, Zenon DEF InitReaddir, ReaddirEnd, RefStore, AddentPush, AddentReset, UnrefStore, ModifyStale,
         ModifyFails, ModifyCommit, FlushDrop, Recount, AllocateStart
    <2>2. CASE Return(t)
      BY <2>1, <2>2, <1>t, <1>r, Zenon
    <2>3. ASSUME NEW label \in {"readdir", "allocate", "push_back", "fd", "reset", "collect",
                                "recount", "drop", "release", "create_new"}, Goto(t, label)
          PROVE  Q
      BY <2>1, <2>3, <1>t, GotoFields, Zenon
    <2> QED
      BY <2>1, <2>2, <2>3, Zenon
  <1>4. ASSUME ReaddirEntry(t) PROVE Q
    <2>1. op[t].pc = "entry" /\ op[t].call \notin FileCalls /\ fault' = fault
      BY <1>4, <1>t, Zenon DEF ReaddirEntry, LabelOK, DirectoryCalls, FileCalls
    <2>2. op'[t].pc # "use"
      <3>1. ASSUME NEW i,
                   op' = [op EXCEPT ![t].pc = "get_inode", ![t].hash = entries[i].hash]
            PROVE  op'[t].pc # "use"
        BY <3>1, <1>t, Zenon DEF Frames
      <3>2. ASSUME Goto(t, "readdir") PROVE op'[t].pc # "use"
        <4>1. op'[t].pc = "readdir"
          BY <3>2, GotoFields, Zenon
        <4> QED
          BY <4>1, Zenon
      <3> QED
        BY <1>4, <1>r, <3>1, <3>2, EntryStep, Zenon
    <2> QED
      BY <2>1, <2>2, <1>t, Zenon
  <1>5. ASSUME GetInodeHit(t) \/ LoadInode(t) \/ AllocateInode(t) PROVE Q
    <2>1. fault' = fault
      BY <1>5, Zenon DEF GetInodeHit, LoadInode, AllocateInode
    <2>2. op[t].call \in FileCalls => op'[t].hash = op[t].hash
      <3>1. CASE GetInodeHit(t) \/ LoadInode(t)
        BY <3>1, ReadFields, Zenon
      <3>2. CASE AllocateInode(t)
        BY <3>2, <1>t, Zenon DEF AllocateInode, LabelOK, FileCalls
      <3> QED
        BY <1>5, <3>1, <3>2, Zenon
    <2> QED
      BY <1>5, <2>1, <2>2, <1>t, Zenon
  <1>6. ASSUME \/ GetInodeMiss(t) \/ RefLoad(t) \/ FdLoad(t) \/ UnrefLoad(t) \/ FlushCollect(t)
               \/ ModifyStart(t) \/ ReaddirCompare(t)
        PROVE  Q
    <2>1. fault' = fault
      BY <1>6, Zenon DEF GetInodeMiss, RefLoad, FdLoad, UnrefLoad, FlushCollect, ModifyStart, ReaddirCompare
    <2>2. op'[t].hash = op[t].hash /\ op'[t].pc # "use"
      BY <1>6, ReadFields, Zenon
    <2> QED
      BY <2>1, <2>2, <1>t, Zenon
  <1> HIDE DEF Q
  <1>7. Q
    BY <1>1, <1>2, <1>3, <1>4, <1>5, <1>6, Zenon DEF Step
  <1> QED
    BY <1>7, Zenon DEF Q

\* RefStore and UnrefStore change the count of their file, and no other step
\* changes a count.
LEMMA CountStep ==
  ASSUME Base, NEW t \in Threads, Step(t), AttachedOK(t), NEW p \in Hashnames
  PROVE  /\ p = op[t].hash /\ RefStore(t) => RefCount(p)' = RefCount(p) + 1
         /\ p = op[t].hash /\ UnrefStore(t) => RefCount(p)' = RefCount(p) - 1
         /\ ~ (p = op[t].hash /\ (RefStore(t) \/ UnrefStore(t))) => RefCount(p)' = RefCount(p)
  <1> DEFINE o == inode_table[p]
  <1>t. InodesStay(t) /\ LabelOK(op[t])
    BY StepInodesStay, Zenon DEF Base, FrameOK
  <1>1. o # None => o \in DOMAIN inodes /\ inodes[o].hash = p /\ inodes[o].live
    BY ElementTypes, TypeFacts DEF Base, OneInode, None
  <1>2. ASSUME RefStore(t) \/ UnrefStore(t)
        PROVE  /\ op[t].pc \in {"ref", "unref"} /\ op[t].pc \in InoPCs
               /\ op[t].call \notin {"read", "write"}
    BY <1>2, <1>t, Zenon DEF RefStore, UnrefStore, At, InoPCs, UsePCs, FlushPCs, LabelOK
  <1>3. ASSUME p = op[t].hash, RefStore(t) \/ UnrefStore(t)
        PROVE  /\ o = op[t].ino /\ o # None /\ inode_table'[p] = o
               /\ op[t].tmp = inodes[o].ref
    <2>1. o = op[t].ino /\ op[t].tmp = inodes[o].ref
      BY <1>2, <1>3, Zenon DEF AttachedOK
    <2>2. op[t].ino # None
      BY <1>2, <1>3, InodeUpdate, Zenon
    <2> QED
      BY <1>2, <1>3, <1>t, <2>1, <2>2, Zenon DEF InodesStay
  <1>4. p = op[t].hash /\ RefStore(t) => RefCount(p)' = RefCount(p) + 1
    BY <1>3, InodeEffects, Zenon DEF RefCount
  <1>5. p = op[t].hash /\ UnrefStore(t) => RefCount(p)' = RefCount(p) - 1
    BY <1>3, InodeEffects, Zenon DEF RefCount
  <1>6. ASSUME ~ (p = op[t].hash /\ (RefStore(t) \/ UnrefStore(t))) PROVE RefCount(p)' = RefCount(p)
    <2>1. CASE UNCHANGED <<inode_table, inodes>>
      BY <2>1, Zenon DEF RefCount
    <2>2. CASE /\ inode_table'[p] = inode_table[p]
               /\ o = op[t].ino => op[t].pc \notin {"ref", "unref"}
      BY <2>2, <1>1, <1>t DEF RefCount, InodesStay
    <2>3. CASE RefStore(t) \/ UnrefStore(t)
      <3>1. p # op[t].hash /\ inodes[op[t].ino].hash = op[t].hash
        BY <1>6, <2>3, <1>2, InodeUpdate, Zenon
      <3>2. op[t].ino # None
        BY <1>2, <2>3, InodeUpdate, Zenon
      <3>3. o # op[t].ino /\ inode_table'[p] = inode_table[p]
        BY <3>1, <3>2, <1>1, <1>2, <2>3, <1>t, Zenon DEF InodesStay
      <3> QED
        BY <3>3, <2>2, Zenon
    <2>4. CASE AllocateInode(t) \/ Write(t) \/ FlushDrop(t) \/ ModifyCommit(t)
      <3>1. op[t].pc \in {"create_new", "use", "drop", "commit"}
        BY <2>4, Zenon DEF AllocateInode, Write, FlushDrop, ModifyCommit, At
      <3> QED
        BY <3>1, <2>2, <1>t, Zenon DEF InodesStay
    <2>5. CASE LoadInode(t)
      <3>1. op[t].pc = "load"
        BY <2>5, Zenon DEF LoadInode
      <3>2. CASE p # op[t].hash
        BY <3>1, <3>2, <2>2, <1>t, Zenon DEF InodesStay
      <3>3. CASE p = op[t].hash
        <4>1. inode_table[p] = None
          BY <3>1, <3>3, Zenon DEF Base, MutexOK, LockPCs
        <4>2. /\ inode_table'[p] = Len(inodes) + 1 /\ Len(inodes) + 1 # None
              /\ inodes'[Len(inodes) + 1] = NewInode(op[t].hash, op[t].version)
          BY <2>5, <3>3, InodeEffects, Zenon
        <4> QED
          BY <4>1, <4>2 DEF RefCount, NewInode
      <3> QED
        BY <3>2, <3>3, Zenon
    <2>6. CASE ReleaseInode(t)
      <3>1. op[t].pc = "release"
        BY <2>6, Zenon DEF ReleaseInode, At
      <3>2. CASE p # op[t].hash
        BY <3>1, <3>2, <2>2, <1>t, Zenon DEF InodesStay
      <3>3. CASE p = op[t].hash
        <4>1. op[t].call = "flush" /\ op[t].pc \in InoPCs
          BY <3>1, <1>t, Zenon DEF LabelOK, FlushPCs, InoPCs, UsePCs
        <4>2. o = op[t].ino /\ inodes[o].ref + 1 = 1
          BY <3>1, <3>3, <4>1, Zenon DEF AttachedOK
        <4>3. inodes[o] \in Inodes
          BY <4>1, <4>2, InodeUpdate, Zenon
        <4>4. inodes[o].ref = 0
          BY <4>2, <4>3 DEF Inodes
        <4>5. inode_table'[p] = None
          BY <2>6, <3>3, InodeEffects, Zenon
        <4> QED
          BY <4>4, <4>5, Zenon DEF RefCount
      <3> QED
        BY <3>2, <3>3, Zenon
    <2> QED
      BY <2>1, <2>3, <2>4, <2>5, <2>6, StepInodes, Zenon
  <1> QED
    BY <1>4, <1>5, <1>6, Zenon

Openers(hash) == Cardinality(Holders(hash)) + Cardinality(Movers(hash))

\* Every open file has one descriptor, and it leads to the file's own
\* hashname.
FilesOK ==
  \A h \in DOMAIN files :
    /\ files[h].descs <= 1
    /\ files[h].descs > 0 => fd_table[files[h].fd] = files[h].hash

\* A file has a count exactly if it is open or a call has a reference to it.
Opened ==
  \A p \in Hashnames : RefCount(p) > 0 <=> Holders(p) # {} \/ Movers(p) # {}

\* The state between calls and in them when every open file is closed once.
Sound ==
  /\ Base /\ Exclusive /\ FdOK /\ FilesOK
  /\ \A t \in Threads : LookupOK(t) /\ AttachedOK(t) /\ OpenOK(t)
  /\ \A p \in Hashnames : RefCount(p) = Openers(p)
  /\ Opened

\* A file that is open, or that a call has a reference to, is in memory.
LEMMA OpenCounted ==
  ASSUME Sound
  PROVE  /\ \A h \in DOMAIN files : files[h].descs > 0 => RefCount(files[h].hash) > 0
         /\ \A t \in Threads : op[t].hash \in Hashnames /\ HasReference(t) => RefCount(op[t].hash) > 0
  <1>1. ASSUME NEW h \in DOMAIN files, files[h].descs > 0 PROVE RefCount(files[h].hash) > 0
    <2>1. h \in Holders(files[h].hash) /\ files[h].hash \in Hashnames
      BY <1>1, Zenon DEF Holders, Sound, Base, ObjectsOK
    <2> QED
      BY <2>1, Zenon DEF Sound, Opened
  <1>2. ASSUME NEW t \in Threads, op[t].hash \in Hashnames, HasReference(t)
        PROVE  RefCount(op[t].hash) > 0
    <2>1. t \in Movers(op[t].hash)
      BY <1>2, Zenon DEF Movers
    <2> QED
      BY <1>2, <2>1, Zenon DEF Sound, Opened
  <1> QED
    BY <1>1, <1>2, Zenon

\* A call leaves the counts alone.
LEMMA CallCounts ==
  ASSUME CallStays
  PROVE  Hashnames' = Hashnames /\ \A p : RefCount(p)' = RefCount(p)
  BY Zenon DEF CallStays, RefCount, table, backend, Hashnames

\* Counted in terms of the facts above.
LEMMA CountedMeans ==
  Counted <=> (Regular => /\ FilesOK /\ \A t \in Threads : OpenOK(t)
                          /\ \A p \in Hashnames : RefCount(p) = Openers(p)
                          /\ \/ fault = "none"
                             \/ fault = "fd_table" /\ Len(files) = FdTableMax - FirstFd)
  BY Zenon DEF Counted, FilesOK, ReferencesCounted, FaultFree, RefCount, Openers

=============================================================================
