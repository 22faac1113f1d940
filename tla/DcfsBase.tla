------------------------------ MODULE DcfsBase ------------------------------
(*****************************************************************************)
(* What holds in every usage of Dcfs: Base is inductive.                     *)
(*****************************************************************************)
EXTENDS DcfsSteps

\* Nothing that a frame refers to goes away or changes its file.
Grows ==
  /\ Len(index) <= Len(index') /\ Len(inodes) <= Len(inodes')
  /\ Len(files) <= Len(files')
  /\ \A o \in DOMAIN inodes : inodes'[o].hash = inodes[o].hash

\* The frames of the other threads stay sound when t takes a step.
LEMMA OtherFrames ==
  ASSUME TypeOK, TypeOK', NEW t \in Threads, NEW u \in Threads, u # t,
         OthersStay(t), Grows, FrameOK(u)
  PROVE  FrameOK(u)'
  <1>1. op'[u] = op[u]
    BY Zenon DEF OthersStay
  <1>2. /\ DOMAIN files \subseteq DOMAIN files' /\ DOMAIN inodes \subseteq DOMAIN inodes'
        /\ Len(index) \in Nat /\ Len(index') \in Nat
    <2>1. /\ Len(files) \in Nat /\ DOMAIN files = 1 .. Len(files)
          /\ Len(inodes) \in Nat /\ DOMAIN inodes = 1 .. Len(inodes)
          /\ Len(index) \in Nat
      BY TypeFacts, Zenon
    <2>2. /\ files' \in Seq(Files) /\ inodes' \in Seq(Inodes) /\ index' \in Seq(Nat)
      BY Zenon DEF TypeOK
    <2>3. /\ Len(files') \in Nat /\ DOMAIN files' = 1 .. Len(files')
          /\ Len(inodes') \in Nat /\ DOMAIN inodes' = 1 .. Len(inodes')
          /\ Len(index') \in Nat
      BY <2>2
    <2>4. Len(files) <= Len(files') /\ Len(inodes) <= Len(inodes')
      BY Zenon DEF Grows
    <2> QED
      BY <2>1, <2>3, <2>4
  <1> QED
    BY <1>1, <1>2 DEF FrameOK, Grows

\* Steps that change a frame and, at most, the iterator and the fault.
LEMMA LocalStep ==
  ASSUME Base, NEW t \in Threads, op' \in [Threads -> Frames], OthersStay(t),
         UNCHANGED <<mode, entries, descriptors, table, inodes, backend, writes>>,
         it' \in 0 .. Len(entries) + 1, fault' \in Faults,
         op[t].pc \notin LockPCs, op'[t].pc \notin LockPCs, FrameOK(t)'
  PROVE  Base'
  <1>1. TypeOK'
    BY Zenon DEF Base, TypeOK, descriptors, table, backend, Hashnames
  <1>2. ObjectsOK'
    BY Zenon DEF Base, ObjectsOK, descriptors, backend, Hashnames
  <1>3. Grows
    BY DEF Grows, Base, TypeOK, descriptors, backend
  <1>4. \A u \in Threads : FrameOK(u)'
    BY <1>1, <1>3, OtherFrames, Zenon DEF Base
  <1>5. MutexOK'
    BY Zenon DEF Base, MutexOK, OthersStay, table, TypeOK
  <1>6. OneInode'
    BY Zenon DEF Base, OneInode, table, backend, Hashnames
  <1> QED
    BY <1>1, <1>2, <1>4, <1>5, <1>6, Zenon DEF Base

\* The initial state.
LEMMA BaseInit == Init => Base
  <1> SUFFICES ASSUME Init PROVE Base
    OBVIOUS
  <1>1. IdleFrame \in Frames
    BY Zenon DEF IdleFrame, Frames, PCs, None
  <1>2. TypeOK
    BY <1>1, DcfsAssumption DEF Init, TypeOK, Faults, FirstFd, Hashnames, None
  <1>3. \A t \in Threads : FrameOK(t)
    BY DEF Init, FrameOK, LabelOK, IdleFrame, InoPCs, UsePCs, FlushPCs, FileCalls, DirectoryCalls, None
  <1>4. ObjectsOK /\ MutexOK /\ OneInode
    BY DEF Init, ObjectsOK, MutexOK, LockPCs, OneInode, Hashnames, IdleFrame
  <1> QED
    BY <1>2, <1>3, <1>4, Zenon DEF Base

\* A frame after an update of some of its fields.
LEMMA FrameUpdate ==
  ASSUME NEW t \in Threads, op \in [Threads -> Frames], NEW g \in Frames,
         op' = [op EXCEPT ![t] = g]
  PROVE  op' \in [Threads -> Frames] /\ op'[t] = g /\ OthersStay(t)
  BY Zenon DEF OthersStay

\* The calls.
LEMMA BaseCallDirectory ==
  ASSUME Base, NEW t \in Threads, NEW c \in DirectoryCalls,
         NEW n \in Names \cup {NoName}, CallDirectory(t, c, n)
  PROVE  Base'
  <1> DEFINE g == [IdleFrame EXCEPT !.call = c, !.pc = "init_readdir", !.name = n]
  <1>1. g \in Frames
    BY Zenon DEF IdleFrame, Frames, PCs, None
  <1>2. op' \in [Threads -> Frames] /\ op'[t] = g /\ OthersStay(t)
    BY <1>1, FrameUpdate, Zenon DEF CallDirectory, Base, TypeOK
  <1>n. c = "readdir" <=> n = NoName
    <2>1. mode \in Modes /\ IF c = "readdir" THEN n = NoName ELSE n \in mode.names
      BY Zenon DEF CallDirectory, Base, TypeOK
    <2>2. mode.names \subseteq Names
      BY <2>1, DcfsAssumption, Zenon DEF Usage
    <2> QED
      BY <2>1, <2>2, DcfsAssumption, Zenon
  <1>3. FrameOK(t)'
    BY <1>n, <1>2 DEF FrameOK, LabelOK, IdleFrame, InoPCs, UsePCs, FlushPCs, FileCalls,
       DirectoryCalls, None, Base, TypeOK, CallDirectory, backend
  <1>4. op[t].pc = "idle" /\ op'[t].pc = "init_readdir"
    BY <1>2, Zenon DEF CallDirectory, MayCall, IdleFrame
  <1> QED
    BY <1>2, <1>3, <1>4, LocalStep, Zenon
       DEF CallDirectory, Base, TypeOK, directory, LockPCs

\* What LocalStep leaves alone.
StaysLocal ==
  /\ UNCHANGED <<mode, entries, descriptors, table, inodes, backend, writes>>
  /\ it' \in 0 .. Len(entries) + 1
  /\ fault' = fault

\* A handler that returns keeps Base.
LEMMA BaseReturn ==
  ASSUME Base, NEW t \in Threads, op[t].pc \notin LockPCs, Return(t), StaysLocal
  PROVE  Base'
  <1>1. /\ op' \in [Threads -> Frames] /\ OthersStay(t)
        /\ op'[t] = IdleFrame
    BY ReturnUpdate, Zenon DEF Base, TypeOK
  <1>2. FrameOK(t)'
    BY <1>1 DEF FrameOK, LabelOK, IdleFrame, InoPCs, UsePCs, FlushPCs, FileCalls, DirectoryCalls, None,
                StaysLocal, backend, Base, TypeOK
  <1>3. op'[t].pc \notin LockPCs
    BY <1>1 DEF IdleFrame, LockPCs
  <1> QED
    BY <1>1, <1>2, <1>3, LocalStep, Zenon DEF StaysLocal, Base, TypeOK

\* A handler that goes to another label keeps Base.
LEMMA BaseGoto ==
  ASSUME Base, NEW t \in Threads, NEW label \in PCs, op[t].pc \notin LockPCs,
         Goto(t, label), label \notin LockPCs \cup {"unref"}, StaysLocal,
         LabelOK([op[t] EXCEPT !.pc = label]),
         label \in InoPCs => op[t].pc \in InoPCs
  PROVE  Base'
  <1> DEFINE g == [op[t] EXCEPT !.pc = label]
  <1>1. op' \in [Threads -> Frames] /\ OthersStay(t) /\ op'[t] = g
    BY GotoUpdate, Zenon DEF Base, TypeOK
  <1>2. /\ g.pc = label /\ g.call = op[t].call /\ g.name = op[t].name /\ g.h = op[t].h
        /\ g.hash = op[t].hash /\ g.ino = op[t].ino
    BY DEF Base, TypeOK, Frames
  <1>3. FrameOK(t)'
    <2>1. FrameOK(t)
      BY Zenon DEF Base
    <2> HIDE DEF g
    <2>2. LabelOK(g)
      BY Zenon DEF g
    <2> QED
      BY <1>1, <1>2, <2>1, <2>2, Zenon DEF FrameOK, StaysLocal, backend, descriptors, LockPCs
  <1>4. op'[t].pc \notin LockPCs
    BY <1>1, <1>2, Zenon
  <1> QED
    BY <1>1, <1>3, <1>4, LocalStep, Zenon DEF StaysLocal, Base, TypeOK

\* The process dies.
LEMMA BaseDie ==
  ASSUME Base, NEW cause \in Faults, Die(cause)
  PROVE  Base'
  BY DEF Die, Base, TypeOK, ObjectsOK, FrameOK, MutexOK, OneInode, Hashnames,
         directory, descriptors, table, backend

\* An update of the locals that keeps the call.
LEMMA BaseFrame ==
  ASSUME Base, NEW t \in Threads, NEW g \in Frames, op' = [op EXCEPT ![t] = g],
         StaysLocal, op[t].pc \notin LockPCs, g.pc \notin LockPCs, LabelOK(g),
         g.call = op[t].call, g.name = op[t].name, g.h = op[t].h,
         g.hash = op[t].hash,
         g.pc \in InoPCs => /\ g.hash # None
                            /\ g.ino \in DOMAIN inodes /\ inodes[g.ino].hash = g.hash,
         g.pc = "unref" => g.tmp > 0
  PROVE  Base'
  <1>1. op' \in [Threads -> Frames] /\ op'[t] = g /\ OthersStay(t)
    <2>1. op \in [Threads -> Frames]
      BY Zenon DEF Base, TypeOK
    <2> QED
      BY <2>1, FrameUpdate, Zenon
  <1>2. FrameOK(t)'
    <2>1. FrameOK(t)
      BY Zenon DEF Base
    <2> QED
      BY <1>1, <2>1, Zenon DEF FrameOK, StaysLocal, backend, descriptors, LockPCs
  <1>3. fault' \in Faults
    BY Zenon DEF StaysLocal, Base, TypeOK
  <1> QED
    BY <1>1, <1>2, <1>3, LocalStep, Zenon DEF StaysLocal

\* Looking a name up.
LEMMA BaseLookup ==
  ASSUME Base, NEW t \in Threads,
         \/ InitReaddir(t) \/ ReaddirCompare(t) \/ ReaddirEntry(t) \/ ReaddirEnd(t)
         \/ ReaddirDangling(t)
  PROVE  Base'
  <1> USE DEF StaysLocal, directory
  <1>t. op[t] \in Frames /\ FrameOK(t) /\ Len(entries) \in Nat /\ it \in 0 .. Len(entries) + 1
    BY DEF Base, TypeOK
  <1>1. CASE InitReaddir(t)
    <2>1. Goto(t, "readdir") /\ StaysLocal /\ op[t].pc = "init_readdir"
      BY <1>1, <1>t DEF InitReaddir
    <2>2. LabelOK([op[t] EXCEPT !.pc = "readdir"])
      BY <1>t, <2>1, Zenon DEF LabelOK, FrameOK, Frames, FlushPCs, DirectoryCalls
    <2> QED
      BY <2>1, <2>2, BaseGoto, Zenon DEF PCs, InoPCs, UsePCs, LockPCs
  <1>2. CASE ReaddirEntry(t)
    <2>1. /\ op[t].pc = "entry" /\ it' \in 0 .. Len(entries) + 1
          /\ \/ op[t].call = "create" /\ Return(t)
             \/ /\ op[t].call # "create"
                /\ \E i \in DOMAIN entries :
                     /\ entries[i].name = op[t].name
                     /\ op' = [op EXCEPT ![t].pc = "get_inode", ![t].hash = entries[i].hash]
             \/ Goto(t, "readdir")
      BY <1>2, EntryStep, Zenon
    <2>s. StaysLocal
      BY <1>2, <2>1, Zenon DEF ReaddirEntry
    <2>2. CASE Return(t)
      BY <2>1, <2>2, <2>s, BaseReturn, Zenon DEF LockPCs
    <2>3. CASE Goto(t, "readdir")
      <3>1. LabelOK([op[t] EXCEPT !.pc = "readdir"])
        BY <1>t, <2>1, Zenon DEF LabelOK, FrameOK, Frames, FlushPCs, DirectoryCalls
      <3> QED
        BY <2>1, <2>3, <2>s, <3>1, BaseGoto, Zenon DEF PCs, InoPCs, UsePCs, LockPCs
    <2>4. ASSUME NEW i \in DOMAIN entries, op[t].call # "create", entries[i].name = op[t].name,
                 op' = [op EXCEPT ![t].pc = "get_inode", ![t].hash = entries[i].hash]
          PROVE  Base'
      <3> DEFINE g == [op[t] EXCEPT !.pc = "get_inode", !.hash = entries[i].hash]
      <3>1. entries[i].hash \in 1 .. Len(index) /\ entries[i].name \in Names
        BY TypeFacts, ElementTypes, Zenon DEF Base, ObjectsOK
      <3>2. g \in Frames
        BY <1>t, ElementTypes, Zenon DEF Frames, PCs, Base
      <3>3. op' \in [Threads -> Frames] /\ op'[t] = g /\ OthersStay(t)
        <4>1. op \in [Threads -> Frames] /\ op' = [op EXCEPT ![t] = g]
          BY <2>4, Zenon DEF Base, TypeOK
        <4> QED
          BY <3>2, <4>1, FrameUpdate, Zenon
      <3>4. /\ g.pc = "get_inode" /\ g.call = op[t].call /\ g.hash = entries[i].hash
            /\ g.h = op[t].h /\ g.name = op[t].name
        BY <1>t, Zenon DEF Frames
      <3>5. op[t].call \in {"getattr", "open"}
        BY <1>t, <2>1, <2>4, <3>1, DcfsAssumption, Zenon DEF FrameOK, LabelOK, DirectoryCalls
      <3>6. LabelOK(g)
        BY <3>4, <3>5, Zenon DEF LabelOK, FlushPCs
      <3> HIDE DEF g
      <3>7. FrameOK(t)'
        BY <1>t, <2>s, <3>1, <3>3, <3>4, <3>5, <3>6
           DEF FrameOK, InoPCs, UsePCs, FileCalls, backend, None
      <3> QED
        BY <2>1, <2>s, <3>3, <3>4, <3>7, LocalStep, Zenon DEF Base, TypeOK, LockPCs
    <2> QED
      BY <2>1, <2>2, <2>3, <2>4, Zenon
  <1>3. CASE ReaddirEnd(t)
    <2>1. StaysLocal /\ op[t].pc = "rewind"
      BY <1>3, <1>t DEF ReaddirEnd
    <2>2. CASE op[t].call = "create" /\ Goto(t, "allocate")
      <3>1. LabelOK([op[t] EXCEPT !.pc = "allocate"])
        BY <1>t, <2>2, Zenon DEF LabelOK, FlushPCs, Frames
      <3> QED
        BY <2>1, <2>2, <3>1, BaseGoto, Zenon DEF PCs, InoPCs, UsePCs, LockPCs
    <2>3. CASE Return(t)
      BY <2>1, <2>3, BaseReturn, Zenon DEF LockPCs
    <2> QED
      BY <1>3, <2>2, <2>3, Zenon DEF ReaddirEnd
  <1>4. CASE ReaddirDangling(t)
    BY <1>4, BaseDie, Zenon DEF ReaddirDangling, Faults
  <1>5. CASE ReaddirCompare(t)
    <2> DEFINE end == Len(entries) + 1
               label == IF it = end THEN "rewind" ELSE "entry"
               g == [op[t] EXCEPT !.pc = label, !.tmp = it, !.end = end]
    <2>1. op[t].pc = "readdir" /\ op' = [op EXCEPT ![t] = g] /\ StaysLocal
      BY <1>5, <1>t, Zenon DEF ReaddirCompare, Base, TypeOK
    <2>2. label \in {"rewind", "entry"} /\ label \in PCs /\ it \in Nat /\ end \in Nat
      BY <1>t DEF PCs
    <2> HIDE DEF end, label
    <2>3. g \in Frames
      BY <1>t, <2>2, Zenon DEF Frames
    <2>4. /\ g.pc = label /\ g.call = op[t].call /\ g.name = op[t].name /\ g.h = op[t].h
          /\ g.hash = op[t].hash
      BY <1>t, Zenon DEF Frames
    <2> HIDE DEF g
    <2>5. LabelOK(g)
      BY <1>t, <2>1, <2>2, <2>4, Zenon DEF LabelOK, FrameOK, FlushPCs, DirectoryCalls
    <2> QED
      BY <2>1, <2>2, <2>3, <2>4, <2>5, BaseFrame, Zenon DEF LockPCs, InoPCs, UsePCs
  <1> QED
    BY <1>1, <1>2, <1>3, <1>4, <1>5, Zenon

\* Steps that only read the state and update the frame.
LEMMA BaseReads ==
  ASSUME Base, NEW t \in Threads,
         \/ GetInodeHit(t) \/ RefLoad(t) \/ FdLoad(t) \/ UnrefLoad(t)
         \/ FlushCollect(t)
  PROVE  Base'
  <1>t. op \in [Threads -> Frames] /\ op[t] \in Frames /\ FrameOK(t)
    BY Zenon DEF Base, TypeOK
  <1>s. StaysLocal
    BY Zenon DEF GetInodeHit, RefLoad, FdLoad, UnrefLoad, FlushCollect, StaysLocal,
           directory, Base, TypeOK
  <1>1. CASE GetInodeHit(t)
    <2> DEFINE g == [op[t] EXCEPT !.pc = "use", !.ino = inode_table[op[t].hash]]
    <2>1. /\ op[t].pc = "get_inode" /\ op[t].hash \in Hashnames
          /\ inode_table[op[t].hash] # None /\ op' = [op EXCEPT ![t] = g]
      BY <1>1, <1>t, Zenon DEF GetInodeHit
    <2>2. /\ inode_table[op[t].hash] \in DOMAIN inodes
          /\ inodes[inode_table[op[t].hash]].hash = op[t].hash
      BY <2>1, NoneFacts, Zenon DEF Base, OneInode
    <2>3. g \in Frames
      <3>1. inode_table[op[t].hash] \in Nat
        BY <2>2, TypeFacts DEF Base
      <3> QED
        BY <1>t, <3>1, Zenon DEF Frames, PCs
    <2>4. /\ g.pc = "use" /\ g.call = op[t].call /\ g.name = op[t].name /\ g.h = op[t].h
          /\ g.hash = op[t].hash /\ g.ino = inode_table[op[t].hash]
      BY <1>t, Zenon DEF Frames
    <2>5. g.call \in {"getattr", "open"} \cup FileCalls /\ op[t].hash # None
      BY <1>t, <2>1, <2>4, NoneFacts, Zenon DEF FrameOK, LabelOK, Base
    <2> HIDE DEF g
    <2>6. LabelOK(g)
      BY <2>4, <2>5, Zenon DEF LabelOK, FlushPCs, FileCalls
    <2> QED
      BY <1>s, <2>1, <2>2, <2>3, <2>4, <2>5, <2>6, BaseFrame, Zenon DEF LockPCs
  <1>2. CASE RefLoad(t)
    <2> DEFINE g == [op[t] EXCEPT !.pc = "ref", !.tmp = Inode(t).ref]
    <2>1. op[t].pc = "use" /\ op' = [op EXCEPT ![t] = g] /\ op[t].call \in {"create", "open"}
      BY <1>2, <1>t, Zenon DEF RefLoad, At
    <2>2. op[t].hash # None /\ op[t].ino \in DOMAIN inodes /\ inodes[op[t].ino].hash = op[t].hash
      BY <1>t, <2>1, Zenon DEF FrameOK, InoPCs, UsePCs
    <2>3. g \in Frames
      BY <1>t, <2>2, ElementTypes, Zenon DEF Frames, PCs, Base, Inodes, Inode
    <2>4. /\ g.pc = "ref" /\ g.call = op[t].call /\ g.name = op[t].name /\ g.h = op[t].h
          /\ g.hash = op[t].hash /\ g.ino = op[t].ino
      BY <1>t, Zenon DEF Frames
    <2> HIDE DEF g
    <2>6. LabelOK(g)
      BY <2>1, <2>4, Zenon DEF LabelOK, FlushPCs
    <2> QED
      BY <1>s, <2>1, <2>2, <2>3, <2>4, <2>6, BaseFrame, Zenon DEF LockPCs
  <1>3. CASE FdLoad(t)
    <2> DEFINE g == [op[t] EXCEPT !.pc = "fd_store", !.tmp = fd_cnt]
    <2>1. op[t].pc = "fd" /\ op' = [op EXCEPT ![t] = g]
      BY <1>3, <1>t, Zenon DEF FdLoad
    <2>2. op[t].hash # None /\ op[t].ino \in DOMAIN inodes /\ inodes[op[t].ino].hash = op[t].hash
      BY <1>t, <2>1, Zenon DEF FrameOK, InoPCs, UsePCs
    <2>3. g \in Frames
      BY <1>t, Zenon DEF Frames, PCs, Base, TypeOK
    <2>4. /\ g.pc = "fd_store" /\ g.call = op[t].call /\ g.name = op[t].name /\ g.h = op[t].h
          /\ g.hash = op[t].hash /\ g.ino = op[t].ino
      BY <1>t, Zenon DEF Frames
    <2>5. op[t].call \in {"create", "open"}
      BY <1>t, <2>1, Zenon DEF FrameOK, LabelOK
    <2> HIDE DEF g
    <2>6. LabelOK(g)
      BY <2>4, <2>5, Zenon DEF LabelOK, FlushPCs
    <2> QED
      BY <1>s, <2>1, <2>2, <2>3, <2>4, <2>6, BaseFrame, Zenon DEF LockPCs
  <1>4. CASE UnrefLoad(t)
    <2> DEFINE g == [op[t] EXCEPT !.pc = "unref", !.tmp = Inode(t).ref]
    <2>1. /\ op[t].pc = "use" /\ op' = [op EXCEPT ![t] = g] /\ op[t].call = "flush"
          /\ Inode(t).ref > 0
      BY <1>4, <1>t, Zenon DEF UnrefLoad, At
    <2>2. op[t].hash # None /\ op[t].ino \in DOMAIN inodes /\ inodes[op[t].ino].hash = op[t].hash
      BY <1>t, <2>1, Zenon DEF FrameOK, InoPCs, UsePCs
    <2>3. g \in Frames
      BY <1>t, <2>2, ElementTypes, Zenon DEF Frames, PCs, Base, Inodes, Inode
    <2>4. /\ g.pc = "unref" /\ g.call = op[t].call /\ g.name = op[t].name /\ g.h = op[t].h
          /\ g.hash = op[t].hash /\ g.ino = op[t].ino /\ g.tmp = Inode(t).ref
      BY <1>t, Zenon DEF Frames
    <2> HIDE DEF g
    <2>6. LabelOK(g)
      BY <2>1, <2>4, Zenon DEF LabelOK, FlushPCs
    <2> QED
      BY <1>s, <2>1, <2>2, <2>3, <2>4, <2>6, BaseFrame, Zenon DEF LockPCs
  <1>5. CASE FlushCollect(t)
    <2> DEFINE next == IF Inode(t).dirty = {} THEN "drop" ELSE "modify"
               g == [op[t] EXCEPT !.pc = next, !.version = Inode(t).version,
                                  !.data = Inode(t).dirty]
    <2>1. op[t].pc = "collect" /\ op' = [op EXCEPT ![t] = g]
      BY <1>5, <1>t, Zenon DEF FlushCollect, At
    <2>2. op[t].hash # None /\ op[t].ino \in DOMAIN inodes /\ inodes[op[t].ino].hash = op[t].hash
      BY <1>t, <2>1, Zenon DEF FrameOK, InoPCs, UsePCs
    <2>3. g \in Frames
      <3>1. inodes[op[t].ino] \in Inodes
        BY <2>2, ElementTypes, Zenon DEF Base
      <3>2. Inode(t).version \in Nat /\ Inode(t).dirty \in SUBSET Nat
        BY <3>1, Zenon DEF Inodes, Inode
      <3>3. next \in PCs
        BY Zenon DEF PCs
      <3> HIDE DEF next
      <3> QED
        BY <1>t, <3>2, <3>3, Zenon DEF Frames
    <2>4. /\ g.pc \in {"drop", "modify"} /\ g.call = op[t].call /\ g.name = op[t].name
          /\ g.h = op[t].h /\ g.hash = op[t].hash /\ g.ino = op[t].ino
      BY <1>t, Zenon DEF Frames
    <2>5. op[t].call = "flush"
      BY <1>t, <2>1, Zenon DEF FrameOK, LabelOK, FlushPCs
    <2> HIDE DEF g
    <2>6. LabelOK(g)
      BY <2>4, <2>5, Zenon DEF LabelOK, FlushPCs
    <2> QED
      BY <1>s, <2>1, <2>2, <2>3, <2>4, <2>6, BaseFrame, Zenon DEF LockPCs
  <1> QED
    BY <1>1, <1>2, <1>3, <1>4, <1>5, Zenon

\* Steps that only move on, return or die.
LEMMA BaseMoves ==
  ASSUME Base, NEW t \in Threads,
         \/ GetInodeUnknown(t) \/ UseFreed(t) \/ Read(t) \/ AddentReset(t)
         \/ FdOutside(t) \/ UnrefAssert(t) \/ ModifyStart(t) \/ ModifyStale(t)
         \/ ModifyFails(t) \/ Recount(t)
  PROVE  Base'
  <1>t. op[t] \in Frames /\ FrameOK(t) /\ LabelOK(op[t])
    BY Zenon DEF Base, TypeOK, FrameOK
  <1>d. ASSUME NEW cause \in Faults, Die(cause) PROVE Base'
    BY <1>d, BaseDie, Zenon
  <1>1. CASE UseFreed(t) \/ FdOutside(t) \/ UnrefAssert(t)
    BY <1>1, <1>d, Zenon DEF UseFreed, FdOutside, UnrefAssert, Faults
  <1>2. CASE GetInodeUnknown(t) \/ Read(t)
    <2>1. Return(t) /\ op[t].pc \notin LockPCs /\ StaysLocal
      BY <1>2, Zenon DEF GetInodeUnknown, Read, At, StaysLocal, directory, Base, TypeOK, LockPCs
    <2> QED
      BY <2>1, BaseReturn, Zenon
  <1>3. CASE AddentReset(t)
    <2>1. Goto(t, "fd") /\ op[t].pc = "reset" /\ StaysLocal
      BY <1>3, TypeFacts DEF AddentReset, StaysLocal, Base
    <2>2. LabelOK([op[t] EXCEPT !.pc = "fd"])
      BY <1>t, <2>1, Zenon DEF LabelOK, FlushPCs, Frames
    <2> QED
      BY <2>1, <2>2, BaseGoto, Zenon DEF PCs, InoPCs, LockPCs
  <1>4. CASE ModifyStart(t) \/ ModifyStale(t) \/ ModifyFails(t)
    <2>1. /\ Goto(t, "recount") \/ Goto(t, "commit")
          /\ op[t].pc \in {"modify", "commit"} /\ StaysLocal
      BY <1>4, Zenon DEF ModifyStart, ModifyStale, ModifyFails, StaysLocal, directory, Base, TypeOK
    <2>2. ASSUME NEW label \in {"recount", "commit"}, Goto(t, label) PROVE Base'
      <3>1. LabelOK([op[t] EXCEPT !.pc = label])
        BY <1>t, <2>1, Zenon DEF LabelOK, FlushPCs, Frames
      <3>2. label \in PCs /\ label \notin LockPCs \cup {"unref"} /\ op[t].pc \in InoPCs
        BY <2>1, Zenon DEF PCs, LockPCs, InoPCs
      <3> QED
        BY <2>1, <2>2, <3>1, <3>2, BaseGoto, Zenon DEF LockPCs
    <2> QED
      BY <2>1, <2>2, Zenon
  <1>5. CASE Recount(t)
    <2>1. (Return(t) \/ Goto(t, "release")) /\ op[t].pc = "recount" /\ StaysLocal
      BY <1>5, Zenon DEF Recount, StaysLocal, directory, Base, TypeOK
    <2>2. LabelOK([op[t] EXCEPT !.pc = "release"])
      BY <1>t, <2>1, Zenon DEF LabelOK, FlushPCs, Frames
    <2> QED
      BY <2>1, <2>2, BaseGoto, BaseReturn, Zenon DEF PCs, InoPCs, UsePCs, LockPCs
  <1> QED
    BY <1>1, <1>2, <1>3, <1>4, <1>5, Zenon

\* Updates of one Inode.
LEMMA BaseInodeUpdate ==
  ASSUME Base, NEW t \in Threads, op' \in [Threads -> Frames], OthersStay(t),
         FrameOK(t)', op[t].pc \notin LockPCs, op'[t].pc \notin LockPCs,
         inodes' \in Seq(Inodes), Len(inodes') = Len(inodes),
         \A o \in DOMAIN inodes : /\ inodes'[o].hash = inodes[o].hash
                                  /\ inodes'[o].live = inodes[o].live,
         UNCHANGED <<mode, directory, descriptors, table, backend, fault>>,
         writes' \in Seq(Nat)
  PROVE  Base'
  <1>1. TypeOK'
    BY Zenon DEF Base, TypeOK, directory, descriptors, table, backend, Hashnames
  <1>d. DOMAIN inodes' = DOMAIN inodes /\ DOMAIN inodes = 1 .. Len(inodes) /\ Len(inodes) \in Nat
    BY TypeFacts DEF Base
  <1>2. ObjectsOK'
    BY <1>d, Zenon DEF Base, ObjectsOK, directory, descriptors, backend, Hashnames
  <1>3. Grows
    BY TypeFacts DEF Grows, Base, descriptors, backend
  <1>4. \A u \in Threads : FrameOK(u)'
    BY <1>1, <1>3, OtherFrames, Zenon DEF Base
  <1>5. MutexOK'
    BY Zenon DEF Base, MutexOK, OthersStay, table, TypeOK
  <1>6. OneInode'
    <2>1. \A hash \in Hashnames : inode_table[hash] # None => inode_table[hash] \in DOMAIN inodes
      BY NoneFacts, Zenon DEF Base
    <2>2. Hashnames' = Hashnames /\ inode_table' = inode_table
      BY Zenon DEF Hashnames, backend, table
    <2> QED
      BY <1>d, <2>1, <2>2, Zenon DEF Base, OneInode
  <1> QED
    BY <1>1, <1>2, <1>4, <1>5, <1>6, Zenon DEF Base

\* A frame after Goto or Return, when no other object changes its file.
LEMMA GotoFrame ==
  ASSUME Base, Grows, NEW t \in Threads, NEW label \in PCs, Goto(t, label),
         label \notin LockPCs \cup {"unref"}, LabelOK([op[t] EXCEPT !.pc = label]),
         label \in InoPCs => op[t].pc \in InoPCs,
         Len(index') \in Nat, DOMAIN files \subseteq DOMAIN files',
         DOMAIN inodes \subseteq DOMAIN inodes'
  PROVE  op' \in [Threads -> Frames] /\ OthersStay(t) /\ FrameOK(t)' /\ op'[t].pc = label
  <1> DEFINE g == [op[t] EXCEPT !.pc = label]
  <1>1. op' \in [Threads -> Frames] /\ OthersStay(t) /\ op'[t] = g
    BY GotoUpdate, Zenon DEF Base, TypeOK
  <1>2. /\ g.pc = label /\ g.call = op[t].call /\ g.name = op[t].name /\ g.h = op[t].h
        /\ g.hash = op[t].hash /\ g.ino = op[t].ino
    BY DEF Base, TypeOK, Frames
  <1>3. FrameOK(t) /\ Len(index) \in Nat
    BY TypeFacts, Zenon DEF Base
  <1>4. LabelOK(g)
    OBVIOUS
  <1> HIDE DEF g
  <1> QED
    BY <1>1, <1>2, <1>3, <1>4 DEF FrameOK, Grows, LockPCs

\* The frame of a thread that has returned is well formed.
LEMMA ReturnFrame ==
  ASSUME Base, NEW t \in Threads, Return(t), Len(index') \in Nat
  PROVE  op' \in [Threads -> Frames] /\ OthersStay(t) /\ FrameOK(t)' /\ op'[t].pc = "idle"
  <1>1. op' \in [Threads -> Frames] /\ OthersStay(t) /\ op'[t] = IdleFrame
    BY ReturnUpdate, Zenon DEF Base, TypeOK
  <1> QED
    BY <1>1 DEF FrameOK, LabelOK, IdleFrame, InoPCs, UsePCs, FlushPCs, FileCalls, DirectoryCalls, None

\* Inode::Write, Ref, Unref and the end of FlushCache.
LEMMA BaseInodeSteps ==
  ASSUME Base, NEW t \in Threads,
         Write(t) \/ RefStore(t) \/ UnrefStore(t) \/ FlushDrop(t)
  PROVE  Base'
  <1> DEFINE o == op[t].ino
  <1>t. op[t] \in Frames /\ FrameOK(t) /\ LabelOK(op[t]) /\ inodes \in Seq(Inodes)
    BY Zenon DEF Base, TypeOK, FrameOK
  <1>a. op[t].pc \in {"use", "ref", "unref", "drop"}
    BY Zenon DEF Write, RefStore, UnrefStore, FlushDrop, At
  <1>o. o \in DOMAIN inodes /\ inodes[o] \in Inodes
    BY <1>a, <1>t DEF FrameOK, InoPCs, UsePCs
  <1>u. UNCHANGED <<mode, directory, descriptors, table, backend, fault>>
    BY Zenon DEF Write, RefStore, UnrefStore, FlushDrop
  <1>w. writes' \in Seq(Nat)
    <2>1. CASE Write(t)
      <3>1. op[t].call = "write"
        BY <2>1, Zenon DEF Write
      <3>2. op[t].h \in DOMAIN files
        BY <1>t, <3>1, Zenon DEF FrameOK, FileCalls
      <3>3. files[op[t].h].hash \in Nat /\ writes \in Seq(Nat)
        BY <3>2, ElementTypes, Zenon DEF Base, TypeOK, Files
      <3> QED
        BY <2>1, <3>3 DEF Write
    <2>2. CASE UNCHANGED writes
      BY <2>2, Zenon DEF Base, TypeOK
    <2> QED
      BY <2>1, <2>2, Zenon DEF RefStore, UnrefStore, FlushDrop
  <1>i. /\ inodes' \in Seq(Inodes) /\ Len(inodes') = Len(inodes)
        /\ \A p \in DOMAIN inodes : /\ inodes'[p].hash = inodes[p].hash
                                    /\ inodes'[p].live = inodes[p].live
    <2>1. ASSUME NEW i \in Inodes, i.hash = inodes[o].hash, i.live = inodes[o].live,
                 inodes' = [inodes EXCEPT ![o] = i]
          PROVE  <1>i!:
      BY <1>t, <1>o, <2>1
    <2>2. CASE Write(t)
      <3> DEFINE i == [inodes[o] EXCEPT !.dirty = @ \cup {Len(writes) + 1}]
      <3>1. inodes' = [inodes EXCEPT ![o] = i]
        BY <2>2, <1>o, Zenon DEF Write
      <3>a. Len(writes) + 1 \in Nat
        BY TypeFacts DEF Base
      <3>2. i \in Inodes /\ i.hash = inodes[o].hash /\ i.live = inodes[o].live
        BY <1>o, <3>a, Zenon DEF Inodes
      <3> HIDE DEF i
      <3> QED
        BY <3>1, <3>2, <2>1, Zenon
    <2>3. CASE RefStore(t)
      <3> DEFINE i == [inodes[o] EXCEPT !.ref = op[t].tmp + 1]
      <3>1. inodes' = [inodes EXCEPT ![o] = i]
        BY <2>3, <1>o, Zenon DEF RefStore
      <3>a. op[t].tmp + 1 \in Nat
        BY <1>t DEF Frames
      <3>2. i \in Inodes /\ i.hash = inodes[o].hash /\ i.live = inodes[o].live
        BY <1>o, <3>a, Zenon DEF Inodes
      <3> HIDE DEF i
      <3> QED
        BY <3>1, <3>2, <2>1, Zenon
    <2>4. CASE UnrefStore(t)
      <3> DEFINE i == [inodes[o] EXCEPT !.ref = op[t].tmp - 1]
      <3>1. inodes' = [inodes EXCEPT ![o] = i]
        BY <2>4, <1>o, Zenon DEF UnrefStore
      <3>2. op[t].tmp - 1 \in Nat
        BY <2>4, <1>t DEF UnrefStore, At, FrameOK, Frames
      <3>3. i \in Inodes /\ i.hash = inodes[o].hash /\ i.live = inodes[o].live
        BY <1>o, <3>2, Zenon DEF Inodes
      <3> HIDE DEF i
      <3> QED
        BY <3>1, <3>3, <2>1, Zenon
    <2>5. CASE FlushDrop(t)
      <3> DEFINE i == [inodes[o] EXCEPT !.dirty = {}]
      <3>1. inodes' = [inodes EXCEPT ![o] = i]
        BY <2>5, <1>o, Zenon DEF FlushDrop
      <3>2. i \in Inodes /\ i.hash = inodes[o].hash /\ i.live = inodes[o].live
        BY <1>o, Zenon DEF Inodes
      <3> HIDE DEF i
      <3> QED
        BY <3>1, <3>2, <2>1, Zenon
    <2> QED
      BY <2>2, <2>3, <2>4, <2>5, Zenon
  <1>g. /\ Grows /\ Len(index') \in Nat /\ DOMAIN files \subseteq DOMAIN files'
        /\ DOMAIN inodes \subseteq DOMAIN inodes'
    BY <1>i, <1>u, TypeFacts DEF Grows, Base, backend, descriptors
  <1>f. op' \in [Threads -> Frames] /\ OthersStay(t) /\ FrameOK(t)' /\ op'[t].pc \notin LockPCs
    <2>1. CASE Return(t)
      BY <2>1, <1>g, ReturnFrame, Zenon DEF LockPCs
    <2>2. ASSUME NEW label \in {"push_back", "fd", "collect", "recount"}, Goto(t, label),
                 LabelOK([op[t] EXCEPT !.pc = label])
          PROVE  <1>f!:
      <3>1. label \in PCs /\ label \notin LockPCs \cup {"unref"} /\ op[t].pc \in InoPCs
        BY <1>a, Zenon DEF PCs, InoPCs, UsePCs, LockPCs
      <3>2. op' \in [Threads -> Frames] /\ OthersStay(t) /\ FrameOK(t)' /\ op'[t].pc = label
        BY <2>2, <3>1, <1>g, GotoFrame, Zenon DEF LockPCs
      <3> QED
        BY <3>1, <3>2, Zenon
    <2>3. CASE RefStore(t)
      <3> DEFINE label == IF op[t].call = "create" THEN "push_back" ELSE "fd"
      <3>1. op[t].call \in {"create", "open"} /\ Goto(t, label)
        BY <2>3, <1>t, Zenon DEF RefStore, At, LabelOK
      <3>2. LabelOK([op[t] EXCEPT !.pc = label])
        BY <1>t, <3>1, Zenon DEF LabelOK, Frames, FlushPCs
      <3>3. label \in {"push_back", "fd", "collect", "recount"}
        OBVIOUS
      <3> HIDE DEF label
      <3> QED
        BY <3>1, <3>2, <3>3, <2>2, Zenon
    <2>4. CASE UnrefStore(t)
      <3> DEFINE label == IF op[t].tmp = 1 THEN "collect" ELSE "recount"
      <3>1. op[t].call = "flush" /\ Goto(t, label)
        BY <2>4, <1>t, Zenon DEF UnrefStore, At, LabelOK, FlushPCs
      <3>2. LabelOK([op[t] EXCEPT !.pc = label])
        BY <1>t, <3>1, Zenon DEF LabelOK, Frames, FlushPCs
      <3>3. label \in {"push_back", "fd", "collect", "recount"}
        OBVIOUS
      <3> HIDE DEF label
      <3> QED
        BY <3>1, <3>2, <3>3, <2>2, Zenon
    <2>5. CASE FlushDrop(t)
      <3>1. op[t].call = "flush" /\ Goto(t, "recount")
        BY <2>5, <1>t, Zenon DEF FlushDrop, At, LabelOK, FlushPCs
      <3>2. LabelOK([op[t] EXCEPT !.pc = "recount"])
        BY <1>t, <3>1, Zenon DEF LabelOK, Frames, FlushPCs
      <3> QED
        BY <3>1, <3>2, <2>2, Zenon
    <2> QED
      BY <2>1, <2>3, <2>4, <2>5, Zenon DEF Write
  <1> QED
    BY <1>a, <1>u, <1>w, <1>i, <1>f, BaseInodeUpdate, Zenon DEF LockPCs

\* The calls for an open file, and the duplication of a descriptor.
LEMMA BaseFiles ==
  ASSUME Base, files' \in Seq(Files), Len(files') = Len(files),
         \A h \in DOMAIN files : files'[h].hash = files[h].hash /\ files'[h].fd = files[h].fd,
         op' \in [Threads -> Frames],
         UNCHANGED <<mode, directory, fd_cnt, fd_table, table, inodes, backend, writes, fault>>,
         \A u \in Threads : FrameOK(u)' /\ (op'[u].pc \in LockPCs <=> op[u].pc \in LockPCs),
         \A u \in Threads : op[u].pc \in LockPCs => op'[u] = op[u]
  PROVE  Base'
  <1>1. TypeOK'
    BY Zenon DEF Base, TypeOK, directory, table, backend, Hashnames
  <1>2. DOMAIN files' = DOMAIN files
    BY TypeFacts DEF Base
  <1>3. ObjectsOK'
    BY <1>2, Zenon DEF Base, ObjectsOK, directory, backend, Hashnames
  <1>4. MutexOK'
    BY DEF Base, MutexOK, table, TypeOK
  <1>5. OneInode'
    BY Zenon DEF Base, OneInode, table, backend, Hashnames
  <1> QED
    BY <1>1, <1>3, <1>4, <1>5, Zenon DEF Base

\* The kernel calls read, write or flush.
LEMMA BaseCallFile ==
  ASSUME Base, NEW t \in Threads, NEW c \in FileCalls, NEW h \in DOMAIN files,
         CallFile(t, c, h)
  PROVE  Base'
  <1> DEFINE left == IF c = "flush" THEN files[h].descs - 1 ELSE files[h].descs
             k == [files[h] EXCEPT !.descs = left]
             name == fd_table[files[h].fd]
             g == [IdleFrame EXCEPT !.call = c, !.pc = "get_inode", !.h = h, !.hash = name]
  <1>t. op \in [Threads -> Frames] /\ files \in Seq(Files) /\ files[h] \in Files
    BY ElementTypes, Zenon DEF Base, TypeOK
  <1>n. name \in 0 .. Len(index) /\ Len(index) \in Nat
    <2>1. fd_table \in [0 .. FdTableMax - 1 -> 0 .. Len(index)] /\ Len(index) \in Nat
      BY DEF Base, TypeOK
    <2>2. files[h].fd \in 0 .. FdTableMax - 1
      BY Zenon DEF Base, ObjectsOK
    <2> QED
      BY <2>1, <2>2, Zenon
  <1>1. op[t].pc = "idle" /\ op' = [op EXCEPT ![t] = g] /\ files[h].descs > 0
    BY <1>t, Zenon DEF CallFile, MayCall
  <1>2. files' = [files EXCEPT ![h] = k]
    BY <1>t, Zenon DEF CallFile
  <1>3. k \in Files /\ k.hash = files[h].hash /\ k.fd = files[h].fd
    <2>1. left \in Nat
      BY <1>t, <1>1 DEF Files
    <2> HIDE DEF left
    <2> QED
      BY <1>t, <2>1, Zenon DEF Files
  <1>4. /\ files' \in Seq(Files) /\ Len(files') = Len(files) /\ DOMAIN files' = DOMAIN files
        /\ \A x \in DOMAIN files : files'[x].hash = files[x].hash /\ files'[x].fd = files[x].fd
    <2> HIDE DEF k
    <2> QED
      BY <1>t, <1>2, <1>3
  <1>5. op' \in [Threads -> Frames] /\ op'[t] = g /\ OthersStay(t)
    <2>1. h \in Nat /\ name \in Nat
      BY <1>n, TypeFacts DEF Base
    <2> HIDE DEF name
    <2>2. g \in Frames
      BY <2>1, Zenon DEF IdleFrame, Frames, PCs, None
    <2> HIDE DEF g
    <2> QED
      BY <1>t, <1>1, <2>2, FrameUpdate, Zenon
  <1>6. g.call = c /\ g.pc = "get_inode" /\ g.h = h /\ g.hash = name
    BY Zenon DEF IdleFrame
  <1>7. UNCHANGED <<mode, directory, fd_cnt, fd_table, table, inodes, backend, writes, fault>>
    BY Zenon DEF CallFile
  <1> HIDE DEF g, k, name
  <1>8. FrameOK(t)'
    BY <1>4, <1>5, <1>6, <1>7, <1>n, Zenon DEF FrameOK, LabelOK, InoPCs, UsePCs, FlushPCs, FileCalls,
       DirectoryCalls, backend
  <1>9. ASSUME NEW u \in Threads, u # t PROVE FrameOK(u)' /\ op'[u] = op[u]
    BY <1>4, <1>5, <1>7, <1>9 DEF Base, FrameOK, OthersStay, backend
  <1>10. \A u \in Threads : /\ FrameOK(u)' /\ (op'[u].pc \in LockPCs <=> op[u].pc \in LockPCs)
                            /\ op[u].pc \in LockPCs => op'[u] = op[u]
    BY <1>1, <1>5, <1>6, <1>8, <1>9, Zenon DEF LockPCs
  <1> QED
    BY <1>4, <1>5, <1>7, <1>10, BaseFiles, Zenon

\* A descriptor is duplicated.
LEMMA BaseDup ==
  ASSUME Base, NEW h \in DOMAIN files, Dup(h)
  PROVE  Base'
  <1> DEFINE k == [files[h] EXCEPT !.descs = @ + 1]
  <1>t. files \in Seq(Files) /\ files[h] \in Files
    BY ElementTypes, Zenon DEF Base, TypeOK
  <1>1. files' = [files EXCEPT ![h] = k]
    BY <1>t, Zenon DEF Dup
  <1>2. k \in Files /\ k.hash = files[h].hash /\ k.fd = files[h].fd
    <2>0. files[h].descs \in Nat
      BY <1>t, Zenon DEF Files
    <2>1. files[h].descs + 1 \in Nat
      BY <2>0
    <2> QED
      BY <1>t, <2>1, Zenon DEF Files
  <1>3. /\ files' \in Seq(Files) /\ Len(files') = Len(files) /\ DOMAIN files' = DOMAIN files
        /\ \A x \in DOMAIN files : files'[x].hash = files[x].hash /\ files'[x].fd = files[x].fd
    <2> HIDE DEF k
    <2> QED
      BY <1>t, <1>1, <1>2
  <1>4. UNCHANGED <<mode, directory, fd_cnt, fd_table, table, inodes, backend, writes, op, fault>>
    BY Zenon DEF Dup
  <1>5. \A u \in Threads : FrameOK(u)'
    BY <1>3, <1>4, Zenon DEF Base, FrameOK, backend
  <1>6. op' \in [Threads -> Frames]
    BY <1>4, Zenon DEF Base, TypeOK
  <1> QED
    BY <1>3, <1>4, <1>5, <1>6, BaseFiles, Zenon

\* The inode table.
LEMMA BaseGetInodeMiss ==
  ASSUME Base, NEW t \in Threads, GetInodeMiss(t)
  PROVE  Base'
  <1> DEFINE g == [op[t] EXCEPT !.pc = "load", !.version = index[op[t].hash]]
  <1>t. op \in [Threads -> Frames] /\ op[t] \in Frames /\ FrameOK(t)
    BY Zenon DEF Base, TypeOK
  <1>1. /\ op[t].pc = "get_inode" /\ op[t].hash \in Hashnames /\ mutex = {} /\ mutex' = {t}
        /\ inode_table[op[t].hash] = None /\ op' = [op EXCEPT ![t] = g]
    BY <1>t, Zenon DEF GetInodeMiss
  <1>u. UNCHANGED <<mode, directory, descriptors, inode_table, inodes, backend, writes, fault>>
    BY Zenon DEF GetInodeMiss
  <1>2. g \in Frames
    <2>1. index[op[t].hash] \in Nat
      BY <1>1, ElementTypes, Zenon DEF Base
    <2> QED
      BY <1>t, <2>1, Zenon DEF Frames, PCs
  <1>3. /\ g.pc = "load" /\ g.call = op[t].call /\ g.name = op[t].name /\ g.h = op[t].h
        /\ g.hash = op[t].hash
    BY <1>t, Zenon DEF Frames
  <1> HIDE DEF g
  <1>4. op' \in [Threads -> Frames] /\ op'[t] = g /\ OthersStay(t)
    BY <1>t, <1>1, <1>2, FrameUpdate, Zenon
  <1>5. TypeOK'
    BY <1>1, <1>4, <1>u, Zenon DEF Base, TypeOK, directory, descriptors, backend, Hashnames
  <1>6. ObjectsOK'
    BY <1>u, Zenon DEF Base, ObjectsOK, directory, descriptors, backend, Hashnames
  <1>7. FrameOK(t)'
    <2>1. op[t].hash # None /\ LabelOK(op[t])
      BY <1>t, <1>1, NoneFacts, Zenon DEF Base, FrameOK
    <2>2. LabelOK(g)
      BY <1>1, <1>3, <2>1, Zenon DEF LabelOK, FlushPCs
    <2> QED
      BY <1>t, <1>3, <1>4, <1>u, <2>1, <2>2, Zenon
         DEF FrameOK, InoPCs, UsePCs, backend, descriptors
  <1>8. Grows
    BY <1>u, TypeFacts DEF Grows, Base, descriptors, backend
  <1>9. \A u \in Threads : FrameOK(u)'
    BY <1>4, <1>5, <1>7, <1>8, OtherFrames, Zenon DEF Base
  <1>10. MutexOK'
    BY <1>1, <1>3, <1>4, <1>u DEF Base, MutexOK, LockPCs, OthersStay
  <1>11. OneInode'
    BY <1>u, Zenon DEF Base, OneInode, backend, Hashnames
  <1> QED
    BY <1>5, <1>6, <1>9, <1>10, <1>11, Zenon DEF Base

\* A new Inode at the end of inodes.
LEMMA AppendInode ==
  ASSUME TypeOK, NEW i \in Inodes, inodes' = Append(inodes, i)
  PROVE  /\ inodes' \in Seq(Inodes) /\ Len(inodes') = Len(inodes) + 1
         /\ DOMAIN inodes' = 1 .. Len(inodes) + 1 /\ Len(inodes) \in Nat
         /\ DOMAIN inodes = 1 .. Len(inodes)
         /\ inodes'[Len(inodes) + 1] = i
         /\ \A o \in DOMAIN inodes : inodes'[o] = inodes[o]
  <1>1. inodes \in Seq(Inodes)
    BY Zenon DEF TypeOK
  <1> QED
    BY <1>1

\* A larger set of pointers.
LEMMA WidenTable ==
  ASSUME TypeOK
  PROVE  inode_table \in Seq(0 .. Len(inodes) + 1)
  <1> DEFINE Pointers == 0 .. Len(inodes)
             More == 0 .. Len(inodes) + 1
  <1>1. inode_table \in Seq(Pointers) /\ Len(inodes) \in Nat
    BY DEF TypeOK
  <1>2. Pointers \subseteq More
    BY <1>1
  <1> HIDE DEF Pointers, More
  <1>3. inode_table \in Seq(More)
    BY <1>1, <1>2
  <1> QED
    BY <1>3, Zenon DEF More

\* get_inode enters the Inode that it has loaded in the table.
LEMMA BaseLoadInode ==
  ASSUME Base, NEW t \in Threads, LoadInode(t)
  PROVE  Base'
  <1> DEFINE new == Len(inodes) + 1
             hash == op[t].hash
             i == NewInode(hash, op[t].version)
             g == [op[t] EXCEPT !.pc = "use", !.ino = new]
  <1>t. op \in [Threads -> Frames] /\ op[t] \in Frames /\ FrameOK(t) /\ TypeOK
    BY Zenon DEF Base, TypeOK
  <1>1. /\ op[t].pc = "load" /\ op' = [op EXCEPT ![t] = g] /\ inodes' = Append(inodes, i)
        /\ inode_table' = [inode_table EXCEPT ![hash] = new] /\ mutex' = mutex \ {t}
    BY <1>t, Zenon DEF LoadInode
  <1>u. UNCHANGED <<mode, directory, descriptors, backend, writes, fault>>
    BY Zenon DEF LoadInode
  <1>2. i \in Inodes /\ i.hash = hash /\ i.live
    BY <1>t, Zenon DEF NewInode, Inodes, Frames
  <1> HIDE DEF i
  <1>3. /\ inodes' \in Seq(Inodes) /\ Len(inodes') = new
        /\ DOMAIN inodes' = 1 .. new /\ Len(inodes) \in Nat /\ DOMAIN inodes = 1 .. Len(inodes)
        /\ inodes'[new] = i /\ \A o \in DOMAIN inodes : inodes'[o] = inodes[o]
    BY <1>1, <1>2, <1>t, AppendInode, Zenon
  <1>4. g \in Frames
    <2>1. new \in Nat
      BY <1>3
    <2> HIDE DEF new
    <2> QED
      BY <1>t, <2>1, Zenon DEF Frames, PCs
  <1>5. /\ g.pc = "use" /\ g.call = op[t].call /\ g.name = op[t].name /\ g.h = op[t].h
        /\ g.hash = hash /\ g.ino = new
    BY <1>t, Zenon DEF Frames
  <1> HIDE DEF g
  <1>6. op' \in [Threads -> Frames] /\ op'[t] = g /\ OthersStay(t)
    BY <1>t, <1>1, <1>4, FrameUpdate, Zenon
  <1>h. hash \in Hashnames /\ hash # None /\ inode_table[hash] = None /\ mutex = {t}
        /\ LabelOK(op[t])
    <2>1. hash # None /\ hash \in 0 .. Len(index) /\ LabelOK(op[t])
      BY <1>1, <1>t, Zenon DEF FrameOK
    <2>2. t \in mutex /\ inode_table[hash] = None /\ mutex = {t}
      BY <1>1, Zenon DEF Base, MutexOK, LockPCs
    <2> QED
      BY <2>1, <2>2, NoneFacts, Zenon DEF Base
  <1>7. /\ inode_table' \in Seq(0 .. Len(inodes')) /\ DOMAIN inode_table' = DOMAIN inode_table
        /\ DOMAIN inode_table = Hashnames
    <2> DEFINE More == 0 .. new
    <2>1. inode_table \in Seq(More) /\ new \in More /\ hash \in DOMAIN inode_table
      BY <1>3, <1>h, <1>t, WidenTable, TypeFacts
    <2> HIDE DEF More
    <2>2. inode_table' \in Seq(More) /\ DOMAIN inode_table' = DOMAIN inode_table
      BY <1>1, <2>1
    <2> QED
      BY <2>2, <1>3, <1>t, TypeFacts, Zenon DEF More
  <1> HIDE DEF new, hash
  <1>8. TypeOK'
    <2>1. mutex' \in SUBSET Threads
      BY <1>1, <1>t, Zenon DEF TypeOK
    <2> QED
      BY <1>t, <1>u, <1>3, <1>6, <1>7, <2>1, Zenon DEF TypeOK, directory, descriptors, backend, Hashnames
  <1>9. ObjectsOK'
    <2>1. \A o \in DOMAIN inodes' : inodes'[o].hash \in Hashnames
      BY <1>2, <1>3, <1>h DEF Base, ObjectsOK, new
    <2> QED
      BY <1>u, <2>1, Zenon DEF Base, ObjectsOK, directory, descriptors, backend, Hashnames
  <1>10. FrameOK(t)'
    <2>1. LabelOK(g)
      BY <1>1, <1>5, <1>h, Zenon DEF LabelOK, FlushPCs, FileCalls
    <2> QED
      BY <1>t, <1>2, <1>3, <1>5, <1>6, <1>h, <1>u, <2>1
         DEF FrameOK, backend, descriptors, new, hash
  <1>11. Grows
    BY <1>u, <1>3, TypeFacts DEF Grows, Base, descriptors, backend, new
  <1>12. \A u \in Threads : FrameOK(u)'
    BY <1>t, <1>6, <1>8, <1>10, <1>11, OtherFrames, Zenon DEF Base
  <1>13. MutexOK'
    <2>1. mutex' = {}
      BY <1>1, <1>h, Zenon
    <2>2. \A u \in Threads : op'[u].pc \notin LockPCs
      BY <1>5, <1>6, <1>h, Zenon DEF Base, MutexOK, LockPCs, OthersStay
    <2> QED
      BY <2>1, <2>2, Zenon DEF MutexOK
  <1>14. OneInode'
    <2>1. \A p \in Hashnames : inode_table[p] # None => inode_table[p] \in DOMAIN inodes
      BY NoneFacts, Zenon DEF Base
    <2>2. Hashnames' = Hashnames
      BY <1>u, Zenon DEF Hashnames, backend
    <2>3. \A p \in Hashnames : inode_table'[p] = IF p = hash THEN new ELSE inode_table[p]
      BY <1>1, <1>7, Zenon DEF hash, new
    <2>4. new \notin DOMAIN inodes /\ DOMAIN inodes' = DOMAIN inodes \cup {new} /\ new # None
      BY <1>3 DEF new, None
    <2>5. \A o \in DOMAIN inodes : inodes[o].hash \in Hashnames
      BY Zenon DEF Base, ObjectsOK
    <2>6. \A o \in DOMAIN inodes' : inodes'[o].live => inode_table'[inodes'[o].hash] = o
      <3> SUFFICES ASSUME NEW o \in DOMAIN inodes', inodes'[o].live
                   PROVE  inode_table'[inodes'[o].hash] = o
        OBVIOUS
      <3>1. CASE o = new
        BY <3>1, <1>2, <1>3, <1>h, <2>3, Zenon DEF new
      <3>2. CASE o \in DOMAIN inodes
        <4>1. inodes[o].live /\ inode_table[inodes[o].hash] = o /\ inodes'[o].hash = inodes[o].hash
          BY <3>2, <1>3, Zenon DEF Base, OneInode
        <4>2. inodes[o].hash # hash
          BY <4>1, <3>2, <1>h, <1>3 DEF None, hash
        <4> QED
          BY <4>1, <4>2, <2>3, <2>5, <3>2, Zenon
      <3> QED
        BY <3>1, <3>2, <2>4, Zenon
    <2>7. ASSUME NEW p \in Hashnames, inode_table'[p] # None
          PROVE  inodes'[inode_table'[p]].live /\ inodes'[inode_table'[p]].hash = p
      <3>1. CASE p = hash
        BY <3>1, <1>2, <1>3, <2>3, Zenon DEF new
      <3>2. CASE p # hash
        BY <3>2, <2>1, <2>3, <2>7, <1>3, SMTT(30) DEF Base, OneInode
      <3> QED
        BY <3>1, <3>2, Zenon
    <2> QED
      BY <2>2, <2>6, <2>7, Zenon DEF OneInode
  <1> QED
    BY <1>8, <1>9, <1>12, <1>13, <1>14, Zenon DEF Base

\* The thread that waits in allocate_inode is the one that holds the mutex.
LEMMA CreatorLocks ==
  ASSUME Base, NEW t \in Threads, op[t].pc = "create_new"
  PROVE  /\ t \in mutex /\ mutex \ {t} = {}
         /\ \A u \in Threads : u # t => op[u].pc \notin LockPCs
  BY Zenon DEF Base, MutexOK, LockPCs

\* allocate_inode takes the mutex, and gives it back when it fails.
LEMMA BaseAllocateWaits ==
  ASSUME Base, NEW t \in Threads, AllocateStart(t) \/ AllocateFails(t)
  PROVE  Base'
  <1>t. op[t] \in Frames /\ FrameOK(t) /\ LabelOK(op[t]) /\ TypeOK
    BY Zenon DEF Base, TypeOK, FrameOK
  <1>u. UNCHANGED <<mode, directory, descriptors, inode_table, inodes, backend, writes, fault>>
    BY Zenon DEF AllocateStart, AllocateFails
  <1>1. /\ Grows /\ Len(index') \in Nat /\ DOMAIN files \subseteq DOMAIN files'
        /\ DOMAIN inodes \subseteq DOMAIN inodes'
    BY <1>u, TypeFacts DEF Grows, Base, backend, descriptors
  <1>2. /\ op' \in [Threads -> Frames] /\ OthersStay(t) /\ FrameOK(t)'
        /\ mutex' \subseteq Threads /\ MutexOK'
    <2>1. CASE AllocateStart(t)
      <3> DEFINE g == [op[t] EXCEPT !.pc = "create_new"]
      <3>1. op[t].pc = "allocate" /\ mutex = {} /\ mutex' = {t} /\ Goto(t, "create_new")
        BY <2>1, Zenon DEF AllocateStart
      <3>2. op' \in [Threads -> Frames] /\ OthersStay(t) /\ op'[t] = g
        BY <3>1, <1>t, GotoUpdate, Zenon DEF TypeOK, PCs
      <3>3. /\ g.pc = "create_new" /\ g.call = op[t].call /\ g.name = op[t].name
            /\ g.h = op[t].h /\ g.hash = op[t].hash
        BY <1>t, Zenon DEF Frames
      <3> HIDE DEF g
      <3>4. LabelOK(g)
        BY <1>t, <3>1, <3>3, Zenon DEF LabelOK, FlushPCs
      <3>5. FrameOK(t)'
        BY <1>t, <1>u, <3>2, <3>3, <3>4, Zenon DEF FrameOK, InoPCs, UsePCs, backend, descriptors
      <3>6. MutexOK'
        BY <3>1, <3>2, <3>3 DEF Base, MutexOK, LockPCs, OthersStay
      <3> QED
        BY <3>1, <3>2, <3>5, <3>6, Zenon
    <2>2. CASE AllocateFails(t)
      <3>1. op[t].pc = "create_new" /\ mutex' = mutex \ {t} /\ Return(t)
        BY <2>2, Zenon DEF AllocateFails
      <3>2. op' \in [Threads -> Frames] /\ OthersStay(t) /\ FrameOK(t)' /\ op'[t].pc = "idle"
        BY <1>1, <3>1, ReturnFrame, Zenon
      <3>3. mutex' = {} /\ \A u \in Threads : u # t => op[u].pc \notin LockPCs
        BY <3>1, CreatorLocks, Zenon
      <3>4. MutexOK'
        BY <3>2, <3>3, Zenon DEF MutexOK, LockPCs, OthersStay
      <3> QED
        BY <3>2, <3>3, <3>4, Zenon
    <2> QED
      BY <2>1, <2>2, Zenon
  <1>3. TypeOK'
    BY <1>t, <1>u, <1>2, Zenon DEF TypeOK, directory, descriptors, backend, Hashnames
  <1>4. ObjectsOK'
    BY <1>u, Zenon DEF Base, ObjectsOK, directory, descriptors, backend, Hashnames
  <1>5. \A u \in Threads : FrameOK(u)'
    BY <1>1, <1>2, <1>3, OtherFrames, Zenon DEF Base
  <1>6. OneInode'
    BY <1>u, Zenon DEF Base, OneInode, backend, Hashnames
  <1> QED
    BY <1>2, <1>3, <1>4, <1>5, <1>6, Zenon DEF Base

\* allocate_inode makes a file and its Inode.
LEMMA BaseAllocateInode ==
  ASSUME Base, NEW t \in Threads, AllocateInode(t)
  PROVE  Base'
  <1> DEFINE new == Len(inodes) + 1
             hash == Len(index) + 1
             i == NewInode(hash, None)
             g == [op[t] EXCEPT !.pc = "use", !.hash = hash, !.ino = new]
  <1>t. op \in [Threads -> Frames] /\ op[t] \in Frames /\ FrameOK(t) /\ TypeOK
    BY Zenon DEF Base, TypeOK
  <1>1. /\ op[t].pc = "create_new" /\ op' = [op EXCEPT ![t] = g] /\ inodes' = Append(inodes, i)
        /\ mutex' = mutex \ {t} /\ index' = Append(index, None) /\ versions' = Append(versions, <<>>)
        /\ inode_table' = Append(inode_table, new)
    BY <1>t, Zenon DEF AllocateInode
  <1>u. UNCHANGED <<mode, directory, descriptors, writes, fault>>
    BY Zenon DEF AllocateInode
  <1>m. mutex' = {} /\ \A u \in Threads : u # t => op[u].pc \notin LockPCs
    BY <1>1, CreatorLocks, Zenon
  <1>x. /\ index' \in Seq(Nat) /\ Len(index') = hash /\ Len(index) \in Nat
        /\ Hashnames' = 1 .. hash /\ Hashnames = 1 .. Len(index) /\ index'[hash] = None
        /\ \A p \in Hashnames : index'[p] = index[p]
    <2>1. index \in Seq(Nat)
      BY <1>t, Zenon DEF TypeOK
    <2> QED
      BY <1>1, <2>1 DEF None, Hashnames
  <1>v. /\ versions' \in Seq(Seq(SUBSET Nat)) /\ DOMAIN versions' = Hashnames'
        /\ versions'[hash] = <<>> /\ \A p \in Hashnames : versions'[p] = versions[p]
    <2>1. versions \in Seq(Seq(SUBSET Nat)) /\ DOMAIN versions = Hashnames /\ Len(versions) = Len(index)
      BY <1>t, TypeFacts, Zenon DEF TypeOK
    <2>2. <<>> \in Seq(SUBSET Nat)
      OBVIOUS
    <2> DEFINE Histories == Seq(SUBSET Nat)
    <2> HIDE DEF Histories
    <2>3. /\ versions' \in Seq(Histories) /\ DOMAIN versions' = 1 .. hash
          /\ versions'[hash] = <<>> /\ \A p \in DOMAIN versions : versions'[p] = versions[p]
      BY <1>1, <2>1, <2>2 DEF Histories
    <2> QED
      BY <2>1, <2>3, <1>x, Zenon DEF Histories
  <1>2. i \in Inodes /\ i.hash = hash /\ i.live
    <2>1. hash \in Nat
      BY <1>x
    <2> HIDE DEF hash
    <2> QED
      BY <2>1, Zenon DEF NewInode, Inodes, None
  <1> HIDE DEF i
  <1>3. /\ inodes' \in Seq(Inodes) /\ Len(inodes') = new
        /\ DOMAIN inodes' = 1 .. new /\ Len(inodes) \in Nat /\ DOMAIN inodes = 1 .. Len(inodes)
        /\ inodes'[new] = i /\ \A o \in DOMAIN inodes : inodes'[o] = inodes[o]
    BY <1>1, <1>2, <1>t, AppendInode, Zenon
  <1>4. g \in Frames
    <2>1. new \in Nat /\ hash \in Nat
      BY <1>3, <1>x
    <2> HIDE DEF new, hash
    <2> QED
      BY <1>t, <2>1, Zenon DEF Frames, PCs
  <1>5. /\ g.pc = "use" /\ g.call = op[t].call /\ g.name = op[t].name /\ g.h = op[t].h
        /\ g.hash = hash /\ g.ino = new
    BY <1>t, Zenon DEF Frames
  <1> HIDE DEF g
  <1>6. op' \in [Threads -> Frames] /\ op'[t] = g /\ OthersStay(t)
    BY <1>t, <1>1, <1>4, FrameUpdate, Zenon
  <1>7. /\ inode_table' \in Seq(0 .. Len(inodes')) /\ DOMAIN inode_table' = Hashnames'
        /\ inode_table'[hash] = new /\ \A p \in Hashnames : inode_table'[p] = inode_table[p]
    <2> DEFINE More == 0 .. new
    <2>1. /\ inode_table \in Seq(More) /\ new \in More /\ Len(inode_table) = Len(index)
          /\ DOMAIN inode_table = Hashnames
      BY <1>3, <1>t, WidenTable, TypeFacts
    <2> HIDE DEF More
    <2>2. /\ inode_table' \in Seq(More) /\ DOMAIN inode_table' = 1 .. hash
          /\ inode_table'[hash] = new /\ \A p \in DOMAIN inode_table : inode_table'[p] = inode_table[p]
      BY <1>1, <2>1
    <2> QED
      BY <2>1, <2>2, <1>3, <1>x, Zenon DEF More
  <1>h. hash # None /\ hash \in Hashnames' /\ hash \notin Hashnames /\ hash = Len(index')
        /\ Hashnames' = Hashnames \cup {hash} /\ Len(index) <= Len(index') /\ Len(index') \in Nat
    BY <1>x DEF None
  <1>n. new \notin DOMAIN inodes /\ DOMAIN inodes' = DOMAIN inodes \cup {new} /\ new # None
        /\ Len(inodes) <= Len(inodes')
    BY <1>3 DEF None
  <1> HIDE DEF new, hash
  <1>8. TypeOK'
    <2>1. fd_table' \in [0 .. FdTableMax - 1 -> 0 .. Len(index')]
      <3>1. fd_table \in [0 .. FdTableMax - 1 -> 0 .. Len(index)] /\ fd_table' = fd_table
        BY <1>t, <1>u, Zenon DEF TypeOK, descriptors
      <3>2. 0 .. Len(index) \subseteq 0 .. Len(index')
        BY <1>h, <1>x
      <3> QED
        BY <3>1, <3>2, Zenon
    <2>2. DOMAIN inode_table' = Hashnames' /\ DOMAIN versions' = Hashnames'
      BY <1>7, <1>v, Zenon
    <2> QED
      BY <1>t, <1>u, <1>m, <1>3, <1>6, <1>7, <1>x, <1>v, <2>1, <2>2, Zenon
         DEF TypeOK, directory, descriptors
  <1>9. ObjectsOK'
    <2>1. \A o \in DOMAIN inodes' : inodes'[o].hash \in Hashnames'
      BY <1>2, <1>3, <1>h, <1>n, Zenon DEF Base, ObjectsOK
    <2>2. \A p \in Hashnames' : index'[p] = Len(versions'[p])
      <3>1. \A p \in Hashnames : index'[p] = Len(versions'[p])
        BY <1>x, <1>v DEF Base, ObjectsOK
      <3>2. index'[hash] = Len(versions'[hash])
        BY <1>x, <1>v, Zenon DEF None
      <3> QED
        BY <1>h, <3>1, <3>2
    <2> QED
      BY <1>u, <1>h, <2>1, <2>2, Zenon DEF Base, ObjectsOK, directory, descriptors
  <1>10. FrameOK(t)'
    <2>1. op[t].call = "create"
      BY <1>t, <1>1, Zenon DEF FrameOK, LabelOK
    <2>2. LabelOK(g)
      BY <1>5, <2>1, Zenon DEF LabelOK, FlushPCs
    <2>3. hash \in 0 .. Len(index')
      BY <1>h, <1>x
    <2>4. op[t].name # NoName
      BY <1>t, <2>1, Zenon DEF FrameOK, DirectoryCalls
    <2> QED
      BY <1>2, <1>3, <1>5, <1>6, <1>h, <1>n, <2>1, <2>2, <2>3, <2>4, Zenon DEF FrameOK, FileCalls
  <1>11. Grows
    BY <1>u, <1>3, <1>h, <1>n, TypeFacts, SMTT(30) DEF Grows, Base, descriptors
  <1>12. \A u \in Threads : FrameOK(u)'
    BY <1>t, <1>6, <1>8, <1>10, <1>11, OtherFrames, Zenon DEF Base
  <1>13. MutexOK'
    BY <1>5, <1>6, <1>m, Zenon DEF MutexOK, LockPCs, OthersStay
  <1>14. OneInode'
    <2>1. \A p \in Hashnames : inode_table[p] # None => inode_table[p] \in DOMAIN inodes
      BY NoneFacts, Zenon DEF Base
    <2>2. \A o \in DOMAIN inodes : inodes[o].hash \in Hashnames
      BY Zenon DEF Base, ObjectsOK
    <2>3. \A o \in DOMAIN inodes' : inodes'[o].live => inode_table'[inodes'[o].hash] = o
      BY <1>2, <1>3, <1>7, <1>n, <2>2, Zenon DEF Base, OneInode
    <2>4. ASSUME NEW p \in Hashnames', inode_table'[p] # None
          PROVE  inodes'[inode_table'[p]].live /\ inodes'[inode_table'[p]].hash = p
      BY <1>2, <1>3, <1>7, <1>h, <2>1, <2>4 DEF Base, OneInode
    <2> QED
      BY <2>3, <2>4, ZenonT(30) DEF OneInode
  <1> QED
    BY <1>8, <1>9, <1>12, <1>13, <1>14, Zenon DEF Base

\* New entries, open files and versions, and the release of an Inode.
LEMMA BaseAddentPush ==
  ASSUME Base, NEW t \in Threads, AddentPush(t)
  PROVE  Base'
  <1> DEFINE e == [name |-> op[t].name, hash |-> op[t].hash]
  <1>t. op[t] \in Frames /\ FrameOK(t) /\ LabelOK(op[t]) /\ TypeOK
    BY Zenon DEF Base, TypeOK, FrameOK
  <1>1. /\ op[t].pc = "push_back" /\ entries' = Append(entries, e) /\ it' \in {it, Dangling}
        /\ Goto(t, "reset")
        /\ UNCHANGED <<mode, descriptors, table, inodes, backend, writes, fault>>
    BY Zenon DEF AddentPush
  <1>2. op[t].name \in Names /\ op[t].hash \in Hashnames /\ op[t].hash \in Nat
    <2>1. op[t].call = "create" /\ op[t].hash # None /\ op[t].hash \in 0 .. Len(index)
      BY <1>t, <1>1, Zenon DEF FrameOK, LabelOK, InoPCs
    <2>2. op[t].name \in Names
      BY <1>t, <2>1, Zenon DEF FrameOK, DirectoryCalls, Frames
    <2>3. Len(index) \in Nat /\ Hashnames = 1 .. Len(index)
      BY <1>t, TypeFacts, Zenon
    <2> QED
      BY <2>1, <2>2, <2>3 DEF None
  <1>3. /\ entries' \in Seq(Entries) /\ Len(entries') = Len(entries) + 1 /\ Len(entries) \in Nat
        /\ \A i \in DOMAIN entries' : entries'[i] = e \/ (i \in DOMAIN entries /\ entries'[i] = entries[i])
    <2>1. e \in Entries /\ entries \in Seq(Entries)
      BY <1>2, <1>t, Zenon DEF Entries, TypeOK
    <2> HIDE DEF e
    <2>2. /\ Append(entries, e) \in Seq(Entries)
          /\ Len(entries) \in Nat /\ Len(Append(entries, e)) = Len(entries) + 1
          /\ DOMAIN entries = 1 .. Len(entries) /\ DOMAIN Append(entries, e) = 1 .. Len(entries) + 1
          /\ \A i \in DOMAIN Append(entries, e) :
               Append(entries, e)[i] = e \/ (i \in DOMAIN entries /\ Append(entries, e)[i] = entries[i])
      BY <2>1, AppendFacts
    <2>3. entries' = Append(entries, e)
      BY <1>1, Zenon
    <2> QED
      BY <2>2, <2>3, Zenon
  <1>4. Grows
    BY <1>1, TypeFacts DEF Grows, Base, descriptors, backend
  <1>5. op' \in [Threads -> Frames] /\ OthersStay(t) /\ FrameOK(t)' /\ op'[t].pc = "reset"
    <2>1. LabelOK([op[t] EXCEPT !.pc = "reset"])
      BY <1>t, <1>1, Zenon DEF LabelOK, FlushPCs, Frames
    <2>2. Len(index') \in Nat /\ DOMAIN files \subseteq DOMAIN files' /\ DOMAIN inodes \subseteq DOMAIN inodes'
      BY <1>1, TypeFacts, Zenon DEF Base, descriptors, backend
    <2>3. "reset" \in PCs /\ op[t].pc \in InoPCs
      BY <1>1, Zenon DEF PCs, InoPCs
    <2> QED
      BY <1>1, <1>4, <2>1, <2>2, <2>3, GotoFrame, Zenon DEF LockPCs
  <1>6. it' \in 0 .. Len(entries') + 1
    <2>1. it \in 0 .. Len(entries) + 1
      BY <1>t, Zenon DEF TypeOK
    <2> QED
      BY <1>1, <1>3, <2>1 DEF Dangling
  <1>7. TypeOK'
    BY <1>t, <1>1, <1>3, <1>5, <1>6, Zenon DEF TypeOK, descriptors, table, backend, Hashnames
  <1>8. ObjectsOK'
    <2>1. \A i \in DOMAIN entries' : entries'[i].hash \in Hashnames
      BY <1>2, <1>3 DEF Base, ObjectsOK
    <2> QED
      BY <1>1, <2>1, Zenon DEF Base, ObjectsOK, descriptors, backend, Hashnames
  <1>9. \A u \in Threads : FrameOK(u)'
    BY <1>t, <1>4, <1>5, <1>7, OtherFrames, Zenon DEF Base
  <1>10. MutexOK'
    <2>1. UNCHANGED <<mutex, inode_table>> /\ mutex \in SUBSET Threads /\ MutexOK
      BY <1>1, Zenon DEF Base, TypeOK, table
    <2>2. t \notin mutex /\ op'[t].pc \notin LockPCs
      BY <1>1, <1>5, <2>1, Zenon DEF MutexOK, LockPCs
    <2>3. \A u \in Threads : u # t => op'[u] = op[u]
      BY <1>5, Zenon DEF OthersStay
    <2> QED
      BY <2>1, <2>2, <2>3, Zenon DEF MutexOK
  <1>11. OneInode'
    BY <1>1, Zenon DEF Base, OneInode, table, backend, Hashnames
  <1> QED
    BY <1>7, <1>8, <1>9, <1>10, <1>11, Zenon DEF Base

\* create and open hand out a descriptor.
LEMMA BaseFdStore ==
  ASSUME Base, NEW t \in Threads, FdStore(t)
  PROVE  Base'
  <1> DEFINE fd == op[t].tmp + 1
             k == [fd |-> fd, hash |-> op[t].hash, descs |-> 1]
  <1>t. op[t] \in Frames /\ FrameOK(t) /\ TypeOK
    BY Zenon DEF Base, TypeOK
  <1>1. /\ op[t].pc = "fd_store" /\ fd < FdTableMax /\ fd_cnt' = fd /\ Return(t)
        /\ fd_table' = [fd_table EXCEPT ![fd] = op[t].hash] /\ files' = Append(files, k)
    BY Zenon DEF FdStore
  <1>u. UNCHANGED <<mode, directory, table, inodes, backend, writes, fault>>
    BY Zenon DEF FdStore
  <1>2. /\ op[t].hash \in Hashnames /\ op[t].hash \in Nat /\ op[t].hash \in 0 .. Len(index)
        /\ fd \in Nat /\ fd \in 0 .. FdTableMax - 1
    <2>1. op[t].hash # None /\ op[t].hash \in 0 .. Len(index)
      BY <1>t, <1>1, Zenon DEF FrameOK, InoPCs
    <2>2. op[t].tmp \in Nat /\ FdTableMax \in Nat
      BY <1>t, DcfsAssumption, Zenon DEF Frames
    <2>3. fd \in Nat /\ fd \in 0 .. FdTableMax - 1
      BY <1>1, <2>2
    <2>4. Len(index) \in Nat /\ Hashnames = 1 .. Len(index)
      BY <1>t, TypeFacts, Zenon
    <2> HIDE DEF fd
    <2> QED
      BY <2>1, <2>3, <2>4 DEF None
  <1> HIDE DEF fd
  <1>3. /\ files' \in Seq(Files) /\ Len(files') = Len(files) + 1 /\ Len(files) \in Nat
        /\ DOMAIN files = 1 .. Len(files) /\ DOMAIN files' = 1 .. Len(files) + 1
        /\ \A h \in DOMAIN files' : files'[h] = k \/ (h \in DOMAIN files /\ files'[h] = files[h])
    <2>1. k \in Files /\ files \in Seq(Files)
      BY <1>2, <1>t, Zenon DEF Files, TypeOK
    <2> HIDE DEF k
    <2>2. /\ Append(files, k) \in Seq(Files)
          /\ Len(files) \in Nat /\ Len(Append(files, k)) = Len(files) + 1
          /\ DOMAIN files = 1 .. Len(files) /\ DOMAIN Append(files, k) = 1 .. Len(files) + 1
          /\ \A h \in DOMAIN Append(files, k) :
               Append(files, k)[h] = k \/ (h \in DOMAIN files /\ Append(files, k)[h] = files[h])
      BY <2>1, AppendFacts
    <2>3. files' = Append(files, k)
      BY <1>1, ZenonT(30)
    <2> QED
      BY <2>2, <2>3, Zenon
  <1>4. Grows
    BY <1>3, <1>u, TypeFacts DEF Grows, Base, backend
  <1>5. op' \in [Threads -> Frames] /\ OthersStay(t) /\ FrameOK(t)' /\ op'[t].pc = "idle"
    <2>1. Len(index') \in Nat
      BY <1>u, TypeFacts, Zenon DEF Base, backend
    <2> QED
      BY <1>1, <2>1, ReturnFrame, Zenon
  <1>6. fd_table' \in [0 .. FdTableMax - 1 -> 0 .. Len(index)]
    BY <1>1, <1>2, <1>t, Zenon DEF TypeOK
  <1>7. TypeOK'
    BY <1>t, <1>u, <1>1, <1>2, <1>3, <1>5, <1>6, Zenon DEF TypeOK, directory, table, backend, Hashnames
  <1>8. ObjectsOK'
    <2>1. \A h \in DOMAIN files' : files'[h].hash \in Hashnames /\ files'[h].fd \in 0 .. FdTableMax - 1
      BY <1>2, <1>3 DEF Base, ObjectsOK
    <2> QED
      BY <1>u, <2>1, Zenon DEF Base, ObjectsOK, directory, backend, Hashnames
  <1>9. \A u \in Threads : FrameOK(u)'
    BY <1>t, <1>4, <1>5, <1>7, OtherFrames, Zenon DEF Base
  <1>10. MutexOK'
    <2>1. mutex' = mutex /\ inode_table' = inode_table /\ mutex \subseteq Threads
      BY <1>t, <1>u, Zenon DEF table, TypeOK
    <2> QED
      BY <1>1, <1>5, <2>1 DEF Base, MutexOK, LockPCs, OthersStay
  <1>11. OneInode'
    BY <1>u, Zenon DEF Base, OneInode, table, backend, Hashnames
  <1> QED
    BY <1>7, <1>8, <1>9, <1>10, <1>11, Zenon DEF Base

\* Modify moves index_ to a new version.
LEMMA BaseModifyCommit ==
  ASSUME Base, NEW t \in Threads, ModifyCommit(t)
  PROVE  Base'
  <1> DEFINE hash == op[t].hash
             n == Len(versions[hash]) + 1
             vs == Append(versions[hash], op[t].data)
  <1>t. op[t] \in Frames /\ FrameOK(t) /\ LabelOK(op[t]) /\ TypeOK
    BY Zenon DEF Base, TypeOK, FrameOK
  <1>1. /\ op[t].pc = "commit" /\ versions' = [versions EXCEPT ![hash] = vs]
        /\ index' = [index EXCEPT ![hash] = n] /\ Goto(t, "drop")
    BY Zenon DEF ModifyCommit
  <1>u. UNCHANGED <<mode, directory, descriptors, table, inodes, writes, fault>>
    BY Zenon DEF ModifyCommit
  <1>2. hash \in Hashnames
    BY <1>t, <1>1, NoneFacts, Zenon DEF FrameOK, InoPCs, Base
  <1>3. vs \in Seq(SUBSET Nat) /\ n \in Nat /\ Len(vs) = n
    <2>1. versions[hash] \in Seq(SUBSET Nat) /\ op[t].data \in SUBSET Nat
      BY <1>2, <1>t, ElementTypes, Zenon DEF Frames
    <2> DEFINE Sets == SUBSET Nat
    <2> HIDE DEF Sets
    <2>2. vs \in Seq(Sets) /\ n \in Nat /\ Len(vs) = n
      BY <2>1 DEF Sets
    <2> QED
      BY <2>2, Zenon DEF Sets
  <1> HIDE DEF vs, n
  <1>4. /\ index' \in Seq(Nat) /\ Len(index') = Len(index) /\ Hashnames' = Hashnames
        /\ \A p \in Hashnames : index'[p] = IF p = hash THEN n ELSE index[p]
    <2>1. index \in Seq(Nat)
      BY <1>t, Zenon DEF TypeOK
    <2> QED
      BY <1>1, <1>2, <1>3, <2>1 DEF Hashnames
  <1>5. /\ versions' \in Seq(Seq(SUBSET Nat)) /\ DOMAIN versions' = Hashnames
        /\ \A p \in Hashnames : versions'[p] = IF p = hash THEN vs ELSE versions[p]
    <2> DEFINE Histories == Seq(SUBSET Nat)
    <2>1. versions \in Seq(Histories) /\ DOMAIN versions = Hashnames /\ vs \in Histories
      BY <1>t, <1>3, Zenon DEF TypeOK
    <2> HIDE DEF Histories
    <2>2. versions' \in Seq(Histories) /\ DOMAIN versions' = Hashnames
          /\ \A p \in Hashnames : versions'[p] = IF p = hash THEN vs ELSE versions[p]
      BY <1>1, <1>2, <2>1
    <2> QED
      BY <2>2, Zenon DEF Histories
  <1>6. Grows
    BY <1>4, <1>u, TypeFacts DEF Grows, Base, descriptors
  <1>7. op' \in [Threads -> Frames] /\ OthersStay(t) /\ FrameOK(t)' /\ op'[t].pc = "drop"
    <2>1. LabelOK([op[t] EXCEPT !.pc = "drop"])
      BY <1>t, <1>1, Zenon DEF LabelOK, FlushPCs, Frames
    <2>2. Len(index') \in Nat /\ DOMAIN files \subseteq DOMAIN files' /\ DOMAIN inodes \subseteq DOMAIN inodes'
      BY <1>4, <1>u, TypeFacts, Zenon DEF Base, descriptors
    <2>3. "drop" \in PCs /\ op[t].pc \in InoPCs
      BY <1>1, Zenon DEF PCs, InoPCs
    <2> QED
      BY <1>1, <1>6, <2>1, <2>2, <2>3, GotoFrame, Zenon DEF LockPCs
  <1> HIDE DEF hash
  <1>8. TypeOK'
    <2>1. Len(index') = Len(index) /\ Hashnames' = Hashnames
      BY <1>4, Zenon
    <2> QED
      BY <1>t, <1>u, <1>4, <1>5, <1>7, <2>1, Zenon DEF TypeOK, directory, descriptors, table
  <1>9. ObjectsOK'
    <2>1. \A p \in Hashnames : index'[p] = Len(versions'[p])
      BY <1>3, <1>4, <1>5, Zenon DEF Base, ObjectsOK
    <2> QED
      BY <1>u, <1>4, <2>1, Zenon DEF Base, ObjectsOK, directory, descriptors
  <1>10. \A u \in Threads : FrameOK(u)'
    BY <1>t, <1>6, <1>7, <1>8, OtherFrames, Zenon DEF Base
  <1>11. MutexOK'
    <2>1. mutex' = mutex /\ inode_table' = inode_table /\ mutex \subseteq Threads
      BY <1>t, <1>u, Zenon DEF table, TypeOK
    <2> QED
      BY <1>1, <1>7, <2>1 DEF Base, MutexOK, LockPCs, OthersStay
  <1>12. OneInode'
    BY <1>u, <1>4, Zenon DEF Base, OneInode, table
  <1> QED
    BY <1>8, <1>9, <1>10, <1>11, <1>12, Zenon DEF Base

\* release_inode deletes the Inode and flush clears fd_table.
LEMMA BaseReleaseInode ==
  ASSUME Base, NEW t \in Threads, ReleaseInode(t)
  PROVE  Base'
  <1> DEFINE hash == op[t].hash
             dead == inode_table[hash]
  <1>t. op[t] \in Frames /\ FrameOK(t) /\ TypeOK
    BY Zenon DEF Base, TypeOK
  <1>1. /\ op[t].pc = "release" /\ mutex = {} /\ Return(t)
        /\ inodes' = [o \in DOMAIN inodes |->
                        IF o = dead THEN [inodes[o] EXCEPT !.live = FALSE] ELSE inodes[o]]
        /\ inode_table' = [inode_table EXCEPT ![hash] = None]
        /\ fd_table' = [fd_table EXCEPT ![files[op[t].h].fd] = None]
    BY Zenon DEF ReleaseInode, At
  <1>u. UNCHANGED <<mode, directory, fd_cnt, files, mutex, backend, writes, fault>>
    BY Zenon DEF ReleaseInode
  <1>2. hash \in Hashnames
    BY <1>t, <1>1, NoneFacts, Zenon DEF FrameOK, InoPCs, UsePCs, Base
  <1>3. /\ inodes' \in Seq(Inodes) /\ Len(inodes') = Len(inodes) /\ DOMAIN inodes' = DOMAIN inodes
        /\ \A o \in DOMAIN inodes : /\ inodes'[o].hash = inodes[o].hash
                                    /\ inodes'[o].live <=> inodes[o].live /\ o # dead
    <2>1. \A o \in DOMAIN inodes : inodes[o] \in Inodes
      BY <1>t, ElementTypes, Zenon
    <2>2. \A o \in DOMAIN inodes : /\ inodes'[o] \in Inodes
                                   /\ inodes'[o].hash = inodes[o].hash
                                   /\ inodes'[o].live <=> inodes[o].live /\ o # dead
      <3> SUFFICES ASSUME NEW o \in DOMAIN inodes
                   PROVE  /\ inodes'[o] \in Inodes
                          /\ inodes'[o].hash = inodes[o].hash
                          /\ inodes'[o].live <=> inodes[o].live /\ o # dead
        OBVIOUS
      <3>1. CASE o = dead
        <4> DEFINE i == [inodes[o] EXCEPT !.live = FALSE]
        <4>1. i \in Inodes /\ i.hash = inodes[o].hash /\ i.live = FALSE
          BY <2>1, Zenon DEF Inodes
        <4>2. inodes'[o] = i
          BY <1>1, <3>1, Zenon
        <4> QED
          BY <3>1, <4>1, <4>2, Zenon
      <3>2. CASE o # dead
        <4>1. inodes'[o] = inodes[o]
          BY <1>1, <3>2, Zenon
        <4> QED
          BY <2>1, <3>2, <4>1, Zenon
      <3> QED
        BY <3>1, <3>2, Zenon
    <2>3. DOMAIN inodes' = 1 .. Len(inodes) /\ Len(inodes) \in Nat /\ DOMAIN inodes = 1 .. Len(inodes)
      BY <1>1, <1>t, TypeFacts, Zenon
    <2>4. inodes' \in Seq(Inodes) /\ Len(inodes') = Len(inodes)
      <3>1. inodes' = [o \in 1 .. Len(inodes) |-> inodes'[o]]
        BY <1>1, <2>3, Zenon
      <3> QED
        BY <3>1, <2>2, <2>3
    <2> QED
      BY <2>2, <2>3, <2>4, Zenon
  <1>4. /\ inode_table' \in Seq(0 .. Len(inodes)) /\ DOMAIN inode_table' = Hashnames
        /\ \A p \in Hashnames : inode_table'[p] = IF p = hash THEN None ELSE inode_table[p]
    <2> DEFINE Pointers == 0 .. Len(inodes)
    <2>1. inode_table \in Seq(Pointers) /\ DOMAIN inode_table = Hashnames /\ None \in Pointers
      BY <1>t DEF TypeOK, None
    <2> HIDE DEF Pointers
    <2>2. /\ inode_table' \in Seq(Pointers) /\ DOMAIN inode_table' = Hashnames
          /\ \A p \in Hashnames : inode_table'[p] = IF p = hash THEN None ELSE inode_table[p]
      BY <1>1, <1>2, <2>1
    <2> QED
      BY <2>2, Zenon DEF Pointers
  <1>5. fd_table' \in [0 .. FdTableMax - 1 -> 0 .. Len(index)]
    <2>1. fd_table \in [0 .. FdTableMax - 1 -> 0 .. Len(index)] /\ None \in 0 .. Len(index)
      BY <1>t DEF TypeOK, None
    <2> QED
      BY <1>1, <2>1, Zenon
  <1>6. Grows
    BY <1>3, <1>u, TypeFacts DEF Grows, Base, backend
  <1>7. op' \in [Threads -> Frames] /\ OthersStay(t) /\ FrameOK(t)' /\ op'[t].pc = "idle"
    <2>1. Len(index') \in Nat
      BY <1>u, TypeFacts, Zenon DEF Base, backend
    <2> QED
      BY <1>1, <2>1, ReturnFrame, Zenon
  <1> HIDE DEF hash, dead
  <1>8. TypeOK'
    <2>1. Len(inodes') = Len(inodes) /\ index' = index /\ versions' = versions /\ DOMAIN inode_table' = Hashnames
      BY <1>3, <1>4, <1>u, Zenon DEF backend
    <2> QED
      BY <1>t, <1>u, <1>3, <1>4, <1>5, <1>7, <2>1, Zenon DEF TypeOK, directory, Hashnames
  <1>9. ObjectsOK'
    BY <1>u, <1>3, SMTT(30) DEF Base, ObjectsOK, directory, backend, Hashnames
  <1>10. \A u \in Threads : FrameOK(u)'
    BY <1>t, <1>6, <1>7, <1>8, OtherFrames, Zenon DEF Base
  <1>11. MutexOK'
    BY <1>1, <1>u, <1>7, SMTT(30) DEF Base, MutexOK, LockPCs, OthersStay
  <1>12. OneInode'
    <2>1. \A p \in Hashnames : inode_table[p] # None => inode_table[p] \in DOMAIN inodes
      BY NoneFacts, Zenon DEF Base
    <2>2. Hashnames' = Hashnames
      BY <1>u, Zenon DEF Hashnames, backend
    <2>3. \A o \in DOMAIN inodes : inodes[o].hash \in Hashnames
      BY Zenon DEF Base, ObjectsOK
    <2>4. \A o \in DOMAIN inodes' : inodes'[o].live => inode_table'[inodes'[o].hash] = o
      BY <1>3, <1>4, <2>3 DEF Base, OneInode, dead
    <2>5. ASSUME NEW p \in Hashnames, inode_table'[p] # None
          PROVE  inodes'[inode_table'[p]].live /\ inodes'[inode_table'[p]].hash = p
      <3>1. p # hash /\ inode_table'[p] = inode_table[p] /\ inode_table[p] \in DOMAIN inodes
        BY <1>4, <2>1, <2>5, Zenon
      <3>2. inodes[inode_table[p]].live /\ inodes[inode_table[p]].hash = p
        BY <3>1, <2>5, Zenon DEF Base, OneInode
      <3>3. inode_table[p] # dead
        BY <3>1, <3>2, <2>5, <1>2, Zenon DEF Base, OneInode, dead
      <3> QED
        BY <1>3, <3>1, <3>2, <3>3, Zenon
    <2> QED
      BY <2>2, <2>4, <2>5, Zenon DEF OneInode
  <1> QED
    BY <1>8, <1>9, <1>10, <1>11, <1>12, Zenon DEF Base

\* Every step keeps Base.
LEMMA BaseNext ==
  ASSUME Base, [Next]_vars
  PROVE  Base'
  <1>1. CASE UNCHANGED vars
    BY <1>1, Zenon DEF vars, Base, TypeOK, ObjectsOK, FrameOK, MutexOK, OneInode, Hashnames,
       directory, descriptors, table, backend
  <1>2. CASE Call
    BY <1>2, BaseCallDirectory, BaseCallFile, BaseDup, Zenon DEF Call
  <1>3. ASSUME NEW t \in Threads, Step(t) PROVE Base'
    BY <1>3, BaseLookup, BaseReads, BaseMoves, BaseInodeSteps, BaseGetInodeMiss,
       BaseLoadInode, BaseAllocateWaits, BaseAllocateInode, BaseAddentPush, BaseFdStore,
       BaseModifyCommit, BaseReleaseInode, SMTT(30) DEF Step
  <1> QED
    BY <1>1, <1>2, <1>3, ZenonT(30) DEF Next

=============================================================================
