---------------------------- MODULE DcfsCounted -----------------------------
(*****************************************************************************)
(* What holds when conflicting calls exclude each other, and when also every *)
(* open file is closed once: Apart is inductive relative to Base, and Counted *)
(* relative to both.                                                         *)
(*****************************************************************************)
EXTENDS DcfsSteps

\* A step of a handler keeps conflicting calls apart: the names that appear in
\* the directory are the ones of the only directory call.
LEMMA ExclusiveStep ==
  ASSUME Base, Exclusive, NEW t \in Threads, Step(t)
  PROVE  Exclusive'
  <1>1. OthersStay(t) /\ (op'[t] = IdleFrame \/ SameCall(t))
    BY StepFrame, Zenon
  <1>2. ASSUME NEW u \in Threads
        PROVE  \/ op'[u].call = "none"
               \/ op'[u].call = op[u].call /\ op'[u].name = op[u].name /\ op'[u].h = op[u].h
    BY <1>1 DEF OthersStay, SameCall, IdleFrame
  <1>3. ASSUME NEW u \in Threads, op[u].call \in FileCalls
        PROVE  op[u].h \in DOMAIN files /\ files'[op[u].h].hash = files[op[u].h].hash
    BY <1>3, StepGrows, Zenon DEF Base, FrameOK
  <1>4. ASSUME NEW v \in Threads, op[v].call \in {"getattr", "open"}, NEW hash,
               \E i \in DOMAIN entries' : entries'[i] = [name |-> op[v].name, hash |-> hash]
        PROVE  IsNamed(op[v].name, hash)
    <2>1. CASE entries' = entries
      BY <1>4, <2>1, Zenon DEF IsNamed
    <2>2. CASE AddentPush(t)
      <3>1. op[t].call = "create"
        BY <2>2, Zenon DEF AddentPush, Base, FrameOK, LabelOK
      <3> QED
        BY <1>4, <3>1, Zenon DEF Exclusive, DirectoryCalls
    <2> QED
      BY <2>1, <2>2, StepDirectory, Zenon
  <1> SUFFICES ASSUME NEW u \in Threads, NEW v \in Threads, u # v
               PROVE  /\ ~ (op'[u].call \in DirectoryCalls /\ op'[v].call \in DirectoryCalls)
                      /\ op'[u].call = "flush" => ~ FlushConflict(op[u].h, op[v])'
    BY Zenon DEF Exclusive
  <1>5. ~ (op'[u].call \in DirectoryCalls /\ op'[v].call \in DirectoryCalls)
    BY <1>2 DEF Exclusive, DirectoryCalls
  <1>6. ASSUME op'[u].call = "flush" PROVE ~ FlushConflict(op[u].h, op[v])'
    <2>1. op[u].call = "flush" /\ op'[u].h = op[u].h /\ ~ FlushConflict(op[u].h, op[v])
      BY <1>2, <1>6, Zenon DEF Exclusive
    <2>2. files'[op'[u].h].hash = files[op[u].h].hash
      BY <2>1, <1>3, Zenon DEF FileCalls
    <2>3. ~ (op'[v].call \in {"getattr", "open"} /\ IsNamed(op[v].name, files[op[u].h].hash)')
      <3> SUFFICES ASSUME op'[v].call \in {"getattr", "open"}, IsNamed(op[v].name, files[op[u].h].hash)'
                   PROVE  FALSE
        OBVIOUS
      <3>1. op[v].call \in {"getattr", "open"} /\ op'[v].name = op[v].name
        BY <1>2, Zenon
      <3> QED
        BY <2>1, <2>2, <3>1, <1>4 DEF FlushConflict, IsNamed
    <2>4. ~ (op'[v].call = "flush" /\ files'[op'[v].h].hash = files'[op'[u].h].hash)
      BY <1>2, <1>3, <2>1, <2>2, Zenon DEF FlushConflict, FileCalls
    <2>5. ~ (op'[v].call \in {"read", "write"} /\ op'[v].h = op'[u].h)
      BY <1>2, <2>1, Zenon DEF FlushConflict
    <2> QED
      BY <2>3, <2>4, <2>5, Zenon DEF FlushConflict
  <1> QED
    BY <1>5, <1>6, Zenon

\* The calls are kept apart by MayCall.
LEMMA ExclusiveCall ==
  ASSUME Base, Exclusive, ~ mode.overlap, NEW t \in Threads, NEW c, NEW n, NEW h,
         MayCall(t, c, n, h), OthersStay(t), entries' = entries,
         op'[t].call = c, op'[t].name = n, op'[t].h = h,
         c = "flush" => h \in DOMAIN files,
         \A k \in DOMAIN files : files'[k].hash = files[k].hash
  PROVE  Exclusive'
  <1>1. \A u \in Threads : ~ Conflict(c, n, h, op[u])
    BY Zenon DEF MayCall
  <1>2. ASSUME NEW u \in Threads, op[u].call = "flush" PROVE op[u].h \in DOMAIN files
    BY <1>2, Zenon DEF Base, FrameOK, FileCalls
  <1> SUFFICES ASSUME NEW u \in Threads, NEW v \in Threads, u # v
               PROVE  /\ ~ (op'[u].call \in DirectoryCalls /\ op'[v].call \in DirectoryCalls)
                      /\ op'[u].call = "flush" => ~ FlushConflict(op[u].h, op[v])'
    BY Zenon DEF Exclusive
  <1>3. CASE u # t /\ v # t
    <2>1. op'[u] = op[u] /\ op'[v] = op[v]
      BY <1>3, Zenon DEF OthersStay
    <2> QED
      BY <1>2, <2>1 DEF Exclusive, FlushConflict, IsNamed
  <1>4. CASE u = t
    <2>1. op'[v] = op[v] /\ ~ Conflict(c, n, h, op[v])
      BY <1>1, <1>4, Zenon DEF OthersStay
    <2> QED
      BY <1>2, <1>4, <2>1 DEF Conflict, FlushConflict, IsNamed
  <1>5. CASE v = t
    <2>1. op'[u] = op[u] /\ ~ Conflict(c, n, h, op[u])
      BY <1>1, <1>5, Zenon DEF OthersStay
    <2> QED
      BY <1>2, <1>5, <2>1 DEF Conflict, FlushConflict, IsNamed
  <1> QED
    BY <1>3, <1>4, <1>5, Zenon

\* Descriptors stay distinct, and fd_table has an open file's own hashname.
LEMMA FdStep ==
  ASSUME Base, FdOK, NEW t \in Threads, Step(t), LookupOK(t)
  PROVE  FdOK'
  <1>t. /\ files \in Seq(Files) /\ Len(files) \in Nat /\ DOMAIN files = 1 .. Len(files)
        /\ FdTableMax \in Nat /\ fd_cnt = 10 + Len(files) /\ Len(files) <= FdTableMax - 11
    BY TypeFacts, DcfsAssumption DEF Base, TypeOK, FdOK, FirstFd
  <1>f. \A h \in DOMAIN files : /\ files[h].fd = 10 + h
                                /\ fd_table[files[h].fd] \in {None, files[h].hash}
    BY <1>t DEF FdOK, FirstFd
  <1>d. DOMAIN fd_table = 0 .. FdTableMax - 1
    BY Zenon DEF Base, TypeOK
  <1>1. CASE FdStore(t)
    <2> DEFINE n == Len(files)
               k == [fd |-> 11 + n, hash |-> op[t].hash, descs |-> 1]
    <2>1. op[t].tmp = 10 + n /\ op[t].hash \in Nat
      <3>1. op[t].tmp = fd_cnt
        BY <1>1, Zenon DEF FdStore, LookupOK
      <3> QED
        BY <3>1, <1>t, Zenon DEF Base, TypeOK, Frames
    <2>2. /\ fd_cnt' = 11 + n /\ 11 + n < FdTableMax
          /\ fd_table' = [fd_table EXCEPT ![11 + n] = op[t].hash]
          /\ files' = Append(files, k)
      <3>1. op[t].tmp + 1 = 11 + n
        BY <2>1, <1>t
      <3> QED
        BY <3>1, <1>1, Zenon DEF FdStore
    <2>3. k \in Files
      BY <2>1, <1>t DEF Files
    <2>4. k.fd = 11 + n /\ k.hash = op[t].hash
      OBVIOUS
    <2> HIDE DEF k
    <2>5. /\ Len(files') = n + 1 /\ DOMAIN files' = 1 .. n + 1 /\ files'[n + 1] = k
          /\ \A h \in DOMAIN files : files'[h] = files[h]
      <3>1. /\ Len(Append(files, k)) = Len(files) + 1 /\ DOMAIN Append(files, k) = 1 .. Len(files) + 1
            /\ Append(files, k)[Len(files) + 1] = k
            /\ \A h \in DOMAIN files : Append(files, k)[h] = files[h]
        BY <1>t, <2>3, AppendFacts
      <3> QED
        BY <2>2, <3>1, Zenon
    <2>6. n \in Nat /\ DOMAIN files = 1 .. n
      BY <1>t, Zenon
    <2> HIDE DEF n
    <2>7. ASSUME NEW h \in 1 .. n
          PROVE  files'[h].fd = 10 + h /\ fd_table'[files'[h].fd] \in {None, files'[h].hash}
      <3>1. files'[h] = files[h] /\ files[h].fd = 10 + h /\ 10 + h # 11 + n
        BY <1>f, <2>5, <2>6
      <3>2. fd_table'[files[h].fd] = fd_table[files[h].fd]
        <4>1. 10 + h \in 0 .. FdTableMax - 1
          BY <1>t, <2>2, <2>6
        <4> QED
          BY <1>d, <2>2, <3>1, <4>1, Zenon
      <3> QED
        BY <1>f, <2>6, <3>1, <3>2, Zenon
    <2>8. files'[n + 1].fd = 10 + (n + 1) /\ fd_table'[files'[n + 1].fd] = files'[n + 1].hash
      <3>1. 11 + n \in DOMAIN fd_table /\ 10 + (n + 1) = 11 + n
        BY <1>d, <1>t, <2>2, <2>6
      <3> QED
        BY <2>2, <2>4, <2>5, <3>1, Zenon
    <2>9. \A h \in 1 .. n + 1 : h = n + 1 \/ h \in 1 .. n
      BY <2>6
    <2>10. \A h \in DOMAIN files' : /\ files'[h].fd = 10 + h
                                    /\ fd_table'[files'[h].fd] \in {None, files'[h].hash}
      BY <2>5, <2>7, <2>8, <2>9, Zenon
    <2>11. fd_cnt' = 10 + Len(files') /\ Len(files') <= FdTableMax - 11
      BY <1>t, <2>2, <2>5, <2>6
    <2> QED
      BY <2>10, <2>11 DEF FdOK, FirstFd
  <1>2. CASE ReleaseInode(t)
    <2>1. files' = files /\ fd_cnt' = fd_cnt /\ fd_table' = [fd_table EXCEPT ![files[op[t].h].fd] = None]
      BY <1>2, Zenon DEF ReleaseInode
    <2>2. \A fd \in DOMAIN fd_table : fd_table'[fd] \in {None, fd_table[fd]}
      BY <2>1, <1>d, Zenon
    <2>3. \A h \in DOMAIN files : files[h].fd \in DOMAIN fd_table
      BY <1>d, Zenon DEF Base, ObjectsOK
    <2> QED
      BY <2>1, <2>2, <2>3, Zenon DEF FdOK
  <1>3. CASE UNCHANGED <<fd_cnt, files, fd_table>>
    BY <1>3, Zenon DEF FdOK
  <1> QED
    BY <1>1, <1>2, <1>3, StepDirectory, Zenon DEF ReleaseInode

\* Two threads that open, close or ask for the size have different files.
LEMMA OneManager ==
  ASSUME Base, Exclusive, NEW t \in Threads, NEW u \in Threads, t # u,
         LookupOK(t), LookupOK(u), op[t].pc \in InoPCs, op[u].pc \in InoPCs,
         op[t].call \notin {"read", "write"}, op[u].call \notin {"read", "write"}
  PROVE  op[t].hash # op[u].hash /\ op[t].ino # op[u].ino
  <1>1. ASSUME NEW v \in {t, u} PROVE op[v].call \in DirectoryCalls \cup {"flush"}
    <2>1. LabelOK(op[v]) /\ op[v] \in Frames
      BY Zenon DEF Base, FrameOK, TypeOK
    <2> QED
      BY <2>1, Zenon DEF LabelOK, InoPCs, UsePCs, FlushPCs, Frames, FileCalls
  <1>2. op[t].hash # op[u].hash
    <2>1. CASE op[t].call = "flush" \/ op[u].call = "flush"
      BY <2>1, FlushAlone, Zenon
    <2>2. CASE op[t].call \in DirectoryCalls /\ op[u].call \in DirectoryCalls
      BY <2>2, Zenon DEF Exclusive
    <2> QED
      BY <1>1, <2>1, <2>2, Zenon
  <1>3. inodes[op[t].ino].hash = op[t].hash /\ inodes[op[u].ino].hash = op[u].hash
    BY Zenon DEF Base, FrameOK
  <1> QED
    BY <1>2, <1>3, Zenon

\* What the other threads have looked up stays true.
LEMMA LookupOthers ==
  ASSUME Base, Exclusive, NEW t \in Threads, Step(t), NEW u \in Threads, u # t, LookupOK(u)
  PROVE  LookupOK(u)'
  <1>1. op'[u] = op[u]
    BY StepFrame, Zenon DEF OthersStay
  <1>t. LabelOK(op[u]) /\ (op[u].call \in FileCalls => op[u].h \in DOMAIN files)
    BY Zenon DEF Base, FrameOK
  <1>2. CASE op[u].call \in DirectoryCalls
    <2>1. UNCHANGED <<entries, it, fd_cnt, files>>
      BY <1>2, StepDirectory, Zenon DEF Exclusive
    <2> QED
      BY <1>1, <2>1, Zenon DEF LookupOK, IsNamed
  <1>3. CASE op[u].call \notin DirectoryCalls
    <2>1. /\ op[u].pc \notin {"readdir", "entry", "rewind", "fd_store"}
          /\ op[u].call \notin {"getattr", "open", "create"}
      BY <1>t, <1>3, Zenon DEF LabelOK, DirectoryCalls
    <2>2. op[u].call \in FileCalls => files'[op[u].h] = files[op[u].h]
      BY <1>t, StepGrows, Zenon
    <2> QED
      BY <1>1, <2>1, <2>2, Zenon DEF LookupOK
  <1> QED
    BY <1>2, <1>3, Zenon

\* What t has looked up stays true in the steps after the lookup.
LEMMA LookupKeeps ==
  ASSUME Base, NEW t \in Threads, Step(t), LookupOK(t), SameCall(t),
         op'[t].hash = op[t].hash, files' = files,
         op'[t].pc \notin {"readdir", "entry", "rewind", "fd_store"},
         op'[t].pc \in InoPCs /\ op[t].call = "create" => op[t].pc \in InoPCs
  PROVE  LookupOK(t)'
  <1>1. ASSUME NEW n, NEW hash, IsNamed(n, hash)
        PROVE  \E i \in DOMAIN entries' : entries'[i] = [name |-> n, hash |-> hash]
    BY <1>1, StepGrows, Zenon DEF IsNamed
  <1>2. op'[t].call \in {"getattr", "open"} /\ op'[t].hash # None => IsNamed(op[t].name, op[t].hash)'
    <2> SUFFICES ASSUME op'[t].call \in {"getattr", "open"}, op'[t].hash # None
                 PROVE  IsNamed(op[t].name, op[t].hash)'
      OBVIOUS
    <2>1. IsNamed(op[t].name, op[t].hash)
      BY Zenon DEF SameCall, LookupOK
    <2> QED
      BY <1>1, <2>1 DEF SameCall, IsNamed
  <1> QED
    BY <1>2, Zenon DEF LookupOK, SameCall

\* What t finds in the directory is there, and a file that it creates is new.
LEMMA LookupSelf ==
  ASSUME Base, Exclusive, NEW t \in Threads, Step(t), LookupOK(t)
  PROVE  LookupOK(t)'
  <1>t. /\ op \in [Threads -> Frames] /\ op[t] \in Frames /\ LabelOK(op[t])
        /\ entries \in Seq(Entries) /\ Len(entries) \in Nat /\ DOMAIN entries = 1 .. Len(entries)
    BY TypeFacts, Zenon DEF Base, TypeOK, FrameOK
  <1>r. ASSUME op'[t] = IdleFrame PROVE LookupOK(t)'
    BY <1>r DEF LookupOK, IdleFrame, InoPCs, UsePCs, FileCalls, None
  <1>g. ASSUME NEW label, Goto(t, label), files' = files,
               label \notin {"readdir", "entry", "rewind", "fd_store"},
               label \in InoPCs /\ op[t].call = "create" => op[t].pc \in InoPCs
        PROVE  LookupOK(t)'
    BY <1>g, GotoFields, LookupKeeps
  <1>s. ASSUME Return(t) PROVE LookupOK(t)'
    BY <1>s, <1>t, <1>r, ReturnUpdate, Zenon
  <1>d. ASSUME NEW cause, Die(cause) PROVE LookupOK(t)'
    BY <1>d, Zenon DEF Die, LookupOK, IsNamed, directory, descriptors
  <1>1. ASSUME InitReaddir(t) PROVE LookupOK(t)'
    <2>1. Goto(t, "readdir") /\ it' = 1 /\ entries' = entries /\ files' = files /\ op[t].pc = "init_readdir"
      BY <1>1, Zenon DEF InitReaddir, descriptors
    <2>2. SameCall(t) /\ op'[t].pc = "readdir" /\ op'[t].hash = op[t].hash
      BY <2>1, GotoFields, Zenon
    <2> QED
      BY <2>1, <2>2 DEF LookupOK, SameCall, IsNamed, Dangling, InoPCs, UsePCs
  <1>2. ASSUME ReaddirEntry(t) PROVE LookupOK(t)'
    <2>1. /\ op[t].pc = "entry" /\ entries' = entries /\ files' = files
          /\ it \in DOMAIN entries /\ op[t].tmp = it /\ op[t].end = Len(entries) + 1
          /\ \A i \in 1 .. it - 1 : entries[i].name # op[t].name
      BY <1>2, Zenon DEF ReaddirEntry, descriptors, LookupOK
    <2>2. ASSUME op[t].call # "create", entries[it].name = op[t].name,
                 op' = [op EXCEPT ![t].pc = "get_inode", ![t].hash = entries[it].hash]
          PROVE  LookupOK(t)'
      <3>1. op[t].call \in DirectoryCalls
        BY <2>1, <1>t, Zenon DEF LabelOK
      <3>2. SameCall(t) /\ op'[t].pc = "get_inode" /\ op'[t].hash = entries[it].hash
        BY <2>2, <1>t, Zenon DEF SameCall, Frames
      <3>3. entries[it] = [name |-> op[t].name, hash |-> entries[it].hash]
        <4>1. entries[it] \in Entries
          BY <2>1, <1>t
        <4> QED
          BY <4>1, <2>2, Zenon DEF Entries
      <3>4. IsNamed(op[t].name, op[t].hash)'
        BY <2>1, <3>2, <3>3, Zenon DEF IsNamed, SameCall
      <3> QED
        BY <3>1, <3>2, <3>4, Zenon DEF LookupOK, SameCall, InoPCs, UsePCs, DirectoryCalls, FileCalls
    <2>3. ASSUME entries[it].name # op[t].name, Goto(t, "readdir"), it' = it + 1
          PROVE  LookupOK(t)'
      <3>1. it' # Dangling
        BY <2>1, <2>3, <1>t DEF Dangling
      <3>2. \A i \in 1 .. it' - 1 : entries[i].name # op[t].name
        <4>1. \A i \in 1 .. it' - 1 : i = it \/ i \in 1 .. it - 1
          BY <2>1, <2>3, <1>t
        <4> QED
          BY <4>1, <2>1, <2>3, Zenon
      <3>3. SameCall(t) /\ op'[t].pc = "readdir" /\ op'[t].hash = op[t].hash
        BY <2>3, GotoFields, Zenon
      <3> QED
        BY <2>1, <3>1, <3>2, <3>3, Zenon DEF LookupOK, IsNamed, InoPCs, UsePCs, SameCall
    <2>4. ~ MayHaveMoved(t)
      BY <2>1, Zenon DEF MayHaveMoved
    <2>5. /\ it' = it + 1
          /\ \/ Return(t)
             \/ /\ op[t].call # "create" /\ entries[it].name = op[t].name
                /\ op' = [op EXCEPT ![t].pc = "get_inode", ![t].hash = entries[it].hash]
             \/ entries[it].name # op[t].name /\ Goto(t, "readdir")
      BY <1>2, <2>1, <2>4, Zenon DEF ReaddirEntry
    <2> QED
      BY <1>s, <2>2, <2>3, <2>5, Zenon
  <1>3. ASSUME ReaddirEnd(t) PROVE LookupOK(t)'
    BY <1>3, <1>s, <1>g, Zenon DEF ReaddirEnd, descriptors, InoPCs, UsePCs
  <1>4. ASSUME AllocateInode(t) PROVE LookupOK(t)'
    <2>1. /\ SameCall(t) /\ op'[t].pc = "use" /\ op'[t].hash = Len(index) + 1
          /\ files' = files /\ op[t].call = "create"
      BY <1>4, <1>t, ReadFields, Zenon DEF AllocateInode, descriptors, LabelOK
    <2>2. \A h \in DOMAIN files : files[h].hash # Len(index) + 1
      BY TypeFacts DEF Base, ObjectsOK
    <2> QED
      BY <2>1, <2>2, Zenon DEF LookupOK, SameCall, FileCalls
  <1>5. ASSUME FdLoad(t) PROVE LookupOK(t)'
    <2>1. /\ SameCall(t) /\ op'[t].pc = "fd_store" /\ op'[t].hash = op[t].hash
          /\ op'[t].tmp = fd_cnt /\ fd_cnt' = fd_cnt /\ files' = files /\ entries' = entries
          /\ op[t].pc = "fd"
      BY <1>5, ReadFields, Zenon DEF FdLoad, descriptors, directory
    <2> QED
      BY <2>1, Zenon DEF LookupOK, SameCall, IsNamed, InoPCs
  <1>6. ASSUME GetInodeHit(t) \/ GetInodeMiss(t) \/ LoadInode(t) PROVE LookupOK(t)'
    <2>1. SameCall(t) /\ op'[t].hash = op[t].hash /\ op'[t].pc \in {"use", "load"}
      BY <1>6, ReadFields, Zenon
    <2>2. files' = files /\ op[t].pc \in {"get_inode", "load"}
      BY <1>6, Zenon DEF GetInodeHit, GetInodeMiss, LoadInode, descriptors
    <2>3. op[t].call # "create"
      BY <2>2, <1>t, Zenon DEF LabelOK, FileCalls
    <2> QED
      BY <2>1, <2>2, <2>3, LookupKeeps, Zenon
  <1>7. ASSUME RefLoad(t) \/ UnrefLoad(t) \/ FlushCollect(t) \/ ModifyStart(t) PROVE LookupOK(t)'
    <2>1. /\ SameCall(t) /\ op'[t].hash = op[t].hash
          /\ op'[t].pc \notin {"readdir", "entry", "rewind", "fd_store"}
      BY <1>7, ReadFields, Zenon
    <2>2. files' = files /\ op[t].pc \in InoPCs
      BY <1>7, Zenon DEF RefLoad, UnrefLoad, FlushCollect, ModifyStart, At, descriptors, InoPCs, UsePCs
    <2> QED
      BY <2>1, <2>2, LookupKeeps, Zenon
  <1>8. ASSUME \/ RefStore(t) \/ AddentPush(t) \/ AddentReset(t) \/ UnrefStore(t)
               \/ ModifyStale(t) \/ ModifyFails(t) \/ ModifyCommit(t) \/ FlushDrop(t)
        PROVE  LookupOK(t)'
    <2>1. /\ op[t].pc \in InoPCs /\ files' = files
          /\ \E label \in {"push_back", "reset", "fd", "collect", "recount", "drop"} : Goto(t, label)
      BY <1>8, Zenon DEF RefStore, AddentPush, AddentReset, UnrefStore, ModifyStale, ModifyFails,
         ModifyCommit, FlushDrop, At, descriptors, InoPCs, UsePCs
    <2> QED
      BY <2>1, <1>g, Zenon
  <1>9. ASSUME Recount(t) PROVE LookupOK(t)'
    <2>1. op[t].pc \in InoPCs /\ files' = files /\ (Return(t) \/ Goto(t, "release"))
      BY <1>9, Zenon DEF Recount, descriptors, InoPCs, UsePCs
    <2> QED
      BY <2>1, <1>s, <1>g, Zenon
  <1>10. ASSUME ReaddirDangling(t) \/ UseFreed(t) \/ FdOutside(t) \/ UnrefAssert(t) PROVE LookupOK(t)'
    BY <1>10, <1>d, Zenon DEF ReaddirDangling, UseFreed, FdOutside, UnrefAssert
  <1>11. ASSUME \/ GetInodeUnknown(t) \/ AllocateFails(t) \/ Read(t) \/ Write(t)
                \/ FdStore(t) \/ ReleaseInode(t)
         PROVE  LookupOK(t)'
    BY <1>11, <1>s, Zenon DEF GetInodeUnknown, AllocateFails, Read, Write, FdStore, ReleaseInode
  <1>12. ASSUME ReaddirCompare(t) PROVE LookupOK(t)'
    <2>1. /\ op[t].pc = "readdir" /\ entries' = entries /\ it' = it /\ files' = files
          /\ it \in 0 .. Len(entries) + 1 /\ it # Dangling
          /\ \A i \in 1 .. it - 1 : entries[i].name # op[t].name
      BY <1>12, Zenon DEF ReaddirCompare, directory, descriptors, LookupOK, Base, TypeOK
    <2>2. /\ SameCall(t) /\ op'[t].hash = op[t].hash /\ op'[t].tmp = it
          /\ op'[t].pc = IF it = Len(entries) + 1 THEN "rewind" ELSE "entry"
          /\ op'[t].end = Len(entries) + 1
      BY <1>12, ReadFields, Zenon
    <2>3. CASE it = Len(entries) + 1
      <3>1. \A i \in DOMAIN entries : entries[i].name # op[t].name
        BY <2>1, <2>3, <1>t
      <3> QED
        BY <2>1, <2>2, <2>3, <3>1, Zenon DEF LookupOK, IsNamed, InoPCs, UsePCs, SameCall
    <2>4. CASE it # Len(entries) + 1
      <3>1. it \in DOMAIN entries
        BY <2>1, <2>4, <1>t DEF Dangling
      <3> QED
        BY <2>1, <2>2, <2>4, <3>1, Zenon DEF LookupOK, IsNamed, InoPCs, UsePCs, SameCall
    <2> QED
      BY <2>3, <2>4, Zenon
  <1>13. ASSUME AllocateStart(t) PROVE LookupOK(t)'
    BY <1>13, <1>g, Zenon DEF AllocateStart, descriptors, InoPCs, UsePCs
  <1> QED
    BY <1>1, <1>2, <1>3, <1>4, <1>5, <1>6, <1>7, <1>8, <1>9, <1>10, <1>11, <1>12, <1>13, Zenon DEF Step

\* The Inode of another thread stays attached, and its count as that thread
\* has read it.
LEMMA AttachedOthers ==
  ASSUME Base, Exclusive, NEW t \in Threads, Step(t), NEW u \in Threads, u # t,
         LookupOK(t), LookupOK(u), AttachedOK(u)
  PROVE  AttachedOK(u)'
  <1>1. op'[u] = op[u] /\ InodesStay(t)
    BY StepFrame, StepInodesStay, Zenon DEF OthersStay
  <1>t. LabelOK(op[u]) /\ LabelOK(op[t])
    BY Zenon DEF Base, FrameOK
  <1>2. ASSUME op[u].call \notin {"read", "write"}, op[u].pc \in InoPCs
        PROVE  inode_table'[op[u].hash] = op[u].ino
    <2>1. inode_table[op[u].hash] = op[u].ino /\ op[u].ino # None /\ op[u].hash \in Hashnames
      BY <1>2, InodeUpdate, Zenon DEF AttachedOK
    <2>2. ASSUME op[t].pc = "load" PROVE op[t].hash # op[u].hash
      BY <2>1, <2>2, Zenon DEF Base, MutexOK, LockPCs
    <2>3. ASSUME op[t].pc = "release" PROVE op[t].hash # op[u].hash
      <3>1. op[t].call = "flush" /\ op[t].pc \in InoPCs
        BY <2>3, <1>t, Zenon DEF LabelOK, FlushPCs, InoPCs, UsePCs
      <3> QED
        BY <3>1, <1>2, OneManager, Zenon
    <2> QED
      BY <1>1, <2>1, <2>2, <2>3, Zenon DEF InodesStay
  <1>3. ASSUME op[u].pc \in {"ref", "unref", "collect", "modify", "commit", "drop", "recount", "release"}
        PROVE  inodes'[op[u].ino].ref = inodes[op[u].ino].ref
    <2>1. op[u].call \in {"create", "open", "flush"} /\ op[u].pc \in InoPCs
      BY <1>3, <1>t, Zenon DEF LabelOK, FlushPCs, InoPCs, UsePCs
    <2>2. op[u].ino \in DOMAIN inodes
      BY <2>1, InodeUpdate, Zenon
    <2>3. ASSUME op[t].pc \in {"ref", "unref"} PROVE op[t].ino # op[u].ino
      <3>1. op[t].call \in {"create", "open", "flush"} /\ op[t].pc \in InoPCs
        BY <2>3, <1>t, Zenon DEF LabelOK, FlushPCs, InoPCs, UsePCs
      <3> QED
        BY <2>1, <3>1, OneManager, Zenon
    <2> QED
      BY <1>1, <2>2, <2>3, Zenon DEF InodesStay
  <1> QED
    BY <1>1, <1>2, <1>3, Zenon DEF AttachedOK

\* t's own Inode stays attached in the steps that do not change its count.
LEMMA AttachedKeeps ==
  ASSUME Base, NEW t \in Threads, AttachedOK(t), op[t].pc \in InoPCs, SameCall(t),
         op'[t].hash = op[t].hash, op'[t].ino = op[t].ino,
         inode_table'[op[t].hash] = inode_table[op[t].hash],
         op'[t].pc \in {"ref", "unref"} => op'[t].tmp = inodes'[op[t].ino].ref,
         op'[t].pc \in {"collect", "modify", "commit", "drop", "recount", "release"} =>
           op'[t].tmp = inodes'[op[t].ino].ref + 1,
         op'[t].pc \in {"collect", "modify", "commit", "drop", "release"} => op'[t].tmp = 1
  PROVE  AttachedOK(t)'
  BY Zenon DEF AttachedOK, SameCall

\* A step keeps AttachedOK for the thread that takes it.
LEMMA AttachedSelf ==
  ASSUME Base, NEW t \in Threads, Step(t), AttachedOK(t)
  PROVE  AttachedOK(t)'
  <1>t. op \in [Threads -> Frames] /\ op[t] \in Frames /\ LabelOK(op[t])
    BY Zenon DEF Base, TypeOK, FrameOK
  <1>s. InodesStay(t)
    BY StepInodesStay, Zenon
  <1>n. ASSUME op'[t].pc \notin InoPCs PROVE AttachedOK(t)'
    BY <1>n, Zenon DEF AttachedOK, InoPCs, UsePCs
  <1>r. ASSUME Return(t) PROVE AttachedOK(t)'
    <2>1. op'[t] = IdleFrame
      BY <1>r, <1>t, ReturnUpdate, Zenon
    <2> QED
      BY <2>1, <1>n DEF IdleFrame, InoPCs, UsePCs
  <1>1. ASSUME \/ GetInodeUnknown(t) \/ AllocateFails(t) \/ Read(t) \/ Write(t)
               \/ FdStore(t) \/ ReleaseInode(t)
        PROVE  AttachedOK(t)'
    BY <1>1, <1>r, Zenon DEF GetInodeUnknown, AllocateFails, Read, Write, FdStore, ReleaseInode
  <1>2. ASSUME ReaddirDangling(t) \/ UseFreed(t) \/ FdOutside(t) \/ UnrefAssert(t)
        PROVE  AttachedOK(t)'
    BY <1>2, Zenon DEF ReaddirDangling, UseFreed, FdOutside, UnrefAssert, Die, AttachedOK, table
  <1>g. ASSUME NEW label, Goto(t, label), label \notin InoPCs PROVE AttachedOK(t)'
    BY <1>g, <1>n, GotoFields, Zenon
  <1>3. ASSUME \/ InitReaddir(t) \/ ReaddirCompare(t) \/ ReaddirEnd(t) \/ GetInodeMiss(t)
               \/ AllocateStart(t)
        PROVE  AttachedOK(t)'
    <2>1. CASE ReaddirCompare(t) \/ GetInodeMiss(t)
      <3>1. op'[t].pc \in {"rewind", "entry", "load"}
        BY <2>1, ReadFields, Zenon
      <3> QED
        BY <3>1, <1>n, Zenon DEF InoPCs, UsePCs
    <2>2. CASE InitReaddir(t) \/ ReaddirEnd(t) \/ AllocateStart(t)
      <3>1. Return(t) \/ \E label \in {"readdir", "allocate", "create_new"} : Goto(t, label)
        BY <2>2, Zenon DEF InitReaddir, ReaddirEnd, AllocateStart
      <3>2. \A label \in {"readdir", "allocate", "create_new"} : label \notin InoPCs
        BY Zenon DEF InoPCs, UsePCs
      <3> QED
        BY <3>1, <3>2, <1>r, <1>g, Zenon
    <2> QED
      BY <1>3, <2>1, <2>2, Zenon
  <1>4. ASSUME ReaddirEntry(t) PROVE AttachedOK(t)'
    <2>1. ASSUME NEW i,
                 op' = [op EXCEPT ![t].pc = "get_inode", ![t].hash = entries[i].hash]
          PROVE  AttachedOK(t)'
      <3>1. op'[t].pc = "get_inode"
        BY <2>1, <1>t, Zenon DEF Frames
      <3> QED
        BY <3>1, <1>n, Zenon DEF InoPCs, UsePCs
    <2>2. CASE Goto(t, "readdir")
      BY <2>2, <1>g, Zenon DEF InoPCs, UsePCs
    <2> QED
      BY <1>4, <1>r, <2>1, <2>2, EntryStep, Zenon
  <1>5. ASSUME GetInodeHit(t) \/ LoadInode(t) \/ AllocateInode(t) PROVE AttachedOK(t)'
    <2>1. op'[t].pc = "use"
      BY <1>5, ReadFields, Zenon
    <2>2. inode_table'[op'[t].hash] = op'[t].ino
      <3>1. CASE GetInodeHit(t)
        <4>1. op'[t].hash = op[t].hash /\ op'[t].ino = inode_table[op[t].hash]
          BY <3>1, ReadFields, Zenon
        <4>2. inode_table' = inode_table
          BY <3>1, ZenonT(30) DEF GetInodeHit, table
        <4> QED
          BY <4>1, <4>2, Zenon
      <3>2. CASE LoadInode(t)
        BY <3>2, ReadFields, InodeEffects
      <3>3. CASE AllocateInode(t)
        BY <3>3, ReadFields, InodeEffects, Zenon
      <3> QED
        BY <1>5, <3>1, <3>2, <3>3, Zenon
    <2> QED
      BY <2>1, <2>2, Zenon DEF AttachedOK
  <1>i. ASSUME op[t].pc \in InoPCs
        PROVE  op[t].ino \in DOMAIN inodes /\ inodes[op[t].ino].ref \in Nat /\ op[t].hash \in Hashnames
    BY <1>i, InodeUpdate, Zenon DEF Inodes
  <1>6. ASSUME RefLoad(t) \/ UnrefLoad(t) \/ FdLoad(t) PROVE AttachedOK(t)'
    <2>1. op[t].pc \in InoPCs /\ inode_table' = inode_table /\ inodes' = inodes
      BY <1>6, Zenon DEF RefLoad, UnrefLoad, FdLoad, At, InoPCs, UsePCs, table
    <2>2. /\ SameCall(t) /\ op'[t].hash = op[t].hash /\ op'[t].ino = op[t].ino
          /\ op'[t].pc \in {"ref", "unref", "fd_store"}
          /\ op'[t].pc \in {"ref", "unref"} => op'[t].tmp = inodes[op[t].ino].ref
      BY <1>6, ReadFields, Zenon
    <2> QED
      BY <2>1, <2>2, AttachedKeeps, Zenon
  <1>7. ASSUME RefStore(t) \/ AddentPush(t) \/ AddentReset(t) PROVE AttachedOK(t)'
    <2>1. /\ op[t].pc \in InoPCs /\ inode_table' = inode_table
          /\ \E label \in {"push_back", "reset", "fd"} : Goto(t, label)
      BY <1>7, Zenon DEF RefStore, AddentPush, AddentReset, At, InoPCs, UsePCs, table
    <2>2. SameCall(t) /\ op'[t].hash = op[t].hash /\ op'[t].ino = op[t].ino /\ op'[t].pc \in {"push_back", "reset", "fd"}
      BY <2>1, GotoFields, Zenon
    <2> QED
      BY <2>1, <2>2, AttachedKeeps, Zenon
  <1>8. ASSUME UnrefStore(t) PROVE AttachedOK(t)'
    <2> DEFINE label == IF op[t].tmp = 1 THEN "collect" ELSE "recount"
    <2>1. op[t].pc \in InoPCs /\ inode_table' = inode_table /\ Goto(t, label)
      BY <1>8, Zenon DEF UnrefStore, At, InoPCs, UsePCs, table
    <2>2. /\ SameCall(t) /\ op'[t].hash = op[t].hash /\ op'[t].ino = op[t].ino
          /\ op'[t].pc = label /\ op'[t].tmp = op[t].tmp
      BY <2>1, GotoFields, Zenon
    <2>3. inodes'[op[t].ino].ref = op[t].tmp - 1 /\ op[t].tmp \in Nat
      BY <1>8, <1>t, InodeEffects, Zenon DEF Frames
    <2>4. op'[t].tmp = inodes'[op[t].ino].ref + 1
      BY <2>2, <2>3
    <2> QED
      BY <2>1, <2>2, <2>4, AttachedKeeps, Zenon
  <1>9. ASSUME \/ FlushCollect(t) \/ ModifyStart(t) \/ ModifyStale(t) \/ ModifyFails(t)
               \/ ModifyCommit(t) \/ FlushDrop(t)
        PROVE  AttachedOK(t)'
    <2>1. op[t].pc \in {"collect", "modify", "commit", "drop"}
      BY <1>9, Zenon DEF FlushCollect, ModifyStart, ModifyStale, ModifyFails, ModifyCommit, FlushDrop, At
    <2>2. op[t].pc \in InoPCs
      BY <2>1, Zenon DEF InoPCs, UsePCs
    <2>3. /\ SameCall(t) /\ op'[t].hash = op[t].hash /\ op'[t].ino = op[t].ino
          /\ op'[t].tmp = op[t].tmp /\ op'[t].pc \in {"modify", "commit", "drop", "recount"}
      <3>1. CASE FlushCollect(t) \/ ModifyStart(t)
        BY <3>1, ReadFields, Zenon
      <3>2. CASE ModifyStale(t) \/ ModifyFails(t) \/ ModifyCommit(t) \/ FlushDrop(t)
        <4>1. \E label \in {"drop", "recount"} : Goto(t, label)
          BY <3>2, Zenon DEF ModifyStale, ModifyFails, ModifyCommit, FlushDrop
        <4> QED
          BY <4>1, GotoFields, Zenon
      <3> QED
        BY <1>9, <3>1, <3>2, Zenon
    <2>4. inode_table'[op[t].hash] = inode_table[op[t].hash] /\ inodes'[op[t].ino].ref = inodes[op[t].ino].ref
      BY <1>s, <1>i, <2>1, <2>2, Zenon DEF InodesStay
    <2>5. op[t].tmp = 1 /\ op[t].tmp = inodes[op[t].ino].ref + 1
      BY <2>1, Zenon DEF AttachedOK
    <2> QED
      BY <2>2, <2>3, <2>4, <2>5, AttachedKeeps, Zenon
  <1>10. ASSUME Recount(t) PROVE AttachedOK(t)'
    <2>1. CASE Goto(t, "release") /\ inodes[op[t].ino].ref = 0
      <3>1. op[t].pc = "recount" /\ inode_table' = inode_table /\ inodes' = inodes
        BY <1>10, Zenon DEF Recount, table
      <3>2. op[t].pc \in InoPCs /\ op[t].tmp = inodes[op[t].ino].ref + 1
        BY <3>1, Zenon DEF InoPCs, UsePCs, AttachedOK
      <3>3. SameCall(t) /\ op'[t].hash = op[t].hash /\ op'[t].ino = op[t].ino
            /\ op'[t].tmp = op[t].tmp /\ op'[t].pc = "release"
        BY <2>1, GotoFields, Zenon
      <3> QED
        BY <2>1, <3>1, <3>2, <3>3, AttachedKeeps
    <2> QED
      BY <1>10, <1>r, <2>1, Zenon DEF Recount, Inode
  <1> QED
    BY <1>1, <1>2, <1>3, <1>4, <1>5, <1>6, <1>7, <1>8, <1>9, <1>10, Zenon DEF Step

\* The steps that leave the labels after a flush.
LEMMA StepFrom ==
  ASSUME NEW t \in Threads, Step(t), op[t].pc \in {"drop", "recount", "release"}
  PROVE  FlushDrop(t) \/ Recount(t) \/ ReleaseInode(t) \/ UseFreed(t)
  <1>1. ~ (InitReaddir(t) \/ ReaddirCompare(t) \/ ReaddirEntry(t) \/ ReaddirEnd(t) \/ ReaddirDangling(t))
    BY Zenon DEF InitReaddir, ReaddirCompare, ReaddirEntry, ReaddirEnd, ReaddirDangling
  <1>2. ~ (\/ GetInodeHit(t) \/ GetInodeUnknown(t) \/ GetInodeMiss(t) \/ LoadInode(t)
           \/ AllocateStart(t) \/ AllocateInode(t) \/ AllocateFails(t))
    BY Zenon DEF GetInodeHit, GetInodeUnknown, GetInodeMiss, LoadInode, AllocateStart,
       AllocateInode, AllocateFails
  <1>3. ~ (Read(t) \/ Write(t) \/ RefLoad(t) \/ RefStore(t) \/ AddentPush(t) \/ AddentReset(t))
    BY Zenon DEF Read, Write, RefLoad, RefStore, AddentPush, AddentReset, At
  <1>4. ~ (\/ FdLoad(t) \/ FdStore(t) \/ FdOutside(t) \/ UnrefLoad(t) \/ UnrefAssert(t)
           \/ UnrefStore(t) \/ FlushCollect(t))
    BY Zenon DEF FdLoad, FdStore, FdOutside, UnrefLoad, UnrefAssert, UnrefStore, FlushCollect, At
  <1>5. ~ (ModifyStart(t) \/ ModifyStale(t) \/ ModifyFails(t) \/ ModifyCommit(t))
    BY Zenon DEF ModifyStart, ModifyStale, ModifyFails, ModifyCommit
  <1> QED
    BY <1>1, <1>2, <1>3, <1>4, <1>5, Zenon DEF Step

\* An Inode in the table views the latest version until its flush makes a new
\* one, and then it is released before anybody can use it.
LEMMA ViewStep ==
  ASSUME Base, Exclusive, NEW t \in Threads, Step(t), ViewOK,
         \A u \in Threads : AttachedOK(u)
  PROVE  ViewOK'
  <1>t. LabelOK(op[t]) /\ OthersStay(t) /\ InodesStay(t)
    BY StepFrame, StepInodesStay, Zenon DEF Base, FrameOK
  <1>m. ASSUME NEW p \in Hashnames, inode_table[p] # None PROVE inode_table[p] \in DOMAIN inodes
    BY <1>m, NoneFacts, Zenon DEF Base
  <1>c. ASSUME ModifyCommit(t)
        PROVE  /\ op[t].pc = "commit" /\ op[t].pc \in InoPCs /\ op[t].call = "flush"
               /\ op[t].tmp = 1 /\ inode_table[op[t].hash] # None
    <2>1. op[t].pc = "commit" /\ op[t].pc \in InoPCs /\ op[t].call = "flush"
      BY <1>c, <1>t, Zenon DEF ModifyCommit, InoPCs, LabelOK, FlushPCs
    <2> QED
      BY <2>1, InodeUpdate, Zenon DEF AttachedOK
  <1>1. ASSUME NEW p \in Hashnames'
        PROVE  \/ inode_table'[p] = None
               \/ inodes'[inode_table'[p]].version = index'[p]
               \/ \E u \in Threads : Flushed(u, p)'
    <2>1. CASE p \notin Hashnames
      <3>1. AllocateInode(t) /\ p = Len(index) + 1
        BY <2>1, StepHashnames, InodeEffects
      <3>2. inode_table'[p] = Len(inodes) + 1 /\ index'[p] = None
            /\ inodes'[Len(inodes) + 1] = NewInode(Len(index) + 1, None)
        BY <3>1, InodeEffects, Zenon
      <3> QED
        BY <3>2 DEF NewInode
    <2>2. CASE LoadInode(t) /\ p = op[t].hash
      <3>1. /\ inode_table'[p] = Len(inodes) + 1 /\ index' = index
            /\ inodes'[Len(inodes) + 1] = NewInode(op[t].hash, op[t].version)
        BY <2>2, InodeEffects, Zenon DEF LoadInode, backend
      <3>2. op[t].version = index[p]
        BY <2>2, Zenon DEF LoadInode, ViewOK
      <3> QED
        BY <3>1, <3>2 DEF NewInode
    <2>3. CASE ModifyCommit(t) /\ p = op[t].hash
      <3>1. Goto(t, "drop")
        BY <2>3, Zenon DEF ModifyCommit
      <3>2. op'[t].hash = p /\ op'[t].pc = "drop" /\ op'[t].tmp = 1
        BY <2>3, <3>1, <1>c, GotoFields, Zenon
      <3> QED
        BY <3>2, Zenon DEF Flushed
    <2>4. CASE ReleaseInode(t) /\ p = op[t].hash
      BY <2>4, InodeEffects, Zenon
    <2>5. CASE p \in Hashnames /\ inode_table'[p] = inode_table[p] /\ index'[p] = index[p]
      <3>1. CASE inode_table[p] # None /\ inodes[inode_table[p]].version = index[p]
        BY <2>5, <3>1, <1>m, <1>t, Zenon DEF InodesStay
      <3>2. ASSUME NEW u \in Threads, Flushed(u, p), ~ (ReleaseInode(t) /\ p = op[t].hash)
            PROVE  Flushed(u, p)'
        <4>1. CASE u # t
          BY <3>2, <4>1, <1>t, Zenon DEF OthersStay, Flushed
        <4>2. CASE u = t
          <5>1. op[t].hash = p /\ op[t].pc \in {"drop", "recount", "release"} /\ op[t].tmp = 1
            BY <3>2, <4>2, Zenon DEF Flushed
          <5>2. FlushDrop(t) \/ Recount(t) \/ UseFreed(t)
            BY <5>1, <3>2, StepFrom, Zenon
          <5>3. CASE FlushDrop(t)
            <6>1. Goto(t, "recount")
              BY <5>3, Zenon DEF FlushDrop
            <6> QED
              BY <4>2, <5>1, <6>1, GotoFields, Zenon DEF Flushed
          <5>4. CASE Recount(t)
            <6>1. op[t].pc = "recount" /\ inodes[op[t].ino].ref \in Nat
              BY <5>4, InodeUpdate, Zenon DEF Recount, InoPCs, UsePCs, Inodes
            <6>2. inodes[op[t].ino].ref = 0
              BY <5>1, <6>1 DEF AttachedOK
            <6>3. Goto(t, "release")
              BY <5>1, <5>4, <6>2 DEF Recount, Inode
            <6> QED
              BY <4>2, <5>1, <6>3, GotoFields DEF Flushed
          <5>5. CASE UseFreed(t)
            BY <5>5, <3>2, Zenon DEF UseFreed, Die, Flushed
          <5> QED
            BY <5>2, <5>3, <5>4, <5>5, Zenon
        <4> QED
          BY <4>1, <4>2, Zenon
      <3>3. CASE inode_table[p] = None
        BY <2>5, <3>3, Zenon
      <3> QED
        BY <2>4, <2>5, <3>1, <3>2, <3>3, Zenon DEF ViewOK
    <2>6. p \in Hashnames => \/ inode_table'[p] = inode_table[p] /\ index'[p] = index[p]
                             \/ p = op[t].hash /\ (LoadInode(t) \/ ReleaseInode(t) \/ ModifyCommit(t))
      <3>1. CASE UNCHANGED <<inode_table, inodes, backend>>
        BY <3>1, Zenon DEF backend
      <3>2. CASE LoadInode(t) \/ ReleaseInode(t) \/ ModifyCommit(t)
        BY <3>2, <1>t, Zenon DEF InodesStay
      <3>3. CASE AllocateInode(t) \/ Write(t) \/ RefStore(t) \/ UnrefStore(t) \/ FlushDrop(t)
        <4>1. op[t].pc \notin {"load", "release", "commit"}
          BY <3>3, Zenon DEF AllocateInode, Write, RefStore, UnrefStore, FlushDrop, At
        <4> QED
          BY <4>1, <1>t, Zenon DEF InodesStay
      <3> QED
        BY <3>1, <3>2, <3>3, StepInodes, Zenon
    <2> QED
      BY <2>1, <2>2, <2>3, <2>4, <2>5, <2>6, Zenon
  <1>2. ASSUME NEW u \in Threads, op'[u].pc = "load"
        PROVE  op'[u].version = index'[op'[u].hash]
    <2>1. CASE u # t
      <3>1. op'[u] = op[u] /\ op[u].pc = "load" /\ op[u].version = index[op[u].hash]
        BY <1>2, <1>t, <2>1, SMTT(30) DEF OthersStay, ViewOK
      <3>2. op[u].hash \in Hashnames /\ inode_table[op[u].hash] = None
        BY <3>1, TypeFacts DEF Base, MutexOK, LockPCs, FrameOK, None
      <3>3. index'[op[u].hash] = index[op[u].hash]
        <4>1. CASE op[t].pc = "commit"
          <5>1. op[t].pc \in InoPCs /\ op[t].call = "flush"
            BY <4>1, <1>t, Zenon DEF InoPCs, LabelOK, FlushPCs
          <5>2. inode_table[op[t].hash] # None
            BY <5>1, InodeUpdate, Zenon DEF AttachedOK
          <5> QED
            BY <1>t, <3>2, <5>2, Zenon DEF InodesStay
        <4> QED
          BY <1>t, <3>2, <4>1, Zenon DEF InodesStay
      <3> QED
        BY <3>1, <3>3, Zenon
    <2>2. CASE u = t
      <3>1. GetInodeMiss(t)
        BY <1>2, <2>2, StepEntry, Zenon
      <3>2. op'[t].version = index[op[t].hash] /\ op'[t].hash = op[t].hash
        BY <3>1, ReadFields, Zenon
      <3>3. index' = index
        BY <3>1, Zenon DEF GetInodeMiss, backend
      <3> QED
        BY <2>2, <3>2, <3>3, Zenon
    <2> QED
      BY <2>1, <2>2, Zenon
  <1>3. ASSUME NEW u \in Threads, op'[u].pc = "modify"
        PROVE  op'[u].version = inodes'[op'[u].ino].version
    <2>1. CASE u # t
      <3>1. op'[u] = op[u] /\ op[u].pc = "modify" /\ op[u].version = inodes[op[u].ino].version
        BY <1>3, <1>t, <2>1, Zenon DEF OthersStay, ViewOK
      <3>2. op[u].ino \in DOMAIN inodes
        BY <3>1, InodeUpdate, Zenon DEF InoPCs
      <3> QED
        BY <1>t, <3>1, <3>2 DEF InodesStay
    <2>2. CASE u = t
      <3>1. FlushCollect(t)
        BY <1>3, <2>2, StepEntry, Zenon
      <3>2. op'[t].version = inodes[op[t].ino].version /\ op'[t].ino = op[t].ino
        BY <3>1, ReadFields, Zenon
      <3>3. inodes' = inodes
        BY <3>1, Zenon DEF FlushCollect
      <3> QED
        BY <2>2, <3>2, <3>3, Zenon
    <2> QED
      BY <2>1, <2>2, Zenon
  <1> QED
    BY <1>1, <1>2, <1>3, Zenon DEF ViewOK

\* What calls keep: the frames of the threads that do not call, the
\* descriptors and the views.
LEMMA CallKeeps ==
  ASSUME Base, CallStays
  PROVE  /\ FdOK => FdOK'
         /\ \A u \in Threads : LookupOK(u) /\ op'[u] = op[u] => LookupOK(u)'
         /\ \A u \in Threads : AttachedOK(u) /\ op'[u] = op[u] => AttachedOK(u)'
  <1>1. FdOK => FdOK'
    BY Zenon DEF FdOK, CallStays
  <1>2. ASSUME NEW u \in Threads, LookupOK(u), op'[u] = op[u] PROVE LookupOK(u)'
    <2>1. op[u].call \in FileCalls => op[u].h \in DOMAIN files
      BY Zenon DEF Base, FrameOK
    <2> QED
      BY <1>2, <2>1, Zenon DEF LookupOK, CallStays, IsNamed, directory
  <1>3. ASSUME NEW u \in Threads, AttachedOK(u), op'[u] = op[u] PROVE AttachedOK(u)'
    BY <1>3, Zenon DEF AttachedOK, CallStays, table
  <1> QED
    BY <1>1, <1>2, <1>3, Zenon

\* A call keeps ViewOK.
LEMMA CallView ==
  ASSUME Base, CallStays, ViewOK, NEW t \in Threads, OthersStay(t), op[t].pc = "idle",
         op'[t].pc \notin {"load", "modify"}
  PROVE  ViewOK'
  <1>1. UNCHANGED <<inode_table, inodes, index>> /\ Hashnames' = Hashnames
    BY Zenon DEF CallStays, table, backend, Hashnames
  <1>2. ASSUME NEW u \in Threads, NEW p, Flushed(u, p) PROVE Flushed(u, p)'
    BY <1>2, Zenon DEF Flushed, OthersStay
  <1>3. \A u \in Threads : /\ op'[u].pc = "load" => op'[u].version = index'[op'[u].hash]
                           /\ op'[u].pc = "modify" => op'[u].version = inodes'[op'[u].ino].version
    BY <1>1 DEF ViewOK, OthersStay
  <1>4. \A p \in Hashnames : \/ inode_table[p] = None
                             \/ inodes[inode_table[p]].version = index[p]
                             \/ \E u \in Threads : Flushed(u, p)'
    BY <1>2, Zenon DEF ViewOK
  <1> QED
    BY <1>1, <1>3, <1>4, Zenon DEF ViewOK

\* Every step keeps Apart.
LEMMA ApartNext ==
  ASSUME Base, Base', Apart, [Next]_vars
  PROVE  Apart'
  <1>1. CASE UNCHANGED vars
    BY <1>1 DEF vars, Apart, Exclusive, FlushConflict, IsNamed, FdOK, LookupOK, AttachedOK, ViewOK,
       Flushed, Hashnames, directory, descriptors, table, backend
  <1>2. ASSUME NEW t \in Threads, Step(t) PROVE Apart'
    <2>1. mode' = mode
      BY <1>2, StepFrame, Zenon
    <2> SUFFICES ASSUME ~ mode.overlap
                 PROVE  /\ Exclusive' /\ FdOK' /\ ViewOK'
                        /\ \A u \in Threads : LookupOK(u)' /\ AttachedOK(u)'
      BY <2>1, Zenon DEF Apart
    <2>2. Exclusive /\ FdOK /\ ViewOK /\ \A u \in Threads : LookupOK(u) /\ AttachedOK(u)
      BY Zenon DEF Apart
    <2>3. Exclusive' /\ FdOK' /\ ViewOK'
      BY <1>2, <2>2, ExclusiveStep, FdStep, ViewStep, Zenon
    <2>4. LookupOK(t)' /\ AttachedOK(t)'
      BY <1>2, <2>2, LookupSelf, AttachedSelf, Zenon
    <2>5. ASSUME NEW u \in Threads, u # t PROVE LookupOK(u)' /\ AttachedOK(u)'
      BY <1>2, <2>2, <2>5, LookupOthers, AttachedOthers, Zenon
    <2> QED
      BY <2>3, <2>4, <2>5, Zenon
  <1>3. ASSUME NEW t \in Threads, NEW c \in DirectoryCalls, NEW n, CallDirectory(t, c, n)
        PROVE  Apart'
    <2>1. /\ OthersStay(t) /\ CallStays /\ files' = files /\ MayCall(t, c, n, 0)
          /\ op'[t].call = c /\ op'[t].name = n /\ op'[t].h = 0 /\ op'[t].hash = None
          /\ op'[t].pc = "init_readdir"
      BY <1>3, CallDirectoryEffect, Zenon
    <2>m. mode' = mode /\ entries' = entries
      BY <2>1, Zenon DEF CallStays, directory
    <2> SUFFICES ASSUME ~ mode.overlap
                 PROVE  /\ Exclusive' /\ FdOK' /\ ViewOK'
                        /\ \A u \in Threads : LookupOK(u)' /\ AttachedOK(u)'
      BY <2>m, Zenon DEF Apart
    <2>2. Exclusive /\ FdOK /\ ViewOK /\ \A u \in Threads : LookupOK(u) /\ AttachedOK(u)
      BY Zenon DEF Apart
    <2>3. Exclusive'
      <3>1. c # "flush"
        BY Zenon DEF DirectoryCalls
      <3> QED
        BY <2>1, <2>2, <2>m, <3>1, ExclusiveCall, Zenon
    <2>4. FdOK'
      BY <2>1, <2>2, CallKeeps, Zenon
    <2>5. ViewOK'
      BY <2>1, <2>2, CallView, Zenon DEF MayCall
    <2>6. LookupOK(t)' /\ AttachedOK(t)'
      BY <2>1, Zenon DEF LookupOK, AttachedOK, InoPCs, UsePCs, DirectoryCalls, FileCalls
    <2>7. ASSUME NEW u \in Threads, u # t PROVE LookupOK(u)' /\ AttachedOK(u)'
      BY <2>1, <2>2, <2>7, CallKeeps, Zenon DEF OthersStay
    <2> QED
      BY <2>3, <2>4, <2>5, <2>6, <2>7, Zenon
  <1>4. ASSUME NEW t \in Threads, NEW c \in FileCalls, NEW h \in DOMAIN files, CallFile(t, c, h)
        PROVE  Apart'
    <2>1. /\ OthersStay(t) /\ CallStays /\ MayCall(t, c, NoName, h)
          /\ op'[t].call = c /\ op'[t].name = NoName /\ op'[t].h = h
          /\ op'[t].hash = fd_table[files[h].fd] /\ op'[t].pc = "get_inode"
      BY <1>4, CallFileEffect
    <2>m. mode' = mode /\ entries' = entries
      BY <2>1, Zenon DEF CallStays, directory
    <2> SUFFICES ASSUME ~ mode.overlap
                 PROVE  /\ Exclusive' /\ FdOK' /\ ViewOK'
                        /\ \A u \in Threads : LookupOK(u)' /\ AttachedOK(u)'
      BY <2>m, Zenon DEF Apart
    <2>2. Exclusive /\ FdOK /\ ViewOK /\ \A u \in Threads : LookupOK(u) /\ AttachedOK(u)
      BY Zenon DEF Apart
    <2>3. Exclusive'
      BY <2>1, <2>2, <2>m, ExclusiveCall, Zenon DEF CallStays
    <2>4. FdOK'
      BY <2>1, <2>2, CallKeeps, Zenon
    <2>5. ViewOK'
      BY <2>1, <2>2, CallView, Zenon DEF MayCall
    <2>6. LookupOK(t)' /\ AttachedOK(t)'
      <3>1. op'[t].hash \in {None, files'[h].hash}
        BY <2>1, <2>2, Zenon DEF FdOK, CallStays
      <3> QED
        BY <2>1, <3>1, Zenon DEF LookupOK, AttachedOK, InoPCs, UsePCs, FileCalls
    <2>7. ASSUME NEW u \in Threads, u # t PROVE LookupOK(u)' /\ AttachedOK(u)'
      BY <2>1, <2>2, <2>7, CallKeeps, Zenon DEF OthersStay
    <2> QED
      BY <2>3, <2>4, <2>5, <2>6, <2>7
  <1>5. ASSUME NEW h \in DOMAIN files, Dup(h) PROVE Apart'
    <2>1. CallStays /\ op' = op
      BY <1>5, DupEffect, Zenon
    <2>m. mode' = mode /\ entries' = entries /\ UNCHANGED <<inode_table, inodes, index>>
      BY <2>1, Zenon DEF CallStays, directory, table, backend
    <2> SUFFICES ASSUME ~ mode.overlap
                 PROVE  /\ Exclusive' /\ FdOK' /\ ViewOK'
                        /\ \A u \in Threads : LookupOK(u)' /\ AttachedOK(u)'
      BY <2>m, Zenon DEF Apart
    <2>2. Exclusive /\ FdOK /\ ViewOK /\ \A u \in Threads : LookupOK(u) /\ AttachedOK(u)
      BY Zenon DEF Apart
    <2>3. Exclusive'
      <3>1. \A u \in Threads : op[u].call = "flush" => op[u].h \in DOMAIN files
        BY Zenon DEF Base, FrameOK, FileCalls
      <3> QED
        <4>1. \A x \in DOMAIN files : files'[x].hash = files[x].hash
          BY <2>1, Zenon DEF CallStays
        <4>2. ASSUME NEW u \in Threads, NEW v \in Threads, op[u].call = "flush",
                     FlushConflict(op[u].h, op[v])'
              PROVE  FlushConflict(op[u].h, op[v])
          <5>1. /\ files'[op[u].h].hash = files[op[u].h].hash
                /\ op[v].call = "flush" => files'[op[v].h].hash = files[op[v].h].hash
            BY <3>1, <4>1, <4>2, Zenon
          <5> QED
            BY <2>1, <2>m, <4>2, <5>1, Zenon DEF FlushConflict, IsNamed
        <4> QED
          BY <2>1, <2>2, <4>2, Zenon DEF Exclusive
    <2>4. ViewOK'
      BY <2>1, <2>2, <2>m, Zenon DEF ViewOK, Flushed, Hashnames
    <2> QED
      BY <2>1, <2>2, <2>3, <2>4, CallKeeps, Zenon
  <1> QED
    BY <1>1, <1>2, <1>3, <1>4, <1>5, ZenonT(30) DEF Next, Call

\* Nothing is open after dcfs_init.
LEMMA ApartInit == Init => Apart
  <1> SUFFICES ASSUME Init PROVE Apart
    OBVIOUS
  <1>1. \A t \in Threads : op[t] = IdleFrame
    BY Zenon DEF Init
  <1>2. Exclusive
    BY <1>1 DEF Exclusive, IdleFrame, DirectoryCalls
  <1>3. FdOK
    <2>1. files = <<>> /\ fd_cnt = FirstFd - 1
      BY Zenon DEF Init
    <2>2. FirstFd \in Nat /\ FdTableMax \in Nat /\ FirstFd <= FdTableMax
      BY DcfsAssumption DEF FirstFd
    <2>3. Len(files) = 0 /\ DOMAIN files = {}
      BY <2>1
    <2> QED
      BY <2>1, <2>2, <2>3 DEF FdOK
  <1>4. \A t \in Threads : LookupOK(t) /\ AttachedOK(t)
    BY <1>1 DEF LookupOK, AttachedOK, IdleFrame, InoPCs, UsePCs, FileCalls
  <1>5. ViewOK
    BY <1>1 DEF Init, ViewOK, Hashnames, IdleFrame
  <1> QED
    BY <1>2, <1>3, <1>4, <1>5, Zenon DEF Apart

\* A lookup that fails has passed all entries.
LEMMA LookupPassed ==
  ASSUME Apart, ~ mode.overlap, NEW t \in Threads, LookupFails(t)
  PROVE  \A i \in DOMAIN entries : entries[i].name # op[t].name
  BY Zenon DEF LookupFails, Apart, LookupOK

\* What the layer uses of the theory of finite sets.
FiniteSetFacts ==
  /\ \A n \in Nat : IsFiniteSet(1 .. n)
  /\ \A S : IsFiniteSet(S) => \A T \in SUBSET S : IsFiniteSet(T)
  /\ \A S : IsFiniteSet(S) => Cardinality(S) \in Nat /\ (Cardinality(S) = 0 <=> S = {})
  /\ Cardinality({}) = 0
  /\ \A S, x : IsFiniteSet(S) /\ x \notin S => Cardinality(S \cup {x}) = Cardinality(S) + 1
  /\ \A S, x : IsFiniteSet(S) /\ x \in S => Cardinality(S \ {x}) = Cardinality(S) - 1

\* The openers of a file are finitely many.
LEMMA OpenersFinite ==
  ASSUME FiniteSetFacts, TypeOK, NEW hash
  PROVE  /\ IsFiniteSet(Holders(hash)) /\ IsFiniteSet(Movers(hash))
         /\ Cardinality(Holders(hash)) \in Nat /\ Cardinality(Movers(hash)) \in Nat
         /\ Cardinality(Holders(hash)) = 0 => Holders(hash) = {}
         /\ Cardinality(Movers(hash)) = 0 => Movers(hash) = {}
  <1>1. IsFiniteSet(DOMAIN files)
    <2>1. Len(files) \in Nat /\ DOMAIN files = 1 .. Len(files)
      BY TypeFacts, Zenon
    <2> QED
      BY <2>1, Zenon DEF FiniteSetFacts
  <1>2. Holders(hash) \in SUBSET (DOMAIN files) /\ Movers(hash) \in SUBSET Threads
    BY Zenon DEF Holders, Movers
  <1>3. IsFiniteSet(Holders(hash)) /\ IsFiniteSet(Movers(hash))
    BY <1>1, <1>2, DcfsAssumption, Zenon DEF FiniteSetFacts
  <1> QED
    BY <1>3, Zenon DEF FiniteSetFacts

\* The steps that count a reference or forget one; in every other step of t
\* its call has a reference before and after it, or neither.
LEMMA StepMover ==
  ASSUME Base, NEW t \in Threads, Step(t),
         op[t].call = "flush" => op[t].hash \in Hashnames
  PROVE  \/ RefStore(t) \/ FdStore(t) \/ UnrefStore(t)
         \/ /\ HasReference(t)' <=> HasReference(t)
            /\ HasReference(t) => op'[t].hash = op[t].hash
  <1>t. op \in [Threads -> Frames] /\ op[t] \in Frames /\ LabelOK(op[t])
    BY Zenon DEF Base, TypeOK, FrameOK
  <1> DEFINE P == /\ HasReference(t)' <=> HasReference(t)
                  /\ HasReference(t) => op'[t].hash = op[t].hash
  <1>n. ASSUME ~ HasReference(t), ~ HasReference(t)' PROVE P
    BY <1>n, Zenon
  <1>r. ASSUME Return(t) PROVE ~ HasReference(t)'
    <2>1. op'[t] = IdleFrame
      BY <1>r, <1>t, ReturnUpdate, Zenon
    <2> QED
      BY <2>1 DEF HasReference, IdleFrame
  <1>1. ASSUME \/ GetInodeUnknown(t) \/ AllocateFails(t) \/ Read(t) \/ Write(t) \/ ReleaseInode(t)
        PROVE  P
    <2>1. Return(t)
      BY <1>1, Zenon DEF GetInodeUnknown, AllocateFails, Read, Write, ReleaseInode
    <2>2. ~ HasReference(t)
      BY <1>1, <1>t, Zenon DEF GetInodeUnknown, AllocateFails, Read, Write, ReleaseInode, At, HasReference, LabelOK
    <2> QED
      BY <2>1, <2>2, <1>r, <1>n, Zenon
  <1>2. ASSUME ReaddirDangling(t) \/ UseFreed(t) \/ FdOutside(t) \/ UnrefAssert(t)
        PROVE  P
    BY <1>2, Zenon DEF ReaddirDangling, UseFreed, FdOutside, UnrefAssert, Die, HasReference
  <1>3. ASSUME InitReaddir(t) \/ ReaddirEnd(t) \/ AllocateStart(t) PROVE P
    <2>1. /\ op[t].pc \in {"init_readdir", "rewind", "allocate"}
          /\ Return(t) \/ Goto(t, "readdir") \/ Goto(t, "allocate") \/ Goto(t, "create_new")
      BY <1>3, Zenon DEF InitReaddir, ReaddirEnd, AllocateStart
    <2>2. ~ HasReference(t) /\ op[t].call # "flush"
      BY <1>t, <2>1, Zenon DEF HasReference, LabelOK, DirectoryCalls
    <2>3. ~ HasReference(t)'
      <3>1. CASE Return(t)
        BY <3>1, <1>r, Zenon
      <3>2. ASSUME NEW label \in {"readdir", "allocate", "create_new"}, Goto(t, label)
            PROVE  ~ HasReference(t)'
        BY <2>2, <3>2, GotoFields, Zenon DEF HasReference, SameCall
      <3> QED
        BY <2>1, <3>1, <3>2, Zenon
    <2> QED
      BY <2>2, <2>3, <1>n, Zenon
  <1>4. ASSUME ReaddirEntry(t) PROVE P
    <2>1. op[t].pc = "entry" /\ op[t].call # "flush"
      BY <1>4, <1>t, Zenon DEF ReaddirEntry, LabelOK, DirectoryCalls
    <2>2. ~ HasReference(t)
      BY <2>1, Zenon DEF HasReference
    <2>3. ~ HasReference(t)'
      <3>1. ASSUME NEW i,
                   op' = [op EXCEPT ![t].pc = "get_inode", ![t].hash = entries[i].hash]
            PROVE  ~ HasReference(t)'
        <4>1. op'[t].pc = "get_inode" /\ op'[t].call = op[t].call
          BY <3>1, <1>t, Zenon DEF Frames
        <4> QED
          BY <2>1, <4>1, Zenon DEF HasReference
      <3>2. ASSUME Goto(t, "readdir") PROVE ~ HasReference(t)'
        <4>1. op'[t].pc = "readdir" /\ op'[t].call = op[t].call
          BY <3>2, GotoFields, Zenon DEF SameCall
        <4> QED
          BY <2>1, <4>1, Zenon DEF HasReference
      <3> QED
        BY <1>4, <1>r, <3>1, <3>2, EntryStep, Zenon
    <2> QED
      BY <2>2, <2>3, <1>n, Zenon
  <1>5. ASSUME GetInodeHit(t) \/ GetInodeMiss(t) \/ LoadInode(t) PROVE P
    <2>1. op[t].pc \in {"get_inode", "load"}
      BY <1>5, Zenon DEF GetInodeHit, GetInodeMiss, LoadInode
    <2>2. SameCall(t) /\ op'[t].hash = op[t].hash /\ op'[t].pc \in {"use", "load"}
      BY <1>5, ReadFields, Zenon
    <2> QED
      BY <2>1, <2>2, Zenon DEF HasReference, SameCall
  <1>6. ASSUME AllocateInode(t) \/ RefLoad(t) PROVE P
    <2>1. op[t].pc \in {"create_new", "use"} /\ op[t].call # "flush"
      BY <1>6, <1>t, Zenon DEF AllocateInode, RefLoad, At, LabelOK
    <2>2. SameCall(t) /\ op'[t].pc \in {"use", "ref"}
      BY <1>6, ReadFields, Zenon
    <2> QED
      BY <2>1, <2>2, Zenon DEF HasReference, SameCall
  <1>7. ASSUME FdLoad(t) \/ UnrefLoad(t) PROVE P
    <2>1. \/ op[t].pc = "fd" /\ op'[t].pc = "fd_store"
          \/ op[t].pc = "use" /\ op[t].call = "flush" /\ op'[t].pc = "unref"
      BY <1>7, ReadFields, Zenon DEF FdLoad, UnrefLoad, At
    <2>2. SameCall(t) /\ op'[t].hash = op[t].hash
      BY <1>7, ReadFields, Zenon
    <2> QED
      BY <2>1, <2>2, Zenon DEF HasReference, SameCall
  <1>8. ASSUME AddentPush(t) \/ AddentReset(t) PROVE P
    <2>1. /\ op[t].pc \in {"push_back", "reset"}
          /\ Goto(t, "reset") \/ Goto(t, "fd")
      BY <1>8, Zenon DEF AddentPush, AddentReset
    <2>2. op'[t].pc \in {"reset", "fd"} /\ op'[t].hash = op[t].hash
      BY <2>1, GotoFields, Zenon
    <2> QED
      BY <2>1, <2>2, Zenon DEF HasReference
  <1>9. ASSUME \/ FlushCollect(t) \/ ModifyStart(t) \/ ModifyStale(t) \/ ModifyFails(t)
               \/ ModifyCommit(t) \/ FlushDrop(t)
        PROVE  P
    <2>1. op[t].pc \in {"collect", "modify", "commit", "drop"}
      BY <1>9, Zenon DEF FlushCollect, ModifyStart, ModifyStale, ModifyFails, ModifyCommit, FlushDrop, At
    <2>2. op'[t].pc \in {"modify", "commit", "drop", "recount"}
      <3>1. CASE FlushCollect(t) \/ ModifyStart(t)
        BY <3>1, ReadFields, Zenon
      <3>2. CASE ModifyStale(t) \/ ModifyFails(t) \/ ModifyCommit(t) \/ FlushDrop(t)
        <4>1. \E label \in {"drop", "recount"} : Goto(t, label)
          BY <3>2, Zenon DEF ModifyStale, ModifyFails, ModifyCommit, FlushDrop
        <4> QED
          BY <4>1, GotoFields, Zenon
      <3> QED
        BY <1>9, <3>1, <3>2, Zenon
    <2> QED
      BY <2>1, <2>2, Zenon DEF HasReference
  <1>10. ASSUME Recount(t) PROVE P
    <2>1. op[t].pc = "recount" /\ (Return(t) \/ Goto(t, "release"))
      BY <1>10, Zenon DEF Recount
    <2>2. ~ HasReference(t)
      BY <2>1, Zenon DEF HasReference
    <2>3. ~ HasReference(t)'
      BY <2>1, <1>r, GotoFields DEF HasReference
    <2> QED
      BY <2>2, <2>3, <1>n, Zenon
  <1>11. ASSUME ReaddirCompare(t) PROVE P
    <2>1. op[t].pc = "readdir" /\ op[t].call # "flush"
      BY <1>11, <1>t, Zenon DEF ReaddirCompare, LabelOK, DirectoryCalls
    <2>2. SameCall(t) /\ op'[t].pc \in {"rewind", "entry"}
      BY <1>11, ReadFields, Zenon
    <2> QED
      BY <2>1, <2>2, Zenon DEF HasReference, SameCall
  <1> HIDE DEF P
  <1>12. P \/ RefStore(t) \/ FdStore(t) \/ UnrefStore(t)
    BY <1>1, <1>2, <1>3, <1>4, <1>5, <1>6, <1>7, <1>8, <1>9, <1>10, <1>11, Zenon DEF Step
  <1> QED
    BY <1>12, Zenon DEF P

\* How the openers change when t's call gets or loses a reference.
LEMMA MoversChange ==
  ASSUME FiniteSetFacts, TypeOK, NEW t \in Threads, OthersStay(t), NEW p
  PROVE  LET m == Cardinality(Movers(p))
             before == op[t].hash = p /\ HasReference(t)
             after == op'[t].hash = p /\ HasReference(t)'
         IN /\ (before <=> after) => Movers(p)' = Movers(p)
            /\ ~ before /\ after => Cardinality(Movers(p)') = m + 1
            /\ before /\ ~ after => Cardinality(Movers(p)') = m - 1
  <1> DEFINE before == op[t].hash = p /\ HasReference(t)
             after == op'[t].hash = p /\ HasReference(t)'
  <1>1. IsFiniteSet(Movers(p))
    BY OpenersFinite, Zenon
  <1>2. \A u \in Threads : u # t => (u \in Movers(p)' <=> u \in Movers(p))
    BY Zenon DEF Movers, HasReference, OthersStay
  <1>3. (t \in Movers(p) <=> before) /\ (t \in Movers(p)' <=> after)
    BY Zenon DEF Movers
  <1>4. Movers(p) \subseteq Threads /\ Movers(p)' \subseteq Threads
    BY Zenon DEF Movers
  <1> HIDE DEF before, after
  <1>5. (before <=> after) => Movers(p)' = Movers(p)
    BY <1>2, <1>3, <1>4
  <1>6. ~ before /\ after => Movers(p)' = Movers(p) \cup {t} /\ t \notin Movers(p)
    BY <1>2, <1>3, <1>4, Zenon
  <1>7. before /\ ~ after => Movers(p)' = Movers(p) \ {t} /\ t \in Movers(p)
    BY <1>2, <1>3, <1>4, Zenon
  <1>8. ~ before /\ after => Cardinality(Movers(p)') = Cardinality(Movers(p)) + 1
    BY <1>1, <1>6, Zenon DEF FiniteSetFacts
  <1>9. before /\ ~ after => Cardinality(Movers(p)') = Cardinality(Movers(p)) - 1
    BY <1>1, <1>7, Zenon DEF FiniteSetFacts
  <1> QED
    BY <1>5, <1>8, <1>9, Zenon DEF before, after

\* How they change when a file is opened.
LEMMA HoldersGrow ==
  ASSUME FiniteSetFacts, Base, NEW t \in Threads, FdStore(t), NEW p
  PROVE  /\ p # op[t].hash => Holders(p)' = Holders(p)
         /\ p = op[t].hash => Cardinality(Holders(p)') = Cardinality(Holders(p)) + 1
  <1> DEFINE n == Len(files) + 1
             k == [fd |-> op[t].tmp + 1, hash |-> op[t].hash, descs |-> 1]
  <1>1. files' = Append(files, k)
    BY Zenon DEF FdStore
  <1>2. files \in Seq(Files) /\ Len(files) \in Nat
    BY DEF Base, TypeOK
  <1>3. k.hash = op[t].hash /\ k.descs = 1
    OBVIOUS
  <1>4. k \in Files
    <2>1. op[t] \in Frames
      BY Zenon DEF Base, TypeOK
    <2>2. op[t].tmp + 1 \in Nat /\ op[t].hash \in Nat
      BY <2>1 DEF Frames
    <2> QED
      BY <2>2, Zenon DEF Files
  <1> HIDE DEF k
  <1>5. /\ DOMAIN files' = DOMAIN files \cup {n} /\ n \notin DOMAIN files /\ files'[n] = k
        /\ \A h \in DOMAIN files : files'[h] = files[h]
    BY <1>1, <1>2, <1>4
  <1> HIDE DEF n
  <1>6. Holders(p)' = IF p = op[t].hash THEN Holders(p) \cup {n} ELSE Holders(p)
    BY <1>3, <1>5 DEF Holders
  <1>7. n \notin Holders(p) /\ IsFiniteSet(Holders(p))
    BY <1>5, OpenersFinite, Zenon DEF Holders, Base
  <1> QED
    BY <1>6, <1>7, Zenon DEF FiniteSetFacts

\* A step keeps the counts right.
LEMMA CountedStep ==
  ASSUME FiniteSetFacts, Base, Base', NEW t \in Threads, Step(t), AttachedOK(t), OpenOK(t),
         \A p \in Hashnames : RefCount(p) = Openers(p)
  PROVE  \A p \in Hashnames' : RefCount(p)' = Openers(p)'
  <1>t. OthersStay(t) /\ LabelOK(op[t]) /\ TypeOK
    BY StepFrame, Zenon DEF Base, FrameOK
  <1>f. op[t].call = "flush" => op[t].hash \in Hashnames
    BY Zenon DEF OpenOK, FileCalls, Base, ObjectsOK, FrameOK
  <1>1. SUFFICES ASSUME NEW p \in Hashnames' PROVE RefCount(p)' = Openers(p)'
    OBVIOUS
  <1>n. /\ Cardinality(Holders(p)) \in Nat /\ Cardinality(Movers(p)) \in Nat
    BY <1>t, OpenersFinite, Zenon
  <1>u. ~ FdStore(t) => Holders(p)' = Holders(p)
    <2>1. ~ FdStore(t) => files' = files
      BY StepDirectory, Zenon
    <2> QED
      BY <2>1, Zenon DEF Holders
  <1>2. CASE p \notin Hashnames
    <2>1. AllocateInode(t) /\ p = Len(index) + 1
      BY <1>1, <1>2, StepHashnames, InodeEffects, SMTT(30)
    <2>2. RefCount(p)' = 0
      <3>1. /\ inode_table'[p] = Len(inodes) + 1 /\ Len(inodes) + 1 # None
            /\ inodes'[Len(inodes) + 1] = NewInode(p, None)
        BY <2>1, InodeEffects, Zenon
      <3> QED
        BY <3>1 DEF RefCount, NewInode
    <2>3. Holders(p)' = {}
      <3>1. files' = files
        BY <2>1, Zenon DEF AllocateInode, descriptors
      <3> QED
        BY <1>2, <3>1, Zenon DEF Holders, Base, ObjectsOK
    <2>4. Movers(p)' = {}
      <3>1. ASSUME NEW u \in Threads PROVE u \notin Movers(p)'
        <4>1. CASE u = t
          <5>1. op'[t].pc = "use" /\ op'[t].call = op[t].call /\ op[t].call = "create"
            BY <2>1, <1>t, ReadFields, Zenon DEF AllocateInode, LabelOK, SameCall
          <5> QED
            BY <4>1, <5>1, Zenon DEF Movers, HasReference
        <4>2. CASE u # t
          <5>1. op'[u] = op[u] /\ op[u].hash \in 0 .. Len(index) /\ Len(index) \in Nat
            BY <4>2, <1>t, TypeFacts, Zenon DEF OthersStay, Base, FrameOK
          <5>2. op'[u].hash # p
            BY <2>1, <5>1
          <5> QED
            BY <5>2, Zenon DEF Movers
        <4> QED
          BY <4>1, <4>2, Zenon
      <3> QED
        BY <3>1, Zenon DEF Movers
    <2> QED
      <3>1. Cardinality(Holders(p)') = 0 /\ Cardinality(Movers(p)') = 0
        BY <2>3, <2>4, Zenon DEF FiniteSetFacts
      <3>2. Openers(p)' = Cardinality(Holders(p)') + Cardinality(Movers(p)')
        BY Zenon DEF Openers
      <3> QED
        BY <2>2, <3>1, <3>2
  <1>3. CASE p \in Hashnames
    <2>c. RefCount(p) = Openers(p)
      BY <1>3, Zenon
    <2>1. CASE RefStore(t)
      <3>1. /\ op[t].pc = "ref" /\ op[t].call # "flush" /\ op'[t].hash = op[t].hash
            /\ op'[t].pc \in {"push_back", "fd"}
        <4>1. /\ op[t].pc = "ref"
              /\ \E label \in {"push_back", "fd"} : Goto(t, label)
          BY <2>1, Zenon DEF RefStore, At
        <4> QED
          BY <4>1, <1>t, GotoFields, Zenon DEF LabelOK
      <3>2. ~ HasReference(t) /\ HasReference(t)' /\ ~ FdStore(t)
        BY <3>1, ZenonT(30) DEF HasReference, FdStore
      <3>3. CASE p = op[t].hash
        BY <3>1, <3>2, <3>3, <2>1, <2>c, <1>3, <1>u, <1>n, <1>t, CountStep, MoversChange, SMTT(30) DEF Openers
      <3>4. CASE p # op[t].hash
        <4>1. RefCount(p)' = RefCount(p)
          BY <3>4, <1>3, CountStep, Zenon
        <4> QED
          BY <3>1, <3>2, <3>4, <4>1, <2>c, <1>u, <1>t, MoversChange, Zenon DEF Openers
      <3> QED
        BY <3>3, <3>4, Zenon
    <2>2. CASE UnrefStore(t)
      <3>1. /\ op[t].pc = "unref" /\ op[t].call = "flush" /\ op'[t].hash = op[t].hash
            /\ op'[t].pc \in {"collect", "recount"}
        <4>1. /\ op[t].pc = "unref"
              /\ \E label \in {"collect", "recount"} : Goto(t, label)
          BY <2>2, Zenon DEF UnrefStore, At
        <4> QED
          BY <4>1, <1>t, GotoFields, Zenon DEF LabelOK, FlushPCs
      <3>2. HasReference(t) /\ ~ HasReference(t)' /\ ~ FdStore(t)
        BY <3>1, ZenonT(30) DEF HasReference, FdStore
      <3>3. CASE p = op[t].hash
        BY <3>1, <3>2, <3>3, <2>2, <2>c, <1>3, <1>u, <1>n, <1>t, CountStep, MoversChange, SMTT(30) DEF Openers
      <3>4. CASE p # op[t].hash
        <4>1. RefCount(p)' = RefCount(p)
          BY <3>4, <1>3, CountStep, Zenon
        <4> QED
          BY <3>1, <3>2, <3>4, <4>1, <2>c, <1>u, <1>t, MoversChange, Zenon DEF Openers
      <3> QED
        BY <3>3, <3>4, Zenon
    <2>3. CASE FdStore(t)
      <3>1. op[t].pc = "fd_store" /\ op'[t] = IdleFrame
        <4>1. Return(t) /\ op[t].pc = "fd_store"
          BY <2>3, Zenon DEF FdStore
        <4> QED
          BY <4>1, <1>t, ReturnUpdate, Zenon DEF TypeOK
      <3>2. HasReference(t) /\ ~ HasReference(t)' /\ ~ RefStore(t) /\ ~ UnrefStore(t)
        BY <3>1 DEF HasReference, IdleFrame, RefStore, UnrefStore, At
      <3>3. RefCount(p)' = RefCount(p)
        BY <3>2, <1>3, CountStep, Zenon
      <3>4. CASE p = op[t].hash
        <4>1. Cardinality(Movers(p)') = Cardinality(Movers(p)) - 1
          BY <3>2, <3>4, <1>t, MoversChange, Zenon
        <4>2. Cardinality(Holders(p)') = Cardinality(Holders(p)) + 1
          BY <2>3, <3>4, HoldersGrow, Zenon
        <4> QED
          BY <4>1, <4>2, <3>3, <2>c, <1>n DEF Openers
      <3>5. CASE p # op[t].hash
        <4>1. Movers(p)' = Movers(p)
          BY <3>2, <3>5, <1>t, MoversChange, Zenon
        <4>2. Holders(p)' = Holders(p)
          BY <2>3, <3>5, HoldersGrow, Zenon
        <4> QED
          BY <4>1, <4>2, <3>3, <2>c, Zenon DEF Openers
      <3> QED
        BY <3>4, <3>5, Zenon
    <2>4. CASE ~ RefStore(t) /\ ~ UnrefStore(t) /\ ~ FdStore(t)
      <3>1. (HasReference(t)' <=> HasReference(t)) /\ (HasReference(t) => op'[t].hash = op[t].hash)
        BY <2>4, <1>f, StepMover, Zenon
      <3>2. Movers(p)' = Movers(p)
        BY <3>1, <1>t, MoversChange, Zenon
      <3>3. RefCount(p)' = RefCount(p)
        BY <2>4, <1>3, CountStep, Zenon
      <3> QED
        BY <2>4, <3>2, <3>3, <2>c, <1>u, Zenon DEF Openers
    <2> QED
      BY <2>1, <2>2, <2>3, <2>4, Zenon
  <1> QED
    BY <1>2, <1>3, Zenon

\* The descriptors of open files keep their meaning.
LEMMA FilesStep ==
  ASSUME Sound, NEW t \in Threads, Step(t)
  PROVE  FilesOK'
  <1>b. Base /\ FdOK /\ FilesOK /\ LookupOK(t) /\ OpenOK(t) /\ TypeOK
    BY ZenonT(30) DEF Sound, Base
  <1>d. /\ fd_table \in [0 .. FdTableMax - 1 -> 0 .. Len(index)]
        /\ \A h \in DOMAIN files : files[h].fd \in 0 .. FdTableMax - 1 /\ files[h].fd = FirstFd - 1 + h
        /\ DOMAIN files \subseteq Nat
    BY <1>b, TypeFacts, SMTT(30) DEF TypeOK, FdOK, Base, ObjectsOK
  <1>1. CASE FdStore(t)
    <2> DEFINE n == Len(files) + 1
               fd == op[t].tmp + 1
               k == [fd |-> fd, hash |-> op[t].hash, descs |-> 1]
    <2>1. /\ files' = Append(files, k) /\ fd_table' = [fd_table EXCEPT ![fd] = op[t].hash]
          /\ fd < FdTableMax /\ op[t].tmp = fd_cnt
      BY <1>1, <1>b, Zenon DEF FdStore, LookupOK
    <2>2. files \in Seq(Files) /\ Len(files) \in Nat /\ op[t] \in Frames
      BY <1>b DEF TypeOK
    <2>3. fd \in Nat /\ op[t].hash \in Nat
      BY <2>2 DEF Frames
    <2>4. k \in Files /\ k.fd = fd /\ k.hash = op[t].hash /\ k.descs = 1
      BY <2>3, Zenon DEF Files
    <2> HIDE DEF k
    <2>5. /\ DOMAIN files' = DOMAIN files \cup {n} /\ files'[n] = k
          /\ \A h \in DOMAIN files : files'[h] = files[h] /\ h # n
      BY <2>1, <2>2, <2>4
    <2>6. fd = FirstFd - 1 + n
      BY <2>1, <2>2, <1>b DEF FdOK, FirstFd
    <2>7. fd_table'[fd] = op[t].hash
      <3>1. fd \in 0 .. FdTableMax - 1
        BY <2>1, <2>3, DcfsAssumption
      <3> QED
        BY <2>1, <3>1, <1>d, Zenon
    <2>8. ASSUME NEW h \in DOMAIN files PROVE fd_table'[files[h].fd] = fd_table[files[h].fd]
      <3>1. files[h].fd # fd
        BY <2>5, <2>6, <2>2, <1>d DEF FirstFd
      <3> QED
        BY <3>1, <2>1, <1>d, Zenon
    <2> HIDE DEF n, fd
    <2> QED
      BY <2>4, <2>5, <2>7, <2>8, <1>b DEF FilesOK
  <1>2. CASE ReleaseInode(t)
    <2>1. files' = files /\ fd_table' = [fd_table EXCEPT ![files[op[t].h].fd] = None]
      BY <1>2, Zenon DEF ReleaseInode
    <2>2. op[t].call = "flush" /\ op[t].h \in DOMAIN files
      BY <1>2, <1>b, Zenon DEF ReleaseInode, At, Base, FrameOK, LabelOK, FlushPCs, FileCalls
    <2>3. files[op[t].h].descs = 0
      BY <2>2, <1>b, Zenon DEF OpenOK
    <2>4. ASSUME NEW h \in DOMAIN files, files[h].descs > 0
          PROVE  fd_table'[files[h].fd] = fd_table[files[h].fd]
      <3>1. h # op[t].h
        BY <2>3, <2>4
      <3>2. files[h].fd # files[op[t].h].fd
        BY <3>1, <2>2, <1>d DEF FirstFd
      <3> QED
        BY <3>2, <2>1, <1>d, Zenon
    <2> QED
      BY <2>1, <2>4, <1>b, Zenon DEF FilesOK
  <1>3. CASE ~ FdStore(t) /\ ~ ReleaseInode(t)
    <2>1. files' = files /\ fd_table' = fd_table
      BY <1>3, <1>b, StepDirectory, Zenon
    <2> QED
      BY <2>1, <1>b, Zenon DEF FilesOK
  <1> QED
    BY <1>1, <1>2, <1>3, Zenon

\* A thread that reads or writes keeps its file and its Inode.
LEMMA OpenStep ==
  ASSUME Sound, NEW t \in Threads, Step(t), NEW u \in Threads
  PROVE  OpenOK(u)'
  <1>b. Base /\ AttachedOK(t) /\ OpenOK(t) /\ OpenOK(u) /\ TypeOK
    BY Zenon DEF Sound, Base
  <1>s. /\ OthersStay(t) /\ (op'[t] = IdleFrame \/ SameCall(t)) /\ InodesStay(t)
        /\ \A h \in DOMAIN files : files'[h] = files[h]
        /\ op[u].call \in FileCalls => op[u].h \in DOMAIN files
    BY <1>b, StepFrame, StepGrows, StepInodesStay, Zenon DEF Base, FrameOK
  <1>1. CASE u # t
    <2>1. op'[u] = op[u]
      BY <1>1, <1>s, Zenon DEF OthersStay
    <2>2. /\ op[u].call \in FileCalls => op[u].hash = files'[op[u].h].hash
          /\ op[u].call = "flush" => files'[op[u].h].descs = 0
          /\ op[u].call \in {"read", "write"} => files'[op[u].h].descs > 0
      BY <1>b, <1>s, Zenon DEF OpenOK, FileCalls
    <2>3. ASSUME op[u].call \in {"read", "write"}, op[u].pc = "use"
          PROVE  inode_table'[op[u].hash] = op[u].ino
      <3>1. /\ op[u].hash \in Hashnames /\ op[u].ino # None
            /\ inode_table[op[u].hash] = op[u].ino
        BY <2>3, <1>b, InodeUpdate, Zenon DEF InoPCs, UsePCs, OpenOK
      <3>2. CASE inode_table'[op[u].hash] = inode_table[op[u].hash]
        BY <3>1, <3>2, Zenon
      <3>3. CASE op[u].hash = op[t].hash /\ op[t].pc = "load"
        BY <3>1, <3>3, <1>b, Zenon DEF Base, MutexOK, LockPCs
      <3>4. CASE op[u].hash = op[t].hash /\ op[t].pc = "release"
        <4>1. RefCount(op[u].hash) > 0
          <5>1. /\ op[u].h \in DOMAIN files /\ files[op[u].h].descs > 0
                /\ files[op[u].h].hash = op[u].hash
            BY <2>3, <1>b, <1>s, Zenon DEF OpenOK, FileCalls
          <5> QED
            BY <5>1, OpenCounted, Zenon
        <4>2. op[t].call = "flush" /\ op[t].pc \in InoPCs
          BY <3>4, <1>b, Zenon DEF Base, FrameOK, LabelOK, FlushPCs, InoPCs, UsePCs
        <4>3. inode_table[op[t].hash] = op[t].ino /\ inodes[op[t].ino].ref + 1 = 1
          BY <3>4, <4>2, <1>b, Zenon DEF AttachedOK
        <4>4. inodes[op[t].ino] \in Inodes /\ op[t].ino # None
          BY <4>2, <1>b, InodeUpdate, Zenon
        <4>5. inodes[op[t].ino].ref = 0
          BY <4>3, <4>4 DEF Inodes
        <4> QED
          BY <3>4, <4>1, <4>3, <4>4, <4>5 DEF RefCount
      <3> QED
        BY <3>1, <3>2, <3>3, <3>4, <1>s, Zenon DEF InodesStay
    <2> QED
      BY <2>1, <2>2, <2>3, Zenon DEF OpenOK
  <1>2. CASE u = t /\ op'[t] = IdleFrame
    BY <1>2 DEF OpenOK, IdleFrame, FileCalls
  <1>3. CASE u = t /\ SameCall(t) /\ op'[t] # IdleFrame
    <2>1. op'[t].call = op[t].call /\ op'[t].h = op[t].h
      BY <1>3, Zenon DEF SameCall
    <2>2. op[t].call \in FileCalls => op'[t].hash = op[t].hash
      BY <1>3, <1>b, StepUse, Zenon
    <2>3. /\ op[t].call \in FileCalls => op'[t].hash = files'[op[t].h].hash
          /\ op[t].call = "flush" => files'[op[t].h].descs = 0
          /\ op[t].call \in {"read", "write"} => files'[op[t].h].descs > 0
      BY <1>3, <2>2, <1>b, <1>s, Zenon DEF OpenOK, FileCalls
    <2>4. ASSUME op[t].call \in {"read", "write"}, op'[t].pc = "use"
          PROVE  inode_table'[op'[t].hash] = op'[t].ino
      <3>1. CASE UNCHANGED <<op, inode_table>>
        BY <2>4, <3>1, <1>b, Zenon DEF OpenOK
      <3>2. CASE GetInodeHit(t)
        <4>1. op'[t].hash = op[t].hash /\ op'[t].ino = inode_table[op[t].hash]
          BY <3>2, <1>b, ReadFields, Zenon
        <4>2. inode_table' = inode_table
          BY <3>2, Zenon DEF GetInodeHit, table
        <4> QED
          BY <4>1, <4>2, Zenon
      <3>3. CASE LoadInode(t)
        <4>1. op'[t].hash = op[t].hash /\ op'[t].ino = Len(inodes) + 1
          BY <3>3, <1>b, ReadFields, Zenon
        <4> QED
          BY <3>3, <4>1, <1>b, InodeEffects, Zenon
      <3>4. ~ AllocateInode(t)
        BY <2>4, <1>b, ZenonT(30) DEF AllocateInode, Base, FrameOK, LabelOK
      <3> QED
        BY <2>4, <3>1, <3>2, <3>3, <3>4, <1>b, StepUse, Zenon
    <2> QED
      BY <1>3, <2>1, <2>3, <2>4, Zenon DEF OpenOK
  <1> QED
    BY <1>1, <1>2, <1>3, <1>s, Zenon

\* A step fails at most for want of a descriptor.
LEMMA FaultStep ==
  ASSUME Sound, NEW t \in Threads, Step(t)
  PROVE  \/ fault' = "none"
         \/ fault' = "fd_table" /\ Len(files') = FdTableMax - FirstFd
  <1>b. Base /\ FdOK /\ LookupOK(t) /\ AttachedOK(t) /\ OpenOK(t) /\ TypeOK /\ LabelOK(op[t])
    BY Zenon DEF Sound, Base, FrameOK
  <1>1. ~ ReaddirDangling(t)
    BY <1>b, Zenon DEF ReaddirDangling, MayHaveMoved, LookupOK
  <1>2. ASSUME op[t].pc \in UsePCs
        PROVE  /\ op[t].hash \in Hashnames /\ inode_table[op[t].hash] = op[t].ino
               /\ op[t].ino # None /\ inodes[op[t].ino].live
    <2>1. op[t].pc \in InoPCs
      BY <1>2, Zenon DEF InoPCs
    <2>2. inode_table[op[t].hash] = op[t].ino
      <3>1. CASE op[t].call \notin {"read", "write"}
        BY <2>1, <3>1, <1>b, Zenon DEF AttachedOK
      <3>2. CASE op[t].call \in {"read", "write"}
        <4>1. op[t].pc = "use"
          BY <1>2, <3>2, <1>b, Zenon DEF LabelOK, UsePCs, FlushPCs
        <4> QED
          BY <4>1, <3>2, <1>b, Zenon DEF OpenOK
      <3> QED
        BY <3>1, <3>2, Zenon
    <2>3. op[t].hash \in Hashnames /\ op[t].ino # None
      BY <2>1, <1>b, InodeUpdate, Zenon
    <2> QED
      BY <2>2, <2>3, <1>b, Zenon DEF Base, OneInode
  <1>3. ~ UseFreed(t)
    BY <1>2, Zenon DEF UseFreed, Inode
  <1>4. ~ UnrefAssert(t)
    <2> SUFFICES ASSUME UnrefAssert(t) PROVE FALSE
      OBVIOUS
    <2>1. op[t].pc = "use" /\ op[t].call = "flush" /\ inodes[op[t].ino].ref = 0
      BY Zenon DEF UnrefAssert, At, Inode
    <2>2. op[t].hash \in Hashnames /\ HasReference(t)
      BY <2>1, <1>2, Zenon DEF HasReference, UsePCs
    <2>3. RefCount(op[t].hash) > 0
      BY <2>2, OpenCounted, Zenon
    <2> QED
      BY <2>1, <2>3, <1>2 DEF RefCount, UsePCs
  <1>5. FdOutside(t) => fault' = "fd_table" /\ Len(files') = FdTableMax - FirstFd
    <2> SUFFICES ASSUME FdOutside(t)
                 PROVE  fault' = "fd_table" /\ Len(files') = FdTableMax - FirstFd
      OBVIOUS
    <2>1. fault' = "fd_table" /\ files' = files
      BY Zenon DEF FdOutside, Die, descriptors
    <2>2. op[t].tmp = fd_cnt /\ op[t].tmp + 1 >= FdTableMax
      BY <1>b, Zenon DEF FdOutside, LookupOK
    <2>3. Len(files) \in Nat /\ fd_cnt = FirstFd - 1 + Len(files) /\ Len(files) <= FdTableMax - FirstFd
      BY <1>b, TypeFacts, Zenon DEF FdOK
    <2>4. Len(files) = FdTableMax - FirstFd
      BY <2>2, <2>3, DcfsAssumption DEF FirstFd
    <2> QED
      BY <2>1, <2>4, Zenon
  <1> QED
    BY <1>1, <1>3, <1>4, <1>5, <1>b, StepUse

\* A call by path refers to no open file.
LEMMA CountedCallDirectory ==
  ASSUME FiniteSetFacts, Sound, NEW t \in Threads, NEW c \in DirectoryCalls, NEW n, CallDirectory(t, c, n)
  PROVE  /\ FilesOK' /\ \A u \in Threads : OpenOK(u)'
         /\ \A p \in Hashnames' : RefCount(p)' = Openers(p)'
  <1>b. Base /\ TypeOK /\ FilesOK
    BY Zenon DEF Sound, Base
  <1>1. /\ OthersStay(t) /\ CallStays /\ files' = files /\ op[t].pc = "idle"
        /\ op'[t].call = c /\ op'[t].pc = "init_readdir"
    BY <1>b, CallDirectoryEffect, Zenon DEF MayCall
  <1>2. fd_table' = fd_table /\ inode_table' = inode_table
    BY <1>1, Zenon DEF CallStays, table
  <1>3. FilesOK'
    BY <1>b, <1>1, <1>2, Zenon DEF FilesOK
  <1>4. ASSUME NEW u \in Threads PROVE OpenOK(u)'
    <2>1. CASE u = t
      BY <1>1, <2>1, Zenon DEF OpenOK, DirectoryCalls, FileCalls
    <2>2. CASE u # t
      <3>1. op'[u] = op[u] /\ OpenOK(u)
        BY <1>1, <2>2, Zenon DEF OthersStay, Sound
      <3> QED
        BY <1>1, <1>2, <3>1, Zenon DEF OpenOK
    <2> QED
      BY <2>1, <2>2, Zenon
  <1>5. ASSUME NEW p \in Hashnames' PROVE RefCount(p)' = Openers(p)'
    <2>1. p \in Hashnames /\ RefCount(p)' = RefCount(p) /\ RefCount(p) = Openers(p)
      BY <1>1, <1>5, CallCounts, Zenon DEF Sound
    <2>2. ~ HasReference(t) /\ ~ HasReference(t)'
      BY <1>1, Zenon DEF HasReference, DirectoryCalls
    <2>3. Movers(p)' = Movers(p)
      BY <1>b, <1>1, <2>2, MoversChange, Zenon
    <2>4. Holders(p)' = Holders(p)
      BY <1>1, Zenon DEF Holders
    <2> QED
      BY <2>1, <2>3, <2>4, Zenon DEF Openers
  <1> QED
    BY <1>3, <1>4, <1>5, Zenon

\* A call by descriptor finds its file; a close takes the reference over from
\* the open file.
LEMMA CountedCallFile ==
  ASSUME FiniteSetFacts, Sound, ~ mode.overlap,
         NEW t \in Threads, NEW c \in FileCalls, NEW h \in DOMAIN files, CallFile(t, c, h)
  PROVE  /\ FilesOK' /\ \A u \in Threads : OpenOK(u)'
         /\ \A p \in Hashnames' : RefCount(p)' = Openers(p)'
  <1>b. Base /\ TypeOK /\ FilesOK
    BY Zenon DEF Sound, Base
  <1>1. /\ OthersStay(t) /\ CallStays /\ MayCall(t, c, NoName, h)
        /\ op'[t].call = c /\ op'[t].h = h
        /\ op'[t].hash = fd_table[files[h].fd] /\ op'[t].pc = "get_inode"
        /\ files[h].descs > 0
        /\ files'[h].descs = IF c = "flush" THEN files[h].descs - 1 ELSE files[h].descs
        /\ \A k \in DOMAIN files : k # h => files'[k] = files[k]
    BY <1>b, CallFileEffect
  <1>2. /\ fd_table' = fd_table /\ inode_table' = inode_table /\ DOMAIN files' = DOMAIN files
        /\ \A k \in DOMAIN files : files'[k].hash = files[k].hash /\ files'[k].fd = files[k].fd
    BY <1>1, Zenon DEF CallStays, table
  <1>3. files[h].descs = 1 /\ fd_table[files[h].fd] = files[h].hash
    <2>1. files[h].descs \in Nat
      BY <1>b, ElementTypes, Zenon DEF Files
    <2> QED
      BY <2>1, <1>1, <1>b DEF FilesOK
  <1>4. \A k \in DOMAIN files :
          files'[k].descs = IF k = h /\ c = "flush" THEN 0 ELSE files[k].descs
    BY <1>1, <1>3
  <1>5. FilesOK'
    BY <1>b, <1>2, <1>4 DEF FilesOK
  <1>6. ASSUME NEW u \in Threads PROVE OpenOK(u)'
    <2>1. CASE u = t
      BY <1>1, <1>2, <1>3, <1>4, <2>1, Zenon DEF OpenOK, FileCalls
    <2>2. CASE u # t
      <3>1. /\ op'[u] = op[u] /\ OpenOK(u)
            /\ op[u].call \in FileCalls => op[u].h \in DOMAIN files
        BY <1>1, <1>b, <2>2, Zenon DEF OthersStay, Sound, Base, FrameOK
      <3>2. op[u].call \in {"read", "write"} => ~ (op[u].h = h /\ c = "flush")
        BY <1>1, ZenonT(30) DEF MayCall, Conflict, FlushConflict
      <3>3. op[u].call = "flush" => op[u].h # h
        BY <1>1, <3>1 DEF OpenOK
      <3>4. op[u].call \in FileCalls => /\ files'[op[u].h].descs = files[op[u].h].descs
                                        /\ files'[op[u].h].hash = files[op[u].h].hash
        BY <1>2, <1>4, <3>1, <3>2, <3>3, Zenon DEF FileCalls
      <3> QED
        BY <1>2, <3>1, <3>4, Zenon DEF OpenOK, FileCalls
    <2> QED
      BY <2>1, <2>2, Zenon
  <1>7. ASSUME NEW p \in Hashnames' PROVE RefCount(p)' = Openers(p)'
    <2>1. p \in Hashnames /\ RefCount(p)' = RefCount(p) /\ RefCount(p) = Openers(p)
      BY <1>1, <1>7, CallCounts, Zenon DEF Sound
    <2>2. /\ Cardinality(Holders(p)) \in Nat /\ Cardinality(Movers(p)) \in Nat
          /\ IsFiniteSet(Holders(p))
      BY <1>b, OpenersFinite, Zenon
    <2>3. ~ HasReference(t) /\ (HasReference(t)' <=> c = "flush")
      BY <1>1, Zenon DEF HasReference, MayCall, Base, FrameOK, LabelOK
    <2>4. CASE c = "flush" /\ p = files[h].hash
      <3>1. Holders(p)' = Holders(p) \ {h} /\ h \in Holders(p)
        BY <1>1, <1>2, <1>4, <2>4 DEF Holders
      <3>2. Cardinality(Holders(p)') = Cardinality(Holders(p)) - 1
        BY <2>2, <3>1, Zenon DEF FiniteSetFacts
      <3>3. Cardinality(Movers(p)') = Cardinality(Movers(p)) + 1
        BY <1>b, <1>1, <1>3, <2>3, <2>4, MoversChange, Zenon
      <3> QED
        BY <2>1, <2>2, <3>2, <3>3 DEF Openers
    <2>5. CASE ~ (c = "flush" /\ p = files[h].hash)
      <3>1. Holders(p)' = Holders(p)
        BY <1>2, <1>4, <2>5, Zenon DEF Holders
      <3>2. Movers(p)' = Movers(p)
        BY <1>b, <1>1, <1>3, <2>3, <2>5, MoversChange, Zenon
      <3> QED
        BY <2>1, <3>1, <3>2, Zenon DEF Openers
    <2> QED
      BY <2>4, <2>5, Zenon
  <1> QED
    BY <1>5, <1>6, <1>7, Zenon

\* The counts say which files are open.
LEMMA CountedSound ==
  ASSUME FiniteSetFacts, Base, Apart, Counted, Regular
  PROVE  Sound
  <1>1. /\ Exclusive /\ FdOK /\ FilesOK
        /\ \A t \in Threads : LookupOK(t) /\ AttachedOK(t) /\ OpenOK(t)
        /\ \A p \in Hashnames : RefCount(p) = Openers(p)
    BY CountedMeans, Zenon DEF Apart, Regular
  <1>2. TypeOK
    BY Zenon DEF Base
  <1>3. ASSUME NEW p \in Hashnames
        PROVE  RefCount(p) > 0 <=> Holders(p) # {} \/ Movers(p) # {}
    <2>1. /\ Cardinality(Holders(p)) \in Nat /\ Cardinality(Movers(p)) \in Nat
          /\ Cardinality(Holders(p)) = 0 <=> Holders(p) = {}
          /\ Cardinality(Movers(p)) = 0 <=> Movers(p) = {}
      BY <1>2, OpenersFinite, Zenon DEF FiniteSetFacts
    <2>2. RefCount(p) = Cardinality(Holders(p)) + Cardinality(Movers(p))
      BY <1>1, Zenon DEF Openers
    <2> QED
      BY <2>1, <2>2
  <1> QED
    BY <1>1, <1>3, Zenon DEF Sound, Opened

\* Every step keeps Counted.
LEMMA CountedNext ==
  ASSUME FiniteSetFacts, Base, Base', Apart, Counted, [Next]_vars
  PROVE  Counted'
  <1> DEFINE F == \/ fault = "none"
                  \/ fault = "fd_table" /\ Len(files) = FdTableMax - FirstFd
  <1>1. CASE UNCHANGED vars
    BY <1>1 DEF vars, Counted, Regular, OpenOK, ReferencesCounted, RefCount, FaultFree, Hashnames, Holders,
       Movers, HasReference, directory, descriptors, table, backend
  <1>2. ASSUME Next PROVE Counted'
    <2>1. mode' = mode
      <3>1. ASSUME NEW t \in Threads, Step(t) PROVE mode' = mode
        BY <3>1, StepFrame, Zenon
      <3>2. ASSUME Call PROVE mode' = mode
        BY <3>2, Zenon DEF Call, CallDirectory, CallFile, Dup
      <3> QED
        BY <1>2, <3>1, <3>2, Zenon DEF Next
    <2>2. Regular' <=> Regular
      BY <2>1, Zenon DEF Regular
    <2> SUFFICES ASSUME Regular
                 PROVE  /\ FilesOK' /\ \A t \in Threads : OpenOK(t)'
                        /\ \A p \in Hashnames' : RefCount(p)' = Openers(p)'
                        /\ F'
      <3>1. (Counted <=> (Regular => /\ FilesOK /\ \A t \in Threads : OpenOK(t)
                                     /\ \A p \in Hashnames : RefCount(p) = Openers(p)
                                     /\ F))'
        BY CountedMeans, PTL
      <3> QED
        BY <2>2, <3>1, Zenon
    <2>3. Sound /\ F /\ ~ mode.overlap /\ ~ mode.dup
      BY CountedSound, CountedMeans, Zenon DEF Regular
    <2> HIDE DEF F
    <2>4. ASSUME NEW t \in Threads, Step(t)
          PROVE  /\ FilesOK' /\ \A u \in Threads : OpenOK(u)'
                 /\ \A p \in Hashnames' : RefCount(p)' = Openers(p)'
                 /\ F'
      <3>1. AttachedOK(t) /\ OpenOK(t) /\ \A p \in Hashnames : RefCount(p) = Openers(p)
        BY <2>3, Zenon DEF Sound
      <3>2. \A p \in Hashnames' : RefCount(p)' = Openers(p)'
        BY <2>4, <3>1, CountedStep, Zenon
      <3>3. FilesOK' /\ \A u \in Threads : OpenOK(u)'
        BY <2>3, <2>4, FilesStep, OpenStep, Zenon
      <3>4. F'
        BY <2>3, <2>4, FaultStep, Zenon DEF F
      <3> QED
        BY <3>2, <3>3, <3>4, Zenon
    <2>5. ASSUME NEW t \in Threads, NEW c \in DirectoryCalls, NEW n, CallDirectory(t, c, n)
          PROVE  /\ FilesOK' /\ \A u \in Threads : OpenOK(u)'
                 /\ \A p \in Hashnames' : RefCount(p)' = Openers(p)'
                 /\ F'
      <3>1. F'
        BY <2>3, <2>5, Zenon DEF F, CallDirectory, descriptors
      <3> QED
        BY <2>3, <2>5, <3>1, CountedCallDirectory, Zenon
    <2>6. ASSUME NEW t \in Threads, NEW c \in FileCalls, NEW h \in DOMAIN files, CallFile(t, c, h)
          PROVE  /\ FilesOK' /\ \A u \in Threads : OpenOK(u)'
                 /\ \A p \in Hashnames' : RefCount(p)' = Openers(p)'
                 /\ F'
      <3>1. CallStays
        BY <2>6, CallFileEffect, Zenon
      <3>2. F'
        BY <2>3, <3>1, Zenon DEF F, CallStays
      <3> QED
        BY <2>3, <2>6, <3>2, CountedCallFile, Zenon
    <2>7. ASSUME NEW h \in DOMAIN files, Dup(h) PROVE FALSE
      BY <2>3, <2>7, Zenon DEF Dup
    <2> QED
      BY <1>2, <2>4, <2>5, <2>6, <2>7, Zenon DEF Next, Call
  <1> QED
    BY <1>1, <1>2, Zenon

\* Nothing is open at first.
LEMMA CountedInit == Init => Counted
  BY DEF Init, Counted, OpenOK, ReferencesCounted, FaultFree, Hashnames, IdleFrame, FileCalls

=============================================================================
