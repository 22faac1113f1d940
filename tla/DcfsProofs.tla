----------------------------- MODULE DcfsProofs -----------------------------
(*****************************************************************************)
(* The theorems about Dcfs, for any threads, names, descriptors and usages.  *)
(*****************************************************************************)
EXTENDS DcfsBase, DcfsCounted, DcfsKept, FiniteSetTheorems

\* The facts about finite sets that the counts rest on.
LEMMA FiniteSetsCount == FiniteSetFacts
  <1>1. \A n \in Nat : IsFiniteSet(1 .. n)
    BY FS_Interval
  <1>2. \A S : IsFiniteSet(S) => \A T \in SUBSET S : IsFiniteSet(T)
    BY FS_Subset
  <1>3. \A S : IsFiniteSet(S) => Cardinality(S) \in Nat /\ (Cardinality(S) = 0 <=> S = {})
    BY FS_CardinalityType, FS_EmptySet
  <1>4. \A S, x : IsFiniteSet(S) /\ x \notin S => Cardinality(S \cup {x}) = Cardinality(S) + 1
    BY FS_AddElement
  <1>5. \A S, x : IsFiniteSet(S) /\ x \in S => Cardinality(S \ {x}) = Cardinality(S) - 1
    BY FS_RemoveElement
  <1> QED
    BY <1>1, <1>2, <1>3, <1>4, <1>5, FS_EmptySet DEF FiniteSetFacts

\* Base holds for any threads, names, descriptors and usages.
THEOREM BaseInvariance == Spec => []Base
  BY BaseInit, BaseNext, PTL DEF Spec

\* The state keeps its types: no count becomes negative, no descriptor or
\* pointer leaves its table (get_inode, allocate_inode, release_inode, Ref,
\* Unref and the handlers that use them).
THEOREM TypeCorrect == Spec => []TypeOK
  <1>1. Base => TypeOK
    BY DEF Base
  <1> QED
    BY <1>1, BaseInvariance, PTL

\* However the handlers interleave, a file has at most one Inode in memory:
\* inode_table_mutex is held from the lookup to the insertion.
THEOREM SingleInode == Spec => []OneInode
  <1>1. Base => OneInode
    BY DEF Base
  <1> QED
    BY <1>1, BaseInvariance, PTL

\* Apart holds for any threads, names, descriptors and usages.
THEOREM ApartInvariance == Spec => []Apart
  BY ApartInit, ApartNext, BaseInvariance, PTL DEF Spec

\* If conflicting calls exclude each other, an Inode in memory views the
\* latest version of its file unless its flush is about to release it, even if
\* descriptors are duplicated and the middleware fails (get_inode, FlushCache).
THEOREM ViewsAreLatest == Spec => []ViewsLatest
  <1>1. Apart => ViewsLatest
    BY DEF Apart, ViewOK, ViewsLatest, Flushed
  <1> QED
    BY <1>1, ApartInvariance, PTL

\* If conflicting calls exclude each other, a lookup that fails has passed all
\* entries: the one iterator of the directory is not moved by another walk.
THEOREM LookupsAreExact == Spec => LookupExact
  <1> DEFINE A == ~ mode.overlap =>
                    \A t \in Threads :
                      LookupFails(t) => \A i \in DOMAIN entries : entries[i].name # op[t].name
  <1>1. Base /\ Apart /\ [Next]_vars => [A]_vars
    BY LookupPassed
  <1>2. LookupExact <=> [][A]_vars
    BY DEF LookupExact
  <1> QED
    BY <1>1, <1>2, BaseInvariance, ApartInvariance, PTL DEF Spec

\* Counted holds for any threads, names, descriptors and usages.
THEOREM CountedInvariance == Spec => []Counted
  <1>1. Base /\ Base' /\ Apart /\ Counted /\ [Next]_vars => Counted'
    BY CountedNext, FiniteSetsCount
  <1> QED
    BY <1>1, CountedInit, BaseInvariance, ApartInvariance, PTL DEF Spec

\* If conflicting calls exclude each other and every open file is closed once,
\* an Inode's count is the number of its openers, although ++ and -- on it are
\* not atomic and create, open and flush are interleaved with the handlers of
\* other files (Ref, Unref).
THEOREM CountsAreRight == Spec => []ReferencesCounted
  <1>1. Counted => ReferencesCounted
    BY DEF Counted, ReferencesCounted
  <1> QED
    BY <1>1, CountedInvariance, PTL

\* In such a usage no handler uses a deleted Inode or a dangling iterator, no
\* assertion fails, and only an open beyond the end of fd_table goes wrong.
THEOREM NoFault == Spec => []FaultFree
  <1>1. Counted => FaultFree
    BY DEF Counted, FaultFree
  <1> QED
    BY <1>1, CountedInvariance, PTL

\* In such a usage an open descriptor leads to its own file, and the file's
\* Inode is in memory until the last close.
THEOREM OpenFilesAreKept == Spec => []OpenFilesResolve
  <1>1. Base /\ Apart /\ Counted => OpenFilesResolve
    <2> SUFFICES ASSUME Base, Apart, Counted, Regular, NEW h \in DOMAIN files, files[h].descs > 0
                 PROVE  /\ fd_table[files[h].fd] = files[h].hash
                        /\ inode_table[files[h].hash] # None
      BY DEF OpenFilesResolve
    <2>1. Sound
      BY CountedSound, FiniteSetsCount
    <2>2. RefCount(files[h].hash) > 0
      BY <2>1, OpenCounted
    <2> QED
      BY <2>1, <2>2 DEF Sound, FilesOK, RefCount
  <1> QED
    BY <1>1, BaseInvariance, ApartInvariance, CountedInvariance, PTL

\* Kept holds for any threads, names, descriptors and usages.
THEOREM KeptInvariance == Spec => []Kept
  <1>1. Base /\ Apart /\ Counted => (Regular => Sound)
    BY CountedSound, FiniteSetsCount
  <1>2. Apart => (Regular => ViewOK)
    BY DEF Apart, Regular
  <1>3. Base /\ (Regular => Sound) /\ (Regular => ViewOK) /\ (Regular => Sound)' /\ Kept /\ [Next]_vars => Kept'
    BY KeptNext
  <1> QED
    BY <1>1, <1>2, <1>3, KeptInit, BaseInvariance, ApartInvariance, CountedInvariance, PTL DEF Spec

\* If also the middleware does not fail, an acknowledged write stays in the
\* cache until the last close has handed its block to Modify, and the version
\* of a file that was stored once gives it back; of a file that was stored
\* again the handlers promise only that it was handed over (Inode::Write, Unref,
\* FlushCache, release_inode).
THEOREM NoWriteIsLost == Spec => []WritesKept
  <1>1. Kept => WritesKept
    BY DEF Kept, WritesKept
  <1> QED
    BY <1>1, KeptInvariance, PTL

\* In such a usage the handlers implement FileService: a version is made only
\* when nobody has the file open and from all that the cache has, and no write
\* leaves the cache before a version was made from it (Unref, FlushCache).
THEOREM HandlersImplementService == Spec => ServiceRefined
  <1> DEFINE A == Regular /\ ~ mode.fail => Service!Next
  <1>1. Init => (Regular /\ ~ mode.fail => Service!Init)
    BY KeptInit
  <1>2. Base /\ Apart /\ Counted => (Regular => Sound)
    BY CountedSound, FiniteSetsCount
  <1>3. Apart => (Regular => ViewOK)
    BY DEF Apart, Regular
  <1>4. Base /\ (Regular => Sound) /\ (Regular => ViewOK) /\ (Regular => Sound)' /\ Kept /\ [Next]_vars
        => [A]_(Service!vars)
    BY KeptNext
  <1> QED
    BY <1>1, <1>2, <1>3, <1>4, BaseInvariance, ApartInvariance, CountedInvariance, KeptInvariance, PTL
       DEF Spec, ServiceRefined

=============================================================================
