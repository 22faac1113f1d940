---------------------------- MODULE RecordCache ----------------------------
(***************************************************************************)
(* One file of one client: the Inode and its write-back RecordCache, from  *)
(* open to the flush at the last close, and open again.                    *)
(*                                                                         *)
(* Bytes, block boundaries and the lazily loaded block map are kept.  The  *)
(* backend is what StorageBackend and DCFSMidSim make of one file: a list  *)
(* of data blocks in block map order, and a size.  Reads, writes and the   *)
(* flush are sequential here; concurrent flushes are in Middleware.        *)
(***************************************************************************)
EXTENDS Integers, Sequences, FiniteSets

CONSTANTS
  BlockSize,        \* bytes of a block of the cache: --block_size_in_kb
  DefaultBlockSize, \* bytes of a block for the middleware: DEFAULT_BLOCK_SIZE_IN_KB
  BlockMapCover,    \* BLOCKMAP_COVER: entries the cached block map has room for
  MaxSize,          \* bound: largest file offset used
  MaxRequest,       \* bound: bytes of one request
  MaxWrites,        \* bound: writes
  MaxFlushes,       \* bound: flushes that store something
  Overwrites,       \* TRUE: writes may end inside the file in a later block
  NulNames,         \* TRUE: a record name may start with a zero byte
  DataFails,        \* TRUE: reading a data block may fail
  BlockMapFails,    \* TRUE: reading the block map may fail
  FlushFails        \* TRUE: StorageBackend::WriteRecord may fail

ASSUME CacheAssumption ==
  /\ BlockSize \in Nat \ {0} /\ DefaultBlockSize \in Nat \ {0}
  /\ BlockMapCover \in Nat /\ MaxSize \in Nat /\ MaxRequest \in Nat
  /\ MaxWrites \in Nat /\ MaxFlushes \in Nat
  /\ {Overwrites, NulNames, DataFails, BlockMapFails, FlushFails} \subseteq BOOLEAN

VARIABLES
  i_size,           \* Inode::i_size_
  dcache,           \* dcache_stats_ and dcache_blocks_
  bm,               \* bm_: not allocated, all zero, or read from the backend
  stored,           \* backend: the data blocks, in the order of the block map
  isize,            \* backend: the size in the INODE record
  content,          \* the bytes the file should have, as its user wrote them
  result,           \* what the last Read returned
  phase,            \* the Inode is open or closed, or its memory is corrupt
  writes, flushes   \* bounded counters

vars == <<i_size, dcache, bm, stored, isize, content, result, phase, writes, flushes>>

\* Bytes: 0, the bytes users write, the byte behind a user's buffer, and a byte
\* the user never wrote.
Zero == 0
Junk == 4
Any == 5
Byte == {Zero, 1, 2, 3, Junk}

Offsets == 0 .. BlockSize - 1
ZeroBlock == [o \in Offsets |-> Zero]
Blocks == [Offsets -> Byte]
Slots == [cached : BOOLEAN, dirty : BOOLEAN, data : Blocks]
EmptySlot == [cached |-> FALSE, dirty |-> FALSE, data |-> ZeroBlock]

NoResult == [offset |-> 0, size |-> 0, copied |-> <<>>]

TypeOK ==
  /\ i_size \in Nat /\ isize \in Nat
  /\ dcache \in Seq(Slots)
  /\ bm \in {"none", "zero", "loaded"}
  /\ stored \in Seq([nul : BOOLEAN, data : Blocks])
  /\ content \in Seq(Byte \cup {Any})
  /\ result \in [offset : Nat, size : Nat, copied : Seq(Byte)]
  /\ phase \in {"open", "closed", "broken"}
  /\ writes \in 0 .. MaxWrites /\ flushes \in 0 .. MaxFlushes

\* A fresh Inode: RecordCache has one slot.
Init ==
  /\ i_size = 0 /\ isize = 0
  /\ dcache = <<EmptySlot>>
  /\ bm = "none"
  /\ stored = <<>>
  /\ content = <<>>
  /\ result = NoResult
  /\ phase = "open"
  /\ writes = 0 /\ flushes = 0

-----------------------------------------------------------------------------
Min2(a, b) == IF a < b THEN a ELSE b
Max2(a, b) == IF a > b THEN a ELSE b

StartBlock(offset) == offset \div BlockSize
EndBlock(offset, size) == (offset + size) \div BlockSize

\* The last position that the copies of Read and Write touch: a request that
\* leaves its first block copies ed_offset + 1 bytes of its last one.
LastCopied(offset, size) ==
  IF StartBlock(offset) = EndBlock(offset, size) THEN offset + size - 1
  ELSE offset + size

\* bmCheck: whether block b has to be read from the backend, given bm_.  strcmp
\* with zero_str stops at the first zero byte of the entry.
bmCheck(map, b) ==
  /\ map = "loaded"
  /\ b < BlockMapCover
  /\ b < Len(stored)
  /\ ~ stored[b + 1].nul

\* Mutated form: a block without a record is not zeroed.
FillBlockUninitialised(map, b) ==
  IF bmCheck(map, b) THEN stored[b + 1].data ELSE [o \in Offsets |-> Any]

FillBlock(map, b) == IF bmCheck(map, b) THEN stored[b + 1].data ELSE ZeroBlock

\* What fillBmcache may do: read the map once, if the file has one.  When the
\* read fails, or the map is too long for the buffer, bm_ stays zero.
fillBmcache ==
  IF bm # "none" \/ stored = <<>> THEN {[map |-> bm, ok |-> TRUE]}
  ELSE (IF Len(stored) <= BlockMapCover THEN {[map |-> "loaded", ok |-> TRUE]}
                                        ELSE {})
       \cup (IF BlockMapFails \/ Len(stored) > BlockMapCover
             THEN {[map |-> "zero", ok |-> FALSE]} ELSE {})

\* Mutated form: blocks that are cached are filled again.
FilledAlways(map, a, k, l) ==
  [i \in 1 .. Max2(Len(dcache), l + 1) |->
     LET c == IF i <= Len(dcache) THEN dcache[i] ELSE EmptySlot IN
     IF i - 1 \in a .. k - 1
     THEN [c EXCEPT !.cached = TRUE, !.data = FillBlock(map, i - 1)]
     ELSE c]

\* The slots after fillDcache has filled blocks a .. k - 1 and looked at block l.
Filled(map, a, k, l) ==
  [i \in 1 .. Max2(Len(dcache), l + 1) |->
     LET c == IF i <= Len(dcache) THEN dcache[i] ELSE EmptySlot IN
     IF i - 1 \in a .. k - 1 /\ ~ c.cached
     THEN [c EXCEPT !.cached = TRUE, !.data = FillBlock(map, i - 1)]
     ELSE c]

\* What fillDcache may do: fill every block of the request, or stop at the first
\* one whose record cannot be read.
fillDcache(offset, size) ==
  LET st == Min2(StartBlock(offset), Len(dcache))
      ed == EndBlock(offset, size)
      Uncached(b) == b < Len(dcache) => ~ dcache[b + 1].cached
      FailsAt(map) == {b \in st .. ed : DataFails /\ Uncached(b) /\ bmCheck(map, b)}
  IN UNION {
       IF ~ m.ok THEN {[map |-> m.map, slots |-> dcache, ok |-> FALSE]}
       ELSE {[map |-> m.map, slots |-> Filled(m.map, st, ed + 1, ed), ok |-> TRUE]}
            \cup {[map |-> m.map, slots |-> Filled(m.map, st, b, b), ok |-> FALSE] :
                    b \in FailsAt(m.map)}
       : m \in fillBmcache}

ByteAt(slots, p) == slots[(p \div BlockSize) + 1].data[p % BlockSize]

-----------------------------------------------------------------------------
\* Inode::Read and RecordCache::Read of a position inside the file.  What is
\* copied may be one byte longer than the size that is returned.
Read(offset, size) ==
  LET n == Min2(size, i_size - offset) IN
  /\ phase = "open"
  /\ offset < i_size
  /\ \E f \in fillDcache(offset, n) :
       /\ bm' = f.map
       /\ dcache' = f.slots
       /\ result' =
            IF f.ok THEN [offset |-> offset, size |-> n,
                          copied |-> [i \in 1 .. LastCopied(offset, n) - offset + 1 |->
                                        ByteAt(f.slots, offset + i - 1)]]
                    ELSE NoResult
  /\ UNCHANGED <<i_size, stored, isize, content, phase, writes, flushes>>

\* Byte i of a user's buffer, numbered from 0; the copies may reach one further.
Buffer(v, size, i) == IF i < size THEN 1 + ((v + i) % 3) ELSE Junk

\* Mutated form: only the first block of a request becomes dirty.
CopiedFirstDirty(slots, v, offset, size) ==
  [i \in 1 .. Len(slots) |->
     IF i - 1 \in StartBlock(offset) .. EndBlock(offset, size)
     THEN [slots[i] EXCEPT
             !.dirty = @ \/ i - 1 = StartBlock(offset),
             !.data = [o \in Offsets |->
                         LET p == (i - 1) * BlockSize + o IN
                         IF p \in offset .. LastCopied(offset, size)
                         THEN Buffer(v, size, p - offset) ELSE @[o]]]
     ELSE slots[i]]

\* The slots after the copies of RecordCache::Write.
Copied(slots, v, offset, size) ==
  [i \in 1 .. Len(slots) |->
     IF i - 1 \in StartBlock(offset) .. EndBlock(offset, size)
     THEN [slots[i] EXCEPT
             !.dirty = TRUE,
             !.data = [o \in Offsets |->
                         LET p == (i - 1) * BlockSize + o IN
                         IF p \in offset .. LastCopied(offset, size)
                         THEN Buffer(v, size, p - offset) ELSE @[o]]]
     ELSE slots[i]]

\* The file's bytes after a write, as its user means it.
Overwritten(v, offset, size) ==
  [i \in 1 .. Max2(Len(content), offset + size) |->
     IF i - 1 \in offset .. offset + size - 1 THEN Buffer(v, size, i - 1 - offset)
     ELSE content[i]]

\* Inode::Write and RecordCache::Write.  A position behind the end of the file
\* is moved to the end.  The error of fillDcache is noticed only after the
\* copies, which then go to memory that was not set up.
Write(v, position, size) ==
  LET offset == Min2(position, i_size) IN
  /\ phase = "open"
  /\ writes < MaxWrites
  /\ \/ Overwrites
     \/ offset + size >= i_size
     \/ StartBlock(offset) = EndBlock(offset, size)
  /\ \E f \in fillDcache(offset, size) :
       /\ bm' = f.map
       /\ IF f.ok
          THEN /\ dcache' = Copied(f.slots, v, offset, size)
               /\ i_size' = Max2(i_size, offset + size)
               /\ content' = Overwritten(v, offset, size)
               /\ phase' = "open"
          ELSE /\ dcache' = f.slots
               /\ phase' = "broken"
               /\ UNCHANGED <<i_size, content>>
  /\ result' = NoResult
  /\ writes' = writes + 1
  /\ UNCHANGED <<stored, isize, flushes>>

-----------------------------------------------------------------------------
DirtyBlocks == {b \in 0 .. Len(dcache) - 1 : dcache[b + 1].dirty}

\* The blocks of a set in ascending order.
Ascending(B) ==
  CHOOSE order \in [1 .. Cardinality(B) -> B] :
    \A i, j \in DOMAIN order : i < j => order[i] < order[j]

\* Mutated form: the names enter the block map from the last block on.
ModifyReversed ==
  LET order == Ascending(DirtyBlocks)
      n == Len(order) IN
  /\ stored' = stored \o [i \in 1 .. n |->
                            [nul |-> FALSE, data |-> dcache[order[n + 1 - i] + 1].data]]
  /\ isize' = n * DefaultBlockSize

\* What DCFSMidSim::Modify does with the descriptors of a flush: it takes the
\* old size for zero, so that every block is appended to the block map and the
\* new size is that of the blocks of this flush, each taken to have the default
\* size.
Modify ==
  LET order == Ascending(DirtyBlocks) IN
  \E names \in [1 .. Len(order) -> IF NulNames THEN BOOLEAN ELSE {FALSE}] :
    /\ stored' = stored \o [i \in 1 .. Len(order) |->
                              [nul |-> names[i], data |-> dcache[order[i] + 1].data]]
    /\ isize' = Len(order) * DefaultBlockSize

\* The last Unref flushes the cache and dcfs_flush releases the Inode, whatever
\* FlushCache returned.  Without a dirty block nothing is written.
Flush ==
  /\ phase = "open"
  /\ \/ /\ DirtyBlocks # {} /\ flushes < MaxFlushes
        /\ Modify
        /\ flushes' = flushes + 1
     \/ /\ DirtyBlocks = {} \/ FlushFails
        /\ UNCHANGED <<stored, isize, flushes>>
  /\ i_size' = 0 /\ dcache' = <<EmptySlot>> /\ bm' = "none"
  /\ result' = NoResult
  /\ phase' = "closed"
  /\ UNCHANGED <<content, writes>>

\* get_inode makes an Inode of the stored size with nothing cached.  Where the
\* stored size is larger than what the user wrote, any byte will do.
Open ==
  /\ phase = "closed"
  /\ stored # <<>>
  /\ i_size' = isize
  /\ dcache' = [i \in 1 .. isize \div BlockSize + 1 |-> EmptySlot]
  /\ bm' = "none"
  /\ content' = [i \in 1 .. Max2(Len(content), isize) |->
                   IF i <= Len(content) THEN content[i] ELSE Any]
  /\ phase' = "open"
  /\ UNCHANGED <<stored, isize, result, writes, flushes>>

Next ==
  \/ \E offset \in 0 .. MaxSize - 1, size \in 1 .. MaxRequest :
       Read(offset, size)
  \/ \E v \in 0 .. 1, position \in 0 .. MaxSize - 1, size \in 1 .. MaxRequest :
       position + size <= MaxSize /\ Write(v, position, size)
  \/ Flush
  \/ Open

Spec == Init /\ [][Next]_vars

-----------------------------------------------------------------------------
Agrees(byte, meant) == meant = Any \/ byte = meant

\* A Read that reports success returns the bytes that the file should have,
\* through cached, dirty, reloaded and zero-filled blocks and after a Read that
\* failed half way (RecordCache::Read, fillDcache, Write).  Nothing is said of
\* bytes behind the end of what its user wrote, where a file that was opened
\* again has been rounded up to whole blocks.
ReadCorrect ==
  \A i \in 1 .. result.size :
    Agrees(result.copied[i], content[result.offset + i])

\* A file that is closed is stored: every byte its user wrote is in the block
\* that the block map has at its place, and the stored size covers it
\* (FlushCache, Modify).  The size does so only if the blocks of the cache are
\* not larger than the middleware takes them to be.
ClosedIsStored ==
  phase = "closed" =>
    \A p \in 0 .. Len(content) - 1 :
      content[p + 1] # Any =>
        /\ p < isize
        /\ p \div BlockSize < Len(stored)
        /\ stored[(p \div BlockSize) + 1].data[p % BlockSize] = content[p + 1]

\* The first flush of a file hands over blocks 0 .. i_size / block size without
\* a gap, which is what makes appending their names a correct block map.
FirstFlushIsPrefix ==
  phase = "open" /\ stored = <<>> /\ i_size > 0
    => DirtyBlocks = 0 .. i_size \div BlockSize

\* A cached block that is not dirty is the stored one, so that dropping it at
\* the flush loses nothing.
CleanIsStored ==
  \A b \in 0 .. Len(dcache) - 1 :
    dcache[b + 1].cached /\ ~ dcache[b + 1].dirty =>
      dcache[b + 1].data = IF b < Len(stored) THEN stored[b + 1].data ELSE ZeroBlock

=============================================================================
