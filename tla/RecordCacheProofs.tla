-------------------------- MODULE RecordCacheProofs --------------------------
(***************************************************************************)
(* The theorems about RecordCache, for any block size, block map and       *)
(* bounds.                                                                 *)
(***************************************************************************)
EXTENDS RecordCache, FiniteSetTheorems, TLAPS

\* A set of naturals that is not empty has a least element.
LEMMA LeastElement ==
  ASSUME NEW S \in SUBSET Nat, S # {}
  PROVE  \E x \in S : \A y \in S : x <= y
  <1>1. PICK x \in S : \A y \in S : <<y, x>> \notin OpToRel(<, Nat)
    BY NatLessThanWellFounded, WFMin, Zenon
  <1>2. \A y \in S : ~ (y < x)
    BY <1>1, Zenon DEF OpToRel
  <1> QED
    BY <1>2

\* The block of a position and the place in it.
LEMMA Division ==
  ASSUME NEW p \in Nat
  PROVE  /\ p \div BlockSize \in Nat /\ p % BlockSize \in Offsets
         /\ p % BlockSize = p - BlockSize * (p \div BlockSize)
         /\ BlockSize * (p \div BlockSize) <= p
         /\ p < BlockSize * (p \div BlockSize) + BlockSize
  <1>1. p \div BlockSize \in Nat /\ p % BlockSize \in 0 .. BlockSize - 1
    BY CacheAssumption
  <1>2. p % BlockSize = p - BlockSize * (p \div BlockSize)
    BY CacheAssumption
  <1>3. BlockSize * (p \div BlockSize) <= p
    BY CacheAssumption
  <1>4. p < BlockSize * (p \div BlockSize) + BlockSize
    BY CacheAssumption
  <1> QED
    BY <1>1, <1>2, <1>3, <1>4, Zenon DEF Offsets

\* The position of a place in a block.
LEMMA Position ==
  ASSUME NEW b \in Nat, NEW o \in Offsets
  PROVE  /\ b * BlockSize + o \in Nat
         /\ (b * BlockSize + o) \div BlockSize = b /\ (b * BlockSize + o) % BlockSize = o
  BY CacheAssumption DEF Offsets

\* Later positions are in later blocks.
LEMMA BlocksAscend ==
  ASSUME NEW p \in Nat, NEW q \in Nat, p <= q
  PROVE  p \div BlockSize <= q \div BlockSize
  BY CacheAssumption

-----------------------------------------------------------------------------
Increasing(order) == \A i, j \in DOMAIN order : i < j => order[i] < order[j]

\* A set of blocks can be put in ascending order.
LEMMA AscendingExists ==
  ASSUME NEW n \in Nat, NEW B \in SUBSET (0 .. n - 1)
  PROVE  /\ Cardinality(B) \in Nat
         /\ \E order \in [1 .. Cardinality(B) -> B] : Increasing(order)
  <1> DEFINE Sorted(C) == \E order \in [1 .. Cardinality(C) -> C] : Increasing(order)
             S == {m \in Nat : \E C \in SUBSET (0 .. m - 1) : ~ Sorted(C)}
  <1>f. \A m \in Nat : \A C \in SUBSET (0 .. m - 1) : IsFiniteSet(C) /\ Cardinality(C) \in Nat
    <2>1. \A m \in Nat : IsFiniteSet(0 .. m - 1)
      BY FS_Interval
    <2> QED
      BY <2>1, FS_Subset, FS_CardinalityType, Zenon
  <1> HIDE DEF Sorted
  <1>1. ASSUME S # {} PROVE FALSE
    <2>1. PICK m \in S : \A k \in S : m <= k
      BY <1>1, LeastElement, Zenon
    <2>2. PICK C \in SUBSET (0 .. m - 1) : ~ Sorted(C)
      BY <2>1, Zenon
    <2>3. ASSUME NEW k \in Nat, k < m, NEW D \in SUBSET (0 .. k - 1) PROVE Sorted(D)
      <3>1. k \notin S
        BY <2>1, <2>3
      <3> QED
        BY <3>1, Zenon
    <2>4. m \in Nat /\ IsFiniteSet(C) /\ Cardinality(C) \in Nat
      BY <1>f, <2>1, Zenon
    <2> HIDE DEF S
    <2>5. CASE m = 0
      <3>1. C = {}
        BY <2>5
      <3>2. Cardinality(C) = 0
        BY <3>1, FS_EmptySet, Zenon
      <3>3. <<>> \in [1 .. Cardinality(C) -> C] /\ Increasing(<<>>)
        BY <3>2 DEF Increasing
      <3> QED
        BY <2>2, <3>3, Zenon DEF Sorted
    <2>6. CASE m # 0 /\ m - 1 \notin C
      <3>1. C \in SUBSET (0 .. (m - 1) - 1)
        BY <2>4, <2>6
      <3> QED
        BY <2>2, <2>3, <2>4, <2>6, <3>1
    <2>7. CASE m # 0 /\ m - 1 \in C
      <3> DEFINE D == C \ {m - 1}
                 c == Cardinality(C)
      <3>1. D \in SUBSET (0 .. (m - 1) - 1) /\ m - 1 \in Nat
        BY <2>4, <2>7
      <3>2. Sorted(D)
        BY <2>3, <2>4, <3>1
      <3>3. c \in Nat /\ Cardinality(D) = c - 1 /\ Cardinality(D) \in Nat
        BY <1>f, <2>4, <2>7, <3>1, FS_RemoveElement, Zenon
      <3> HIDE DEF c
      <3>4. PICK g \in [1 .. c - 1 -> D] : Increasing(g)
        BY <3>2, <3>3, Zenon DEF Sorted
      <3> DEFINE h == [i \in 1 .. c |-> IF i = c THEN m - 1 ELSE g[i]]
      <3>5. \A i \in 1 .. c - 1 : g[i] \in C /\ g[i] < m - 1 /\ g[i] \in Nat
        <4>1. \A d \in D : d \in C /\ d < m - 1 /\ d \in Nat
          BY <2>4
        <4> HIDE DEF D
        <4> QED
          BY <3>4, <4>1, Zenon
      <3>6. h \in [1 .. c -> C]
        BY <2>7, <3>3, <3>5
      <3>7. Increasing(h)
        BY <3>3, <3>4, <3>5, <2>4 DEF Increasing
      <3> HIDE DEF h
      <3> QED
        BY <2>2, <3>6, <3>7, Zenon DEF c, Sorted
    <2> QED
      BY <2>5, <2>6, <2>7, Zenon
  <1>2. Sorted(B)
    BY <1>1, Zenon
  <1> QED
    BY <1>2, <1>f, Zenon DEF Sorted

\* The order that Modify takes is one.
LEMMA AscendingOrder ==
  ASSUME NEW n \in Nat, NEW B \in SUBSET (0 .. n - 1)
  PROVE  /\ Cardinality(B) \in Nat
         /\ Ascending(B) \in [1 .. Cardinality(B) -> B]
         /\ Increasing(Ascending(B))
         /\ Ascending(B) \in Seq(B) /\ Len(Ascending(B)) = Cardinality(B)
  <1>1. Cardinality(B) \in Nat /\ \E order \in [1 .. Cardinality(B) -> B] : Increasing(order)
    BY AscendingExists, Zenon
  <1>2. Ascending(B) \in [1 .. Cardinality(B) -> B] /\ Increasing(Ascending(B))
    BY <1>1, Zenon DEF Ascending, Increasing
  <1> QED
    BY <1>1, <1>2

\* The ascending order of 0 .. m has no gap.
LEMMA AscendingPrefix ==
  ASSUME NEW m \in Nat
  PROVE  /\ Len(Ascending(0 .. m)) = m + 1
         /\ \A i \in 1 .. m + 1 : Ascending(0 .. m)[i] = i - 1
  <1> DEFINE a == Ascending(0 .. m)
  <1>1. Cardinality(0 .. m) = m + 1
    BY FS_Interval
  <1>2. m + 1 \in Nat /\ 0 .. m \in SUBSET (0 .. (m + 1) - 1)
    OBVIOUS
  <1>3. /\ a \in [1 .. m + 1 -> 0 .. m] /\ Len(a) = m + 1
        /\ \A i, j \in 1 .. m + 1 : i < j => a[i] < a[j]
    BY <1>1, <1>2, AscendingOrder, Zenon DEF Increasing
  <1> HIDE DEF a
  <1>4. \A i \in 1 .. m + 1 : a[i] \in Nat /\ a[i] <= m
    BY <1>3
  <1>5. ASSUME NEW i \in 1 .. m + 1, a[i] < i - 1 PROVE FALSE
    <2> DEFINE S == {k \in 1 .. m + 1 : a[k] < k - 1}
    <2>1. S \in SUBSET Nat /\ S # {}
      BY <1>5
    <2>2. PICK k \in S : \A j \in S : k <= j
      BY <2>1, LeastElement, Zenon
    <2>3. k \in 1 .. m + 1 /\ a[k] < k - 1 /\ k # 1
      BY <2>2, <1>4
    <2>4. k - 1 \in 1 .. m + 1 /\ k - 1 \notin S
      BY <2>2, <2>3
    <2>5. a[k - 1] >= k - 2 /\ a[k - 1] < a[k]
      BY <2>3, <2>4, <1>3, <1>4
    <2> QED
      BY <2>3, <2>4, <2>5, <1>4
  <1>6. ASSUME NEW i \in 1 .. m + 1, a[i] > i - 1 PROVE FALSE
    <2> DEFINE S == {k \in 0 .. m : a[m + 1 - k] > m - k}
    <2>1. S \in SUBSET Nat /\ m + 1 - i \in S
      BY <1>6
    <2>2. PICK k \in S : \A j \in S : k <= j
      BY <2>1, LeastElement, Zenon
    <2>3. k \in 0 .. m /\ a[m + 1 - k] > m - k /\ k # 0
      BY <2>2, <1>4
    <2>4. k - 1 \in 0 .. m /\ k - 1 \notin S
      BY <2>2, <2>3
    <2>5. a[m + 1 - (k - 1)] <= m - (k - 1)
      BY <2>4, <1>4
    <2>6. a[m + 1 - k] < a[m + 1 - (k - 1)]
      BY <2>3, <2>4, <1>3
    <2> QED
      BY <2>3, <2>4, <2>5, <2>6, <1>4
  <1> QED
    BY <1>3, <1>4, <1>5, <1>6 DEF a

-----------------------------------------------------------------------------
\* What TypeOK says of the sequences.
LEMMA Types ==
  ASSUME TypeOK
  PROVE  /\ dcache \in Seq(Slots) /\ Len(dcache) \in Nat /\ DOMAIN dcache = 1 .. Len(dcache)
         /\ \A i \in 1 .. Len(dcache) : dcache[i] \in Slots
         /\ Len(stored) \in Nat /\ \A i \in 1 .. Len(stored) : stored[i].data \in Blocks
         /\ content \in Seq(Byte \cup {Any}) /\ Len(content) \in Nat
         /\ \A i \in 1 .. Len(content) : content[i] \in Byte \cup {Any}
         /\ i_size \in Nat /\ isize \in Nat
  <1>1. dcache \in Seq(Slots) /\ content \in Seq(Byte \cup {Any}) /\ i_size \in Nat /\ isize \in Nat
    BY Zenon DEF TypeOK
  <1> DEFINE Records == [nul : BOOLEAN, data : Blocks]
  <1>2. stored \in Seq(Records) /\ \A r \in Records : r.data \in Blocks
    BY Zenon DEF TypeOK
  <1> HIDE DEF Records
  <1>3. Len(stored) \in Nat /\ \A i \in 1 .. Len(stored) : stored[i].data \in Blocks
    BY <1>2
  <1> QED
    BY <1>1, <1>3

\* A block without a record is zeroed, another one is read.
LEMMA FillBlockType ==
  ASSUME TypeOK, NEW map, NEW b \in Nat
  PROVE  FillBlock(map, b) \in Blocks
  <1>1. ZeroBlock \in Blocks
    BY Zenon DEF ZeroBlock, Blocks, Byte, Zero
  <1>2. bmCheck(map, b) => stored[b + 1].data \in Blocks
    BY Types DEF bmCheck
  <1> QED
    BY <1>1, <1>2, Zenon DEF FillBlock

\* The slots after a fill, field by field.
LEMMA FilledSlots ==
  ASSUME TypeOK, NEW map, NEW a \in Nat, NEW k \in Nat, NEW l \in Nat
  PROVE  LET s == Filled(map, a, k, l)
             Old(i) == IF i <= Len(dcache) THEN dcache[i] ELSE EmptySlot
         IN /\ s \in Seq(Slots) /\ Len(s) = Max2(Len(dcache), l + 1)
            /\ \A i \in 1 .. Len(s) :
                 IF i - 1 \in a .. k - 1 /\ ~ Old(i).cached
                 THEN /\ s[i].cached /\ s[i].dirty = Old(i).dirty
                      /\ s[i].data = FillBlock(map, i - 1)
                 ELSE s[i] = Old(i)
  <1> DEFINE s == Filled(map, a, k, l)
             n == Max2(Len(dcache), l + 1)
             Old(i) == IF i <= Len(dcache) THEN dcache[i] ELSE EmptySlot
             New(i) == [Old(i) EXCEPT !.cached = TRUE, !.data = FillBlock(map, i - 1)]
  <1>1. n \in Nat
    BY Types DEF Max2
  <1>2. ASSUME NEW i \in 1 .. n PROVE Old(i) \in Slots
    <2>1. EmptySlot \in Slots
      BY Zenon DEF EmptySlot, Slots, ZeroBlock, Blocks, Byte, Zero
    <2>2. i <= Len(dcache) => dcache[i] \in Slots
      BY <1>1, Types
    <2> QED
      BY <2>1, <2>2, Zenon
  <1>3. s = [i \in 1 .. n |-> IF i - 1 \in a .. k - 1 /\ ~ Old(i).cached THEN New(i) ELSE Old(i)]
    BY Zenon DEF Filled
  <1> HIDE DEF s, n, Old
  <1>4. ASSUME NEW i \in 1 .. n
        PROVE  /\ New(i) \in Slots /\ New(i).cached /\ New(i).dirty = Old(i).dirty
               /\ New(i).data = FillBlock(map, i - 1)
    <2>1. FillBlock(map, i - 1) \in Blocks
      BY <1>1, FillBlockType
    <2> QED
      BY <1>2, <2>1, Zenon DEF Slots
  <1> HIDE DEF New
  <1>5. s \in Seq(Slots) /\ Len(s) = n
    BY <1>1, <1>2, <1>3, <1>4
  <1>6. \A i \in 1 .. n : s[i] = IF i - 1 \in a .. k - 1 /\ ~ Old(i).cached THEN New(i) ELSE Old(i)
    BY <1>3, Zenon
  <1>7. \A i \in 1 .. n :
          IF i - 1 \in a .. k - 1 /\ ~ Old(i).cached
          THEN /\ s[i].cached /\ s[i].dirty = Old(i).dirty
               /\ s[i].data = FillBlock(map, i - 1)
          ELSE s[i] = Old(i)
    BY <1>4, <1>6, Zenon
  <1> QED
    BY <1>5, <1>7, Zenon DEF s, n, Old

\* The same without the fields.
LEMMA FilledType ==
  ASSUME TypeOK, NEW map, NEW a \in Nat, NEW k \in Nat, NEW l \in Nat
  PROVE  /\ Filled(map, a, k, l) \in Seq(Slots)
         /\ Len(Filled(map, a, k, l)) = Max2(Len(dcache), l + 1)
  BY FilledSlots, Zenon

\* What fillDcache does: it gives up for want of a block map, or fills the
\* blocks from the first of the request to the last one or to one that cannot
\* be read.
LEMMA FillShape ==
  ASSUME TypeOK, NEW offset \in Nat, NEW size \in Nat, NEW f \in fillDcache(offset, size)
  PROVE  LET st == Min2(StartBlock(offset), Len(dcache))
             ed == EndBlock(offset, size)
         IN /\ st \in Nat /\ ed \in Nat
            /\ \E m \in fillBmcache :
                 /\ f.map = m.map
                 /\ \/ ~ m.ok /\ ~ f.ok /\ f.slots = dcache
                    \/ m.ok /\ f.ok /\ f.slots = Filled(m.map, st, ed + 1, ed)
                    \/ /\ m.ok /\ ~ f.ok
                       /\ \E b \in st .. ed : f.slots = Filled(m.map, st, b, b)
  <1> DEFINE st == Min2(StartBlock(offset), Len(dcache))
             ed == EndBlock(offset, size)
             Uncached(b) == b < Len(dcache) => ~ dcache[b + 1].cached
             FailsAt(map) == {b \in st .. ed : DataFails /\ Uncached(b) /\ bmCheck(map, b)}
             Fills(m) ==
               IF ~ m.ok THEN {[map |-> m.map, slots |-> dcache, ok |-> FALSE]}
               ELSE {[map |-> m.map, slots |-> Filled(m.map, st, ed + 1, ed), ok |-> TRUE]}
                    \cup {[map |-> m.map, slots |-> Filled(m.map, st, b, b), ok |-> FALSE] :
                            b \in FailsAt(m.map)}
  <1>1. st \in Nat /\ ed \in Nat
    <2>1. offset + size \in Nat /\ Len(dcache) \in Nat
      BY Types
    <2>2. offset \div BlockSize \in Nat /\ (offset + size) \div BlockSize \in Nat
      BY <2>1, Division, Zenon
    <2> QED
      BY <2>1, <2>2, Zenon DEF StartBlock, EndBlock, Min2
  <1>2. f \in UNION {Fills(m) : m \in fillBmcache}
    BY Zenon DEF fillDcache
  <1> HIDE DEF st, ed, Uncached
  <1>3. PICK m \in fillBmcache : f \in Fills(m)
    <2> HIDE DEF Fills
    <2> QED
      BY <1>2, Zenon
  <1>4. \/ ~ m.ok /\ f = [map |-> m.map, slots |-> dcache, ok |-> FALSE]
        \/ m.ok /\ f = [map |-> m.map, slots |-> Filled(m.map, st, ed + 1, ed), ok |-> TRUE]
        \/ /\ m.ok
           /\ \E b \in st .. ed : f = [map |-> m.map, slots |-> Filled(m.map, st, b, b), ok |-> FALSE]
    BY <1>3, Zenon
  <1>5. /\ f.map = m.map
        /\ \/ ~ m.ok /\ ~ f.ok /\ f.slots = dcache
           \/ m.ok /\ f.ok /\ f.slots = Filled(m.map, st, ed + 1, ed)
           \/ /\ m.ok /\ ~ f.ok
              /\ \E b \in st .. ed : f.slots = Filled(m.map, st, b, b)
    BY <1>4
  <1> QED
    BY <1>1, <1>5, Zenon DEF st, ed

\* Whatever fillDcache does, the cache has slots of the right type, and one for
\* every block of a request that was filled.
LEMMA FillType ==
  ASSUME TypeOK, NEW offset \in Nat, NEW size \in Nat, NEW f \in fillDcache(offset, size)
  PROVE  /\ f.map \in {"none", "zero", "loaded"}
         /\ f.slots \in Seq(Slots) /\ Len(dcache) <= Len(f.slots)
         /\ f.ok => EndBlock(offset, size) < Len(f.slots)
  <1> DEFINE st == Min2(StartBlock(offset), Len(dcache))
             ed == EndBlock(offset, size)
  <1>1. st \in Nat /\ ed \in Nat /\ Len(dcache) \in Nat /\ dcache \in Seq(Slots)
    BY FillShape, Types, Zenon
  <1>2. PICK m \in fillBmcache :
          /\ f.map = m.map
          /\ \/ ~ m.ok /\ ~ f.ok /\ f.slots = dcache
             \/ m.ok /\ f.ok /\ f.slots = Filled(m.map, st, ed + 1, ed)
             \/ /\ m.ok /\ ~ f.ok
                /\ \E b \in st .. ed : f.slots = Filled(m.map, st, b, b)
    BY FillShape
  <1>3. m.map \in {"none", "zero", "loaded"}
    BY <1>2 DEF fillBmcache, TypeOK
  <1> HIDE DEF st, ed
  <1>4. ASSUME NEW k \in Nat, NEW l \in Nat, f.slots = Filled(m.map, st, k, l)
        PROVE  f.slots \in Seq(Slots) /\ Len(dcache) <= Len(f.slots) /\ l < Len(f.slots)
    <2>1. f.slots \in Seq(Slots) /\ Len(f.slots) = Max2(Len(dcache), l + 1)
      BY <1>1, <1>4, FilledType
    <2> QED
      BY <1>1, <2>1 DEF Max2
  <1>5. CASE f.slots = dcache /\ ~ f.ok
    BY <1>1, <1>2, <1>3, <1>5
  <1>6. CASE f.slots = Filled(m.map, st, ed + 1, ed)
    BY <1>1, <1>2, <1>3, <1>4, <1>6 DEF ed
  <1>7. CASE ~ f.ok /\ \E b \in st .. ed : f.slots = Filled(m.map, st, b, b)
    <2>1. PICK b \in st .. ed : f.slots = Filled(m.map, st, b, b)
      BY <1>7, Zenon
    <2>2. b \in Nat
      BY <1>1
    <2> QED
      BY <1>2, <1>3, <1>4, <1>7, <2>1, <2>2, Zenon
  <1> QED
    BY <1>2, <1>5, <1>6, <1>7, Zenon

\* The bytes of a user's buffer, and the one behind it, are bytes.
LEMMA BufferType ==
  ASSUME NEW v \in Nat, NEW size \in Nat, NEW i \in Nat
  PROVE  Buffer(v, size, i) \in Byte
  <1>1. (v + i) % 3 \in 0 .. 2
    OBVIOUS
  <1> QED
    BY <1>1 DEF Buffer, Byte, Junk, Zero

\* The slots s after the copies of Write, field by field.
CopyOf(s, slots, v, offset, size) ==
  /\ s \in Seq(Slots) /\ Len(s) = Len(slots)
  /\ \A i \in 1 .. Len(slots) :
       IF i - 1 \in StartBlock(offset) .. EndBlock(offset, size)
       THEN /\ s[i].dirty /\ s[i].cached = slots[i].cached
            /\ \A o \in Offsets :
                 s[i].data[o] = IF (i - 1) * BlockSize + o \in offset .. LastCopied(offset, size)
                                THEN Buffer(v, size, ((i - 1) * BlockSize + o) - offset)
                                ELSE slots[i].data[o]
       ELSE s[i] = slots[i]

\* Copied makes such a copy.
LEMMA CopiedSlots ==
  ASSUME NEW slots \in Seq(Slots), NEW v \in Nat, NEW offset \in Nat, NEW size \in Nat,
         NEW s, s = Copied(slots, v, offset, size)
  PROVE  CopyOf(s, slots, v, offset, size)
  <1> DEFINE In(i) == i - 1 \in StartBlock(offset) .. EndBlock(offset, size)
             Pos(i, o) == (i - 1) * BlockSize + o
             Bytes(i) == [o \in Offsets |-> IF Pos(i, o) \in offset .. LastCopied(offset, size)
                                            THEN Buffer(v, size, Pos(i, o) - offset)
                                            ELSE slots[i].data[o]]
             New(i) == [slots[i] EXCEPT !.dirty = TRUE, !.data = Bytes(i)]
  <1>1. s = [i \in 1 .. Len(slots) |-> IF In(i) THEN New(i) ELSE slots[i]]
    BY Zenon DEF Copied
  <1>2. \A i \in 1 .. Len(slots) : slots[i] \in Slots /\ Len(slots) \in Nat
    OBVIOUS
  <1>3. ASSUME NEW i \in 1 .. Len(slots) PROVE Bytes(i) \in Blocks
    <2>1. ASSUME NEW o \in Offsets, Pos(i, o) \in offset .. LastCopied(offset, size)
          PROVE  Buffer(v, size, Pos(i, o) - offset) \in Byte
      <3>1. Pos(i, o) - offset \in Nat
        <4>1. Pos(i, o) \in Int
          BY CacheAssumption DEF Offsets
        <4> HIDE DEF Pos
        <4> QED
          BY <2>1, <4>1
      <3> QED
        BY <3>1, BufferType, Zenon
    <2>2. \A o \in Offsets : slots[i].data[o] \in Byte
      BY <1>2, Zenon DEF Slots, Blocks
    <2> HIDE DEF Pos
    <2> QED
      BY <2>1, <2>2, Zenon DEF Blocks
  <1> HIDE DEF In
  <1>4. ASSUME NEW i \in 1 .. Len(slots)
        PROVE  /\ New(i) \in Slots /\ New(i).dirty /\ New(i).cached = slots[i].cached
               /\ New(i).data = Bytes(i)
    <2> HIDE DEF Bytes
    <2> QED
      BY <1>2, <1>3, Zenon DEF Slots
  <1> HIDE DEF New
  <1>5. s \in Seq(Slots) /\ Len(s) = Len(slots)
    <2>1. \A i \in 1 .. Len(slots) : (IF In(i) THEN New(i) ELSE slots[i]) \in Slots
      BY <1>2, <1>4, Zenon
    <2>2. s \in [1 .. Len(slots) -> Slots]
      BY <1>1, <2>1, Zenon
    <2> QED
      BY <2>2
  <1>6. \A i \in 1 .. Len(slots) : s[i] = IF In(i) THEN New(i) ELSE slots[i]
    BY <1>1, Zenon
  <1>7. \A i \in 1 .. Len(slots), o \in Offsets :
          Bytes(i)[o] = IF Pos(i, o) \in offset .. LastCopied(offset, size)
                        THEN Buffer(v, size, Pos(i, o) - offset)
                        ELSE slots[i].data[o]
    BY Zenon
  <1> HIDE DEF Bytes, Pos
  <1>8. \A i \in 1 .. Len(slots) :
          IF In(i)
          THEN /\ s[i].dirty /\ s[i].cached = slots[i].cached
               /\ \A o \in Offsets :
                    s[i].data[o] = IF Pos(i, o) \in offset .. LastCopied(offset, size)
                                   THEN Buffer(v, size, Pos(i, o) - offset)
                                   ELSE slots[i].data[o]
          ELSE s[i] = slots[i]
    BY <1>4, <1>6, <1>7
  <1> QED
    BY <1>5, <1>8, Zenon DEF In, Pos, CopyOf

\* A byte that is read is a byte.
LEMMA ByteAtType ==
  ASSUME NEW slots \in Seq(Slots), NEW p \in Nat, p \div BlockSize < Len(slots)
  PROVE  ByteAt(slots, p) \in Byte
  <1>1. p \div BlockSize \in Nat /\ p % BlockSize \in Offsets
    BY Division, Zenon
  <1>2. slots[(p \div BlockSize) + 1] \in Slots
    BY <1>1
  <1> QED
    BY <1>1, <1>2, Zenon DEF ByteAt, Slots, Blocks

-----------------------------------------------------------------------------
\* TypeOK is inductive with one fact: the user's file is as long as the
\* Inode's, so that a write has no gap to its left.
TypeInv == TypeOK /\ i_size <= Len(content)

\* A copy ends with the last byte of its request or with the one behind it.
LEMMA LastCopiedEnds ==
  ASSUME NEW offset \in Nat, NEW n \in Nat
  PROVE  LET k == LastCopied(offset, n) - offset + 1
         IN k \in Nat /\ n <= k /\ k <= n + 1
  BY DEF LastCopied

\* A read keeps the types.
LEMMA TypeRead ==
  ASSUME TypeInv, NEW offset \in Nat, NEW size \in Nat, Read(offset, size)
  PROVE  TypeInv'
  <1> DEFINE n == Min2(size, i_size - offset)
             k == LastCopied(offset, n) - offset + 1
  <1>t. TypeOK /\ i_size \in Nat
    BY Types, Zenon DEF TypeInv
  <1>1. n \in Nat
    BY <1>t DEF Read, Min2
  <1>k. k \in Nat /\ k <= n + 1
    BY <1>1, LastCopiedEnds
  <1>2. PICK f \in fillDcache(offset, n) :
          /\ bm' = f.map /\ dcache' = f.slots
          /\ result' = IF f.ok THEN [offset |-> offset, size |-> n,
                                     copied |-> [i \in 1 .. k |-> ByteAt(f.slots, offset + i - 1)]]
                               ELSE NoResult
    BY Zenon DEF Read
  <1>u. UNCHANGED <<i_size, stored, isize, content, phase, writes, flushes>>
    BY Zenon DEF Read
  <1> HIDE DEF n, k
  <1>3. /\ f.map \in {"none", "zero", "loaded"} /\ f.slots \in Seq(Slots)
        /\ f.ok => EndBlock(offset, n) < Len(f.slots)
    BY <1>t, <1>1, FillType, Zenon
  <1>4. result' \in [offset : Nat, size : Nat, copied : Seq(Byte)]
    <2>1. NoResult \in [offset : Nat, size : Nat, copied : Seq(Byte)]
      BY DEF NoResult
    <2>2. ASSUME f.ok PROVE [i \in 1 .. k |-> ByteAt(f.slots, offset + i - 1)] \in Seq(Byte)
      <3>1. ASSUME NEW i \in 1 .. k PROVE ByteAt(f.slots, offset + i - 1) \in Byte
        <4>1. offset + i - 1 \in Nat /\ offset + n \in Nat /\ offset + i - 1 <= offset + n
          BY <1>1, <1>k
        <4>2. (offset + i - 1) \div BlockSize <= (offset + n) \div BlockSize
          BY <4>1, BlocksAscend, Zenon
        <4>3. (offset + i - 1) \div BlockSize < Len(f.slots)
          <5>1. (offset + i - 1) \div BlockSize \in Nat /\ (offset + n) \div BlockSize \in Nat
            BY <4>1, Division, Zenon
          <5>2. Len(f.slots) \in Nat
            BY <1>3
          <5> QED
            BY <1>3, <2>2, <4>2, <5>1, <5>2 DEF EndBlock
        <4> QED
          BY <1>3, <4>1, <4>3, ByteAtType, Zenon
      <3> QED
        BY <1>k, <3>1
    <2> QED
      BY <1>1, <1>2, <2>1, <2>2, Zenon
  <1> QED
    BY <1>2, <1>3, <1>4, <1>u, Zenon DEF TypeInv, TypeOK

\* A write keeps the types.
LEMMA TypeWrite ==
  ASSUME TypeInv, NEW v \in Nat, NEW position \in Nat, NEW size \in Nat, Write(v, position, size)
  PROVE  TypeInv'
  <1> DEFINE offset == Min2(position, i_size)
  <1>t. /\ TypeOK /\ i_size \in Nat /\ Len(content) \in Nat /\ i_size <= Len(content)
        /\ \A i \in 1 .. Len(content) : content[i] \in Byte \cup {Any}
    BY Types, Zenon DEF TypeInv
  <1>1. offset \in Nat /\ offset <= i_size
    BY <1>t DEF Min2
  <1>2. PICK f \in fillDcache(offset, size) :
          /\ bm' = f.map
          /\ IF f.ok
             THEN /\ dcache' = Copied(f.slots, v, offset, size)
                  /\ i_size' = Max2(i_size, offset + size)
                  /\ content' = Overwritten(v, offset, size)
                  /\ phase' = "open"
             ELSE /\ dcache' = f.slots
                  /\ phase' = "broken"
                  /\ UNCHANGED <<i_size, content>>
    BY Zenon DEF Write
  <1>u. /\ result' = NoResult /\ writes < MaxWrites /\ writes' = writes + 1
        /\ UNCHANGED <<stored, isize, flushes>>
    BY Zenon DEF Write
  <1> HIDE DEF offset
  <1>3. f.map \in {"none", "zero", "loaded"} /\ f.slots \in Seq(Slots)
    BY <1>t, <1>1, FillType, Zenon
  <1>4. /\ NoResult \in [offset : Nat, size : Nat, copied : Seq(Byte)] /\ writes + 1 \in 0 .. MaxWrites
        /\ stored \in Seq([nul : BOOLEAN, data : Blocks]) /\ isize \in Nat /\ flushes \in 0 .. MaxFlushes
    BY <1>t, <1>u, CacheAssumption DEF NoResult, TypeOK
  <1>5. CASE ~ f.ok
    BY <1>t, <1>2, <1>3, <1>4, <1>5, <1>u, Zenon DEF TypeInv, TypeOK
  <1>6. CASE f.ok
    <2>1. dcache' \in Seq(Slots)
      <3> DEFINE s == Copied(f.slots, v, offset, size)
      <3>1. CopyOf(s, f.slots, v, offset, size) /\ dcache' = s
        BY <1>1, <1>2, <1>3, <1>6, CopiedSlots, Zenon
      <3> HIDE DEF s
      <3> QED
        BY <3>1, Zenon DEF CopyOf
    <2> DEFINE n == Max2(Len(content), offset + size)
    <2>2. n \in Nat /\ Max2(i_size, offset + size) \in Nat /\ Max2(i_size, offset + size) <= n
      BY <1>t, <1>1 DEF Max2
    <2>3. content' \in Seq(Byte \cup {Any}) /\ Len(content') = n
      <3> DEFINE New(i) == IF i - 1 \in offset .. offset + size - 1 THEN Buffer(v, size, i - 1 - offset)
                           ELSE content[i]
      <3>1. content' = [i \in 1 .. n |-> New(i)]
        BY <1>2, <1>6, Zenon DEF Overwritten
      <3>2. ASSUME NEW i \in 1 .. n PROVE New(i) \in Byte \cup {Any}
        <4>1. CASE i - 1 \in offset .. offset + size - 1
          <5>1. i - 1 - offset \in Nat
            BY <1>1, <4>1
          <5> QED
            BY <4>1, <5>1, BufferType, Zenon
        <4>2. CASE i - 1 \notin offset .. offset + size - 1
          <5>1. i \in 1 .. Len(content)
            BY <1>t, <1>1, <4>2 DEF Max2
          <5> QED
            BY <1>t, <4>2, <5>1, Zenon
        <4> QED
          BY <4>1, <4>2, Zenon
      <3> HIDE DEF New, n
      <3>3. content' \in [1 .. n -> Byte \cup {Any}]
        BY <3>1, <3>2, Zenon
      <3> QED
        BY <2>2, <3>3
    <2> HIDE DEF n
    <2> QED
      BY <1>2, <1>3, <1>4, <1>6, <1>u, <2>1, <2>2, <2>3, Zenon DEF TypeInv, TypeOK
  <1> QED
    BY <1>5, <1>6, Zenon

\* Modify appends a record for every dirty block.
LEMMA ModifyShape ==
  ASSUME TypeOK, Modify
  PROVE  LET order == Ascending(DirtyBlocks)
             n == Len(order)
         IN /\ n \in Nat
            /\ \A i \in 1 .. n : order[i] \in DirtyBlocks /\ dcache[order[i] + 1] \in Slots
            /\ isize' = n * DefaultBlockSize /\ isize' \in Nat
            /\ \E names \in [1 .. n -> BOOLEAN] :
                 LET records == [i \in 1 .. n |-> [nul |-> names[i], data |-> dcache[order[i] + 1].data]]
                 IN /\ records \in Seq([nul : BOOLEAN, data : Blocks]) /\ Len(records) = n
                    /\ stored' = stored \o records
                    /\ ~ NulNames => \A i \in 1 .. n : ~ names[i]
  <1> DEFINE order == Ascending(DirtyBlocks)
             n == Len(order)
             Record(names, i) == [nul |-> names[i], data |-> dcache[order[i] + 1].data]
  <1>t. Len(dcache) \in Nat /\ \A i \in 1 .. Len(dcache) : dcache[i] \in Slots
    BY Types, Zenon
  <1>1. DirtyBlocks \in SUBSET (0 .. Len(dcache) - 1)
    BY Zenon DEF DirtyBlocks
  <1>2. n \in Nat /\ order \in Seq(DirtyBlocks)
    BY <1>t, <1>1, AscendingOrder, Zenon
  <1>3. PICK names \in [1 .. n -> IF NulNames THEN BOOLEAN ELSE {FALSE}] :
          /\ stored' = stored \o [i \in 1 .. n |-> Record(names, i)]
          /\ isize' = n * DefaultBlockSize
    BY Zenon DEF Modify
  <1> HIDE DEF order, n
  <1>4. \A i \in 1 .. n : order[i] \in DirtyBlocks
    BY <1>2 DEF n
  <1>5. \A i \in 1 .. n : dcache[order[i] + 1] \in Slots
    <2>1. \A b \in DirtyBlocks : b + 1 \in 1 .. Len(dcache)
      BY <1>t, <1>1
    <2> QED
      BY <1>t, <1>4, <2>1, Zenon
  <1>6. /\ names \in [1 .. n -> BOOLEAN]
        /\ ~ NulNames => \A i \in 1 .. n : ~ names[i]
    BY <1>3, Zenon
  <1>7. \A i \in 1 .. n : Record(names, i) \in [nul : BOOLEAN, data : Blocks]
    BY <1>5, <1>6, Zenon DEF Slots
  <1> HIDE DEF Record
  <1>8. [i \in 1 .. n |-> Record(names, i)] \in Seq([nul : BOOLEAN, data : Blocks])
    <2> DEFINE R == [nul : BOOLEAN, data : Blocks]
    <2>1. \A i \in 1 .. n : Record(names, i) \in R
      BY <1>7, Zenon
    <2> HIDE DEF R
    <2>2. [i \in 1 .. n |-> Record(names, i)] \in Seq(R)
      BY <1>2, <2>1
    <2> QED
      BY <2>2, Zenon DEF R
  <1>9. Len([i \in 1 .. n |-> Record(names, i)]) = n
    BY <1>2
  <1>10. n * DefaultBlockSize \in Nat
    BY <1>2, CacheAssumption
  <1> QED
    BY <1>2, <1>3, <1>4, <1>5, <1>6, <1>8, <1>9, <1>10, Zenon DEF order, n, Record

\* The flush at the last close keeps the types.
LEMMA TypeFlush ==
  ASSUME TypeInv, Flush
  PROVE  TypeInv'
  <1>t. TypeOK /\ Len(content) \in Nat
    BY Types, Zenon DEF TypeInv
  <1>1. /\ i_size' = 0 /\ dcache' = <<EmptySlot>> /\ bm' = "none" /\ result' = NoResult
        /\ phase' = "closed" /\ UNCHANGED <<content, writes>>
    BY Zenon DEF Flush
  <1>2. stored' \in Seq([nul : BOOLEAN, data : Blocks]) /\ isize' \in Nat /\ flushes' \in 0 .. MaxFlushes
    <2>1. CASE Modify /\ flushes < MaxFlushes /\ flushes' = flushes + 1
      <3> DEFINE R == [nul : BOOLEAN, data : Blocks]
      <3>1. isize' \in Nat /\ \E records \in Seq(R) : stored' = stored \o records
        BY <1>t, <2>1, ModifyShape, Zenon
      <3>2. stored \in Seq(R)
        BY <1>t, Zenon DEF TypeOK
      <3> HIDE DEF R
      <3>3. stored' \in Seq(R)
        BY <3>1, <3>2
      <3>4. flushes + 1 \in 0 .. MaxFlushes
        BY <1>t, <2>1, CacheAssumption DEF TypeOK
      <3> QED
        BY <2>1, <3>1, <3>3, <3>4, Zenon DEF R
    <2>2. CASE UNCHANGED <<stored, isize, flushes>>
      BY <1>t, <2>2, Zenon DEF TypeOK
    <2> QED
      BY <2>1, <2>2, Zenon DEF Flush
  <1>3. EmptySlot \in Slots
    BY Zenon DEF EmptySlot, Slots, ZeroBlock, Blocks, Byte, Zero
  <1>4. <<EmptySlot>> \in Seq(Slots)
    BY <1>3
  <1>5. NoResult \in [offset : Nat, size : Nat, copied : Seq(Byte)]
    BY DEF NoResult
  <1> QED
    BY <1>t, <1>1, <1>2, <1>4, <1>5 DEF TypeInv, TypeOK

\* So does opening the file again.
LEMMA TypeOpen ==
  ASSUME TypeInv, Open
  PROVE  TypeInv' /\ Len(content') = Max2(Len(content), isize) /\ Len(dcache') = isize \div BlockSize + 1
  <1>t. /\ TypeOK /\ isize \in Nat /\ Len(content) \in Nat
        /\ \A i \in 1 .. Len(content) : content[i] \in Byte \cup {Any}
    BY Types, Zenon DEF TypeInv
  <1> DEFINE n == Max2(Len(content), isize)
             k == isize \div BlockSize + 1
  <1>1. n \in Nat /\ isize <= n /\ k \in Nat
    <2>1. isize \div BlockSize \in Nat
      BY <1>t, Division, Zenon
    <2> QED
      BY <1>t, <2>1 DEF Max2
  <1>2. /\ i_size' = isize /\ dcache' = [i \in 1 .. k |-> EmptySlot] /\ bm' = "none" /\ phase' = "open"
        /\ content' = [i \in 1 .. n |-> IF i <= Len(content) THEN content[i] ELSE Any]
        /\ UNCHANGED <<stored, isize, result, writes, flushes>>
    BY Zenon DEF Open
  <1> HIDE DEF n, k
  <1>3. EmptySlot \in Slots
    BY Zenon DEF EmptySlot, Slots, ZeroBlock, Blocks, Byte, Zero
  <1>4. dcache' \in Seq(Slots) /\ Len(dcache') = k
    BY <1>1, <1>2, <1>3
  <1>5. content' \in Seq(Byte \cup {Any}) /\ Len(content') = n
    <2> DEFINE S == Byte \cup {Any}
    <2>1. \A i \in 1 .. n : (IF i <= Len(content) THEN content[i] ELSE Any) \in S
      BY <1>t, <1>1
    <2> HIDE DEF S
    <2>2. content' \in [1 .. n -> S]
      BY <1>2, <2>1, Zenon
    <2> QED
      BY <1>1, <2>2 DEF S
  <1> QED
    BY <1>t, <1>1, <1>2, <1>4, <1>5, Zenon DEF TypeInv, TypeOK, n, k

\* The types are right at first and stay so.
LEMMA TypeInvariance == Spec => []TypeInv
  <1>1. Init => TypeInv
    <2> SUFFICES ASSUME Init PROVE TypeInv
      OBVIOUS
    <2>1. EmptySlot \in Slots
      BY Zenon DEF EmptySlot, Slots, ZeroBlock, Blocks, Byte, Zero
    <2>2. dcache \in Seq(Slots)
      BY <2>1 DEF Init
    <2>3. result \in [offset : Nat, size : Nat, copied : Seq(Byte)]
      BY DEF Init, NoResult
    <2> QED
      BY <2>2, <2>3, CacheAssumption DEF Init, TypeInv, TypeOK
  <1>2. TypeInv /\ [Next]_vars => TypeInv'
    <2> SUFFICES ASSUME TypeInv, [Next]_vars PROVE TypeInv'
      OBVIOUS
    <2>1. CASE UNCHANGED vars
      BY <2>1, Zenon DEF vars, TypeInv, TypeOK
    <2>2. ASSUME NEW offset \in 0 .. MaxSize - 1, NEW size \in 1 .. MaxRequest, Read(offset, size)
          PROVE  TypeInv'
      BY <2>2, TypeRead, CacheAssumption
    <2>3. ASSUME NEW v \in 0 .. 1, NEW position \in 0 .. MaxSize - 1, NEW size \in 1 .. MaxRequest,
                 Write(v, position, size)
          PROVE  TypeInv'
      BY <2>3, TypeWrite, CacheAssumption
    <2> QED
      BY <2>1, <2>2, <2>3, TypeFlush, TypeOpen, Zenon DEF Next
  <1> QED
    BY <1>1, <1>2, PTL DEF Spec

\* The state keeps its types whatever the users and the backend do: no request
\* reaches behind the slots that were filled for it, and Modify puts a record
\* in the block map for every dirty block (fillDcache, Read, Write, Modify).
THEOREM TypeCorrect == Spec => []TypeOK
  BY TypeInvariance, PTL DEF TypeInv

-----------------------------------------------------------------------------
\* The usage in which the cache is right: a request ends in its first block or
\* at the end of the file, the whole file has room in the cached block map, a
\* name does not start with a zero byte, the block map can be read, WriteRecord
\* does not fail, the file is stored once, and its blocks are not larger than
\* the middleware takes them to be.  Data blocks may be unreadable.
Scope ==
  /\ BlockSize <= DefaultBlockSize
  /\ ~ Overwrites /\ ~ NulNames /\ ~ BlockMapFails /\ ~ FlushFails
  /\ MaxFlushes <= 1
  /\ MaxSize \div BlockSize < BlockMapCover

\* The stored block of a file, or what fillDcache takes for one.
StoredBlock(b) == IF b < Len(stored) THEN stored[b + 1].data ELSE ZeroBlock

\* The stored size is that of as many blocks of the default size as are stored,
\* and the block map has room for them.
BackendOK ==
  /\ isize = Len(stored) * DefaultBlockSize
  /\ Len(stored) <= BlockMapCover
  /\ flushes = 0 => stored = <<>>
  /\ \A i \in 1 .. Len(stored) : ~ stored[i].nul

\* The cached block map is the stored one.
MapOK(map) == map # "zero" /\ (stored = <<>> => map = "none")

\* A dirty block is cached, and a clean one is the stored one.
SlotsOK(slots) ==
  \A i \in 1 .. Len(slots) :
    /\ slots[i].dirty => slots[i].cached
    /\ slots[i].cached /\ ~ slots[i].dirty => slots[i].data = StoredBlock(i - 1)

\* The byte at p is in a stored block, if the user wrote it.
Lasting(p) ==
  content[p + 1] # Any =>
    /\ p \div BlockSize < Len(stored)
    /\ stored[(p \div BlockSize) + 1].data[p % BlockSize] = content[p + 1]

\* The byte at p is in a dirty block or in a stored one.
Held(p) ==
  LET b == p \div BlockSize IN
  IF dcache[b + 1].dirty
  THEN Agrees(dcache[b + 1].data[p % BlockSize], content[p + 1])
  ELSE Lasting(p)

\* An open file is in the cache and the backend; before the first flush all its
\* blocks are dirty, and no others.
OpenOK ==
  phase = "open" =>
    /\ i_size = Len(content)
    /\ i_size \div BlockSize < Len(dcache)
    /\ \A p \in 0 .. i_size - 1 : Held(p)
    /\ DirtyBlocks = {} => i_size <= isize
    /\ stored = <<>> =>
         /\ i_size <= MaxSize
         /\ DirtyBlocks = IF i_size = 0 THEN {} ELSE 0 .. i_size \div BlockSize

\* A closed file is in the backend.
ClosedOK ==
  phase = "closed" =>
    isize >= Len(content) /\ \A p \in 0 .. Len(content) - 1 : Lasting(p)

CacheInv ==
  /\ BackendOK /\ MapOK(bm) /\ SlotsOK(dcache)
  /\ OpenOK /\ ClosedOK /\ ReadCorrect
  /\ phase # "open" => result = NoResult

\* In this usage a block is filled with what is stored.
LEMMA FillsStored ==
  ASSUME Scope, TypeOK, BackendOK, MapOK(bm), NEW m \in fillBmcache
  PROVE  m.ok /\ MapOK(m.map) /\ \A b \in Nat : FillBlock(m.map, b) = StoredBlock(b)
  <1>t. Len(stored) \in Nat /\ (stored = <<>> <=> Len(stored) = 0) /\ BlockMapCover \in Nat
    <2> DEFINE R == [nul : BOOLEAN, data : Blocks]
    <2>1. stored \in Seq(R)
      BY Zenon DEF TypeOK
    <2> HIDE DEF R
    <2> QED
      BY <2>1, CacheAssumption
  <1>1. Len(stored) <= BlockMapCover /\ ~ BlockMapFails
    BY Zenon DEF BackendOK, Scope
  <1>2. m.ok /\ m.map = IF bm # "none" \/ stored = <<>> THEN bm ELSE "loaded"
    BY <1>t, <1>1 DEF fillBmcache
  <1>3. MapOK(m.map) /\ (stored # <<>> => m.map = "loaded")
    BY <1>2, Zenon DEF MapOK, TypeOK
  <1>4. ASSUME NEW b \in Nat PROVE FillBlock(m.map, b) = StoredBlock(b)
    <2>1. CASE b < Len(stored)
      <3>1. b + 1 \in 1 .. Len(stored) /\ b < BlockMapCover /\ stored # <<>>
        BY <1>t, <1>1, <2>1
      <3>2. bmCheck(m.map, b)
        BY <1>3, <2>1, <3>1, Zenon DEF bmCheck, BackendOK
      <3> QED
        BY <2>1, <3>2, Zenon DEF FillBlock, StoredBlock
    <2>2. CASE ~ (b < Len(stored))
      BY <2>2, Zenon DEF FillBlock, StoredBlock, bmCheck
    <2> QED
      BY <2>1, <2>2, Zenon
  <1> QED
    BY <1>2, <1>3, <1>4, Zenon

\* Filling keeps the slots right, and what is dirty.
LEMMA FilledSound ==
  ASSUME TypeOK, SlotsOK(dcache), NEW map, \A b \in Nat : FillBlock(map, b) = StoredBlock(b),
         NEW a \in Nat, NEW k \in Nat, NEW l \in Nat
  PROVE  LET s == Filled(map, a, k, l)
         IN /\ SlotsOK(s)
            /\ \A i \in 1 .. Len(s) :
                 /\ s[i].dirty <=> i <= Len(dcache) /\ dcache[i].dirty
                 /\ s[i].dirty => s[i].data = dcache[i].data
                 /\ i - 1 \in a .. k - 1 => s[i].cached
  <1> DEFINE s == Filled(map, a, k, l)
             Old(i) == IF i <= Len(dcache) THEN dcache[i] ELSE EmptySlot
  <1>1. /\ s \in Seq(Slots) /\ Len(s) = Max2(Len(dcache), l + 1)
        /\ \A i \in 1 .. Len(s) :
             IF i - 1 \in a .. k - 1 /\ ~ Old(i).cached
             THEN /\ s[i].cached /\ s[i].dirty = Old(i).dirty
                  /\ s[i].data = FillBlock(map, i - 1)
             ELSE s[i] = Old(i)
    BY FilledSlots, Zenon
  <1>t. Len(dcache) \in Nat /\ \A i \in 1 .. Len(dcache) : dcache[i] \in Slots
    BY Types, Zenon
  <1> HIDE DEF s
  <1>2. ASSUME NEW i \in 1 .. Len(s)
        PROVE  /\ Old(i).dirty => Old(i).cached
               /\ Old(i).cached /\ ~ Old(i).dirty => Old(i).data = StoredBlock(i - 1)
               /\ Old(i).dirty <=> i <= Len(dcache) /\ dcache[i].dirty
               /\ Old(i).dirty => Old(i).data = dcache[i].data
               /\ Old(i).dirty \in BOOLEAN /\ Old(i).cached \in BOOLEAN
    <2>1. CASE i <= Len(dcache)
      <3>1. i \in 1 .. Len(dcache) /\ Old(i) = dcache[i]
        BY <1>1, <1>t, <2>1
      <3> QED
        BY <1>t, <3>1, <2>1, Zenon DEF SlotsOK, Slots
    <2>2. CASE ~ (i <= Len(dcache))
      <3>1. Old(i) = EmptySlot
        BY <2>2, Zenon
      <3> HIDE DEF Old
      <3> QED
        BY <2>2, <3>1 DEF EmptySlot
    <2> QED
      BY <2>1, <2>2, Zenon
  <1> HIDE DEF Old
  <1>3. ASSUME NEW i \in 1 .. Len(s)
        PROVE  /\ s[i].dirty = Old(i).dirty
               /\ s[i].dirty => s[i].cached /\ s[i].data = Old(i).data
               /\ s[i].cached /\ ~ s[i].dirty => s[i].data = StoredBlock(i - 1)
               /\ i - 1 \in a .. k - 1 => s[i].cached
    <2>1. CASE i - 1 \in a .. k - 1 /\ ~ Old(i).cached
      <3>1. i - 1 \in Nat
        BY <1>1
      <3> QED
        BY <1>1, <1>2, <2>1, <3>1, Zenon
    <2>2. CASE ~ (i - 1 \in a .. k - 1 /\ ~ Old(i).cached)
      BY <1>1, <1>2, <2>2, Zenon
    <2> QED
      BY <2>1, <2>2, Zenon
  <1> QED
    BY <1>2, <1>3, Zenon DEF SlotsOK, s

\* Whatever fillDcache does, the cache stays right, and a request that was
\* filled has all its blocks cached.
LEMMA FillSound ==
  ASSUME Scope, TypeOK, BackendOK, MapOK(bm), SlotsOK(dcache),
         NEW offset \in Nat, NEW size \in Nat, NEW f \in fillDcache(offset, size)
  PROVE  /\ MapOK(f.map) /\ SlotsOK(f.slots)
         /\ \A i \in 1 .. Len(f.slots) :
              /\ f.slots[i].dirty <=> i <= Len(dcache) /\ dcache[i].dirty
              /\ f.slots[i].dirty => f.slots[i].data = dcache[i].data
         /\ f.ok => \A b \in StartBlock(offset) .. EndBlock(offset, size) : f.slots[b + 1].cached
  <1> DEFINE st == Min2(StartBlock(offset), Len(dcache))
             ed == EndBlock(offset, size)
             P(s) == /\ SlotsOK(s)
                     /\ \A i \in 1 .. Len(s) :
                          /\ s[i].dirty <=> i <= Len(dcache) /\ dcache[i].dirty
                          /\ s[i].dirty => s[i].data = dcache[i].data
  <1>1. st \in Nat /\ ed \in Nat
    BY FillShape, Zenon
  <1>2. PICK m \in fillBmcache :
          /\ f.map = m.map
          /\ \/ ~ m.ok /\ ~ f.ok /\ f.slots = dcache
             \/ m.ok /\ f.ok /\ f.slots = Filled(m.map, st, ed + 1, ed)
             \/ /\ m.ok /\ ~ f.ok
                /\ \E b \in st .. ed : f.slots = Filled(m.map, st, b, b)
    BY FillShape
  <1>3. m.ok /\ MapOK(m.map) /\ \A b \in Nat : FillBlock(m.map, b) = StoredBlock(b)
    BY FillsStored, Zenon
  <1>d. StartBlock(offset) \in Nat /\ Len(dcache) \in Nat /\ st <= StartBlock(offset)
    <2>1. offset \div BlockSize \in Nat
      BY Division, Zenon
    <2> QED
      BY <2>1, Types DEF StartBlock, Min2
  <1> HIDE DEF st, ed
  <1>4. ASSUME NEW k \in Nat, NEW l \in Nat
        PROVE  LET s == Filled(m.map, st, k, l)
               IN P(s) /\ \A i \in 1 .. Len(s) : i - 1 \in st .. k - 1 => s[i].cached
    <2> DEFINE s == Filled(m.map, st, k, l)
    <2>1. /\ SlotsOK(s)
          /\ \A i \in 1 .. Len(s) :
               /\ s[i].dirty <=> i <= Len(dcache) /\ dcache[i].dirty
               /\ s[i].dirty => s[i].data = dcache[i].data
               /\ i - 1 \in st .. k - 1 => s[i].cached
      BY <1>1, <1>3, FilledSound, Zenon
    <2> HIDE DEF s
    <2>2. P(s) /\ \A i \in 1 .. Len(s) : i - 1 \in st .. k - 1 => s[i].cached
      BY <2>1, Zenon
    <2> QED
      BY <2>2, Zenon DEF s
  <1> HIDE DEF P
  <1>5. P(f.slots)
    <2>1. CASE f.slots = Filled(m.map, st, ed + 1, ed)
      <3>1. ed + 1 \in Nat
        BY <1>1
      <3> QED
        BY <1>1, <1>4, <2>1, <3>1, Zenon
    <2>2. CASE \E b \in st .. ed : f.slots = Filled(m.map, st, b, b)
      <3>1. PICK b \in st .. ed : f.slots = Filled(m.map, st, b, b)
        BY <2>2, Zenon
      <3>2. b \in Nat
        BY <1>1
      <3> QED
        BY <1>4, <3>1, <3>2, Zenon
    <2> QED
      BY <1>2, <1>3, <2>1, <2>2, Zenon
  <1>6. ASSUME f.ok, NEW b \in StartBlock(offset) .. EndBlock(offset, size) PROVE f.slots[b + 1].cached
    <2>1. f.slots = Filled(m.map, st, ed + 1, ed) /\ ed + 1 \in Nat
      BY <1>1, <1>2, <1>6
    <2>2. \A i \in 1 .. Len(f.slots) : i - 1 \in st .. (ed + 1) - 1 => f.slots[i].cached
      BY <1>1, <1>4, <2>1, Zenon
    <2>3. ed < Len(f.slots) /\ Len(f.slots) \in Nat
      BY <1>6, FillType DEF ed
    <2>4. b + 1 \in 1 .. Len(f.slots) /\ (b + 1) - 1 \in st .. (ed + 1) - 1
      BY <1>1, <1>d, <2>3 DEF ed
    <2> QED
      BY <2>2, <2>4, Zenon
  <1> QED
    <2>1. MapOK(f.map)
      BY <1>2, <1>3, Zenon
    <2> QED
      BY <1>5, <1>6, <2>1, Zenon DEF P

\* A byte that the user wrote is read from a cached block.
LEMMA HeldIsRead ==
  ASSUME NEW slots \in Seq(Slots), SlotsOK(slots), NEW p \in Nat, Held(p),
         p \div BlockSize < Len(slots), slots[(p \div BlockSize) + 1].cached,
         LET i == (p \div BlockSize) + 1 IN
         /\ slots[i].dirty <=> dcache[i].dirty
         /\ slots[i].dirty => slots[i].data = dcache[i].data
  PROVE  Agrees(ByteAt(slots, p), content[p + 1])
  <1> DEFINE b == p \div BlockSize
             o == p % BlockSize
  <1>1. b \in Nat /\ b + 1 \in 1 .. Len(slots)
    <2>1. b \in Nat /\ b < Len(slots) /\ Len(slots) \in Nat
      BY Division
    <2> HIDE DEF b
    <2> QED
      BY <2>1
  <1>2. IF dcache[b + 1].dirty THEN Agrees(dcache[b + 1].data[o], content[p + 1])
        ELSE content[p + 1] # Any => b < Len(stored) /\ stored[b + 1].data[o] = content[p + 1]
    BY Zenon DEF Held, Lasting
  <1>3. ByteAt(slots, p) = slots[b + 1].data[o]
    BY Zenon DEF ByteAt
  <1> HIDE DEF b, o
  <1>4. CASE slots[b + 1].dirty
    BY <1>2, <1>3, <1>4, Zenon DEF b
  <1>5. CASE ~ slots[b + 1].dirty
    <2>1. slots[b + 1].data = StoredBlock(b)
      <3>1. slots[b + 1].data = StoredBlock((b + 1) - 1)
        BY <1>1, <1>5, Zenon DEF SlotsOK, b
      <3>2. (b + 1) - 1 = b
        BY <1>1
      <3> QED
        BY <3>1, <3>2, Zenon
    <2> QED
      BY <1>2, <1>3, <1>5, <2>1, Zenon DEF StoredBlock, Agrees, b
  <1> QED
    BY <1>4, <1>5, Zenon

\* The blocks of an open file have slots.
LEMMA OpenBlocks ==
  ASSUME TypeOK, OpenOK, phase = "open", NEW p \in 0 .. i_size
  PROVE  /\ p \in Nat /\ p \div BlockSize \in Nat
         /\ p \div BlockSize <= i_size \div BlockSize /\ p \div BlockSize < Len(dcache)
         /\ (p \div BlockSize) + 1 \in 1 .. Len(dcache)
  <1>1. i_size \in Nat /\ p \in Nat /\ p <= i_size /\ Len(dcache) \in Nat
    BY Types
  <1>2. p \div BlockSize \in Nat /\ i_size \div BlockSize \in Nat
    BY <1>1, Division, Zenon
  <1>a. p \div BlockSize <= i_size \div BlockSize
    BY <1>1, BlocksAscend, Zenon
  <1>3. i_size \div BlockSize < Len(dcache)
    BY Zenon DEF OpenOK
  <1> QED
    BY <1>1, <1>2, <1>3, <1>a

-----------------------------------------------------------------------------
\* A read keeps the cache right and returns what the user wrote.
LEMMA CacheRead ==
  ASSUME Scope, TypeInv, CacheInv, NEW offset \in Nat, NEW size \in Nat, Read(offset, size)
  PROVE  CacheInv'
  <1> DEFINE n == Min2(size, i_size - offset)
             k == LastCopied(offset, n) - offset + 1
  <1>t. TypeOK /\ i_size \in Nat /\ Len(dcache) \in Nat /\ i_size = Len(content)
    BY Types, Zenon DEF TypeInv, CacheInv, OpenOK, Read
  <1>1. n \in Nat /\ offset + n <= i_size /\ phase = "open"
    BY <1>t DEF Read, Min2
  <1>k. k \in Nat /\ n <= k
    BY <1>1, LastCopiedEnds
  <1>2. PICK f \in fillDcache(offset, n) :
          /\ bm' = f.map /\ dcache' = f.slots
          /\ result' = IF f.ok THEN [offset |-> offset, size |-> n,
                                     copied |-> [i \in 1 .. k |-> ByteAt(f.slots, offset + i - 1)]]
                               ELSE NoResult
    BY Zenon DEF Read
  <1>u. UNCHANGED <<i_size, stored, isize, content, phase, flushes>>
    BY Zenon DEF Read
  <1> HIDE DEF n, k
  <1>3. /\ f.slots \in Seq(Slots) /\ Len(dcache) <= Len(f.slots) /\ Len(f.slots) \in Nat
        /\ f.ok => EndBlock(offset, n) < Len(f.slots)
    BY <1>t, <1>1, FillType
  <1>4. /\ MapOK(f.map) /\ SlotsOK(f.slots)
        /\ \A i \in 1 .. Len(f.slots) :
             /\ f.slots[i].dirty <=> i <= Len(dcache) /\ dcache[i].dirty
             /\ f.slots[i].dirty => f.slots[i].data = dcache[i].data
        /\ f.ok => \A b \in StartBlock(offset) .. EndBlock(offset, n) : f.slots[b + 1].cached
    BY <1>t, <1>1, FillSound, Zenon DEF CacheInv
  <1>5. BackendOK' /\ MapOK(bm)' /\ SlotsOK(dcache)'
    BY <1>2, <1>4, <1>u, Zenon DEF CacheInv, BackendOK, MapOK, SlotsOK, StoredBlock
  <1>6. OpenOK'
    <2>1. ASSUME NEW p \in 0 .. i_size - 1 PROVE Held(p)'
      <3>1. p \in 0 .. i_size /\ Held(p)
        BY <1>t, <1>1 DEF CacheInv, OpenOK
      <3> DEFINE b == p \div BlockSize
      <3>2. b + 1 \in 1 .. Len(dcache) /\ b + 1 \in 1 .. Len(f.slots) /\ b + 1 <= Len(dcache)
        <4>1. b \in Nat /\ b + 1 \in 1 .. Len(dcache)
          BY <1>t, <1>1, <3>1, OpenBlocks, Zenon DEF CacheInv
        <4> HIDE DEF b
        <4>2. Len(dcache) \in Nat
          BY <1>t, Types, Zenon
        <4> QED
          BY <1>3, <4>1, <4>2
      <3> HIDE DEF b
      <3>3. /\ dcache'[b + 1].dirty <=> dcache[b + 1].dirty
            /\ dcache'[b + 1].dirty => dcache'[b + 1].data = dcache[b + 1].data
        BY <1>2, <1>4, <3>2, Zenon
      <3> QED
        BY <3>1, <3>3, <1>u, Zenon DEF Held, Lasting, b
    <2>2. DirtyBlocks' = DirtyBlocks
      <3>1. ASSUME NEW b \in Nat
            PROVE  b \in 0 .. Len(f.slots) - 1 /\ f.slots[b + 1].dirty
                     <=> b \in 0 .. Len(dcache) - 1 /\ dcache[b + 1].dirty
        <4>1. b \in 0 .. Len(f.slots) - 1 <=> b + 1 \in 1 .. Len(f.slots)
          BY <1>3
        <4>2. b \in 0 .. Len(dcache) - 1 <=> b + 1 <= Len(dcache)
          BY <1>t
        <4>3. b + 1 <= Len(dcache) => b + 1 \in 1 .. Len(f.slots)
          BY <1>t, <1>3
        <4> QED
          BY <1>4, <4>1, <4>2, <4>3, Zenon
      <3>2. /\ DirtyBlocks' = {b \in 0 .. Len(f.slots) - 1 : f.slots[b + 1].dirty}
            /\ DirtyBlocks = {b \in 0 .. Len(dcache) - 1 : dcache[b + 1].dirty}
        BY <1>2, Zenon DEF DirtyBlocks
      <3>3. \A b : b \in 0 .. Len(f.slots) - 1 \/ b \in 0 .. Len(dcache) - 1 => b \in Nat
        BY <1>t, <1>3
      <3> QED
        BY <3>1, <3>2, <3>3, Zenon
    <2>3. i_size \div BlockSize < Len(f.slots)
      <3>1. i_size \div BlockSize \in Nat /\ i_size \div BlockSize < Len(dcache)
        BY <1>t, <1>1, Division, Zenon DEF CacheInv, OpenOK
      <3> QED
        BY <1>t, <1>3, <3>1
    <2> QED
      BY <1>1, <1>2, <1>u, <2>1, <2>2, <2>3, Zenon DEF CacheInv, OpenOK
  <1>7. ReadCorrect'
    <2>1. CASE ~ f.ok
      BY <1>2, <2>1 DEF ReadCorrect, NoResult
    <2>2. CASE f.ok
      <3>1. ASSUME NEW i \in 1 .. n
            PROVE  Agrees(ByteAt(f.slots, offset + i - 1), content[offset + i])
        <4> DEFINE p == offset + i - 1
                   b == p \div BlockSize
        <4>1. p \in Nat /\ p \in 0 .. i_size - 1 /\ p \in 0 .. i_size /\ p + 1 = offset + i
              /\ offset <= p /\ p <= offset + n /\ offset + n \in Nat
          BY <1>t, <1>1
        <4> HIDE DEF p
        <4>2. b \in Nat /\ b + 1 \in 1 .. Len(dcache)
          BY <1>t, <1>1, <4>1, OpenBlocks, Zenon DEF CacheInv
        <4>3. StartBlock(offset) <= b /\ b <= EndBlock(offset, n)
          BY <4>1, BlocksAscend, Zenon DEF StartBlock, EndBlock
        <4>4. b \in StartBlock(offset) .. EndBlock(offset, n)
          <5>1. StartBlock(offset) \in Nat /\ EndBlock(offset, n) \in Nat
            BY <4>1, Division, Zenon DEF StartBlock, EndBlock
          <5> HIDE DEF b
          <5> QED
            BY <4>2, <4>3, <5>1
        <4>5. b + 1 \in 1 .. Len(f.slots) /\ b < Len(f.slots) /\ b + 1 <= Len(dcache)
          <5> HIDE DEF b
          <5> QED
            BY <1>t, <1>3, <4>2
        <4>6. f.slots[b + 1].cached
          BY <1>4, <2>2, <4>4, Zenon
        <4>7. Held(p)
          BY <1>1, <4>1, Zenon DEF CacheInv, OpenOK
        <4>8. /\ f.slots[b + 1].dirty <=> dcache[b + 1].dirty
              /\ f.slots[b + 1].dirty => f.slots[b + 1].data = dcache[b + 1].data
          <5> HIDE DEF b
          <5> QED
            BY <1>4, <4>5, Zenon
        <4>9. Agrees(ByteAt(f.slots, p), content[p + 1])
          BY <1>3, <1>4, <4>1, <4>5, <4>6, <4>7, <4>8, HeldIsRead, Zenon
        <4> QED
          BY <4>1, <4>9, Zenon DEF p
      <3>2. /\ result'.offset = offset /\ result'.size = n
            /\ \A i \in 1 .. n : result'.copied[i] = ByteAt(f.slots, offset + i - 1)
        <4>1. \A i \in 1 .. n : i \in 1 .. k
          BY <1>1, <1>k
        <4> QED
          BY <1>2, <2>2, <4>1, Zenon
      <3> QED
        BY <3>1, <3>2, <1>u, Zenon DEF ReadCorrect
    <2> QED
      BY <2>1, <2>2, Zenon
  <1> QED
    BY <1>1, <1>5, <1>6, <1>7, <1>u, Zenon DEF CacheInv, ClosedOK

-----------------------------------------------------------------------------
\* The byte at p after the copies of a write, in a block of the request.
CopiedAt(slots, v, offset, size, p) ==
  ByteAt(Copied(slots, v, offset, size), p)
    = IF p \in offset .. LastCopied(offset, size)
      THEN Buffer(v, size, p - offset) ELSE ByteAt(slots, p)

\* Copied makes this byte.
LEMMA CopiedByte ==
  ASSUME NEW slots \in Seq(Slots), NEW v \in Nat, NEW offset \in Nat, NEW size \in Nat,
         NEW p \in Nat, p \div BlockSize < Len(slots),
         p \div BlockSize \in StartBlock(offset) .. EndBlock(offset, size)
  PROVE  CopiedAt(slots, v, offset, size, p)
  <1> DEFINE b == p \div BlockSize
             o == p % BlockSize
             s == Copied(slots, v, offset, size)
  <1>1. b \in Nat /\ o \in Offsets /\ o = p - BlockSize * b
    BY Division, Zenon
  <1>2. b < Len(slots) /\ Len(slots) \in Nat /\ b \in StartBlock(offset) .. EndBlock(offset, size)
    OBVIOUS
  <1>s. s = Copied(slots, v, offset, size)
    OBVIOUS
  <1> HIDE DEF b, o, s
  <1>3. \A i \in 1 .. Len(slots) :
          IF i - 1 \in StartBlock(offset) .. EndBlock(offset, size)
          THEN /\ s[i].dirty /\ s[i].cached = slots[i].cached
               /\ \A x \in Offsets :
                    s[i].data[x] = IF (i - 1) * BlockSize + x \in offset .. LastCopied(offset, size)
                                   THEN Buffer(v, size, ((i - 1) * BlockSize + x) - offset)
                                   ELSE slots[i].data[x]
          ELSE s[i] = slots[i]
    <2>1. CopyOf(s, slots, v, offset, size)
      BY <1>s, CopiedSlots, Zenon
    <2> QED
      BY <2>1, Zenon DEF CopyOf
  <1>4. b + 1 \in 1 .. Len(slots) /\ (b + 1) - 1 = b
    BY <1>1, <1>2
  <1>5. b * BlockSize + o = p
    <2>1. BlockSize \in Nat
      BY CacheAssumption, Zenon
    <2>2. BlockSize * b \in Int /\ b * BlockSize = BlockSize * b
      BY <1>1, <2>1
    <2> QED
      BY <1>1, <2>2
  <1>6. s[b + 1].data[o] = IF b * BlockSize + o \in offset .. LastCopied(offset, size)
                           THEN Buffer(v, size, (b * BlockSize + o) - offset)
                           ELSE slots[b + 1].data[o]
    <2>1. (b + 1) - 1 \in StartBlock(offset) .. EndBlock(offset, size)
      BY <1>2, <1>4, Zenon
    <2>2. s[b + 1].data[o] = IF ((b + 1) - 1) * BlockSize + o \in offset .. LastCopied(offset, size)
                             THEN Buffer(v, size, (((b + 1) - 1) * BlockSize + o) - offset)
                             ELSE slots[b + 1].data[o]
      BY <1>1, <1>3, <1>4, <2>1, Zenon
    <2> QED
      BY <1>4, <2>2, Zenon
  <1>7. s[b + 1].data[o] = IF p \in offset .. LastCopied(offset, size)
                           THEN Buffer(v, size, p - offset)
                           ELSE slots[b + 1].data[o]
    BY <1>5, <1>6, Zenon
  <1> QED
    BY <1>7, Zenon DEF CopiedAt, ByteAt, s, b, o

\* The slots s of a write, given those that fillDcache left.
WrittenSlots(s, slots, offset, size) ==
  /\ SlotsOK(s) /\ s \in Seq(Slots)
  /\ Len(s) = Len(slots) /\ Len(s) \in Nat
  /\ Len(dcache) <= Len(s) /\ EndBlock(offset, size) < Len(s)
  /\ \A i \in 1 .. Len(s) :
       /\ s[i].dirty <=> \/ i - 1 \in StartBlock(offset) .. EndBlock(offset, size)
                         \/ i <= Len(dcache) /\ dcache[i].dirty
       /\ i - 1 \notin StartBlock(offset) .. EndBlock(offset, size) => s[i] = slots[i]

\* What a write that is filled does to the cache.
LEMMA WriteShape ==
  ASSUME Scope, TypeInv, CacheInv, NEW v \in Nat, NEW offset \in Nat, NEW size \in Nat,
         NEW f \in fillDcache(offset, size), f.ok
  PROVE  MapOK(f.map) /\ WrittenSlots(Copied(f.slots, v, offset, size), f.slots, offset, size)
  <1>p. PICK s : s = Copied(f.slots, v, offset, size)
    OBVIOUS
  <1> DEFINE In(i) == i - 1 \in StartBlock(offset) .. EndBlock(offset, size)
  <1>1. TypeOK /\ BackendOK /\ MapOK(bm) /\ SlotsOK(dcache)
    BY Zenon DEF TypeInv, CacheInv
  <1>2. /\ f.slots \in Seq(Slots) /\ Len(dcache) <= Len(f.slots) /\ Len(f.slots) \in Nat
        /\ EndBlock(offset, size) < Len(f.slots)
    BY <1>1, FillType
  <1>3. /\ MapOK(f.map) /\ SlotsOK(f.slots)
        /\ \A i \in 1 .. Len(f.slots) :
             /\ f.slots[i].dirty <=> i <= Len(dcache) /\ dcache[i].dirty
             /\ f.slots[i].dirty => f.slots[i].data = dcache[i].data
        /\ \A b \in StartBlock(offset) .. EndBlock(offset, size) : f.slots[b + 1].cached
    BY <1>1, FillSound, Zenon
  <1>4. /\ s \in Seq(Slots) /\ Len(s) = Len(f.slots)
        /\ \A i \in 1 .. Len(f.slots) :
             /\ In(i) => s[i].dirty /\ s[i].cached = f.slots[i].cached
             /\ ~ In(i) => s[i] = f.slots[i]
    <2> DEFINE R(i) == \A o \in Offsets :
                        s[i].data[o] = IF (i - 1) * BlockSize + o \in offset .. LastCopied(offset, size)
                                       THEN Buffer(v, size, ((i - 1) * BlockSize + o) - offset)
                                       ELSE f.slots[i].data[o]
    <2>1. f.slots \in Seq(Slots)
      BY <1>2, Zenon
    <2>2. /\ s \in Seq(Slots) /\ Len(s) = Len(f.slots)
          /\ \A i \in 1 .. Len(f.slots) :
               IF In(i) THEN /\ s[i].dirty /\ s[i].cached = f.slots[i].cached
                             /\ R(i)
               ELSE s[i] = f.slots[i]
      <3>1. CopyOf(s, f.slots, v, offset, size)
        BY <1>p, <2>1, CopiedSlots, Zenon
      <3> QED
        BY <3>1, Zenon DEF CopyOf
    <2> HIDE DEF R, In
    <2> QED
      BY <2>2, Zenon
  <1>5. ASSUME NEW i \in 1 .. Len(f.slots), In(i) PROVE f.slots[i].cached
    <2>1. i - 1 \in StartBlock(offset) .. EndBlock(offset, size) /\ (i - 1) + 1 = i
      BY <1>2, <1>5
    <2> QED
      BY <1>3, <2>1, Zenon
  <1> HIDE DEF In
  <1>6. SlotsOK(s)
    <2>1. ASSUME NEW i \in 1 .. Len(s)
          PROVE  /\ s[i].dirty => s[i].cached
                 /\ s[i].cached /\ ~ s[i].dirty => s[i].data = StoredBlock(i - 1)
      <3>1. CASE In(i)
        <4>1. i \in 1 .. Len(f.slots) /\ s[i].dirty
          BY <1>4, <3>1, Zenon
        <4>2. s[i].cached
          BY <1>4, <1>5, <3>1, <4>1, Zenon
        <4> QED
          BY <4>1, <4>2, Zenon
      <3>2. CASE ~ In(i)
        BY <1>3, <1>4, <3>2, Zenon DEF SlotsOK
      <3> QED
        BY <3>1, <3>2, Zenon
    <2> QED
      BY <2>1, Zenon DEF SlotsOK
  <1>7. \A i \in 1 .. Len(s) :
          /\ s[i].dirty <=> In(i) \/ (i <= Len(dcache) /\ dcache[i].dirty)
          /\ ~ In(i) => s[i] = f.slots[i]
    BY <1>3, <1>4, Zenon
  <1>8. /\ MapOK(f.map) /\ s \in Seq(Slots)
        /\ Len(s) = Len(f.slots) /\ Len(s) \in Nat
        /\ Len(dcache) <= Len(s) /\ EndBlock(offset, size) < Len(s)
    BY <1>2, <1>3, <1>4, Zenon
  <1> QED
    BY <1>p, <1>6, <1>7, <1>8, Zenon DEF In, WrittenSlots

\* The bytes of the file after a write, one by one.
OverwrittenAt(v, offset, size, p) ==
  /\ Len(Overwritten(v, offset, size)) = Max2(Len(content), offset + size)
  /\ Overwritten(v, offset, size)[p + 1]
       = IF p \in offset .. offset + size - 1 THEN Buffer(v, size, p - offset) ELSE content[p + 1]
  /\ p \notin offset .. offset + size - 1 => p \in 0 .. Len(content) - 1

\* Overwritten makes these bytes.
LEMMA OverwrittenByte ==
  ASSUME TypeOK, NEW v \in Nat, NEW offset \in Nat, NEW size \in Nat, offset <= Len(content),
         NEW p \in 0 .. Max2(Len(content), offset + size) - 1
  PROVE  OverwrittenAt(v, offset, size, p)
  <1> DEFINE n == Max2(Len(content), offset + size)
  <1>1. Len(content) \in Nat /\ n \in Nat
    BY Types DEF Max2
  <1>2. p + 1 \in 1 .. n /\ (p + 1) - 1 = p
    BY <1>1
  <1>3. p \notin offset .. offset + size - 1 => p \in 0 .. Len(content) - 1
    BY <1>1 DEF Max2
  <1>4. Overwritten(v, offset, size)
          = [i \in 1 .. n |-> IF i - 1 \in offset .. offset + size - 1
                              THEN Buffer(v, size, i - 1 - offset) ELSE content[i]]
    BY Zenon DEF Overwritten
  <1> HIDE DEF n
  <1>5. /\ Len(Overwritten(v, offset, size)) = n
        /\ Overwritten(v, offset, size)[p + 1]
             = IF (p + 1) - 1 \in offset .. offset + size - 1
               THEN Buffer(v, size, (p + 1) - 1 - offset) ELSE content[p + 1]
    BY <1>1, <1>2, <1>4
  <1> QED
    BY <1>2, <1>3, <1>5, Zenon DEF n, OverwrittenAt

\* After a write that was filled every byte is in the cache or the backend.
LEMMA WriteHolds ==
  ASSUME Scope, TypeInv, CacheInv, phase = "open",
         NEW v \in Nat, NEW offset \in Nat, NEW size \in Nat \ {0}, offset <= i_size,
         \/ offset + size >= i_size
         \/ StartBlock(offset) = EndBlock(offset, size),
         NEW f \in fillDcache(offset, size), f.ok,
         dcache' = Copied(f.slots, v, offset, size), stored' = stored,
         content' = Overwritten(v, offset, size),
         NEW p \in 0 .. Max2(i_size, offset + size) - 1
  PROVE  Held(p)'
  <1> DEFINE b == p \div BlockSize
             z == offset + size
             In == b \in StartBlock(offset) .. EndBlock(offset, size)
  <1>t. TypeOK /\ i_size \in Nat /\ Len(dcache) \in Nat /\ i_size = Len(content)
    BY Types, Zenon DEF TypeInv, CacheInv, OpenOK
  <1>s. size \in Nat
    BY Zenon
  <1>z. z \in Nat /\ p \in Nat /\ b \in Nat
    <2>1. z \in Nat /\ p \in Nat
      BY <1>t DEF Max2
    <2> QED
      BY <2>1, Division, Zenon
  <1>1. /\ f.slots \in Seq(Slots) /\ Len(dcache) <= Len(f.slots) /\ Len(f.slots) \in Nat
        /\ EndBlock(offset, size) < Len(f.slots)
    BY <1>t, FillType
  <1>2. /\ SlotsOK(f.slots)
        /\ \A i \in 1 .. Len(f.slots) :
             /\ f.slots[i].dirty <=> i <= Len(dcache) /\ dcache[i].dirty
             /\ f.slots[i].dirty => f.slots[i].data = dcache[i].data
        /\ \A x \in StartBlock(offset) .. EndBlock(offset, size) : f.slots[x + 1].cached
    <2>1. BackendOK /\ MapOK(bm) /\ SlotsOK(dcache)
      BY Zenon DEF CacheInv
    <2> QED
      BY <1>t, <1>s, <2>1, FillSound, Zenon
  <1>3. /\ \A i \in 1 .. Len(f.slots) :
             /\ dcache'[i].dirty <=> \/ i - 1 \in StartBlock(offset) .. EndBlock(offset, size)
                                     \/ i <= Len(dcache) /\ dcache[i].dirty
             /\ i - 1 \notin StartBlock(offset) .. EndBlock(offset, size) => dcache'[i] = f.slots[i]
    <2>1. WrittenSlots(dcache', f.slots, offset, size)
      BY WriteShape, Zenon
    <2> QED
      BY <2>1, Zenon DEF WrittenSlots
  <1>4. /\ content'[p + 1] = IF p \in offset .. z - 1 THEN Buffer(v, size, p - offset) ELSE content[p + 1]
        /\ p \notin offset .. z - 1 => p \in 0 .. i_size - 1
    <2>1. offset <= Len(content) /\ p \in 0 .. Max2(Len(content), offset + size) - 1
      BY <1>t, Zenon
    <2>2. OverwrittenAt(v, offset, size, p)
      BY <1>t, <1>s, <2>1, OverwrittenByte, Zenon
    <2> QED
      BY <1>t, <2>2 DEF OverwrittenAt
  <1>5. p \in offset .. z - 1 => In
    <2>1. SUFFICES ASSUME p \in offset .. z - 1 PROVE In
      OBVIOUS
    <2>2. offset <= p /\ p <= z
      BY <1>z, <2>1
    <2>3. StartBlock(offset) <= b /\ b <= EndBlock(offset, size)
      BY <1>z, <2>2, BlocksAscend, Zenon DEF StartBlock, EndBlock
    <2>4. StartBlock(offset) \in Nat /\ EndBlock(offset, size) \in Nat
      BY <1>z, Division, Zenon DEF StartBlock, EndBlock
    <2> HIDE DEF b
    <2> QED
      BY <1>z, <2>3, <2>4
  <1>6. In => b + 1 \in 1 .. Len(f.slots) /\ b < Len(f.slots) /\ f.slots[b + 1].cached
    <2>1. StartBlock(offset) \in Nat /\ EndBlock(offset, size) \in Nat
      BY <1>z, Division, Zenon DEF StartBlock, EndBlock
    <2> HIDE DEF b
    <2> QED
      BY <1>z, <1>1, <1>2, <2>1
  <1>7. ASSUME p \in 0 .. i_size - 1
        PROVE  /\ b + 1 \in 1 .. Len(dcache) /\ b + 1 \in 1 .. Len(f.slots) /\ b < Len(f.slots)
               /\ Held(p)
               /\ f.slots[b + 1].dirty <=> dcache[b + 1].dirty
               /\ f.slots[b + 1].dirty => f.slots[b + 1].data = dcache[b + 1].data
    <2>1. p \in 0 .. i_size /\ Held(p)
      BY <1>t, <1>7 DEF CacheInv, OpenOK
    <2>2. b + 1 \in 1 .. Len(dcache)
      BY <1>t, <2>1, OpenBlocks, Zenon DEF CacheInv
    <2> HIDE DEF b
    <2>3. b + 1 \in 1 .. Len(f.slots) /\ b < Len(f.slots) /\ b + 1 <= Len(dcache)
      BY <1>t, <1>z, <1>1, <2>2
    <2> QED
      BY <1>2, <2>1, <2>2, <2>3, Zenon
  <1>8. CASE In
    <2>1. /\ b + 1 \in 1 .. Len(f.slots) /\ b < Len(f.slots) /\ f.slots[b + 1].cached
          /\ (b + 1) - 1 = b
      BY <1>6, <1>8, <1>z
    <2>2. dcache'[b + 1].dirty
      BY <1>3, <1>8, <2>1, Zenon
    <2>3. ByteAt(dcache', p) = IF p \in offset .. LastCopied(offset, size)
                               THEN Buffer(v, size, p - offset) ELSE ByteAt(f.slots, p)
      <3>1. CopiedAt(f.slots, v, offset, size, p)
        BY <1>1, <1>s, <1>z, <1>8, <2>1, CopiedByte, Zenon
      <3> QED
        BY <3>1, Zenon DEF CopiedAt
    <2>4. Agrees(ByteAt(dcache', p), content'[p + 1])
      <3>1. CASE p \in offset .. z - 1
        <4>1. p \in offset .. LastCopied(offset, size)
          BY <1>z, <3>1 DEF LastCopied
        <4> QED
          BY <1>4, <2>3, <3>1, <4>1, Zenon DEF Agrees
      <3>2. CASE p \notin offset .. z - 1
        <4>1. p \in 0 .. i_size - 1
          BY <1>4, <3>2, Zenon
        <4>2. p \notin offset .. LastCopied(offset, size)
          <5>1. CASE StartBlock(offset) = EndBlock(offset, size)
            BY <3>2, <5>1 DEF LastCopied
          <5>2. CASE StartBlock(offset) # EndBlock(offset, size)
            <6>1. z >= i_size /\ LastCopied(offset, size) = z
              BY <5>2, Zenon DEF LastCopied
            <6> QED
              BY <1>t, <1>z, <3>2, <4>1, <6>1
          <5> QED
            BY <5>1, <5>2, Zenon
        <4>3. Agrees(ByteAt(f.slots, p), content[p + 1])
          BY <1>z, <1>1, <1>2, <1>7, <2>1, <4>1, HeldIsRead, Zenon
        <4> QED
          BY <1>4, <2>3, <3>2, <4>2, <4>3, Zenon
      <3> QED
        BY <3>1, <3>2, Zenon
    <2> QED
      BY <2>2, <2>4, Zenon DEF Held, ByteAt
  <1>9. CASE ~ In
    <2>1. p \in 0 .. i_size - 1 /\ content'[p + 1] = content[p + 1]
      BY <1>4, <1>5, <1>9, Zenon
    <2>2. dcache'[b + 1] = f.slots[b + 1]
      <3>1. (b + 1) - 1 = b
        BY <1>z
      <3> QED
        BY <1>3, <1>7, <1>9, <2>1, <3>1, Zenon
    <2>3. /\ Held(p)
          /\ dcache'[b + 1].dirty <=> dcache[b + 1].dirty
          /\ dcache'[b + 1].dirty => dcache'[b + 1].data = dcache[b + 1].data
      BY <1>7, <2>1, <2>2, Zenon
    <2> QED
      BY <2>1, <2>3, Zenon DEF Held, Lasting
  <1> QED
    BY <1>8, <1>9, Zenon

\* Before the first flush a write makes its blocks dirty too, and they reach up
\* to those of the file.
LEMMA WriteDirties ==
  ASSUME Scope, TypeInv, CacheInv, phase = "open", stored = <<>>,
         NEW offset \in Nat, NEW size \in Nat \ {0}, offset <= i_size,
         NEW slots, WrittenSlots(dcache', slots, offset, size)
  PROVE  DirtyBlocks' = 0 .. Max2(i_size, offset + size) \div BlockSize
  <1> DEFINE st == StartBlock(offset)
             ed == EndBlock(offset, size)
             m == i_size \div BlockSize
             z == offset + size
  <1>t. TypeOK /\ i_size \in Nat /\ Len(dcache) \in Nat /\ z \in Nat
    BY Types DEF TypeInv
  <1>1. st \in Nat /\ ed \in Nat /\ m \in Nat
    BY <1>t, Division, Zenon DEF StartBlock, EndBlock
  <1>2. st <= m /\ st <= ed /\ (z >= i_size => ed >= m) /\ (z <= i_size => ed <= m)
    BY <1>t, BlocksAscend DEF StartBlock, EndBlock
  <1>3. i_size = 0 => st = 0
    <2>1. 0 \div BlockSize = 0
      BY CacheAssumption
    <2> QED
      BY <1>t, <2>1 DEF StartBlock
  <1>4. Max2(i_size, z) \div BlockSize = Max2(m, ed)
    <2>1. CASE z >= i_size
      <3>1. Max2(i_size, z) = z
        BY <1>t, <2>1 DEF Max2
      <3>2. z \div BlockSize = ed
        BY Zenon DEF EndBlock
      <3> HIDE DEF m, ed, z
      <3>3. Max2(m, ed) = ed
        BY <1>1, <1>2, <2>1 DEF Max2
      <3> QED
        BY <3>1, <3>2, <3>3, Zenon
    <2>2. CASE ~ (z >= i_size)
      <3>1. Max2(i_size, z) = i_size /\ z <= i_size
        BY <1>t, <2>2 DEF Max2
      <3> HIDE DEF ed, z
      <3>3. Max2(m, ed) = m
        <4> HIDE DEF m
        <4> QED
          BY <1>1, <1>2, <3>1 DEF Max2
      <3> QED
        BY <3>1, <3>3, Zenon
    <2> QED
      BY <2>1, <2>2, Zenon
  <1>5. DirtyBlocks = IF i_size = 0 THEN {} ELSE 0 .. m
    BY Zenon DEF CacheInv, OpenOK
  <1>6. /\ Len(dcache') \in Nat /\ Len(dcache) <= Len(dcache') /\ ed < Len(dcache')
        /\ \A i \in 1 .. Len(dcache') :
             dcache'[i].dirty <=> i - 1 \in st .. ed \/ (i <= Len(dcache) /\ dcache[i].dirty)
    BY Zenon DEF WrittenSlots
  <1> HIDE DEF st, ed
  <1>7. ASSUME NEW x \in Nat
        PROVE  x \in 0 .. Len(dcache') - 1 /\ dcache'[x + 1].dirty
                 <=> x \in st .. ed \/ x \in DirtyBlocks
    <2>1. /\ x \in 0 .. Len(dcache') - 1 <=> x + 1 \in 1 .. Len(dcache')
          /\ x \in 0 .. Len(dcache) - 1 <=> x + 1 <= Len(dcache)
          /\ x + 1 <= Len(dcache) => x + 1 \in 1 .. Len(dcache')
          /\ x \in st .. ed => x + 1 \in 1 .. Len(dcache')
          /\ (x + 1) - 1 = x
      BY <1>t, <1>1, <1>6
    <2>2. x \in DirtyBlocks <=> x \in 0 .. Len(dcache) - 1 /\ dcache[x + 1].dirty
      BY Zenon DEF DirtyBlocks
    <2> QED
      BY <1>6, <2>1, <2>2, Zenon
  <1>8. DirtyBlocks' = {x \in 0 .. Len(dcache') - 1 : dcache'[x + 1].dirty}
    BY Zenon DEF DirtyBlocks
  <1>9. DirtyBlocks' = (st .. ed) \cup DirtyBlocks
    <2>1. \A x : x \in 0 .. Len(dcache') - 1 \/ x \in st .. ed \/ x \in DirtyBlocks => x \in Nat
      BY <1>t, <1>1, <1>6 DEF DirtyBlocks
    <2> QED
      BY <1>7, <1>8, <2>1, Zenon
  <1> HIDE DEF m, z
  <1>10. (st .. ed) \cup DirtyBlocks = 0 .. Max2(m, ed)
    <2>1. CASE i_size = 0
      <3>1. st = 0 /\ m <= ed
        BY <1>t, <1>1, <1>2, <1>3, <2>1
      <3> QED
        BY <1>1, <1>5, <2>1, <3>1 DEF Max2
    <2>2. CASE i_size # 0
      BY <1>1, <1>2, <1>5, <2>2 DEF Max2
    <2> QED
      BY <2>1, <2>2, Zenon
  <1> QED
    BY <1>4, <1>9, <1>10, Zenon DEF m, z

\* A write that does not end inside a later block keeps the cache right.
LEMMA CacheWrite ==
  ASSUME Scope, TypeInv, CacheInv, NEW v \in Nat, NEW position \in Nat, NEW size \in Nat \ {0},
         position + size <= MaxSize, Write(v, position, size)
  PROVE  CacheInv'
  <1> DEFINE offset == Min2(position, i_size)
  <1>t. /\ TypeOK /\ i_size \in Nat /\ Len(dcache) \in Nat
        /\ phase = "open" /\ i_size = Len(content) /\ i_size \div BlockSize < Len(dcache)
    BY Types, Zenon DEF TypeInv, CacheInv, OpenOK, Write
  <1>1. offset \in Nat /\ offset <= i_size /\ offset <= position
    BY <1>t DEF Min2
  <1>2. \/ offset + size >= i_size
        \/ StartBlock(offset) = EndBlock(offset, size)
    BY Zenon DEF Write, Scope
  <1>3. PICK f \in fillDcache(offset, size) :
          /\ bm' = f.map
          /\ IF f.ok
             THEN /\ dcache' = Copied(f.slots, v, offset, size)
                  /\ i_size' = Max2(i_size, offset + size)
                  /\ content' = Overwritten(v, offset, size)
                  /\ phase' = "open"
             ELSE /\ dcache' = f.slots
                  /\ phase' = "broken"
                  /\ UNCHANGED <<i_size, content>>
    BY Zenon DEF Write
  <1>u. result' = NoResult /\ stored' = stored /\ isize' = isize /\ flushes' = flushes
    BY Zenon DEF Write
  <1> HIDE DEF offset
  <1>4. BackendOK' /\ ReadCorrect'
    <2>1. BackendOK'
      BY <1>u, Zenon DEF CacheInv, BackendOK
    <2>2. result'.size = 0
      BY <1>u, Zenon DEF NoResult
    <2> QED
      BY <2>1, <2>2 DEF ReadCorrect
  <1>5. CASE ~ f.ok
    <2>1. MapOK(f.map) /\ SlotsOK(f.slots)
      BY <1>t, <1>1, FillSound, Zenon DEF CacheInv
    <2>2. MapOK(bm)' /\ SlotsOK(dcache)'
      BY <1>3, <1>5, <1>u, <2>1, Zenon DEF MapOK, SlotsOK, StoredBlock
    <2> QED
      BY <1>3, <1>4, <1>5, <1>u, <2>2, Zenon DEF CacheInv, OpenOK, ClosedOK
  <1>6. CASE f.ok
    <2>1. /\ bm' = f.map /\ dcache' = Copied(f.slots, v, offset, size)
          /\ i_size' = Max2(i_size, offset + size) /\ content' = Overwritten(v, offset, size)
          /\ phase' = "open"
      BY <1>3, <1>6, Zenon
    <2>2. MapOK(f.map) /\ WrittenSlots(dcache', f.slots, offset, size)
      BY <1>1, <1>6, <2>1, WriteShape, Zenon
    <2>3. MapOK(bm)' /\ SlotsOK(dcache)'
      BY <1>u, <2>1, <2>2, Zenon DEF MapOK, SlotsOK, StoredBlock, WrittenSlots
    <2>4. i_size' = Len(content') /\ i_size' \in Nat /\ i_size' # 0
      <3>1. 0 \in 0 .. Max2(Len(content), offset + size) - 1
        BY <1>t, <1>1 DEF Max2
      <3>2. Len(content') = Max2(Len(content), offset + size)
        <4>1. OverwrittenAt(v, offset, size, 0)
          BY <1>t, <1>1, <3>1, OverwrittenByte, Zenon
        <4> QED
          BY <2>1, <4>1, Zenon DEF OverwrittenAt
      <3> QED
        BY <1>t, <1>1, <2>1, <3>2 DEF Max2
    <2>5. i_size' \div BlockSize < Len(dcache')
      <3>1. CASE i_size' = offset + size
        BY <2>2, <3>1, Zenon DEF WrittenSlots, EndBlock
      <3>2. CASE i_size' = i_size
        <4>1. i_size \div BlockSize \in Nat
          BY <1>t, Division, Zenon
        <4>2. Len(dcache) <= Len(dcache') /\ Len(dcache') \in Nat
          BY <2>2, Zenon DEF WrittenSlots
        <4> QED
          BY <1>t, <3>2, <4>1, <4>2
      <3> QED
        BY <2>1, <3>1, <3>2, Zenon DEF Max2
    <2>6. \A p \in 0 .. i_size' - 1 : Held(p)'
      <3>1. TAKE p \in 0 .. i_size' - 1
      <3>2. p \in 0 .. Max2(i_size, offset + size) - 1
        BY <2>1, Zenon
      <3> QED
        BY <1>t, <1>1, <1>2, <1>6, <1>u, <2>1, <3>2, WriteHolds, Zenon
    <2>7. ASSUME stored' = <<>>
          PROVE  /\ i_size' <= MaxSize
                 /\ DirtyBlocks' = IF i_size' = 0 THEN {} ELSE 0 .. i_size' \div BlockSize
      <3>1. stored = <<>> /\ i_size <= MaxSize
        BY <1>t, <1>u, <2>7, Zenon DEF CacheInv, OpenOK
      <3>2. DirtyBlocks' = 0 .. Max2(i_size, offset + size) \div BlockSize
        BY <1>t, <1>1, <2>2, <3>1, WriteDirties, Zenon
      <3>3. i_size' <= MaxSize
        BY <1>t, <1>1, <2>1, <3>1, CacheAssumption DEF Max2
      <3> QED
        BY <2>1, <2>4, <3>2, <3>3, Zenon
    <2>8. DirtyBlocks' # {}
      <3> DEFINE ed == EndBlock(offset, size)
      <3>1. StartBlock(offset) \in Nat /\ ed \in Nat
        BY <1>1, Division DEF StartBlock, EndBlock
      <3>2. StartBlock(offset) <= ed
        BY <1>1, BlocksAscend DEF StartBlock, EndBlock
      <3>3. Len(dcache') \in Nat /\ ed < Len(dcache')
        BY <2>2, Zenon DEF WrittenSlots
      <3> HIDE DEF ed
      <3>4. /\ ed + 1 \in 1 .. Len(dcache') /\ ed \in 0 .. Len(dcache') - 1
            /\ (ed + 1) - 1 \in StartBlock(offset) .. ed
        BY <3>1, <3>2, <3>3
      <3>5. dcache'[ed + 1].dirty
        BY <2>2, <3>4, Zenon DEF WrittenSlots, ed
      <3> QED
        BY <3>4, <3>5, Zenon DEF DirtyBlocks
    <2>9. OpenOK'
      BY <2>4, <2>5, <2>6, <2>7, <2>8, Zenon DEF OpenOK
    <2> QED
      BY <1>4, <2>1, <2>3, <2>9, Zenon DEF CacheInv, ClosedOK
  <1> QED
    BY <1>5, <1>6, Zenon

-----------------------------------------------------------------------------
\* The positions of n blocks, and the blocks of a position.
LEMMA BlocksCover ==
  ASSUME NEW p \in Nat, NEW n \in Nat
  PROVE  /\ n * BlockSize \in Nat
         /\ p \div BlockSize < n <=> p < n * BlockSize
  <1> DEFINE b == p \div BlockSize
  <1>1. b \in Nat /\ BlockSize * b <= p /\ p < BlockSize * b + BlockSize
    BY Division, Zenon
  <1> HIDE DEF b
  <1>2. BlockSize \in Nat /\ BlockSize * b \in Nat /\ n * BlockSize \in Nat
    BY <1>1, CacheAssumption
  <1>3. ASSUME b < n PROVE BlockSize * b + BlockSize <= n * BlockSize
    <2>1. BlockSize * (b + 1) = BlockSize * b + BlockSize /\ n * BlockSize = BlockSize * n
      BY <1>1, <1>2
    <2>2. b + 1 \in Nat /\ b + 1 <= n
      BY <1>1, <1>3
    <2>3. \A x, y \in Nat : x <= y => BlockSize * x <= BlockSize * y
      BY <1>2
    <2> QED
      BY <1>2, <2>1, <2>2, <2>3, Zenon
  <1>4. ASSUME n <= b PROVE n * BlockSize <= BlockSize * b
    <2>1. n * BlockSize = BlockSize * n
      BY <1>2
    <2>2. \A x, y \in Nat : x <= y => BlockSize * x <= BlockSize * y
      BY <1>2
    <2> QED
      BY <1>1, <1>4, <2>1, <2>2, Zenon
  <1>5. b < n <=> p < n * BlockSize
    <2>1. b < n \/ n <= b
      BY <1>1
    <2> QED
      BY <1>1, <1>2, <1>3, <1>4, <2>1
  <1> QED
    BY <1>2, <1>5, Zenon DEF b

\* The middleware does not take blocks to be smaller than they are.
LEMMA DefaultCovers ==
  ASSUME Scope, NEW n \in Nat
  PROVE  n * BlockSize <= n * DefaultBlockSize /\ n * DefaultBlockSize \in Nat
  <1>1. BlockSize \in Nat /\ DefaultBlockSize \in Nat /\ BlockSize <= DefaultBlockSize
    BY CacheAssumption, Zenon DEF Scope
  <1>2. \A x, y \in Nat : x <= y => n * x <= n * y
    OBVIOUS
  <1> QED
    BY <1>1, <1>2

\* The first flush stores the blocks in their order.
LEMMA FirstModify ==
  ASSUME Scope, TypeOK, stored = <<>>, NEW m \in Nat, DirtyBlocks = 0 .. m, Modify
  PROVE  /\ Len(stored') = m + 1 /\ isize' = (m + 1) * DefaultBlockSize
         /\ \A i \in 1 .. m + 1 : ~ stored'[i].nul /\ stored'[i].data = dcache[i].data
  <1> DEFINE order == Ascending(DirtyBlocks)
             Rec(names, i) == [nul |-> names[i], data |-> dcache[order[i] + 1].data]
  <1>1. PICK names \in [1 .. Len(order) -> IF NulNames THEN BOOLEAN ELSE {FALSE}] :
          /\ stored' = stored \o [i \in 1 .. Len(order) |-> Rec(names, i)]
          /\ isize' = Len(order) * DefaultBlockSize
    BY Zenon DEF Modify
  <1>2. Len(order) = m + 1 /\ \A i \in 1 .. m + 1 : order[i] = i - 1
    BY AscendingPrefix, Zenon
  <1>3. ~ NulNames
    BY Zenon DEF Scope
  <1> HIDE DEF order
  <1>4. \A i \in 1 .. m + 1 : names[i] = FALSE /\ order[i] + 1 = i
    <2>1. names \in [1 .. m + 1 -> {FALSE}]
      BY <1>1, <1>2, <1>3, Zenon
    <2>2. \A i \in 1 .. m + 1 : order[i] + 1 = i
      BY <1>2
    <2> QED
      BY <2>1, <2>2, Zenon
  <1>5. \A i \in 1 .. m + 1 : ~ Rec(names, i).nul /\ Rec(names, i).data = dcache[i].data
    BY <1>4, Zenon
  <1> HIDE DEF Rec
  <1> DEFINE records == [i \in 1 .. m + 1 |-> Rec(names, i)]
  <1>6. Len(records) = m + 1 /\ records \in Seq({Rec(names, i) : i \in 1 .. m + 1})
    OBVIOUS
  <1>7. stored' = <<>> \o records /\ isize' = (m + 1) * DefaultBlockSize
    BY <1>1, <1>2, Zenon
  <1>8. \A i \in 1 .. m + 1 : records[i] = Rec(names, i)
    OBVIOUS
  <1> HIDE DEF records
  <1>9. stored' = records
    BY <1>6, <1>7
  <1> QED
    BY <1>5, <1>6, <1>7, <1>8, <1>9, Zenon

\* What the flush leaves of the Inode.
LEMMA FlushedInode ==
  ASSUME Flush
  PROVE  /\ MapOK(bm)' /\ SlotsOK(dcache)' /\ OpenOK' /\ ReadCorrect'
         /\ (phase # "open" => result = NoResult)'
  <1>1. /\ dcache' = <<EmptySlot>> /\ bm' = "none" /\ result' = NoResult /\ phase' = "closed"
    BY Zenon DEF Flush
  <1>2. SlotsOK(dcache)'
    <2>1. \A i \in 1 .. Len(dcache') : i = 1
      BY <1>1
    <2>2. ~ dcache'[1].cached /\ ~ dcache'[1].dirty
      BY <1>1, Zenon DEF EmptySlot
    <2> QED
      BY <2>1, <2>2, Zenon DEF SlotsOK
  <1>3. result'.size = 0
    BY <1>1, Zenon DEF NoResult
  <1> QED
    BY <1>1, <1>2, <1>3 DEF MapOK, OpenOK, ReadCorrect

\* The flush stores the file.
LEMMA CacheFlush ==
  ASSUME Scope, TypeInv, CacheInv, Flush
  PROVE  CacheInv'
  <1> DEFINE m == i_size \div BlockSize
  <1>t. /\ TypeOK /\ i_size \in Nat /\ Len(dcache) \in Nat /\ Len(stored) \in Nat
        /\ phase = "open" /\ i_size = Len(content)
    BY Types, Zenon DEF TypeInv, CacheInv, OpenOK, Flush
  <1>m. m \in Nat
    BY <1>t, Division, Zenon
  <1>u. content' = content /\ phase' = "closed"
    BY Zenon DEF Flush
  <1>h. ASSUME NEW p \in 0 .. i_size - 1
        PROVE  /\ p \in Nat /\ p \in 0 .. i_size /\ Held(p)
               /\ p \div BlockSize \in Nat /\ p \div BlockSize <= m
               /\ dcache[(p \div BlockSize) + 1].dirty <=> p \div BlockSize \in DirtyBlocks
    <2>1. p \in Nat /\ p \in 0 .. i_size /\ Held(p)
      BY <1>t DEF CacheInv, OpenOK
    <2> DEFINE b == p \div BlockSize
    <2>2. b \in Nat /\ b <= m /\ b < Len(dcache)
      BY <1>t, <2>1, OpenBlocks, Zenon DEF CacheInv
    <2> HIDE DEF b
    <2>3. b \in 0 .. Len(dcache) - 1
      BY <1>t, <2>2
    <2>4. dcache[b + 1].dirty <=> b \in DirtyBlocks
      BY <2>3, Zenon DEF DirtyBlocks
    <2> QED
      BY <2>1, <2>2, <2>4, Zenon DEF b
  <1>1. CASE DirtyBlocks # {} /\ flushes < MaxFlushes /\ Modify /\ flushes' = flushes + 1
    <2>1. stored = <<>> /\ flushes' # 0
      <3>1. flushes = 0
        BY <1>1, <1>t, CacheAssumption DEF Scope, TypeOK
      <3> QED
        BY <1>1, <3>1 DEF CacheInv, BackendOK
    <2>2. i_size <= MaxSize /\ DirtyBlocks = 0 .. m
      BY <1>t, <1>1, <2>1, Zenon DEF CacheInv, OpenOK
    <2>3. /\ Len(stored') = m + 1 /\ isize' = (m + 1) * DefaultBlockSize
          /\ \A i \in 1 .. m + 1 : ~ stored'[i].nul /\ stored'[i].data = dcache[i].data
      <3> HIDE DEF m
      <3> QED
        BY <1>t, <1>m, <1>1, <2>1, <2>2, FirstModify, Zenon
    <2>4. m + 1 <= BlockMapCover
      <3>1. MaxSize \in Nat /\ BlockMapCover \in Nat
        BY CacheAssumption, Zenon
      <3>2. m <= MaxSize \div BlockSize
        BY <1>t, <2>2, <3>1, BlocksAscend, Zenon
      <3>3. MaxSize \div BlockSize \in Nat /\ MaxSize \div BlockSize < BlockMapCover
        BY <3>1, Division, Zenon DEF Scope
      <3> HIDE DEF m
      <3> QED
        BY <1>m, <3>1, <3>2, <3>3
    <2>5. BackendOK'
      <3> HIDE DEF m
      <3> QED
        BY <1>m, <2>1, <2>3, <2>4, Zenon DEF BackendOK
    <2>6. isize' >= Len(content)
      <3>1. m < m + 1 /\ m + 1 \in Nat
        BY <1>m
      <3>2. i_size < (m + 1) * BlockSize /\ (m + 1) * BlockSize \in Nat
        BY <1>t, <3>1, BlocksCover, Zenon
      <3> HIDE DEF m
      <3>3. (m + 1) * BlockSize <= (m + 1) * DefaultBlockSize /\ (m + 1) * DefaultBlockSize \in Nat
        BY <3>1, DefaultCovers, Zenon
      <3> QED
        BY <1>t, <2>3, <3>2, <3>3
    <2>7. ASSUME NEW p \in 0 .. Len(content) - 1
          PROVE  Lasting(p)'
      <3> DEFINE b == p \div BlockSize
      <3>1. b \in Nat /\ b <= m /\ Held(p) /\ (dcache[b + 1].dirty <=> b \in DirtyBlocks)
        BY <1>t, <1>h, Zenon
      <3>2. b \in 0 .. m /\ b + 1 \in 1 .. m + 1 /\ b < Len(stored')
        <4> HIDE DEF b, m
        <4> QED
          BY <1>m, <2>3, <3>1
      <3>3. stored'[b + 1].data = dcache[b + 1].data /\ dcache[b + 1].dirty
        BY <2>2, <2>3, <3>1, <3>2, Zenon
      <3> QED
        BY <1>u, <3>1, <3>2, <3>3, Zenon DEF Held, Lasting, Agrees
    <2>8. ClosedOK'
      BY <1>u, <2>6, <2>7, Zenon DEF ClosedOK
    <2> QED
      BY <2>5, <2>8, FlushedInode, Zenon DEF CacheInv
  <1>2. CASE DirtyBlocks = {} /\ UNCHANGED <<stored, isize, flushes>>
    <2>1. BackendOK'
      BY <1>2, Zenon DEF CacheInv, BackendOK
    <2>2. ASSUME NEW p \in 0 .. Len(content) - 1
          PROVE  Lasting(p)'
      <3>1. Held(p) /\ ~ dcache[(p \div BlockSize) + 1].dirty
        BY <1>t, <1>h, <1>2, Zenon
      <3> QED
        BY <1>2, <1>u, <3>1, Zenon DEF Held, Lasting
    <2>3. isize >= Len(content)
      <3>1. i_size <= isize
        BY <1>t, <1>2, Zenon DEF CacheInv, OpenOK
      <3> QED
        BY <1>t, <3>1 DEF TypeOK
    <2>4. ClosedOK'
      BY <1>u, <1>2, <2>2, <2>3, Zenon DEF ClosedOK
    <2> QED
      BY <2>1, <2>4, FlushedInode, Zenon DEF CacheInv
  <1> QED
    BY <1>1, <1>2, Zenon DEF Flush, Scope

\* A file that is opened again is what was stored.
LEMMA CacheOpen ==
  ASSUME Scope, TypeInv, CacheInv, Open
  PROVE  CacheInv'
  <1>t. /\ TypeOK /\ isize \in Nat /\ Len(content) \in Nat /\ Len(stored) \in Nat
        /\ phase = "closed" /\ stored # <<>> /\ result = NoResult
    BY Types, Zenon DEF TypeInv, CacheInv, Open
  <1>u. /\ i_size' = isize /\ dcache' = [i \in 1 .. isize \div BlockSize + 1 |-> EmptySlot]
        /\ bm' = "none" /\ phase' = "open" /\ stored' = stored /\ isize' = isize
        /\ result' = result /\ flushes' = flushes
        /\ content' = [i \in 1 .. Max2(Len(content), isize) |->
                         IF i <= Len(content) THEN content[i] ELSE Any]
    BY Zenon DEF Open
  <1>1. isize >= Len(content) /\ \A p \in 0 .. Len(content) - 1 : Lasting(p)
    BY <1>t, Zenon DEF CacheInv, ClosedOK
  <1>2. Len(content') = isize /\ Len(dcache') = isize \div BlockSize + 1 /\ isize \div BlockSize \in Nat
    <2>1. Max2(Len(content), isize) = isize
      BY <1>t, <1>1 DEF Max2
    <2>2. isize \div BlockSize \in Nat
      BY <1>t, Division, Zenon
    <2> QED
      BY <2>1, <2>2, TypeOpen, Zenon
  <1>3. \A i \in 1 .. Len(dcache') : dcache'[i] = EmptySlot
    BY <1>u, <1>2, Zenon
  <1>4. SlotsOK(dcache)'
    BY <1>3 DEF SlotsOK, EmptySlot
  <1>5. BackendOK' /\ MapOK(bm)'
    BY <1>t, <1>u, Zenon DEF CacheInv, BackendOK, MapOK
  <1>6. ASSUME NEW p \in 0 .. isize - 1 PROVE Held(p)'
    <2> DEFINE b == p \div BlockSize
    <2>1. p \in Nat /\ p <= isize /\ p < isize
      BY <1>t
    <2>2. b \in Nat
      BY <2>1, Division, Zenon
    <2>3. b <= isize \div BlockSize
      BY <1>t, <2>1, BlocksAscend, Zenon
    <2> HIDE DEF b
    <2>5. b + 1 \in 1 .. Len(dcache')
      BY <1>2, <2>2, <2>3
    <2>6. ~ dcache'[b + 1].dirty
      BY <1>3, <2>5 DEF EmptySlot
    <2>7. Lasting(p)'
      <3>1. p + 1 \in 1 .. Max2(Len(content), isize)
        BY <1>t, <2>1 DEF Max2
      <3>2. content'[p + 1] = IF p + 1 <= Len(content) THEN content[p + 1] ELSE Any
        BY <1>u, <3>1, Zenon
      <3>3. CASE p + 1 <= Len(content)
        <4>1. p \in 0 .. Len(content) - 1
          BY <1>t, <2>1, <3>3
        <4> QED
          BY <1>1, <1>u, <3>2, <3>3, <4>1, Zenon DEF Lasting
      <3>4. CASE ~ (p + 1 <= Len(content))
        BY <3>2, <3>4, Zenon DEF Lasting
      <3> QED
        BY <3>3, <3>4, Zenon
    <2> QED
      BY <2>6, <2>7, Zenon DEF Held, b
  <1>7. OpenOK'
    <2>1. isize \div BlockSize < Len(dcache')
      BY <1>2
    <2>2. i_size' <= isize'
      BY <1>t, <1>u
    <2> QED
      BY <1>t, <1>u, <1>2, <1>6, <2>1, <2>2, Zenon DEF OpenOK
  <1>8. ReadCorrect'
    <2>1. result'.size = 0
      BY <1>t, <1>u, Zenon DEF NoResult
    <2> QED
      BY <2>1 DEF ReadCorrect
  <1> QED
    BY <1>u, <1>4, <1>5, <1>7, <1>8, Zenon DEF CacheInv, ClosedOK

\* The cache is right at first.
LEMMA CacheInit == Init => CacheInv
  <1> SUFFICES ASSUME Init PROVE CacheInv
    OBVIOUS
  <1>1. /\ i_size = 0 /\ isize = 0 /\ dcache = <<EmptySlot>> /\ bm = "none" /\ stored = <<>>
        /\ content = <<>> /\ result = NoResult /\ phase = "open" /\ flushes = 0
    BY Zenon DEF Init
  <1>2. Len(dcache) = 1 /\ dcache[1] = EmptySlot
    BY <1>1, Zenon
  <1>3. \A i \in 1 .. Len(dcache) : ~ dcache[i].dirty /\ ~ dcache[i].cached
    BY <1>2 DEF EmptySlot
  <1>4. BackendOK /\ MapOK(bm) /\ SlotsOK(dcache)
    BY <1>1, <1>3, CacheAssumption DEF BackendOK, MapOK, SlotsOK
  <1>5. DirtyBlocks = {}
    <2>1. \A b \in 0 .. Len(dcache) - 1 : b + 1 \in 1 .. Len(dcache)
      BY <1>2
    <2> QED
      BY <1>3, <2>1, Zenon DEF DirtyBlocks
  <1>6. OpenOK
    <2>1. 0 \div BlockSize = 0
      BY CacheAssumption
    <2> QED
      BY <1>1, <1>2, <1>5, <2>1, CacheAssumption DEF OpenOK
  <1>7. ClosedOK /\ ReadCorrect
    BY <1>1 DEF ClosedOK, ReadCorrect, NoResult
  <1> QED
    BY <1>1, <1>4, <1>6, <1>7, Zenon DEF CacheInv

\* Every step of this usage keeps the cache right.
LEMMA CacheNext ==
  ASSUME Scope, TypeInv, CacheInv, [Next]_vars
  PROVE  CacheInv'
  <1>1. CASE UNCHANGED vars
    <2>1. /\ i_size' = i_size /\ dcache' = dcache /\ bm' = bm /\ stored' = stored /\ isize' = isize
          /\ content' = content /\ result' = result /\ phase' = phase /\ flushes' = flushes
      BY <1>1, Zenon DEF vars
    <2>2. BackendOK' /\ MapOK(bm)' /\ SlotsOK(dcache)' /\ OpenOK'
      BY <2>1, Zenon DEF CacheInv, BackendOK, MapOK, SlotsOK, StoredBlock, OpenOK, Held, Lasting,
                                DirtyBlocks
    <2> QED
      BY <2>1, <2>2, Zenon DEF CacheInv, ClosedOK, Lasting, ReadCorrect
  <1>2. ASSUME NEW offset \in 0 .. MaxSize - 1, NEW size \in 1 .. MaxRequest, Read(offset, size)
        PROVE  CacheInv'
    <2>1. offset \in Nat /\ size \in Nat
      BY CacheAssumption
    <2> QED
      BY <1>2, <2>1, CacheRead, Zenon
  <1>3. ASSUME NEW v \in 0 .. 1, NEW position \in 0 .. MaxSize - 1, NEW size \in 1 .. MaxRequest,
               position + size <= MaxSize, Write(v, position, size)
        PROVE  CacheInv'
    <2>1. v \in Nat /\ position \in Nat /\ size \in Nat \ {0}
      BY CacheAssumption
    <2> QED
      BY <1>3, <2>1, CacheWrite, Zenon
  <1>4. CASE Flush
    BY <1>4, CacheFlush, Zenon
  <1>5. CASE Open
    BY <1>5, CacheOpen, Zenon
  <1> QED
    BY <1>1, <1>2, <1>3, <1>4, <1>5, Zenon DEF Next

\* CacheInv is inductive in this usage.
LEMMA CacheInvariance ==
  ASSUME Scope
  PROVE  Spec => []CacheInv
  <1>1. TypeInv /\ CacheInv /\ [Next]_vars => CacheInv'
    BY CacheNext, Zenon
  <1> QED
    BY <1>1, CacheInit, TypeInvariance, PTL DEF Spec

\* Whatever is cached, dirty, reloaded, zero-filled or unreadable, a Read that
\* reports success returns the bytes that the file should have, for every block
\* size up to the default, size of the block map and length of the history
\* (RecordCache::Read).
THEOREM ReadsAreCorrect ==
  ASSUME Scope
  PROVE  Spec => []ReadCorrect
  <1>1. CacheInv => ReadCorrect
    BY Zenon DEF CacheInv
  <1> QED
    BY <1>1, CacheInvariance, PTL

\* A file that is closed is stored: the flush loses no byte and no length, as
\* long as the blocks are not larger than the default size that the middleware
\* counts the length in (FlushCache, Modify).
THEOREM ClosedFilesAreStored ==
  ASSUME Scope
  PROVE  Spec => []ClosedIsStored
  <1>1. TypeInv /\ CacheInv => ClosedIsStored
    <2> SUFFICES ASSUME TypeInv, CacheInv, phase = "closed",
                        NEW p \in 0 .. Len(content) - 1, content[p + 1] # Any
                 PROVE  /\ p < isize
                        /\ p \div BlockSize < Len(stored)
                        /\ stored[(p \div BlockSize) + 1].data[p % BlockSize] = content[p + 1]
      BY Zenon DEF ClosedIsStored
    <2>1. isize >= Len(content) /\ Lasting(p)
      BY Zenon DEF CacheInv, ClosedOK
    <2>2. p < isize
      BY <2>1, Types DEF TypeInv, TypeOK
    <2> QED
      BY <2>1, <2>2, Zenon DEF Lasting
  <1> QED
    BY <1>1, CacheInvariance, TypeInvariance, PTL

\* The first flush hands over the blocks of the file without a gap, so that
\* appending their names in Modify is a correct block map.
THEOREM FirstFlushIsWhole ==
  ASSUME Scope
  PROVE  Spec => []FirstFlushIsPrefix
  <1>1. TypeInv /\ CacheInv => FirstFlushIsPrefix
    <2> SUFFICES ASSUME TypeInv, CacheInv, phase = "open", stored = <<>>, i_size > 0
                 PROVE  DirtyBlocks = 0 .. i_size \div BlockSize
      BY Zenon DEF FirstFlushIsPrefix
    <2>1. i_size # 0
      BY Types DEF TypeInv
    <2> QED
      BY <2>1, Zenon DEF CacheInv, OpenOK
  <1> QED
    BY <1>1, CacheInvariance, TypeInvariance, PTL

\* A cached block that is not dirty is the stored one, so that dropping it at
\* the flush loses nothing.
THEOREM CleanBlocksAreStored ==
  ASSUME Scope
  PROVE  Spec => []CleanIsStored
  <1>1. TypeInv /\ CacheInv => CleanIsStored
    <2> SUFFICES ASSUME TypeInv, CacheInv, NEW b \in 0 .. Len(dcache) - 1,
                        dcache[b + 1].cached, ~ dcache[b + 1].dirty
                 PROVE  dcache[b + 1].data = IF b < Len(stored) THEN stored[b + 1].data ELSE ZeroBlock
      BY Zenon DEF CleanIsStored
    <2>1. b + 1 \in 1 .. Len(dcache) /\ (b + 1) - 1 = b
      BY Types DEF TypeInv
    <2> QED
      BY <2>1, Zenon DEF CacheInv, SlotsOK, StoredBlock
  <1> QED
    BY <1>1, CacheInvariance, TypeInvariance, PTL

=============================================================================
