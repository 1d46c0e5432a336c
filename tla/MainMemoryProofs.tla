--------------------------- MODULE MainMemoryProofs ---------------------------
(***************************************************************************)
(* Facts about the address arithmetic, for every line size and every       *)
(* number of sets; and about the page table, which behaves as one array of *)
(* words for every page size that the line size divides.                   *)
(***************************************************************************)
EXTENDS MainMemory, TLAPS

-----------------------------------------------------------------------------
(***************************************************************************)
(* Addresses, sets, tags and blocks.                                       *)
(***************************************************************************)

\* Division with remainder, for a divisor that is not a numeral.
LEMMA DivMod ==
    ASSUME NEW a \in Nat, NEW n \in Nat \ {0}
    PROVE  /\ a \div n \in Nat
           /\ a % n \in 0 .. n - 1
           /\ a = n * (a \div n) + (a % n)
  OBVIOUS

\* ... and it is unique.
LEMMA DivModUnique ==
    ASSUME NEW n \in Nat \ {0}, NEW q \in Nat, NEW r \in 0 .. n - 1
    PROVE  /\ (n * q + r) \div n = q
           /\ (n * q + r) % n = r
  OBVIOUS

LEMMA BlockAddressType ==
    ASSUME NEW a \in Nat
    PROVE  /\ BlockAddress(a) \in Nat
           /\ BlockAddress(a) = LineSize * (a \div LineSize)
           /\ a \div LineSize \in Nat
  BY DivMod, LineSizeAssumption DEF BlockAddress

\* A write finds its data at the offset of its address, a read at the start of
\* the word that holds it.
LEMMA OffsetsOfAccess ==
    ASSUME NEW a \in Nat
    PROVE  /\ WriteOffset(a) = a % LineSize
           /\ ReadOffset(a) \in Nat
           /\ ReadOffset(a) = (a % LineSize) - ((a % LineSize) % WordSize)
<1> DEFINE o == a % LineSize
<1>1. o \in Nat
  BY DivMod, LineSizeAssumption
<1>2. WriteOffset(a) = (o \div WordSize) * WordSize + (o % WordSize)
  BY DEF WriteOffset
<1>3. ReadOffset(a) = (o \div WordSize) * WordSize
  BY DEF ReadOffset
<1> HIDE DEF o
<1>4. /\ o \div WordSize \in Nat
      /\ o % WordSize \in 0 .. WordSize - 1
      /\ o = WordSize * (o \div WordSize) + (o % WordSize)
  BY <1>1, DivMod, WordSizeAssumption
<1>5. (o \div WordSize) * WordSize = WordSize * (o \div WordSize)
  BY <1>4, WordSizeAssumption
<1>6. (o \div WordSize) * WordSize \in Nat
  BY <1>4, WordSizeAssumption
<1>7. o % WordSize \in Nat
  BY <1>4, WordSizeAssumption
<1>8. WriteOffset(a) = o /\ ReadOffset(a) = o - (o % WordSize)
  BY <1>1, <1>2, <1>3, <1>4, <1>5, <1>6, <1>7
<1> QED
  BY <1>3, <1>6, <1>8 DEF o

\* A read looks where a write has put its data exactly if the address is that of
\* a word in its line: the two handlers pass offsets of different kinds to
\* cache_line (lines 95 and 177), and no caller rounds an address.
THEOREM OffsetsAgree ==
    ASSUME NEW a \in Nat
    PROVE  ReadOffset(a) = WriteOffset(a) <=> (a % LineSize) % WordSize = 0
<1>1. a % LineSize \in Nat
  BY DivMod, LineSizeAssumption
<1>2. (a % LineSize) % WordSize \in Nat
  BY <1>1, DivMod, WordSizeAssumption
<1> QED
  BY <1>1, <1>2, OffsetsOfAccess

\* The set, the tag and the offset of an address are in range: the controller
\* indexes its arrays with them.
LEMMA FieldTypes ==
    ASSUME NEW a \in Nat
    PROVE  /\ SetIndex(a) \in Sets
           /\ TagOf(a) \in Nat
           /\ ReadOffset(a) \in Offsets
           /\ WriteOffset(a) \in Offsets
<1>1. BlockAddress(a) \in Nat
  BY BlockAddressType
<1>2. BlockAddress(a) \div LineSize \in Nat
  BY <1>1, DivMod, LineSizeAssumption
<1>3. SetIndex(a) \in Sets
  BY <1>2, DivMod, NumSetsAssumption DEF SetIndex, Sets
<1>4. LineSize * NumSets \in Nat \ {0}
  BY LineSizeAssumption, NumSetsAssumption
<1>5. TagOf(a) \in Nat
  BY <1>1, <1>4, DivMod DEF TagOf
<1>6. ReadOffset(a) \in Offsets /\ WriteOffset(a) \in Offsets
  <2> DEFINE o == a % LineSize
             r == o % WordSize
  <2>1. o \in 0 .. LineSize - 1
    BY DivMod, LineSizeAssumption
  <2>2. r \in Nat
    BY <2>1, DivMod, WordSizeAssumption
  <2>3. WriteOffset(a) = o /\ ReadOffset(a) = o - r /\ ReadOffset(a) \in Nat
    BY OffsetsOfAccess
  <2> HIDE DEF o, r
  <2> QED
    BY <2>1, <2>2, <2>3, LineSizeAssumption DEF Offsets
<1> QED
  BY <1>3, <1>5, <1>6

LEMMA LineAddressType ==
    ASSUME NEW g \in Nat, NEW s \in Sets
    PROVE  LineAddress(g, s) \in Nat
  BY LineSizeAssumption, NumSetsAssumption DEF LineAddress, Sets

\* The block number a \div line_size, which set index and tag split.
LEMMA Fields ==
    ASSUME NEW a \in Nat
    PROVE  /\ SetIndex(a) = (a \div LineSize) % NumSets
           /\ TagOf(a) = (a \div LineSize) \div NumSets
<1> DEFINE n == a \div LineSize
<1>1. n \in Nat /\ BlockAddress(a) = LineSize * n
  BY BlockAddressType
<1>2. BlockAddress(a) \div LineSize = n
  <2>1. LineSize * n = LineSize * n + 0 /\ 0 \in 0 .. LineSize - 1
    BY <1>1, LineSizeAssumption
  <2> QED
    BY <1>1, <2>1, DivModUnique, LineSizeAssumption
<1> DEFINE q == n \div NumSets
           r == n % NumSets
<1>3. q \in Nat /\ r \in 0 .. NumSets - 1 /\ n = NumSets * q + r
  BY <1>1, DivMod, NumSetsAssumption
<1>4. TagOf(a) = q
  <2> HIDE DEF n, q, r
  <2>1. LineSize * n = (LineSize * NumSets) * q + LineSize * r
    BY <1>1, <1>3, LineSizeAssumption, NumSetsAssumption
  <2>2. LineSize * NumSets \in Nat \ {0}
    BY LineSizeAssumption, NumSetsAssumption
  <2>3. LineSize * r \in Nat /\ LineSize * r <= LineSize * (NumSets - 1)
    BY <1>3, LineSizeAssumption, NumSetsAssumption
  <2>4. LineSize * (NumSets - 1) = LineSize * NumSets - LineSize
    BY LineSizeAssumption, NumSetsAssumption
  <2>5. LineSize * r \in 0 .. LineSize * NumSets - 1
    BY <2>2, <2>3, <2>4, LineSizeAssumption
  <2> DEFINE m == LineSize * NumSets
             k == LineSize * r
  <2>6. m \in Nat \ {0} /\ k \in 0 .. m - 1
    BY <2>2, <2>5
  <2>7. TagOf(a) = (m * q + k) \div m
    BY <1>1, <2>1 DEF TagOf
  <2>8. q \in Nat
    BY <1>3
  <2> HIDE DEF m, k
  <2>9. (m * q + k) \div m = q
    BY <2>6, <2>8, DivModUnique
  <2> QED
    BY <2>7, <2>9
<1> QED
  BY <1>2, <1>4 DEF SetIndex

\* handle_cache_eviction writes a victim back to the address its block was
\* loaded from: set index and tag determine the block.
THEOREM LineAddressOfFields ==
    ASSUME NEW a \in Nat
    PROVE  LineAddress(TagOf(a), SetIndex(a)) = BlockAddress(a)
<1> DEFINE n == a \div LineSize
<1>1. n \in Nat /\ BlockAddress(a) = LineSize * n
  BY BlockAddressType
<1>2. /\ TagOf(a) \in Nat /\ SetIndex(a) \in Nat
      /\ n = NumSets * TagOf(a) + SetIndex(a)
  <2>1. SetIndex(a) = n % NumSets /\ TagOf(a) = n \div NumSets
    BY Fields
  <2>2. n \in Nat
    BY <1>1
  <2> HIDE DEF n
  <2>3. /\ n \div NumSets \in Nat /\ n % NumSets \in 0 .. NumSets - 1
        /\ n = NumSets * (n \div NumSets) + (n % NumSets)
    BY <2>2, DivMod, NumSetsAssumption
  <2>4. \A i \in 0 .. NumSets - 1 : i \in Nat
    BY NumSetsAssumption
  <2> QED
    BY <2>1, <2>3, <2>4
<1> HIDE DEF n
<1> QED
  BY <1>1, <1>2, LineSizeAssumption, NumSetsAssumption DEF LineAddress

\* Two addresses have the same set index and tag exactly if they are in the same
\* block: a hit is never on another block's line.
THEOREM FieldsIdentifyBlock ==
    ASSUME NEW a \in Nat, NEW b \in Nat
    PROVE  SetIndex(a) = SetIndex(b) /\ TagOf(a) = TagOf(b)
           <=> BlockAddress(a) = BlockAddress(b)
<1>1. ASSUME SetIndex(a) = SetIndex(b), TagOf(a) = TagOf(b)
      PROVE  BlockAddress(a) = BlockAddress(b)
  BY <1>1, LineAddressOfFields
<1>2. ASSUME BlockAddress(a) = BlockAddress(b)
      PROVE  SetIndex(a) = SetIndex(b) /\ TagOf(a) = TagOf(b)
  BY <1>2 DEF SetIndex, TagOf
<1> QED
  BY <1>1, <1>2

\* Every line, of any set and with any tag, stands for one block, which maps back
\* to that set and tag: no two lines of different tag write back to one address.
THEOREM FieldsOfLineAddress ==
    ASSUME NEW g \in Nat, NEW s \in Sets
    PROVE  SetIndex(LineAddress(g, s)) = s /\ TagOf(LineAddress(g, s)) = g
<1> DEFINE n == NumSets * g + s
<1>1. s \in 0 .. NumSets - 1 /\ n \in Nat
  BY NumSetsAssumption DEF Sets
<1>2. LineAddress(g, s) = LineSize * n + 0 /\ LineAddress(g, s) \in Nat
  BY <1>1, LineSizeAssumption, NumSetsAssumption DEF LineAddress
<1>3. n % NumSets = s /\ n \div NumSets = g
  BY <1>1, DivModUnique, NumSetsAssumption
<1> HIDE DEF n
<1>4. LineAddress(g, s) \div LineSize = n
  BY <1>1, <1>2, DivModUnique, LineSizeAssumption
<1> QED
  BY <1>2, <1>3, <1>4, Fields

-----------------------------------------------------------------------------
(***************************************************************************)
(* The words of a line, and the blocks of a range.                         *)
(***************************************************************************)

LEMMA LineWords ==
    ASSUME NEW g \in Nat, NEW s \in Sets, NEW o \in Offsets, NEW a, a = LineAddress(g, s) + o
    PROVE  /\ a \in Nat
           /\ SetIndex(a) = s /\ TagOf(a) = g /\ a % LineSize = o
           /\ BlockAddress(a) = LineAddress(g, s)
<1> DEFINE n == NumSets * g + s
<1>1. s \in 0 .. NumSets - 1 /\ n \in Nat /\ o \in 0 .. LineSize - 1 /\ o \in Nat
  BY NumSetsAssumption, LineSizeAssumption DEF Sets, Offsets
<1>2. LineAddress(g, s) = LineSize * n /\ LineAddress(g, s) \in Nat
  <2>1. g * NumSets + s = n
    BY NumSetsAssumption
  <2>2. LineAddress(g, s) = n * LineSize
    BY <2>1 DEF LineAddress
  <2> HIDE DEF n
  <2> QED
    BY <1>1, <2>2, LineSizeAssumption
<1>3. n % NumSets = s /\ n \div NumSets = g
  BY <1>1, DivModUnique, NumSetsAssumption
<1> HIDE DEF n
<1>4. a \in Nat /\ a \div LineSize = n /\ a % LineSize = o
  <2>1. a = LineSize * n + o /\ a \in Nat
    BY <1>1, <1>2
  <2> QED
    BY <1>1, <2>1, DivModUnique, LineSizeAssumption
<1>5. SetIndex(a) = s /\ TagOf(a) = g
  BY <1>3, <1>4, Fields
<1> QED
  BY <1>2, <1>4, <1>5, BlockAddressType

\* An address is a word of the line of its set with its tag.
LEMMA WordOfLine ==
    ASSUME NEW a \in Nat
    PROVE  /\ a % LineSize \in Offsets
           /\ a = LineAddress(TagOf(a), SetIndex(a)) + (a % LineSize)
<1>1. /\ a \div LineSize \in Nat /\ a % LineSize \in 0 .. LineSize - 1
      /\ a = LineSize * (a \div LineSize) + (a % LineSize)
  BY DivMod, LineSizeAssumption
<1>2. BlockAddress(a) = LineSize * (a \div LineSize)
  BY BlockAddressType
<1> QED
  BY <1>1, <1>2, LineAddressOfFields DEF Offsets

LEMMA BlockAddressMonotone ==
    ASSUME NEW a \in Nat, NEW b \in Nat, a <= b
    PROVE  BlockAddress(a) <= BlockAddress(b)
<1> DEFINE m == a \div LineSize
           n == b \div LineSize
           i == a % LineSize
           j == b % LineSize
<1>1. /\ m \in Nat /\ i \in 0 .. LineSize - 1 /\ a = LineSize * m + i
      /\ n \in Nat /\ j \in 0 .. LineSize - 1 /\ b = LineSize * n + j
  BY DivMod, LineSizeAssumption
<1>2. BlockAddress(a) = LineSize * m /\ BlockAddress(b) = LineSize * n
  BY BlockAddressType
<1> HIDE DEF m, n, i, j
<1>3. m <= n
  <2> SUFFICES ASSUME n + 1 <= m PROVE FALSE
    BY <1>1
  <2>1. LineSize * (n + 1) <= LineSize * m /\ LineSize * (n + 1) = LineSize * n + LineSize
    BY <1>1, LineSizeAssumption
  <2>2. LineSize * n \in Nat /\ LineSize * m \in Nat
    BY <1>1, LineSizeAssumption
  <2> QED
    BY <1>1, <2>1, <2>2, LineSizeAssumption
<1> QED
  BY <1>1, <1>2, <1>3, LineSizeAssumption

\* The loop of handle_invalidate_request visits every block that has a word in the
\* range, unless the sum that rounds the end up wraps.
THEOREM InvalidateBlocksCover ==
    ASSUME NEW r \in [first : Nat, second : Nat], r.second + LineSize - 1 < UIntMod,
           NEW g \in Nat, NEW s \in Sets, NEW o \in Offsets,
           LineAddress(g, s) + o \in r.first .. r.second
    PROVE  LineAddress(g, s) \in InvalidateBlocks(r)
<1> DEFINE b == LineAddress(g, s)
           a == b + o
           e == r.second + LineSize - 1
<1>1. a \in Nat /\ BlockAddress(a) = b
  BY LineWords
<1>2. b \in Nat /\ BlockAddress(b) = b /\ b % LineSize = 0
  <2>1. 0 \in Offsets /\ b \in Nat /\ b = b + 0
    BY LineSizeAssumption, LineAddressType DEF Offsets
  <2> QED
    BY <2>1, LineWords
<1>3. e \in Nat /\ e % UIntMod = e /\ a <= e /\ r.first <= a
  <2>1. e \in Nat /\ a <= e /\ r.first <= a
    BY <1>1, LineSizeAssumption
  <2>2. e = UIntMod * 0 + e /\ e \in 0 .. UIntMod - 1
    BY <2>1, UIntModAssumption
  <2> HIDE DEF e
  <2>3. e % UIntMod = e
    BY <2>2, DivModUnique, UIntModAssumption
  <2> QED
    BY <2>1, <2>3
<1>4. StartBlock(r) <= b /\ b <= EndBlock(r)
  BY <1>1, <1>3, BlockAddressMonotone DEF StartBlock, EndBlock
<1>5. StartBlock(r) \in Nat /\ EndBlock(r) \in Nat
  BY <1>3, BlockAddressType DEF StartBlock, EndBlock
<1> HIDE DEF b
<1>6. b \in InvalidateBlocks(r)
  BY <1>2, <1>4, <1>5 DEF InvalidateBlocks
<1> QED
  BY <1>6 DEF b

\* ... and no block outside a range whose last address starts a line, wrap or not.
THEOREM InvalidateBlocksSpare ==
    ASSUME NEW r \in [first : Nat, second : Nat], r.second % LineSize = 0,
           NEW b \in InvalidateBlocks(r)
    PROVE  /\ b \in BlockAddress(r.first) .. r.second
           /\ BlockAddress(b) = b
<1> DEFINE e == r.second + LineSize - 1
<1>1. e \in Nat
  BY LineSizeAssumption
<1>2. e % UIntMod \in Nat /\ e % UIntMod <= e
  <2>1. /\ e \div UIntMod \in Nat /\ e % UIntMod \in 0 .. UIntMod - 1
        /\ e = UIntMod * (e \div UIntMod) + (e % UIntMod)
    BY <1>1, DivMod, UIntModAssumption
  <2>2. UIntMod * (e \div UIntMod) \in Nat
    BY <2>1, UIntModAssumption
  <2> QED
    BY <1>1, <2>1, <2>2, UIntModAssumption
<1>3. BlockAddress(e) = r.second
  <2> DEFINE n == r.second \div LineSize
  <2>1. n \in Nat /\ r.second = LineSize * n
    <3>1. n \in Nat /\ r.second = LineSize * n + 0
      BY DivMod, LineSizeAssumption
    <3>2. LineSize * n \in Nat
      BY <3>1, LineSizeAssumption
    <3> QED
      BY <3>1, <3>2
  <2> HIDE DEF n
  <2>2. e = LineSize * n + (LineSize - 1) /\ LineSize - 1 \in 0 .. LineSize - 1
    BY <2>1, LineSizeAssumption
  <2>3. e \div LineSize = n
    BY <2>1, <2>2, DivModUnique, LineSizeAssumption
  <2> QED
    BY <1>1, <2>1, <2>3, BlockAddressType
<1>4. EndBlock(r) <= r.second /\ EndBlock(r) \in Nat /\ StartBlock(r) \in Nat
  BY <1>1, <1>2, <1>3, BlockAddressMonotone, BlockAddressType DEF EndBlock, StartBlock
<1>5. b \in StartBlock(r) .. EndBlock(r) /\ b % LineSize = 0
  BY DEF InvalidateBlocks
<1>6. b \in Nat /\ BlockAddress(b) = b
  <2>1. b \in Nat
    BY <1>4, <1>5
  <2>2. b \div LineSize \in Nat /\ b = LineSize * (b \div LineSize) + 0
    BY <1>5, <2>1, DivMod, LineSizeAssumption
  <2>3. LineSize * (b \div LineSize) \in Nat
    BY <2>2, LineSizeAssumption
  <2> QED
    BY <2>1, <2>2, <2>3, BlockAddressType
<1> QED
  BY <1>4, <1>5, <1>6 DEF StartBlock

-----------------------------------------------------------------------------
(***************************************************************************)
(* The page table.                                                         *)
(***************************************************************************)

\* What the memory holds at an address.
WordAt(pt, a) == ReadMemory(pt, a, 0)

\* A block lies in one page, at the offset of its first address: no transfer of a
\* line reads or writes past the end of a page's vector (main_memory.cpp 27, 46).
THEOREM BlocksStayInPage ==
    ASSUME NEW a \in Nat, NEW o \in Offsets
    PROVE  /\ PageOffset(BlockAddress(a)) + o \in PageOffsets
           /\ PageNumber(BlockAddress(a) + o) = PageNumber(BlockAddress(a))
           /\ PageOffset(BlockAddress(a) + o) = PageOffset(BlockAddress(a)) + o
<1> DEFINE n == a \div LineSize
           k == PageSize \div LineSize
<1>1. n \in Nat /\ BlockAddress(a) = LineSize * n
  BY BlockAddressType
<1>2. k \in Nat \ {0} /\ PageSize = LineSize * k
  <2>1. k \in Nat /\ PageSize = LineSize * k + 0
    BY DivMod, PageSizeAssumption, LineSizeAssumption
  <2> HIDE DEF k
  <2>2. LineSize * k \in Nat
    BY <2>1, LineSizeAssumption
  <2>3. PageSize = LineSize * k
    BY <2>1, <2>2
  <2>4. k # 0
    BY <2>1, <2>3, PageSizeAssumption, LineSizeAssumption
  <2> QED
    BY <2>1, <2>3, <2>4
<1> HIDE DEF n, k
<1> DEFINE q == n \div k
           r == n % k
<1>3. q \in Nat /\ r \in 0 .. k - 1 /\ n = k * q + r
  BY <1>1, <1>2, DivMod
<1> HIDE DEF q, r
<1>4. LineSize * r \in Nat /\ LineSize * r + o \in PageOffsets /\ LineSize * r \in PageOffsets
  <2>1. r \in Nat /\ r <= k - 1 /\ LineSize \in Nat \ {0} /\ o \in Nat /\ o <= LineSize - 1
    BY <1>2, <1>3, LineSizeAssumption DEF Offsets
  <2>2. LineSize * r \in Nat /\ LineSize * r <= LineSize * (k - 1)
    BY <2>1, <1>2
  <2>3. LineSize * (k - 1) = PageSize - LineSize
    BY <2>1, <1>2
  <2> DEFINE m == LineSize * r
             x == LineSize * (k - 1)
  <2>4. m \in Nat /\ m <= x /\ x = PageSize - LineSize
    BY <2>2, <2>3
  <2> HIDE DEF m, x
  <2>5. m \in PageOffsets /\ m + o \in PageOffsets
    BY <2>1, <2>4, PageSizeAssumption DEF PageOffsets
  <2> QED
    BY <2>2, <2>5 DEF m
<1>5. BlockAddress(a) = PageSize * q + LineSize * r
  <2>1. LineSize * (k * q + r) = (LineSize * k) * q + LineSize * r
    BY <1>2, <1>3, LineSizeAssumption
  <2> QED
    BY <1>1, <1>2, <1>3, <2>1
<1> DEFINE m == LineSize * r
           p == PageSize * q
<1>6. m \in PageOffsets /\ m + o \in PageOffsets /\ m \in Nat /\ p \in Nat /\ o \in Nat
  BY <1>3, <1>4, PageSizeAssumption, LineSizeAssumption DEF Offsets
<1>7. BlockAddress(a) = p + m
  BY <1>5
<1>8. \A x \in PageOffsets : (p + x) \div PageSize = q /\ (p + x) % PageSize = x
  BY <1>3, DivModUnique, PageSizeAssumption DEF PageOffsets
<1> HIDE DEF m, p
<1>9. BlockAddress(a) + o = p + (m + o)
  BY <1>6, <1>7
<1> QED
  BY <1>6, <1>7, <1>8, <1>9 DEF PageNumber, PageOffset

\* An address is that of a word of a page.
LEMMA PageFields ==
    ASSUME NEW a \in Nat
    PROVE  /\ PageNumber(a) \in Nat
           /\ PageOffset(a) \in PageOffsets /\ PageOffset(a) \in Nat
           /\ a = PageSize * PageNumber(a) + PageOffset(a)
           /\ PageSize * PageNumber(a) \in Nat
<1>1. /\ a \div PageSize \in Nat
      /\ a % PageSize \in 0 .. PageSize - 1
      /\ a = PageSize * (a \div PageSize) + (a % PageSize)
  BY DivMod, PageSizeAssumption
<1> QED
  BY <1>1, PageSizeAssumption DEF PageNumber, PageOffset, PageOffsets

LEMMA WithPageType ==
    ASSUME NEW pt, IsPageTable(pt), NEW p \in Nat
    PROVE  /\ IsPageTable(WithPage(pt, p))
           /\ DOMAIN WithPage(pt, p) = DOMAIN pt \union {p}
  BY ValuesAssumption DEF WithPage, LoadPage, IsPageTable

LEMMA ReadMemoryType ==
    ASSUME NEW pt, IsPageTable(pt), NEW a \in Nat, NEW i \in Nat,
           PageOffset(a) + i \in PageOffsets
    PROVE  ReadMemory(pt, a, i) \in Values
  BY ValuesAssumption DEF ReadMemory, IsPageTable

LEMMA WriteMemoryType ==
    ASSUME NEW pt, IsPageTable(pt), NEW a \in Nat,
           NEW block, \A i \in DOMAIN block : block[i] \in Values
    PROVE  IsPageTable(WriteMemory(pt, a, block))
<1> DEFINE p == PageNumber(a)
           w == WithPage(pt, p)
<1>1. p \in Nat /\ IsPageTable(w) /\ p \in DOMAIN w
  BY PageFields, WithPageType
<1>2. w[p] \in [PageOffsets -> Values]
  BY <1>1 DEF IsPageTable
<1> DEFINE new == [o \in PageOffsets |->
                     IF o - PageOffset(a) \in DOMAIN block
                     THEN block[o - PageOffset(a)] ELSE w[p][o]]
<1>3. new \in [PageOffsets -> Values]
  BY <1>2
<1>4. WriteMemory(pt, a, block) = [w EXCEPT ![p] = new]
  BY DEF WriteMemory
<1> HIDE DEF new, w, p
<1> QED
  BY <1>1, <1>3, <1>4 DEF IsPageTable

\* Word i of a transfer that stays in its page is the word at address a + i.
THEOREM ReadInPage ==
    ASSUME NEW pt, NEW a \in Nat, NEW i \in Nat, PageOffset(a) + i \in PageOffsets
    PROVE  ReadMemory(pt, a, i) = WordAt(pt, a + i)
<1> DEFINE p == PageNumber(a)
           x == PageOffset(a) + i
<1>1. /\ p \in Nat /\ a = PageSize * p + PageOffset(a)
      /\ PageSize * p \in Nat /\ PageOffset(a) \in Nat
  BY PageFields
<1>2. x \in PageOffsets /\ x \in Nat
  BY <1>1
<1>3. a + i = PageSize * p + x
  BY <1>1
<1> HIDE DEF p, x
<1>4. PageNumber(a + i) = p /\ PageOffset(a + i) = x
  <2>1. p \in Nat /\ x \in 0 .. PageSize - 1
    BY <1>1, <1>2 DEF PageOffsets
  <2>2. (PageSize * p + x) \div PageSize = p /\ (PageSize * p + x) % PageSize = x
    BY <2>1, DivModUnique, PageSizeAssumption
  <2> QED
    BY <1>3, <2>2 DEF PageNumber, PageOffset
<1>5. x + 0 = x
  BY <1>2
<1> QED
  BY <1>4, <1>5 DEF WordAt, ReadMemory, p, x

\* Until a page is written to, its words are zero, as those of a new page.
LEMMA WithPageReads ==
    ASSUME NEW pt, NEW p, NEW b \in Nat
    PROVE  WordAt(WithPage(pt, p), b) = WordAt(pt, b)
<1>1. PageOffset(b) + 0 \in PageOffsets
  BY PageFields
<1> QED
  BY <1>1 DEF WordAt, ReadMemory, WithPage, LoadPage

\* The words of a page precede those of every later one.
LEMMA LaterPage ==
    ASSUME NEW p \in Nat, NEW q \in Nat, p + 1 <= q
    PROVE  /\ PageSize * p + PageSize <= PageSize * q
           /\ \A o \in PageOffsets : PageSize * p + o < PageSize * q
<1>1. PageSize * (p + 1) <= PageSize * q
  BY PageSizeAssumption
<1>2. PageSize * (p + 1) = PageSize * p + PageSize
  BY PageSizeAssumption
<1>3. PageSize * p \in Nat /\ PageSize * q \in Nat
  BY PageSizeAssumption
<1> QED
  BY <1>1, <1>2, <1>3, PageSizeAssumption DEF PageOffsets

\* A write changes the words it covers and no other: main_memory is one flat array
\* to its users, whatever pages are loaded, as long as the transfer stays in one.
THEOREM WriteThenRead ==
    ASSUME NEW pt, NEW a \in Nat, NEW b \in Nat,
           NEW n \in Nat, NEW block, DOMAIN block = 0 .. n - 1,
           PageOffset(a) + n <= PageSize
    PROVE  WordAt(WriteMemory(pt, a, block), b) =
               IF b - a \in 0 .. n - 1 THEN block[b - a] ELSE WordAt(pt, b)
<1> DEFINE p == PageNumber(a)
           w == WithPage(pt, p)
           i == PageOffset(a)
           j == PageOffset(b)
           new == [o \in PageOffsets |->
                     IF o - i \in DOMAIN block THEN block[o - i] ELSE w[p][o]]
<1>1. /\ p \in Nat /\ i \in Nat /\ i \in PageOffsets /\ a = PageSize * p + i
      /\ PageNumber(b) \in Nat /\ j \in Nat /\ j \in PageOffsets
      /\ b = PageSize * PageNumber(b) + j
      /\ PageSize * p \in Nat /\ PageSize * PageNumber(b) \in Nat
  BY PageFields
<1>2. p \in DOMAIN w
  BY DEF WithPage, LoadPage
<1>3. WriteMemory(pt, a, block) = [w EXCEPT ![p] = new]
  BY DEF WriteMemory
<1>4. WordAt(w, b) = WordAt(pt, b)
  BY WithPageReads
<1>5. CASE PageNumber(b) = p
  <2>1. b - a = j - i
    BY <1>1, <1>5
  <2>2. WordAt(WriteMemory(pt, a, block), b) = new[j]
    <3> HIDE DEF new, w, p, j
    <3>1. j + 0 = j
      BY <1>1
    <3> QED
      BY <1>2, <1>3, <1>5, <3>1 DEF WordAt, ReadMemory, j
  <2>3. WordAt(w, b) = w[p][j]
    <3>1. j + 0 = j
      BY <1>1
    <3> QED
      BY <1>2, <1>5, <3>1 DEF WordAt, ReadMemory
  <2> QED
    BY <1>1, <1>4, <2>1, <2>2, <2>3
<1>6. CASE PageNumber(b) # p
  <2>1. WordAt(WriteMemory(pt, a, block), b) = WordAt(w, b)
    <3> HIDE DEF new, w, p
    <3> QED
      BY <1>3, <1>6 DEF WordAt, ReadMemory
  <2>2. b - a \notin 0 .. n - 1
    <3> HIDE DEF p, i, j
    <3>1. PageNumber(b) + 1 <= p => b < a
      BY <1>1, LaterPage DEF PageOffsets
    <3>2. p + 1 <= PageNumber(b) => PageSize * p + PageSize <= PageSize * PageNumber(b)
      BY <1>1, LaterPage
    <3>3. i + n <= PageSize
      BY DEF i
    <3>4. a \in Nat /\ b \in Nat /\ PageSize \in Nat
      BY PageSizeAssumption
    <3>5. p + 1 <= PageNumber(b) => a + n <= b
      BY <1>1, <3>2, <3>3, <3>4
    <3>6. PageNumber(b) + 1 <= p \/ p + 1 <= PageNumber(b)
      BY <1>1, <1>6
    <3> QED
      BY <3>1, <3>4, <3>5, <3>6
  <2> QED
    BY <1>4, <2>1, <2>2
<1> QED
  BY <1>5, <1>6

=============================================================================
