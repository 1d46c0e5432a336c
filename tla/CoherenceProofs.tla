--------------------------- MODULE CoherenceProofs ---------------------------
(***************************************************************************)
(* Where the current value of a word is.  With attributes the controller   *)
(* serves well, a clean line agrees with memory in every word, a dirty one *)
(* is written back before its way is taken, and a request that waits for a *)
(* line finds its own block there.                                         *)
(***************************************************************************)
EXTENDS DisjointClientProofs

-----------------------------------------------------------------------------
(***************************************************************************)
(* The invariant.                                                          *)
(***************************************************************************)

\* The word of main memory at an address.
Mem(a) == WordAt(page_table, a)

\* A write-through hit has written the line, and not memory yet.
AtStore(s, w, o) ==
    /\ pc["write"] = "store"
    /\ s = SetOf("write") /\ w = way["write"] /\ o = WriteOffset(Addr("write"))

\* The line holds what memory holds, but for such a word.
Matches(s, w) ==
    \A o \in Offsets :
        AtStore(s, w, o) \/ data[s][w][o] = Mem(LineAddress(tag[s][w], s) + o)

CoherentLine(s, w) ==
    /\ valid[s][w] /\ ~ dirty[s][w] => Matches(s, w)
    /\ WriteThroughOnly => ~ dirty[s][w]

\* The line that a request has hit or filled is still its block's.
HoldsBlock(t) ==
    LET s == SetOf(t)
        w == way[t]
        g == TagOf(Addr(t))
    IN  /\ tag[s][w] = g
        /\ \A v \in Ways : valid[s][v] /\ tag[s][v] = g => v = w
        /\ valid[s][w] \/ (WriteThroughOnly /\ Matches(s, w))

\* The line a dirty victim is written back from is still the victim's.
HoldsVictim(t) ==
    LET s == SetOf(t)
        w == way[t]
    IN  /\ NoLineDropped
        /\ valid[s][w] /\ dirty[s][w]
        /\ victim[t] = LineAddress(tag[s][w], s)

\* What a thread relies on at each of its waits.
CoherentThread(t) ==
    LET s == SetOf(t)
        w == way[t]
        a == Addr(t)
    IN  /\ pc[t] \in {"hit", "access", "store"} => HoldsBlock(t)
        /\ pc[t] = "evict" => HoldsVictim(t)
        /\ pc[t] = "fill" => ~ (valid[s][w] /\ dirty[s][w])
        /\ pc[t] \in {"direct", "through"} => NotCached(s, TagOf(a)) /\ ~ Allocates(t)
        /\ pc[t] = "store" => data[s][w][WriteOffset(a)] = gp[t].data
        /\ t = "read" => pc[t] \notin {"direct", "through", "store"}
        /\ t = "write" /\ pc[t] \in {"evict", "fill", "access"} => Policy(t) = "write_back"
        /\ t = "write" /\ pc[t] = "access" => dirty[s][w]
        /\ NoLineDropped /\ InFlight(t) => Live(t)

Coherent ==
    /\ \A s \in Sets, w \in Ways : CoherentLine(s, w)
    /\ \A t \in Requesters : CoherentThread(t)

-----------------------------------------------------------------------------
(***************************************************************************)
(* Memory.                                                                 *)
(***************************************************************************)

\* A word of one line of a set is no word of another.
LEMMA DistinctWords ==
    ASSUME NEW g \in Nat, NEW h \in Nat, NEW s \in Sets, NEW o \in Offsets, NEW p \in Offsets,
           LineAddress(g, s) + o = LineAddress(h, s) + p
    PROVE  g = h /\ o = p
<1> DEFINE a == LineAddress(g, s) + o
<1>1. TagOf(a) = g /\ a % LineSize = o
  BY LineWords
<1>2. TagOf(a) = h /\ a % LineSize = p
  BY LineWords
<1> QED
  BY <1>1, <1>2

LEMMA AddressOfWord ==
    ASSUME NEW a \in Nat
    PROVE  a = LineAddress(TagOf(a), SetIndex(a)) + WriteOffset(a)
  BY WordOfLine, OffsetsOfAccess

\* load_block_from_memory fetches the words of the block.
LEMMA MemoryBlockWords ==
    ASSUME NEW a \in Nat, NEW o \in Offsets
    PROVE  MemoryBlock(a)[o] = Mem(LineAddress(TagOf(a), SetIndex(a)) + o)
<1>1. BlockAddress(a) = LineAddress(TagOf(a), SetIndex(a)) /\ BlockAddress(a) \in Nat
  BY LineAddressOfFields, BlockAddressType
<1>2. o \in Nat
  BY LineSizeAssumption DEF Offsets
<1>3. PageOffset(BlockAddress(a)) + o \in PageOffsets
  BY BlocksStayInPage
<1> QED
  BY <1>1, <1>2, <1>3, ReadInPage DEF MemoryBlock, Mem

\* A store of a word changes that word.
LEMMA StoreChanges ==
    ASSUME TypeOK, NEW t \in Requesters, pc[t] # "get", StoreWord(t), NEW b \in Nat
    PROVE  Mem(b)' = IF b = Addr(t) THEN gp[t].data ELSE Mem(b)
<1> DEFINE block == [i \in {0} |-> gp[t].data]
<1>1. PICK a \in Nat : a = Addr(t)
  BY RequestTypes
<1>2. PageOffset(a) \in PageOffsets
  BY <1>1, PageFields
<1>3. PageOffset(a) + 1 <= PageSize
  BY <1>2, PageSizeAssumption DEF PageOffsets
<1>4. DOMAIN block = 0 .. 1 - 1
  OBVIOUS
<1>5. page_table' = WriteMemory(page_table, a, block)
  BY <1>1 DEF StoreWord
<1> HIDE DEF block
<1>6. WordAt(page_table', b) = IF b - a \in 0 .. 1 - 1 THEN block[b - a] ELSE WordAt(page_table, b)
  <2>1. \A n \in Nat : DOMAIN block = 0 .. n - 1 /\ PageOffset(a) + n <= PageSize =>
           WordAt(WriteMemory(page_table, a, block), b) =
               IF b - a \in 0 .. n - 1 THEN block[b - a] ELSE WordAt(page_table, b)
    BY WriteThenRead
  <2> QED
    BY <1>3, <1>4, <1>5, <2>1
<1>7. b - a \in 0 .. 1 - 1 <=> b = a
  OBVIOUS
<1>8. b = a => b - a = 0
  OBVIOUS
<1>9. block[0] = gp[t].data
  BY DEF block
<1>10. Mem(b)' = WordAt(page_table', b) /\ Mem(b) = WordAt(page_table, b)
  BY DEF Mem
<1>11. WordAt(page_table', b) = IF b = a THEN gp[t].data ELSE WordAt(page_table, b)
  <2>1. CASE b = a
    BY <1>6, <1>7, <1>8, <1>9, <2>1
  <2>2. CASE b # a
    BY <1>6, <1>7, <2>2
  <2> QED
    BY <2>1, <2>2
<1> QED
  BY <1>1, <1>10, <1>11

\* A victim's words go to memory, and no other.
LEMMA WriteBackChanges ==
    ASSUME TypeOK, NEW t \in Requesters, WriteBackVictim(t),
           NEW s \in Sets, NEW w \in Ways, s = SetOf(t), w = way[t],
           victim[t] = LineAddress(tag[s][w], s), NEW h \in Nat, NEW q \in Sets, NEW p \in Offsets
    PROVE  Mem(LineAddress(h, q) + p)' =
               IF q = s /\ h = tag[s][w] THEN data[s][w][p] ELSE Mem(LineAddress(h, q) + p)
<1>1. PICK g \in Nat : g = tag[s][w]
  BY DEF TypeOK
<1>2. PICK v \in Nat : v = LineAddress(g, s)
  BY LineAddressType
<1>3. PICK b \in Nat : b = LineAddress(h, q) + p
  BY LineWords
<1>4. DOMAIN data[s][w] = 0 .. LineSize - 1 /\ LineSize \in Nat
  BY LineSizeAssumption DEF TypeOK, Offsets
<1>5. PageOffset(v) + LineSize <= PageSize
  <2>1. LineSize - 1 \in Offsets
    BY LineSizeAssumption DEF Offsets
  <2>2. BlockAddress(v) = v
    <3>1. 0 \in Offsets /\ v + 0 = v
      BY LineSizeAssumption DEF Offsets
    <3> QED
      BY <1>2, <3>1, LineWords
  <2>3. PageOffset(v) + (LineSize - 1) \in PageOffsets
    <3>1. PageOffset(BlockAddress(v)) + (LineSize - 1) \in PageOffsets
      BY <2>1, BlocksStayInPage
    <3> QED
      BY <2>2, <3>1
  <2>4. PageOffset(v) \in Nat
    BY PageFields
  <2> QED
    BY <2>3, <2>4, LineSizeAssumption, PageSizeAssumption DEF PageOffsets
<1>6. page_table' = WriteMemory(page_table, v, data[s][w])
  BY <1>1, <1>2 DEF WriteBackVictim
<1>7. WordAt(page_table', b) = IF b - v \in 0 .. LineSize - 1 THEN data[s][w][b - v]
                               ELSE WordAt(page_table, b)
  <2>1. WordAt(WriteMemory(page_table, v, data[s][w]), b) =
            IF b - v \in 0 .. LineSize - 1 THEN data[s][w][b - v] ELSE WordAt(page_table, b)
    BY <1>4, <1>5, WriteThenRead
  <2> QED
    BY <1>6, <2>1
<1>8. CASE q = s /\ h = g
  <2>1. b - v = p /\ p \in 0 .. LineSize - 1
    BY <1>2, <1>3, <1>8, LineSizeAssumption DEF Offsets
  <2> QED
    BY <1>1, <1>3, <1>7, <1>8, <2>1 DEF Mem
<1>9. CASE ~ (q = s /\ h = g)
  <2>1. ASSUME b - v \in 0 .. LineSize - 1
        PROVE  FALSE
    <3>1. PICK o \in Offsets : o = b - v
      BY <2>1 DEF Offsets
    <3>2. b = LineAddress(g, s) + o
      BY <1>2, <3>1
    <3>3. SetIndex(b) = s /\ TagOf(b) = g
      BY <3>2, LineWords
    <3>4. SetIndex(b) = q /\ TagOf(b) = h
      BY <1>3, LineWords
    <3> QED
      BY <1>9, <3>3, <3>4
  <2> QED
    BY <1>1, <1>3, <1>7, <1>9, <2>1 DEF Mem
<1> QED
  BY <1>8, <1>9

-----------------------------------------------------------------------------
(***************************************************************************)
(* What a step leaves alone.                                               *)
(***************************************************************************)

LEMMA SafeRequests ==
    ASSUME TypeOK, SafeAttributes, NEW t \in Requesters, pc[t] # "get"
    PROVE  /\ Policy(t) # "internal"
           /\ t = "read" => Allocates(t) /\ (NoLineDropped => Policy(t) = "write_back")
           /\ t = "write" => /\ Policy(t) \in {"write_back", "write_through"}
                             /\ Policy(t) = "write_through" => ~ Allocates(t)
                             /\ WriteThroughOnly => Policy(t) = "write_through"
<1>1. t \in Channels /\ (t = "read" \/ t = "write")
  BY DEF Requesters, Channels
<1>2. CASE t = "read"
  <2>1. gp[t].cache \in ReadAttrs
    BY <1>1, <1>2 DEF TypeOK, Served
  <2> QED
    BY <1>2, <2>1 DEF SafeAttributes, NoLineDropped, Policy, Allocates
<1>3. CASE t = "write"
  <2>1. gp[t].cache \in WriteAttrs
    BY <1>1, <1>3 DEF TypeOK, Served, Messages
  <2> QED
    BY <1>3, <2>1 DEF SafeAttributes, WriteThroughOnly, Policy, Allocates
<1> QED
  BY <1>1, <1>2, <1>3

\* A line that a step does not change, but to drop it, whose words in memory it
\* does not change either.
KeptLine(s, w) ==
    /\ valid'[s][w] => valid[s][w]
    /\ dirty'[s][w] = dirty[s][w] /\ tag'[s][w] = tag[s][w] /\ data'[s][w] = data[s][w]
    /\ \A o \in Offsets : AtStore(s, w, o) => AtStore(s, w, o)'

KeptBlock(s, g) ==
    \A o \in Offsets : Mem(LineAddress(g, s) + o)' = Mem(LineAddress(g, s) + o)

LEMMA MatchesKept ==
    ASSUME NEW s \in Sets, NEW w \in Ways, NEW g, g = tag[s][w],
           Matches(s, w), KeptLine(s, w), KeptBlock(s, g)
    PROVE  Matches(s, w)'
<1> SUFFICES ASSUME NEW o \in Offsets, ~ AtStore(s, w, o)'
             PROVE  data'[s][w][o] = Mem(LineAddress(tag[s][w], s) + o)'
  BY DEF Matches
<1>1. data[s][w][o] = Mem(LineAddress(g, s) + o)
  BY DEF Matches, KeptLine
<1>2. tag'[s][w] = g
  BY DEF KeptLine
<1> QED
  BY <1>1, <1>2 DEF KeptLine, KeptBlock, Mem

LEMMA LineKept ==
    ASSUME NEW s \in Sets, NEW w \in Ways, NEW g, g = tag[s][w],
           CoherentLine(s, w), KeptLine(s, w), valid[s][w] => KeptBlock(s, g)
    PROVE  CoherentLine(s, w)'
  BY MatchesKept DEF CoherentLine, KeptLine

\* What a thread relies on, under a step that is not its own.
LEMMA ThreadKept ==
    ASSUME TypeOK, NEW u \in Requesters, NEW s \in Sets, pc[u] # "get" => s = SetOf(u),
           CoherentThread(u), SameThread(u),
           \A w \in Ways : CoherentLine(s, w) /\ KeptLine(s, w),
           \A g \in Nat : KeptBlock(s, g),
           \/ valid'[s] = valid[s] /\ ongoing_requests'[s] = ongoing_requests[s]
           \/ WriteThroughOnly /\ ~ NoLineDropped
    PROVE  CoherentThread(u)'
<1>1. SetOf(u)' = SetOf(u) /\ Addr(u)' = Addr(u) /\ Key(u)' = Key(u) /\ Policy(u)' = Policy(u)
      /\ Allocates(u)' = Allocates(u)
  BY DEF SameThread, SetOf, Addr, Key, Policy, Allocates
<1>2. CASE pc[u] = "get"
  BY <1>2 DEF CoherentThread, SameThread, InFlight, WaitsWithWay
<1>3. CASE pc[u] # "get"
  <2>1. s = SetOf(u) /\ TagOf(Addr(u)) \in Nat /\ u \in Channels
    BY <1>3, RequestTypes DEF Requesters, Channels
  <2>2. NotCached(s, TagOf(Addr(u))) => NotCached(s, TagOf(Addr(u)))'
    BY <1>1 DEF NotCached, KeptLine
  <2>3. pc[u] \in {"hit", "access", "store"} => HoldsBlock(u)'
    <3> SUFFICES ASSUME pc[u] \in {"hit", "access", "store"} PROVE HoldsBlock(u)'
      OBVIOUS
    <3>1. PICK w \in Ways : w = way[u]
      BY DEF TypeOK, WaitsWithWay
    <3>2. HoldsBlock(u)
      BY DEF CoherentThread
    <3>3. tag'[s][w] = tag[s][w] /\ way'[u] = w
      BY <3>1 DEF KeptLine, SameThread
    <3>4. Matches(s, w) => Matches(s, w)'
      <4>1. PICK g \in Nat : g = tag[s][w]
        BY DEF TypeOK
      <4> QED
        BY <4>1, MatchesKept
    <3>5. valid'[s][w] \/ (WriteThroughOnly /\ Matches(s, w)')
      <4>1. CASE valid[s][w]
        <5>1. CASE WriteThroughOnly
          BY <3>4, <4>1, <5>1 DEF CoherentLine
        <5> QED
          BY <4>1, <5>1
      <4>2. CASE ~ valid[s][w]
        BY <2>1, <3>1, <3>2, <3>4, <4>2 DEF HoldsBlock
      <4> QED
        BY <4>1, <4>2
    <3>6. \A v \in Ways : valid'[s][v] /\ tag'[s][v] = TagOf(Addr(u)) => v = w
      BY <2>1, <3>1, <3>2 DEF HoldsBlock, KeptLine
    <3>7. tag'[s][w] = TagOf(Addr(u))
      BY <2>1, <3>1, <3>2, <3>3 DEF HoldsBlock
    <3> QED
      BY <1>1, <2>1, <3>3, <3>5, <3>6, <3>7 DEF HoldsBlock, WriteThroughOnly
  <2>4. pc[u] = "evict" => HoldsVictim(u)'
    <3> SUFFICES ASSUME pc[u] = "evict" PROVE HoldsVictim(u)'
      OBVIOUS
    <3>1. PICK w \in Ways : w = way[u]
      BY DEF TypeOK, WaitsWithWay
    <3>2. HoldsVictim(u) /\ NoLineDropped
      BY DEF CoherentThread, HoldsVictim
    <3> QED
      BY <1>1, <2>1, <3>1, <3>2 DEF HoldsVictim, KeptLine, SameThread, NoLineDropped
  <2>5. \A w \in Ways : valid'[s][w] /\ dirty'[s][w] => valid[s][w] /\ dirty[s][w]
    BY DEF KeptLine
  <2>6. pc[u] \in {"fill", "store", "access"} => way[u] \in Ways
    BY DEF TypeOK, WaitsWithWay
  <2>7. NoLineDropped /\ InFlight(u) => Live(u)'
    BY <1>1, <2>1 DEF CoherentThread, Live
  <2> QED
    BY <1>1, <2>1, <2>2, <2>3, <2>4, <2>5, <2>6, <2>7
    DEF CoherentThread, SameThread, KeptLine, InFlight, NoLineDropped
<1> QED
  BY <1>2, <1>3

\* A step of a request changes memory in its own set.
LEMMA OtherMemory ==
    ASSUME TypeOK, Coherent, NEW t \in Requesters, Start(t) \/ HandlerStep(t),
           NEW a \in Nat, SetIndex(a) # SetOf(t)
    PROVE  Mem(a)' = Mem(a)
<1>1. pc[t] # "get"
  BY EnterChanges, HandlerChanges DEF InFlight, WaitsWithWay
<1>2. CASE StoreWord(t)
  <2>1. a # Addr(t)
    BY DEF SetOf
  <2> QED
    BY <1>1, <1>2, <2>1, StoreChanges
<1>3. CASE WriteBackVictim(t)
  <2>1. PICK s \in Sets : s = SetOf(t)
    BY <1>1, RequestTypes
  <2>2. PICK w \in Ways : w = way[t]
    BY <1>3 DEF WriteBackVictim, TypeOK, WaitsWithWay
  <2>3. victim[t] = LineAddress(tag[s][w], s)
    BY <1>3, <2>1, <2>2 DEF WriteBackVictim, Coherent, CoherentThread, HoldsVictim
  <2>4. PICK h \in Nat, q \in Sets, p \in Offsets :
           a = LineAddress(h, q) + p /\ q = SetIndex(a)
    BY WordOfLine, FieldTypes
  <2>5. q # s
    BY <2>1, <2>4
  <2> QED
    BY <1>3, <2>1, <2>2, <2>3, <2>4, <2>5, WriteBackChanges
<1>4. CASE ~ StoreWord(t) /\ ~ WriteBackVictim(t)
  <2>1. UNCHANGED page_table
    BY <1>4 DEF Start, StartInternal, StartHit, StartThrough, StartBypass, StartFill,
         StartEvict, Miss, Enter,
         HandlerStep, ReadDirect, ReadLine, WriteAccess, WriteDirect, WriteBackHit,
         WriteThroughHit, WriteThroughStore, WriteThroughMiss, AllocatedWrite,
         WriteThroughAllocate, FillLine
  <2> QED
    BY <2>1 DEF Mem
<1> QED
  BY <1>2, <1>3, <1>4

\* ... and leaves a store of another request as it is.
LEMMA OtherStore ==
    ASSUME TypeOK, ClientRule, NEW t \in Requesters, Start(t) \/ HandlerStep(t),
           NEW s \in Sets, NEW w, NEW o, s # SetOf(t) \/ t = "read"
    PROVE  /\ AtStore(s, w, o) => AtStore(s, w, o)'
           /\ s = SetOf(t) => ~ AtStore(s, w, o) /\ ~ AtStore(s, w, o)'
<1>1. pc[t] # "get" /\ SetOf(t)' = SetOf(t)
  BY EnterChanges, HandlerChanges DEF InFlight, WaitsWithWay, SetOf, Addr
<1>2. CASE t = "write"
  BY <1>2 DEF AtStore
<1>3. CASE t = "read"
  <2>1. SameThread("write") /\ SetOf("write")' = SetOf("write") /\ Addr("write")' = Addr("write")
    BY <1>3, OtherThread DEF Requesters, SameThread, SetOf, Addr
  <2>2. pc["write"] = "store" => SetOf("write") # SetOf(t)
    BY <1>1, <1>3, HandledApart DEF Requesters
  <2> QED
    BY <2>1, <2>2 DEF AtStore, SameThread
<1> QED
  BY <1>2, <1>3 DEF Requesters

LEMMA OtherSetKept ==
    ASSUME TypeOK, ClientRule, Coherent, NEW t \in Requesters, Start(t) \/ HandlerStep(t),
           NEW s \in Sets \ {SetOf(t)}
    PROVE  /\ \A w \in Ways : KeptLine(s, w) /\ CoherentLine(s, w)'
           /\ \A g \in Nat : KeptBlock(s, g)
<1>1. \A w \in Ways : KeptLine(s, w)
  BY OtherSets, OtherStore DEF SameSet, KeptLine
<1>2. \A g \in Nat : KeptBlock(s, g)
  <2> SUFFICES ASSUME NEW g \in Nat, NEW o \in Offsets
               PROVE  Mem(LineAddress(g, s) + o)' = Mem(LineAddress(g, s) + o)
    BY DEF KeptBlock
  <2>1. PICK a \in Nat : a = LineAddress(g, s) + o /\ SetIndex(a) = s
    BY LineWords
  <2> QED
    BY <2>1, OtherMemory
<1>3. ASSUME NEW w \in Ways
      PROVE  CoherentLine(s, w)'
  <2>1. PICK g \in Nat : g = tag[s][w]
    BY DEF TypeOK
  <2> QED
    BY <1>1, <1>2, <2>1, LineKept DEF Coherent
<1> QED
  BY <1>1, <1>2, <1>3

-----------------------------------------------------------------------------
(***************************************************************************)
(* The lines of a request's own set, step by step.                         *)
(***************************************************************************)

\* The lines but the one the request works on.
LEMMA OtherLines ==
    ASSUME TypeOK, NEW s \in Sets, NEW W \in SUBSET Ways, NEW a \in Nat, SetIndex(a) = s,
           \A v \in W : /\ CoherentLine(s, v) /\ KeptLine(s, v)
                        /\ valid[s][v] => tag[s][v] # TagOf(a),
           \A b \in Nat : b # a => Mem(b)' = Mem(b)
    PROVE  \A v \in W : CoherentLine(s, v)'
<1> SUFFICES ASSUME NEW v \in W PROVE CoherentLine(s, v)'
  OBVIOUS
<1>1. PICK g \in Nat : g = tag[s][v]
  BY DEF TypeOK
<1>2. ASSUME valid[s][v]
      PROVE  KeptBlock(s, g)
  <2> SUFFICES ASSUME NEW o \in Offsets
               PROVE  Mem(LineAddress(g, s) + o)' = Mem(LineAddress(g, s) + o)
    BY DEF KeptBlock
  <2>1. PICK b \in Nat : b = LineAddress(g, s) + o /\ TagOf(b) = g
    BY LineWords
  <2>2. b # a
    BY <1>1, <1>2, <2>1
  <2> QED
    BY <2>1, <2>2
<1> QED
  BY <1>1, <1>2, LineKept

\* The request and the names its proof uses for it.
Handling(t, s, a, w) ==
    t \in Requesters /\ pc[t] # "get" /\ s = SetOf(t) /\ a = Addr(t) /\ w = way[t]

LEMMA HandlingTypes ==
    ASSUME TypeOK, NEW t, NEW s, NEW a, NEW w, Handling(t, s, a, w)
    PROVE  /\ s \in Sets /\ a \in Nat /\ SetIndex(a) = s /\ TagOf(a) \in Nat
           /\ WriteOffset(a) \in Offsets /\ t \in Channels
           /\ pc[t] \in WaitsWithWay => w \in Ways
           /\ t = "write" => gp[t].data \in Values
<1>1. t \in Requesters /\ t \in Channels
  BY DEF Handling, Requesters, Channels
<1>2. t = "write" => gp[t] \in Served("write")
  BY <1>1 DEF Handling, TypeOK
<1> QED
  BY <1>1, <1>2, RequestTypes, WriteData DEF Handling, SetOf, Addr, TypeOK

\* Only the line a request works on can be the one a write-through stores from.
LEMMA StoresFrom ==
    ASSUME TypeOK, ClientRule, NEW t, NEW s, NEW a, NEW w, Handling(t, s, a, w),
           Start(t) \/ HandlerStep(t), NEW v, v # w \/ pc[t] # "store", NEW o
    PROVE  ~ AtStore(s, v, o)
<1>1. CASE t = "write"
  BY <1>1 DEF AtStore, Handling
<1>2. CASE t = "read"
  <2>1. s \in Sets
    BY HandlingTypes
  <2> QED
    BY <1>2, <2>1, OtherStore DEF Handling
<1> QED
  BY <1>1, <1>2 DEF Handling, Requesters

\* Steps that change no line and no memory.
LEMMA LinesAlone ==
    ASSUME TypeOK, ClientRule, Coherent, NEW t, NEW s, NEW a, NEW w, Handling(t, s, a, w),
           Start(t) \/ HandlerStep(t), pc[t] # "store", UNCHANGED <<lineVars, page_table>>
    PROVE  \A v \in Ways : CoherentLine(s, v)'
<1> SUFFICES ASSUME NEW v \in Ways PROVE CoherentLine(s, v)'
  OBVIOUS
<1>1. s \in Sets
  BY HandlingTypes
<1>2. KeptLine(s, v)
  BY StoresFrom DEF KeptLine, lineVars
<1>3. PICK g \in Nat : g = tag[s][v]
  BY <1>1 DEF TypeOK
<1>4. KeptBlock(s, g)
  BY DEF KeptBlock, Mem
<1> QED
  BY <1>1, <1>2, <1>3, <1>4, LineKept DEF Coherent

\* A store past the cache: no line holds the word.
LEMMA LinesAfterDirect ==
    ASSUME TypeOK, ClientRule, Coherent, NEW s, NEW a, NEW w, Handling("write", s, a, w),
           HandlerStep("write"), pc["write"] \in {"direct", "through"}, StoreWord("write"),
           UNCHANGED lineVars
    PROVE  \A v \in Ways : CoherentLine(s, v)'
<1>1. s \in Sets /\ a \in Nat /\ SetIndex(a) = s
  BY HandlingTypes
<1>2. NotCached(s, TagOf(a))
  BY DEF Handling, Coherent, CoherentThread
<1>3. \A v \in Ways : /\ CoherentLine(s, v) /\ KeptLine(s, v)
                      /\ valid[s][v] => tag[s][v] # TagOf(a)
  BY <1>1, <1>2, StoresFrom DEF Coherent, KeptLine, NotCached, lineVars
<1>4. \A b \in Nat : b # a => Mem(b)' = Mem(b)
  BY StoreChanges DEF Handling
<1> QED
  BY <1>1, <1>3, <1>4, OtherLines

\* The line of a request, and the others of its set.
LEMMA OwnLine ==
    ASSUME TypeOK, Coherent, NEW t, NEW s, NEW a, NEW w, Handling(t, s, a, w),
           pc[t] \in {"hit", "access", "store"}
    PROVE  /\ s \in Sets /\ w \in Ways /\ a \in Nat /\ SetIndex(a) = s
           /\ tag[s][w] = TagOf(a)
           /\ \A v \in Ways \ {w} : valid[s][v] => tag[s][v] # TagOf(a)
           /\ valid[s][w] \/ (WriteThroughOnly /\ Matches(s, w))
           /\ CoherentLine(s, w)
<1>1. s \in Sets /\ w \in Ways /\ a \in Nat /\ SetIndex(a) = s
  BY HandlingTypes DEF WaitsWithWay
<1>2. HoldsBlock(t)
  BY DEF Handling, Coherent, CoherentThread
<1> QED
  BY <1>1, <1>2 DEF Handling, HoldsBlock, Coherent

\* A write to the line: it gets dirty, or its store to memory follows.
LEMMA LinesAfterWrite ==
    ASSUME TypeOK, SafeAttributes, ClientRule, Coherent,
           NEW s, NEW a, NEW w, Handling("write", s, a, w), HandlerStep("write"),
           pc["write"] \in {"hit", "access"},
           WriteWord("write"), UNCHANGED <<valid, tag, page_table>>,
           \A v \in Ways \ {w} : dirty'[s][v] = dirty[s][v],
           Policy("write") = "write_back" /\ dirty'[s][w]
    PROVE  \A v \in Ways : CoherentLine(s, v)'
<1>1. /\ s \in Sets /\ w \in Ways /\ a \in Nat /\ SetIndex(a) = s
      /\ \A v \in Ways \ {w} : valid[s][v] => tag[s][v] # TagOf(a)
  BY OwnLine
<1>2. \A v \in Ways \ {w} : data'[s][v] = data[s][v]
  BY <1>1 DEF WriteWord, Handling, TypeOK
<1>3. \A v \in Ways \ {w} : /\ CoherentLine(s, v) /\ KeptLine(s, v)
                            /\ valid[s][v] => tag[s][v] # TagOf(a)
  BY <1>1, <1>2, StoresFrom DEF Coherent, KeptLine
<1>4. \A b \in Nat : b # a => Mem(b)' = Mem(b)
  BY DEF Mem
<1>5. \A v \in Ways \ {w} : CoherentLine(s, v)'
  BY <1>1, <1>3, <1>4, OtherLines
<1>6. ~ WriteThroughOnly
  BY SafeRequests DEF Handling
<1>7. CoherentLine(s, w)'
  BY <1>6 DEF CoherentLine, WriteThroughOnly
<1> QED
  BY <1>5, <1>7

LEMMA LinesAfterHit ==
    ASSUME TypeOK, ClientRule, Coherent,
           NEW s, NEW a, NEW w, Handling("write", s, a, w), WriteThroughHit
    PROVE  /\ \A v \in Ways : CoherentLine(s, v)'
           /\ data'[s][w][WriteOffset(a)] = gp["write"].data
           /\ valid'[s][w] \/ (WriteThroughOnly /\ Matches(s, w)')
<1>1. /\ s \in Sets /\ w \in Ways /\ a \in Nat /\ SetIndex(a) = s
      /\ \A v \in Ways \ {w} : valid[s][v] => tag[s][v] # TagOf(a)
      /\ valid[s][w] \/ (WriteThroughOnly /\ Matches(s, w))
      /\ CoherentLine(s, w)
  BY OwnLine DEF WriteThroughHit
<1>2. WriteOffset(a) \in Offsets /\ "write" \in Channels /\ HandlerStep("write")
  BY HandlingTypes DEF HandlerStep, WriteAccess
<1>3. data' = [data EXCEPT ![s][w][WriteOffset(a)] = gp["write"].data]
  BY DEF WriteThroughHit, WriteWord, Handling
<1>4. /\ \A v \in Ways \ {w} : data'[s][v] = data[s][v]
      /\ data'[s][w] = [data[s][w] EXCEPT ![WriteOffset(a)] = gp["write"].data]
      /\ data[s][w] \in [Offsets -> Values]
  BY <1>1, <1>3 DEF TypeOK
<1>5. UNCHANGED <<valid, dirty, tag, page_table, gp, way>>
      /\ pc["write"] = "hit" /\ pc'["write"] = "store"
  BY <1>2 DEF WriteThroughHit, locals, Goto, TypeOK
<1>6. \A v \in Ways \ {w} : /\ CoherentLine(s, v) /\ KeptLine(s, v)
                            /\ valid[s][v] => tag[s][v] # TagOf(a)
  BY <1>1, <1>2, <1>4, <1>5, StoresFrom DEF Coherent, KeptLine
<1>7. \A b \in Nat : b # a => Mem(b)' = Mem(b)
  BY <1>5 DEF Mem
<1>8. \A v \in Ways \ {w} : CoherentLine(s, v)'
  BY <1>1, <1>6, <1>7, OtherLines
<1>9. ASSUME Matches(s, w)
      PROVE  Matches(s, w)'
  <2> SUFFICES ASSUME NEW o \in Offsets, ~ AtStore(s, w, o)'
               PROVE  data'[s][w][o] = Mem(LineAddress(tag[s][w], s) + o)'
    BY DEF Matches
  <2>1. o # WriteOffset(a)
    BY <1>5 DEF AtStore, Handling, SetOf, Addr
  <2>2. data[s][w][o] = Mem(LineAddress(tag[s][w], s) + o)
    BY <1>2, <1>5, <1>9, StoresFrom DEF Matches
  <2> QED
    BY <1>4, <1>5, <2>1, <2>2 DEF Mem
<1>10. CoherentLine(s, w)'
  BY <1>1, <1>5, <1>9 DEF CoherentLine
<1> QED
  BY <1>1, <1>2, <1>4, <1>5, <1>8, <1>9, <1>10

LEMMA LinesAfterStore ==
    ASSUME TypeOK, ClientRule, Coherent,
           NEW s, NEW a, NEW w, Handling("write", s, a, w), WriteThroughStore
    PROVE  \A v \in Ways : CoherentLine(s, v)'
<1>1. /\ s \in Sets /\ w \in Ways /\ a \in Nat /\ SetIndex(a) = s
      /\ tag[s][w] = TagOf(a)
      /\ \A v \in Ways \ {w} : valid[s][v] => tag[s][v] # TagOf(a)
      /\ CoherentLine(s, w)
  BY OwnLine DEF WriteThroughStore
<1>2. WriteOffset(a) \in Offsets /\ HandlerStep("write")
  BY HandlingTypes DEF HandlerStep, WriteAccess
<1>3. \A b \in Nat : Mem(b)' = IF b = a THEN gp["write"].data ELSE Mem(b)
  BY StoreChanges DEF WriteThroughStore, Handling
<1>4. \A v \in Ways \ {w} : /\ CoherentLine(s, v) /\ KeptLine(s, v)
                            /\ valid[s][v] => tag[s][v] # TagOf(a)
  BY <1>1, <1>2, StoresFrom DEF Coherent, KeptLine, WriteThroughStore, lineVars
<1>5. \A v \in Ways \ {w} : CoherentLine(s, v)'
  BY <1>1, <1>3, <1>4, OtherLines
<1>6. data[s][w][WriteOffset(a)] = gp["write"].data
  BY DEF Handling, WriteThroughStore, Coherent, CoherentThread
<1>7. ASSUME Matches(s, w)
      PROVE  Matches(s, w)'
  <2>1. PICK g \in Nat : g = TagOf(a)
    BY HandlingTypes
  <2> SUFFICES ASSUME NEW o \in Offsets
               PROVE  data'[s][w][o] = Mem(LineAddress(tag[s][w], s) + o)'
    BY DEF Matches
  <2>2. UNCHANGED <<data, tag>>
    BY DEF WriteThroughStore, lineVars
  <2>3. PICK b \in Nat : b = LineAddress(g, s) + o
    BY <1>1, <2>1, LineWords
  <2>4. a = LineAddress(g, s) + WriteOffset(a)
    BY <1>1, <2>1, AddressOfWord
  <2>5. CASE o = WriteOffset(a)
    BY <1>1, <1>3, <1>6, <2>1, <2>2, <2>3, <2>4, <2>5 DEF Mem
  <2>6. CASE o # WriteOffset(a)
    <3>1. b # a
      BY <1>1, <1>2, <2>1, <2>3, <2>4, <2>6, DistinctWords
    <3>2. ~ AtStore(s, w, o)
      BY <2>6 DEF AtStore, Handling
    <3>3. data[s][w][o] = Mem(b)
      BY <1>1, <1>7, <2>1, <2>3, <3>2 DEF Matches
    <3>4. Mem(b)' = Mem(b)
      BY <1>3, <3>1
    <3> QED
      BY <1>1, <2>1, <2>2, <2>3, <3>3, <3>4 DEF Mem
  <2> QED
    BY <2>5, <2>6
<1>8. CoherentLine(s, w)'
  BY <1>1, <1>7 DEF CoherentLine, WriteThroughStore, lineVars
<1> QED
  BY <1>5, <1>8

LEMMA LinesAfterVictim ==
    ASSUME TypeOK, ClientRule, TagsInv, Coherent,
           NEW t, NEW s, NEW a, NEW w, Handling(t, s, a, w), WriteBackVictim(t)
    PROVE  (\A v \in Ways : CoherentLine(s, v)') /\ ~ dirty'[s][w]
<1>1. /\ s \in Sets /\ w \in Ways /\ pc[t] = "evict" /\ HandlerStep(t)
      /\ t \in Requesters
  BY HandlingTypes DEF WriteBackVictim, WaitsWithWay, HandlerStep, Handling
<1>2. valid[s][w] /\ dirty[s][w] /\ victim[t] = LineAddress(tag[s][w], s)
  BY <1>1 DEF Handling, Coherent, CoherentThread, HoldsVictim
<1>3. UNCHANGED <<valid, tag, data>> /\ dirty' = [dirty EXCEPT ![s][w] = FALSE]
  BY DEF WriteBackVictim, Handling
<1>4. /\ \A v \in Ways \ {w} : dirty'[s][v] = dirty[s][v]
      /\ ~ dirty'[s][w]
  BY <1>1, <1>3 DEF TypeOK
<1>5. ASSUME NEW h \in Nat, NEW p \in Offsets
      PROVE  Mem(LineAddress(h, s) + p)' =
                 IF h = tag[s][w] THEN data[s][w][p] ELSE Mem(LineAddress(h, s) + p)
  BY <1>1, <1>2, WriteBackChanges DEF Handling
<1>6. ASSUME NEW v \in Ways \ {w}
      PROVE  CoherentLine(s, v)'
  <2>1. PICK h \in Nat : h = tag[s][v]
    BY <1>1 DEF TypeOK
  <2>2. valid[s][v] => h # tag[s][w]
    <3>1. v < w \/ w < v
      BY <1>1, <1>6, NumWaysAssumption DEF Ways
    <3> QED
      BY <1>1, <1>2, <1>6, <2>1, <3>1 DEF TagsInv, NoShadow
  <2>3. valid[s][v] => KeptBlock(s, h)
    BY <1>5, <2>2 DEF KeptBlock
  <2>4. KeptLine(s, v)
    BY <1>1, <1>3, <1>4, <1>6, StoresFrom DEF KeptLine
  <2> QED
    BY <1>1, <2>1, <2>3, <2>4, LineKept DEF Coherent
<1>7. CoherentLine(s, w)'
  <2> SUFFICES ASSUME NEW o \in Offsets
               PROVE  data'[s][w][o] = Mem(LineAddress(tag[s][w], s) + o)'
    BY <1>1, <1>4 DEF CoherentLine, Matches
  <2>1. PICK h \in Nat : h = tag[s][w]
    BY <1>1 DEF TypeOK
  <2>2. Mem(LineAddress(h, s) + o)' = data[s][w][o]
    BY <1>5, <2>1
  <2> QED
    BY <1>3, <2>1, <2>2 DEF Mem
<1> QED
  BY <1>4, <1>6, <1>7

LEMMA LinesAfterFill ==
    ASSUME TypeOK, SafeAttributes, ClientRule, Coherent,
           NEW t, NEW s, NEW a, NEW w, Handling(t, s, a, w), FillLine(t)
    PROVE  /\ \A v \in Ways : CoherentLine(s, v)'
           /\ Matches(s, w)' /\ tag'[s][w] = TagOf(a)
           /\ \A v \in Ways \ {w} : valid'[s][v] = valid[s][v] /\ tag'[s][v] = tag[s][v]
           /\ valid'[s][w] = (valid[s][w] \/ Live(t))
           /\ dirty'[s][w] = (t = "write" /\ Policy(t) = "write_back")
<1>1. /\ s \in Sets /\ a \in Nat /\ SetIndex(a) = s /\ w \in Ways
      /\ pc[t] = "fill" /\ HandlerStep(t) /\ t \in Requesters
  BY HandlingTypes DEF FillLine, WaitsWithWay, HandlerStep, Handling
<1>2. PICK g \in Nat : g = TagOf(a)
  BY HandlingTypes
<1>3. /\ valid' = [valid EXCEPT ![s][w] = @ \/ Live(t)]
      /\ tag' = [tag EXCEPT ![s][w] = g]
      /\ data' = [data EXCEPT ![s][w] = MemoryBlock(a)]
      /\ dirty' = [dirty EXCEPT ![s][w] = t = "write" /\ Policy(t) = "write_back"]
      /\ UNCHANGED page_table
  BY <1>2 DEF FillLine, Handling
<1>4. /\ \A v \in Ways \ {w} :
            /\ valid'[s][v] = valid[s][v] /\ dirty'[s][v] = dirty[s][v]
            /\ tag'[s][v] = tag[s][v] /\ data'[s][v] = data[s][v]
      /\ valid'[s][w] = (valid[s][w] \/ Live(t)) /\ tag'[s][w] = g
      /\ data'[s][w] = MemoryBlock(a)
      /\ dirty'[s][w] = (t = "write" /\ Policy(t) = "write_back")
  BY <1>1, <1>3 DEF TypeOK
<1>5. ASSUME NEW v \in Ways \ {w}
      PROVE  CoherentLine(s, v)'
  <2>1. PICK h \in Nat : h = tag[s][v]
    BY <1>1 DEF TypeOK
  <2>2. KeptBlock(s, h)
    BY <1>3 DEF KeptBlock, Mem
  <2>3. KeptLine(s, v)
    BY <1>1, <1>4, <1>5, StoresFrom DEF KeptLine
  <2> QED
    BY <1>1, <2>1, <2>2, <2>3, LineKept DEF Coherent
<1>6. Matches(s, w)'
  <2> SUFFICES ASSUME NEW o \in Offsets
               PROVE  data'[s][w][o] = Mem(LineAddress(tag[s][w], s) + o)'
    BY DEF Matches
  <2>1. MemoryBlock(a)[o] = Mem(LineAddress(g, s) + o)
    BY <1>1, <1>2, MemoryBlockWords
  <2> QED
    BY <1>3, <1>4, <2>1 DEF Mem
<1>7. WriteThroughOnly => ~ (t = "write" /\ Policy(t) = "write_back")
  BY SafeRequests DEF Handling
<1>8. CoherentLine(s, w)'
  BY <1>4, <1>6, <1>7 DEF CoherentLine, WriteThroughOnly
<1> QED
  BY <1>2, <1>4, <1>5, <1>6, <1>8

\* All lines of the set of a request, under its step.
LEMMA OwnLinesCoherent ==
    ASSUME TypeOK, SafeAttributes, ClientRule, TagsInv, Coherent,
           NEW t, NEW s, NEW a, NEW w, Handling(t, s, a, w), Start(t) \/ HandlerStep(t)
    PROVE  \A v \in Ways : CoherentLine(s, v)'
<1>1. t \in Requesters /\ CoherentThread(t)
  BY DEF Handling, Coherent
<1>2. ~ (t = "read" /\ ReadDirect) /\ ~ (t = "write" /\ WriteThroughAllocate)
  BY <1>1 DEF CoherentThread, ReadDirect, WriteThroughAllocate
<1>3. CASE Start(t)
  <2>1. UNCHANGED <<lineVars, page_table>> /\ pc[t] # "store"
    BY <1>3 DEF Start, StartInternal, StartHit, StartThrough, StartBypass, StartFill,
                StartEvict, Miss, Enter, PassMutexes
  <2> QED
    BY <2>1, LinesAlone
<1>4. CASE t = "read" /\ ReadLine
  <2>1. UNCHANGED <<lineVars, page_table>> /\ pc[t] # "store"
    BY <1>4 DEF ReadLine
  <2> QED
    BY <2>1, LinesAlone
<1>5. CASE t = "write" /\ (WriteDirect \/ WriteThroughMiss)
  <2>1. HandlerStep("write")
    BY <1>5 DEF HandlerStep, WriteAccess
  <2> QED
    BY <1>5, <2>1, LinesAfterDirect DEF WriteDirect, WriteThroughMiss
<1>6. CASE t = "write" /\ WriteBackHit
  <2>1. HandlerStep("write") /\ s \in Sets /\ w \in Ways
    BY <1>6, HandlingTypes DEF HandlerStep, WriteAccess, WriteBackHit, WaitsWithWay
  <2>2. (\A v \in Ways \ {w} : dirty'[s][v] = dirty[s][v]) /\ dirty'[s][w]
    BY <1>6, <2>1 DEF WriteBackHit, TypeOK, Handling
  <2> QED
    BY <1>6, <2>1, <2>2, LinesAfterWrite DEF WriteBackHit
<1>7. CASE t = "write" /\ AllocatedWrite
  <2>1. HandlerStep("write")
    BY <1>7 DEF HandlerStep, WriteAccess
  <2>2. Policy("write") = "write_back" /\ dirty[s][w]
    BY <1>1, <1>7 DEF CoherentThread, AllocatedWrite, Handling
  <2> QED
    BY <1>7, <2>1, <2>2, LinesAfterWrite DEF AllocatedWrite
<1>8. CASE t = "write" /\ WriteThroughHit
  BY <1>8, LinesAfterHit
<1>9. CASE t = "write" /\ WriteThroughStore
  BY <1>9, LinesAfterStore
<1>10. CASE WriteBackVictim(t)
  BY <1>10, LinesAfterVictim
<1>11. CASE FillLine(t)
  BY <1>11, LinesAfterFill
<1> QED
  BY <1>2, <1>3, <1>4, <1>5, <1>6, <1>7, <1>8, <1>9, <1>10, <1>11 DEF HandlerStep, WriteAccess

-----------------------------------------------------------------------------
(***************************************************************************)
(* The request itself, step by step.                                       *)
(***************************************************************************)

\* A request stays live, if nothing invalidates.
LEMMA StaysLive ==
    ASSUME TypeOK, Coherent, NEW t \in Requesters, Start(t) \/ HandlerStep(t),
           NoLineDropped, InFlight(t)'
    PROVE  Live(t)'
<1>1. pc[t] # "get" /\ SetOf(t)' = SetOf(t) /\ Key(t)' = Key(t)
  BY EnterChanges, HandlerChanges DEF InFlight, WaitsWithWay, SetOf, Addr, Key
<1>2. SetOf(t) \in Sets /\ Key(t) \in Keys /\ t \in Channels
  BY <1>1, RequestTypes DEF Requesters, Channels
<1>3. CASE Start(t)
  BY <1>1, <1>2, <1>3, EnterChanges DEF SetOngoing, Live, TypeOK
<1>4. CASE HandlerStep(t)
  <2>1. Live(t)
    BY <1>4, HandlerChanges DEF Coherent, CoherentThread
  <2>2. CASE UNCHANGED ongoing_requests
    BY <1>1, <2>1, <2>2 DEF Live
  <2>3. CASE ProbeOngoing(t)
    BY <1>1, <1>2, <2>1, <2>3 DEF ProbeOngoing, SetOngoing, Live, TypeOK
  <2>4. CASE ~ UNCHANGED ongoing_requests /\ ~ ProbeOngoing(t)
    <3>1. pc'[t] = "put"
      BY <1>2, <1>4, <2>4
      DEF HandlerStep, ReadDirect, ReadLine, WriteAccess, WriteDirect, WriteBackHit,
          WriteThroughHit, WriteThroughStore, WriteThroughMiss, AllocatedWrite,
          WriteThroughAllocate, WriteBackVictim, FillLine, Finish, Goto, TypeOK
    <3> QED
      BY <3>1 DEF InFlight, WaitsWithWay
  <2> QED
    BY <2>2, <2>3, <2>4
<1> QED
  BY <1>3, <1>4

LEMMA HandlingNext ==
    ASSUME TypeOK, NEW t, NEW s, NEW a, NEW w, Handling(t, s, a, w),
           Start(t) \/ HandlerStep(t)
    PROVE  SetOf(t)' = s /\ Addr(t)' = a /\ pc'[t] # "get"
<1>1. SetOf(t)' = s /\ Addr(t)' = a
  BY EnterChanges, HandlerChanges DEF Handling, SetOf, Addr
<1>2. CASE Start(t)
  BY <1>1, <1>2, EnterChanges DEF InFlight, WaitsWithWay, Handling
<1>3. CASE HandlerStep(t)
  <2>1. t \in Channels
    BY HandlingTypes
  <2>2. pc'[t] # "get"
    BY <1>3, <2>1 DEF HandlerStep, ReadDirect, ReadLine, WriteAccess, WriteDirect,
         WriteBackHit, WriteThroughHit, WriteThroughStore, WriteThroughMiss, AllocatedWrite,
         WriteThroughAllocate, WriteBackVictim, FillLine, Finish, Goto, TypeOK
  <2> QED
    BY <1>1, <2>2
<1> QED
  BY <1>2, <1>3

\* A request that enters finds its line, or a way it may take.
LEMMA StartCoherent ==
    ASSUME TypeOK, SafeAttributes, TagsInv, Coherent,
           NEW t, NEW s, NEW a, NEW w, Handling(t, s, a, w), Start(t)
    PROVE  CoherentThread(t)'
<1>1. /\ t \in Requesters /\ t \in Channels /\ s \in Sets /\ TagOf(a) \in Nat
      /\ UNCHANGED <<lineVars, page_table, gp>>
  BY HandlingTypes DEF Handling, Start, StartInternal, StartHit, StartThrough, StartBypass,
     StartFill, StartEvict, Miss, Enter
<1>2. /\ SetOf(t)' = s /\ Addr(t)' = a /\ Policy(t)' = Policy(t)
      /\ Allocates(t)' = Allocates(t)
  BY <1>1, HandlingNext DEF Policy, Allocates
<1>3. NoLineDropped /\ InFlight(t)' => Live(t)'
  BY <1>1, StaysLive
<1>4. /\ Policy(t) # "internal"
      /\ t = "read" => Allocates(t) /\ (NoLineDropped => Policy(t) = "write_back")
      /\ t = "write" => /\ Policy(t) \in {"write_back", "write_through"}
                        /\ Policy(t) = "write_through" => ~ Allocates(t)
  BY <1>1, SafeRequests DEF Handling
<1>5. \A v \in Ways : dirty[s][v] => NoLineDropped
  BY <1>1 DEF Coherent, CoherentLine, SafeAttributes
<1>6. HitWays(t) = {} => NotCached(s, TagOf(a)) /\ NotCached(s, TagOf(a))'
  BY <1>1 DEF HitWays, NotCached, Handling, lineVars
<1>7. CASE StartHit(t)
  <2>1. PICK v \in Ways : v = Min(HitWays(t))
    BY <1>1, <1>7, HitWaysType DEF StartHit
  <2>2. valid[s][v] /\ tag[s][v] = TagOf(a)
    <3>1. HitWays(t) \in SUBSET Ways /\ HitWays(t) # {}
      BY <1>7 DEF HitWays, StartHit
    <3>2. v \in HitWays(t)
      BY <2>1, <3>1, MinOfWays
    <3> QED
      BY <3>2 DEF HitWays, Handling
  <2>3. pc'[t] = "hit" /\ way'[t] = v
    BY <1>1, <1>7, <2>1 DEF StartHit, Goto, TypeOK
  <2>4. \A u \in Ways : valid[s][u] /\ tag[s][u] = TagOf(a) => u = v
    <3> SUFFICES ASSUME NEW u \in Ways, valid[s][u], tag[s][u] = TagOf(a), u # v
                 PROVE  FALSE
      OBVIOUS
    <3>1. u < v \/ v < u
      BY NumWaysAssumption DEF Ways
    <3> QED
      BY <1>1, <2>2, <3>1 DEF TagsInv, NoShadow
  <2>5. HoldsBlock(t)'
    BY <1>1, <1>2, <2>2, <2>3, <2>4 DEF HoldsBlock, lineVars
  <2> QED
    BY <1>3, <2>3, <2>5 DEF CoherentThread
<1>8. CASE StartFill(t)
  <2>1. PICK v \in Ways : v = AllocWay(s)
    BY <1>1, AllocWayType
  <2>2. pc'[t] = "fill" /\ way'[t] = v
    BY <1>1, <1>8, <2>1 DEF StartFill, Goto, TypeOK, Handling
  <2>3. t = "write" => Policy(t) = "write_back"
    BY <1>8 DEF StartFill, Miss
  <2>4. ~ (valid[s][v] /\ dirty[s][v])
    <3>1. CASE FreeWays(s) # {}
      <4>1. FreeWays(s) \in SUBSET Ways
        BY DEF FreeWays
      <4>2. v \in FreeWays(s)
        BY <2>1, <3>1, <4>1, MinOfWays DEF AllocWay
      <4> QED
        BY <4>2 DEF FreeWays
    <3>2. CASE FreeWays(s) = {}
      <4>1. v = LruWay(s) /\ (dirty[s][v] => Policy(t) # "write_back")
        BY <1>8, <2>1, <3>2 DEF StartFill, EvictsDirty, AllocWay, Handling
      <4> QED
        BY <1>1, <1>4, <1>5, <2>3, <4>1 DEF Requesters
    <3> QED
      BY <3>1, <3>2
  <2> QED
    BY <1>1, <1>2, <1>3, <2>2, <2>3, <2>4 DEF CoherentThread, lineVars
<1>9. CASE StartEvict(t)
  <2>1. PICK v \in Ways : v = LruWay(s)
    BY <1>1, AllocWayType
  <2>2. pc'[t] = "evict" /\ way'[t] = v /\ victim'[t] = LineAddress(tag[s][v], s)
    BY <1>1, <1>9, <2>1 DEF StartEvict, Goto, TypeOK, Handling
  <2>3. valid[s][v] /\ dirty[s][v] /\ Policy(t) = "write_back"
    BY <1>9, <2>1 DEF StartEvict, EvictsDirty, FreeWays, Handling
  <2>4. HoldsVictim(t)'
    BY <1>1, <1>2, <1>5, <2>2, <2>3 DEF HoldsVictim, NoLineDropped, lineVars
  <2> QED
    BY <1>2, <1>3, <2>2, <2>3, <2>4 DEF CoherentThread
<1>10. CASE StartBypass(t) \/ (t = "write" /\ StartThrough)
  <2>1. /\ t = "write" /\ ~ Allocates(t)
        /\ HitWays(t) = {} /\ pc'[t] \in {"direct", "through"}
    BY <1>1, <1>4, <1>10 DEF StartBypass, StartThrough, Miss, Enter, Goto, TypeOK, Requesters
  <2> QED
    BY <1>2, <1>3, <1>6, <2>1 DEF CoherentThread
<1> QED
  BY <1>4, <1>7, <1>8, <1>9, <1>10 DEF Start, StartInternal

\* ... and keeps it, until it is done.
LEMMA HandlerCoherent ==
    ASSUME TypeOK, SafeAttributes, ClientRule, TagsInv, Coherent,
           NEW t, NEW s, NEW a, NEW w, Handling(t, s, a, w), HandlerStep(t)
    PROVE  CoherentThread(t)'
<1>1. /\ t \in Requesters /\ t \in Channels /\ s \in Sets /\ a \in Nat /\ TagOf(a) \in Nat
      /\ CoherentThread(t)
  BY HandlingTypes DEF Handling, Coherent
<1>2. SetOf(t)' = s /\ Addr(t)' = a
  BY <1>1, HandlingNext
<1>3. NoLineDropped /\ InFlight(t)' => Live(t)'
  BY <1>1, StaysLive
<1>4. CASE t = "write" /\ WriteThroughHit
  <2>1. /\ w \in Ways /\ tag[s][w] = TagOf(a)
        /\ \A v \in Ways \ {w} : valid[s][v] => tag[s][v] # TagOf(a)
    BY <1>4, OwnLine DEF WriteThroughHit
  <2>2. /\ data'[s][w][WriteOffset(a)] = gp["write"].data
        /\ valid'[s][w] \/ (WriteThroughOnly /\ Matches(s, w)')
    BY <1>4, LinesAfterHit
  <2>3. pc'[t] = "store" /\ UNCHANGED <<valid, tag, gp, way>>
    BY <1>1, <1>4 DEF WriteThroughHit, Goto, TypeOK, locals
  <2>4. HoldsBlock(t)'
    BY <1>2, <2>1, <2>2, <2>3 DEF HoldsBlock, Handling, WriteThroughOnly
  <2> QED
    BY <1>2, <1>3, <1>4, <2>2, <2>3, <2>4 DEF CoherentThread, Handling
<1>5. CASE WriteBackVictim(t)
  <2>1. ~ dirty'[s][w] /\ pc'[t] = "fill" /\ UNCHANGED <<gp, way>> /\ pc[t] = "evict"
    BY <1>1, <1>5, LinesAfterVictim DEF WriteBackVictim, Goto, TypeOK, locals
  <2>2. Policy(t)' = Policy(t)
    BY <2>1 DEF Policy
  <2> QED
    BY <1>1, <1>2, <1>3, <2>1, <2>2 DEF CoherentThread, Handling
<1>6. CASE FillLine(t)
  <2>1. /\ w \in Ways /\ pc[t] = "fill" /\ pc'[t] = "access" /\ UNCHANGED <<gp, way>>
    BY <1>1, <1>6, HandlingTypes DEF FillLine, Goto, TypeOK, locals, WaitsWithWay
  <2>2. /\ Matches(s, w)' /\ tag'[s][w] = TagOf(a)
        /\ \A v \in Ways \ {w} : valid'[s][v] = valid[s][v] /\ tag'[s][v] = tag[s][v]
        /\ valid'[s][w] = (valid[s][w] \/ Live(t))
        /\ dirty'[s][w] = (t = "write" /\ Policy(t) = "write_back")
    BY <1>6, LinesAfterFill
  <2>3. \A v \in Ways : valid[s][v] => tag[s][v] # TagOf(a)
    BY <1>1, <2>1 DEF TagsInv, Claims, Claimable, NotCached, Handling
  <2>4. valid'[s][w] \/ WriteThroughOnly
    <3>1. CASE NoLineDropped
      BY <1>1, <2>1, <2>2, <3>1 DEF CoherentThread, InFlight, WaitsWithWay
    <3> QED
      BY <3>1 DEF SafeAttributes
  <2>5. HoldsBlock(t)'
    BY <1>2, <2>1, <2>2, <2>3, <2>4 DEF HoldsBlock, Handling, WriteThroughOnly
  <2>6. t = "write" => Policy(t) = "write_back"
    BY <1>1, <2>1 DEF CoherentThread
  <2>7. Policy(t)' = Policy(t)
    BY <2>1 DEF Policy
  <2> QED
    BY <1>2, <1>3, <2>1, <2>2, <2>5, <2>6, <2>7 DEF CoherentThread, Handling
<1>7. CASE ~ (t = "write" /\ WriteThroughHit) /\ ~ WriteBackVictim(t) /\ ~ FillLine(t)
  <2>1. ~ (t = "write" /\ WriteThroughAllocate)
    BY <1>1 DEF CoherentThread, WriteThroughAllocate
  <2>2. pc'[t] = "put"
    BY <1>1, <1>7, <2>1
    DEF HandlerStep, ReadDirect, ReadLine, WriteAccess, WriteDirect, WriteBackHit,
        WriteThroughStore, WriteThroughMiss, AllocatedWrite, Finish, Goto, TypeOK
  <2> QED
    BY <2>2 DEF CoherentThread, InFlight, WaitsWithWay
<1> QED
  BY <1>4, <1>5, <1>6, <1>7

-----------------------------------------------------------------------------
(***************************************************************************)
(* The invariant.                                                          *)
(***************************************************************************)

LEMMA CoherentInit == Init => Coherent
<1> SUFFICES ASSUME Init PROVE Coherent
  OBVIOUS
<1>1. \A s \in Sets, w \in Ways : CoherentLine(s, w)
  BY DEF Init, CoherentLine
<1>2. \A t \in Requesters : pc[t] = "get"
  BY DEF Init, Requesters, Channels
<1> QED
  BY <1>1, <1>2 DEF Coherent, CoherentThread, InFlight, WaitsWithWay

\* A step of a request.
LEMMA RequestCoherent ==
    ASSUME TypeOK, SafeAttributes, ClientRule, TagsInv, Coherent,
           NEW t \in Requesters, Start(t) \/ HandlerStep(t)
    PROVE  Coherent'
<1>1. pc[t] # "get"
  BY EnterChanges, HandlerChanges DEF InFlight, WaitsWithWay
<1>2. PICK s \in Sets : s = SetOf(t)
  BY <1>1, RequestTypes
<1>3. PICK a, w : Handling(t, s, a, w)
  BY <1>1, <1>2 DEF Handling
<1>4. \A v \in Ways : CoherentLine(s, v)'
  BY <1>3, OwnLinesCoherent
<1>5. CoherentThread(t)'
  BY <1>3, StartCoherent, HandlerCoherent
<1>6. ASSUME NEW q \in Sets, q # s
      PROVE  \A v \in Ways : CoherentLine(q, v)'
  BY <1>2, <1>6, OtherSetKept
<1>7. ASSUME NEW u \in Requesters, u # t
      PROVE  CoherentThread(u)'
  <2>1. SameThread(u) /\ CoherentThread(u)
    BY <1>7, OtherThread DEF Coherent
  <2>2. CASE pc[u] = "get"
    BY <2>1, <2>2 DEF CoherentThread, SameThread, InFlight, WaitsWithWay
  <2>3. CASE pc[u] # "get"
    <3>1. PICK q \in Sets \ {s} : q = SetOf(u)
      BY <1>1, <1>2, <1>7, <2>3, HandledApart, RequestTypes
    <3>2. /\ \A v \in Ways : CoherentLine(q, v) /\ KeptLine(q, v)
          /\ \A g \in Nat : KeptBlock(q, g)
      BY <1>2, OtherSetKept DEF Coherent
    <3>3. valid'[q] = valid[q] /\ ongoing_requests'[q] = ongoing_requests[q]
      BY <1>2, OtherSets DEF SameSet
    <3> QED
      BY <2>1, <3>1, <3>2, <3>3, ThreadKept
  <2> QED
    BY <2>2, <2>3
<1> QED
  BY <1>4, <1>5, <1>6, <1>7 DEF Coherent

\* A step that changes no line, but drops some if no dirty one matters.
LEMMA CalmCoherent ==
    ASSUME TypeOK, Coherent,
           UNCHANGED <<dirty, tag, data, page_table>>,
           \A s \in Sets, w \in Ways : valid'[s][w] => valid[s][w],
           UNCHANGED <<valid, ongoing_requests>> \/ (WriteThroughOnly /\ ~ NoLineDropped),
           pc["write"] = "store" => SameThread("write"),
           NEW T \in SUBSET Requesters, \A t \in T : SameThread(t),
           \A t \in Requesters \ T : ~ InFlight(t)'
    PROVE  Coherent'
<1>1. \A s \in Sets, w \in Ways : KeptLine(s, w)
  BY DEF KeptLine, AtStore, SameThread, SetOf, Addr
<1>2. \A s \in Sets, g \in Nat : KeptBlock(s, g)
  BY DEF KeptBlock, Mem
<1>3. ASSUME NEW s \in Sets, NEW w \in Ways
      PROVE  CoherentLine(s, w)'
  <2>1. PICK g \in Nat : g = tag[s][w]
    BY DEF TypeOK
  <2> QED
    BY <1>1, <1>2, <2>1, LineKept DEF Coherent
<1>4. ASSUME NEW t \in T
      PROVE  CoherentThread(t)'
  <2>1. 0 \in Sets
    BY NumSetsAssumption DEF Sets
  <2>2. PICK s \in Sets : pc[t] # "get" => s = SetOf(t)
    BY <2>1, RequestTypes
  <2>3. \/ valid'[s] = valid[s] /\ ongoing_requests'[s] = ongoing_requests[s]
        \/ WriteThroughOnly /\ ~ NoLineDropped
    OBVIOUS
  <2>4. /\ CoherentThread(t) /\ SameThread(t)
        /\ \A w \in Ways : CoherentLine(s, w) /\ KeptLine(s, w)
        /\ \A g \in Nat : KeptBlock(s, g)
    BY <1>1, <1>2 DEF Coherent
  <2> QED
    BY <2>2, <2>3, <2>4, ThreadKept
<1>5. ASSUME NEW t \in Requesters \ T
      PROVE  CoherentThread(t)'
  BY DEF CoherentThread, InFlight, WaitsWithWay
<1> QED
  BY <1>3, <1>4, <1>5 DEF Coherent

\* Invalidations and flushes only come where no line is ever dirty.
LEMMA ServicesNeedWriteThrough ==
    ASSUME TypeOK, SafeAttributes, Invalidate \/ Flush
    PROVE  WriteThroughOnly /\ ~ NoLineDropped
<1>1. "invalidate" \in Channels /\ "flush" \in Channels
  BY DEF Channels
<1>2. pc["invalidate"] # "get" \/ req_fifo["invalidate"] # NoMsg => InvalidateRanges # {}
  BY <1>1 DEF TypeOK, Served, Messages
<1>3. pc["flush"] # "get" \/ req_fifo["flush"] # NoMsg => FlushTokens # {}
  BY <1>1 DEF TypeOK, Served, Messages
<1> QED
  BY <1>2, <1>3 DEF SafeAttributes, NoLineDropped, Invalidate, InvalidateGet, InvalidateLines,
     InvalidatePut, Flush, FlushGet, FlushLines, FlushPut

LEMMA CoherentStep ==
    TypeOK /\ SafeAttributes /\ ClientRule /\ TagsInv /\ Coherent /\ [DisjointNext]_vars
    => Coherent'
<1> SUFFICES ASSUME TypeOK, SafeAttributes, ClientRule, TagsInv, Coherent, [DisjointNext]_vars
             PROVE  Coherent'
  OBVIOUS
<1>1. ASSUME NEW t \in Requesters, Start(t) \/ HandlerStep(t)
      PROVE  Coherent'
  BY <1>1, RequestCoherent
<1>2. ASSUME NEW t \in Requesters, ThreadStep(t)
      PROVE  Coherent'
  <2>1. UNCHANGED <<lineVars, page_table, ongoing_requests>>
    BY <1>2 DEF ThreadStep, GetRequest, WaitForFlush, PutResponse
  <2>2. pc[t] # "store" /\ ~ InFlight(t)'
    BY <1>2 DEF ThreadStep, GetRequest, WaitForFlush, PutResponse, Goto, TypeOK,
                Requesters, Channels, InFlight, WaitsWithWay
  <2>3. \A u \in Requesters \ {t} : SameThread(u)
    BY <1>2, OtherThread
  <2>4. pc["write"] = "store" => SameThread("write")
    BY <2>2, <2>3 DEF Requesters
  <2>5. PICK T \in SUBSET Requesters : T = Requesters \ {t}
    OBVIOUS
  <2> QED
    BY <2>1, <2>2, <2>3, <2>4, <2>5, CalmCoherent DEF lineVars
<1>3. CASE Invalidate \/ Flush
  <2>1. WriteThroughOnly /\ ~ NoLineDropped
    BY <1>3, ServicesNeedWriteThrough
  <2>2. /\ UNCHANGED <<dirty, tag, data, page_table>>
        /\ \A s \in Sets, w \in Ways : valid'[s][w] => valid[s][w]
    BY <1>3 DEF Invalidate, InvalidateGet, InvalidateLines, InvalidatePut, Flush, FlushGet,
                FlushLines, FlushPut, lineVars, TypeOK
  <2>3. \A t \in Requesters : SameThread(t)
    BY <1>3 DEF Invalidate, InvalidateGet, InvalidateLines, InvalidatePut, Flush, FlushGet,
                FlushLines, FlushPut, Goto, SameThread, locals, TypeOK, Requesters, Channels
  <2>4. "write" \in Requesters
    BY DEF Requesters
  <2> QED
    BY <2>1, <2>2, <2>3, <2>4, CalmCoherent
<1>4. CASE (\E c \in Channels : PutDisjoint(c) \/ ClientGet(c)) \/ UNCHANGED vars
  <2>1. UNCHANGED <<lineVars, page_table, ongoing_requests>>
        /\ \A t \in Requesters : SameThread(t)
    BY <1>4 DEF PutDisjoint, ClientPut, ClientGet, vars, locals, SameThread
  <2>2. "write" \in Requesters
    BY DEF Requesters
  <2> QED
    BY <2>1, <2>2, CalmCoherent DEF lineVars
<1> QED
  BY <1>1, <1>2, <1>3, <1>4, DisjointSteps

\* The invariant of DisjointClientProofs with that of this module.
DisjointInv == TypeOK /\ ClientRule /\ TagsInv /\ Coherent

LEMMA DisjointInvInit == Init => DisjointInv
  BY TypeInit, RuleInit, TagsInit, CoherentInit DEF DisjointInv

LEMMA DisjointInvStep ==
    DisjointInv /\ SafeAttributes /\ [DisjointNext]_vars => DisjointInv'
  BY TypeStep, RuleStep, TagsStep, CoherentStep, DisjointSteps DEF DisjointInv

\* Every clean line agrees with memory, and every dirty one is written back before
\* its way is taken, whatever requests, invalidations and flushes overlap.
THEOREM CachesAreCoherent == ASSUME SafeAttributes PROVE DisjointSpec => []Coherent
<1>1. DisjointInv /\ [DisjointNext]_vars => DisjointInv'
  BY DisjointInvStep
<1>2. DisjointInv => Coherent
  BY DEF DisjointInv
<1> QED
  BY <1>1, <1>2, DisjointInvInit, PTL DEF DisjointSpec

=============================================================================
