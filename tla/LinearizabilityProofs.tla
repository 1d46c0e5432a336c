------------------------ MODULE LinearizabilityProofs ------------------------
(***************************************************************************)
(* The controller, behind clients whose reads and writes never meet in a   *)
(* set and whose attributes keep the caches coherent, implements           *)
(* AtomicMemory: every access takes effect at one step of its thread.      *)
(***************************************************************************)
EXTENDS CoherenceProofs

-----------------------------------------------------------------------------
(***************************************************************************)
(* The memory the clients see, address by address.                         *)
(***************************************************************************)
Stored(a) == pc["write"] = "store" /\ Addr("write") = a

ViewAt(a) ==
    IF Stored(a) THEN gp["write"].data
    ELSE IF CachingWays(a) # {}
         THEN data[SetIndex(a)][Min(CachingWays(a))][ReadOffset(a)]
         ELSE Mem(a)

LEMMA ViewIsAt ==
    /\ View = [a \in ClientAddrs |-> ViewAt(a)]
    /\ View' = [a \in ClientAddrs |-> ViewAt(a)']
  BY DEF View, ViewAt, Stored, Mem, WordAt

LEMMA ClientAddress ==
    ASSUME NEW a \in ClientAddrs
    PROVE  /\ a \in Nat /\ SetIndex(a) \in Sets /\ TagOf(a) \in Nat /\ WriteOffset(a) \in Offsets
           /\ a = LineAddress(TagOf(a), SetIndex(a)) + WriteOffset(a)
           /\ AlignedAddrs => ReadOffset(a) = WriteOffset(a)
  BY AddrsAssumption, FieldTypes, AddressOfWord, OffsetsAgree DEF AlignedAddrs

LEMMA WritersAddress ==
    ASSUME TypeOK, NEW t \in Requesters, pc[t] # "get"
    PROVE  Addr(t) \in ClientAddrs
  BY RequestTypes DEF Payloads, Addr

\* Where the value of a word is: in its valid line, which is the only one, or else
\* in memory.
ViewWhere ==
    \A a \in ClientAddrs :
        /\ Stored(a) => ViewAt(a) = gp["write"].data
        /\ ~ Stored(a) =>
              /\ NotCached(SetIndex(a), TagOf(a)) => ViewAt(a) = Mem(a)
              /\ \A w \in Ways :
                    valid[SetIndex(a)][w] /\ tag[SetIndex(a)][w] = TagOf(a)
                        => ViewAt(a) = data[SetIndex(a)][w][ReadOffset(a)]

LEMMA OnlyCachingWay ==
    ASSUME TagsInv, NEW s \in Sets, NEW g, NEW v \in Ways, NEW w \in Ways,
           valid[s][v], tag[s][v] = g, valid[s][w], tag[s][w] = g
    PROVE  v = w
<1> SUFFICES ASSUME v # w PROVE FALSE
  OBVIOUS
<1>1. v < w \/ w < v
  BY NumWaysAssumption DEF Ways
<1> QED
  BY <1>1 DEF TagsInv, NoShadow

LEMMA ViewIsWhere == DisjointInv => ViewWhere
<1> SUFFICES ASSUME DisjointInv, NEW a \in ClientAddrs, ~ Stored(a)
             PROVE  /\ NotCached(SetIndex(a), TagOf(a)) => ViewAt(a) = Mem(a)
                    /\ \A w \in Ways :
                          valid[SetIndex(a)][w] /\ tag[SetIndex(a)][w] = TagOf(a)
                              => ViewAt(a) = data[SetIndex(a)][w][ReadOffset(a)]
  BY DEF ViewWhere, ViewAt
<1>1. NotCached(SetIndex(a), TagOf(a)) => ViewAt(a) = Mem(a)
  BY DEF NotCached, CachingWays, ViewAt
<1>2. ASSUME NEW w \in Ways, valid[SetIndex(a)][w], tag[SetIndex(a)][w] = TagOf(a)
      PROVE  ViewAt(a) = data[SetIndex(a)][w][ReadOffset(a)]
  <2>1. CachingWays(a) = {w}
    BY <1>2, ClientAddress, OnlyCachingWay DEF DisjointInv, CachingWays
  <2>2. Min({w}) = w
    BY MinOfWays
  <2> QED
    BY <2>1, <2>2 DEF ViewAt
<1> QED
  BY <1>1, <1>2

LEMMA ViewIsWhereNext == DisjointInv' => ViewWhere'
  BY ViewIsWhere, PTL

\* A word of a clean line is also in memory, unless its store is under way.
LEMMA CleanWord ==
    ASSUME DisjointInv, AlignedAddrs, NEW a \in ClientAddrs, ~ Stored(a), NEW w \in Ways,
           tag[SetIndex(a)][w] = TagOf(a), Matches(SetIndex(a), w)
    PROVE  data[SetIndex(a)][w][ReadOffset(a)] = Mem(a)
<1>1. PICK s \in Sets, o \in Offsets, g \in Nat :
         s = SetIndex(a) /\ o = WriteOffset(a) /\ g = TagOf(a)
  BY ClientAddress
<1>2. a = LineAddress(g, s) + o /\ ReadOffset(a) = o
  BY <1>1, ClientAddress
<1>3. ~ AtStore(s, w, o)
  <2> SUFFICES ASSUME AtStore(s, w, o) PROVE FALSE
    OBVIOUS
  <2>1. "write" \in Requesters /\ pc["write"] = "store"
    BY DEF AtStore, Requesters
  <2>2. PICK b \in ClientAddrs : b = Addr("write")
    BY <2>1, WritersAddress DEF DisjointInv
  <2>3. HoldsBlock("write")
    BY <2>1 DEF DisjointInv, Coherent, CoherentThread
  <2>4. SetIndex(b) = s /\ TagOf(b) = g /\ WriteOffset(b) = o
    BY <1>1, <2>2, <2>3 DEF AtStore, HoldsBlock, SetOf
  <2>5. b = a
    BY <1>2, <2>4, ClientAddress
  <2> QED
    BY <2>1, <2>2, <2>5 DEF Stored
<1> QED
  BY <1>1, <1>2, <1>3 DEF Matches

\* A step that changes neither the tags of a set nor the word.
LEMMA ViewSame ==
    ASSUME NEW a \in ClientAddrs, NEW s \in Sets, s = SetIndex(a),
           valid'[s] = valid[s], tag'[s] = tag[s],
           Stored(a)' <=> Stored(a), Stored(a) => gp'["write"] = gp["write"],
           \A w \in Ways : valid[s][w] /\ tag[s][w] = TagOf(a)
                               => data'[s][w][ReadOffset(a)] = data[s][w][ReadOffset(a)],
           NotCached(s, TagOf(a)) => Mem(a)' = Mem(a)
    PROVE  ViewAt(a)' = ViewAt(a)
<1>1. CachingWays(a)' = CachingWays(a)
  BY DEF CachingWays
<1>2. CASE CachingWays(a) = {}
  <2>1. Mem(a)' = Mem(a)
    BY <1>2 DEF CachingWays, NotCached
  <2> QED
    BY <1>1, <1>2, <2>1 DEF ViewAt
<1>3. CASE CachingWays(a) # {}
  <2>1. CachingWays(a) \in SUBSET Ways
    BY DEF CachingWays
  <2>2. PICK w \in Ways : w = Min(CachingWays(a)) /\ w \in CachingWays(a)
    BY <1>3, <2>1, MinOfWays
  <2>3. data'[s][w][ReadOffset(a)] = data[s][w][ReadOffset(a)]
    BY <2>2 DEF CachingWays
  <2>4. Min(CachingWays(a))' = w
    BY <1>1, <2>2
  <2> QED
    BY <1>1, <1>3, <2>2, <2>3, <2>4 DEF ViewAt
<1> QED
  BY <1>2, <1>3

-----------------------------------------------------------------------------
(***************************************************************************)
(* A step of a request, and the memory the clients see.                    *)
(***************************************************************************)

\* The steps at which a write takes effect.
Commits ==
    WriteDirect \/ WriteBackHit \/ WriteThroughHit \/ WriteThroughMiss \/ AllocatedWrite

LEMMA OtherSetView ==
    ASSUME DisjointInv, NEW t \in Requesters, Start(t) \/ HandlerStep(t),
           NEW a \in ClientAddrs, SetIndex(a) # SetOf(t)
    PROVE  ViewAt(a)' = ViewAt(a)
<1>1. PICK s \in Sets : s = SetIndex(a)
  BY ClientAddress
<1>2. SameSet(s) /\ Mem(a)' = Mem(a)
  BY <1>1, ClientAddress, OtherSets, OtherMemory DEF DisjointInv
<1>3. (Stored(a)' <=> Stored(a)) /\ (Stored(a) => gp'["write"] = gp["write"])
  <2>1. CASE t = "read"
    BY <2>1, OtherThread DEF DisjointInv, Requesters, SameThread, Stored, Addr
  <2>2. CASE t = "write"
    <3>1. gp'[t].addr = gp[t].addr
      BY EnterChanges, HandlerChanges DEF DisjointInv
    <3> QED
      BY <2>2, <3>1 DEF Stored, SetOf, Addr
  <2> QED
    BY <2>1, <2>2 DEF Requesters
<1> QED
  BY <1>1, <1>2, <1>3, ViewSame DEF SameSet

\* A write to a line changes one word.
LEMMA OtherWords ==
    ASSUME DisjointInv, AlignedAddrs, NEW s, NEW b, NEW w, Handling("write", s, b, w),
           pc["write"] \in {"hit", "access"}, WriteWord("write"),
           NEW a \in ClientAddrs, a # b, SetIndex(a) = s,
           NEW v \in Ways, tag[s][v] = TagOf(a)
    PROVE  data'[s][v][ReadOffset(a)] = data[s][v][ReadOffset(a)]
<1>1. s \in Sets /\ w \in Ways /\ b \in Nat /\ SetIndex(b) = s /\ tag[s][w] = TagOf(b)
  BY OwnLine DEF DisjointInv
<1>2. PICK o \in Offsets, p \in Offsets : o = WriteOffset(a) /\ p = WriteOffset(b)
  BY <1>1, ClientAddress, HandlingTypes DEF DisjointInv
<1>3. ReadOffset(a) = o
  BY <1>2, ClientAddress
<1>4. data' = [data EXCEPT ![s][w][p] = gp["write"].data]
  BY <1>2 DEF WriteWord, Handling
<1>5. v = w => o # p
  <2> SUFFICES ASSUME v = w, o = p PROVE FALSE
    OBVIOUS
  <2>1. a = LineAddress(TagOf(a), s) + o /\ b = LineAddress(TagOf(b), s) + p
    BY <1>1, <1>2, ClientAddress, AddressOfWord
  <2> QED
    BY <1>1, <2>1
<1> QED
  BY <1>1, <1>2, <1>3, <1>4, <1>5 DEF DisjointInv, TypeOK

\* A write to memory changes one word.
LEMMA OtherStoreView ==
    ASSUME DisjointInv, NEW s, NEW b, NEW w, Handling("write", s, b, w),
           HandlerStep("write"), UNCHANGED lineVars, StoreWord("write"),
           NEW a \in ClientAddrs, a # b
    PROVE  ViewAt(a)' = ViewAt(a)
<1>1. CASE SetIndex(a) # s
  BY <1>1, OtherSetView DEF Handling
<1>2. CASE SetIndex(a) = s
  <2>1. s \in Sets /\ a \in Nat
    BY <1>2, ClientAddress
  <2>2. ~ Stored(a) /\ ~ Stored(a)'
    BY HandlingNext DEF DisjointInv, Stored, Handling
  <2>3. Mem(a)' = Mem(a)
    BY <2>1, StoreChanges DEF DisjointInv, Handling
  <2> QED
    BY <1>2, <2>1, <2>2, <2>3, ViewSame DEF lineVars
<1> QED
  BY <1>1, <1>2

\* Where a write takes effect, the clients see its value, and all else as before.
LEMMA CommitView ==
    ASSUME DisjointInv, DisjointInv', SafeAttributes, AlignedAddrs, Commits,
           NEW s, NEW b, NEW w, Handling("write", s, b, w), NEW a \in ClientAddrs
    PROVE  ViewAt(a)' = IF a = b THEN gp["write"].data ELSE ViewAt(a)
<1>1. HandlerStep("write") /\ TypeOK
  BY DEF Commits, HandlerStep, WriteAccess, DisjointInv
<1>2. /\ s \in Sets /\ b \in Nat /\ SetIndex(b) = s /\ WriteOffset(b) \in Offsets
      /\ b \in ClientAddrs /\ "write" \in Channels /\ gp["write"].data \in Values
  BY <1>1, HandlingTypes, WritersAddress DEF Handling
<1>3. Addr("write")' = b
  BY <1>1, HandlingNext
<1>4. CASE WriteDirect \/ WriteThroughMiss
  <2>1. /\ pc["write"] \in {"direct", "through"} /\ pc'["write"] = "put"
        /\ StoreWord("write") /\ UNCHANGED lineVars
    BY <1>1, <1>2, <1>4 DEF WriteDirect, WriteThroughMiss, Finish, Goto, TypeOK
  <2>2. CASE a = b
    <3>1. NotCached(s, TagOf(b))'
      BY <2>1 DEF DisjointInv, Coherent, CoherentThread, Handling, NotCached, lineVars
    <3>2. ~ Stored(a)'
      BY <2>1 DEF Stored
    <3>3. Mem(b)' = gp["write"].data
      BY <1>1, <1>2, <2>1, StoreChanges DEF Handling
    <3> QED
      BY <1>2, <2>2, <3>1, <3>2, <3>3, ViewIsWhereNext DEF ViewWhere
  <2>3. CASE a # b
    BY <1>1, <2>1, <2>3, OtherStoreView
  <2> QED
    BY <2>2, <2>3
<1>5. CASE WriteBackHit \/ AllocatedWrite \/ WriteThroughHit
  <2>1. /\ pc["write"] \in {"hit", "access"} /\ WriteWord("write")
        /\ UNCHANGED <<valid, tag, page_table, gp>>
        /\ pc'["write"] = IF WriteThroughHit THEN "store" ELSE "put"
    BY <1>1, <1>2, <1>5
    DEF WriteBackHit, AllocatedWrite, WriteThroughHit, Finish, Goto, TypeOK, locals
  <2>2. \A c \in ClientAddrs : ~ Stored(c) /\ (Stored(c)' <=> WriteThroughHit /\ c = b)
    BY <1>3, <2>1 DEF Stored
  <2>3. CASE a = b
    <3>1. CASE WriteThroughHit
      BY <1>2, <2>1, <2>2, <2>3, <3>1, ViewIsWhereNext DEF ViewWhere
    <3>2. CASE ~ WriteThroughHit
      <4>1. Policy("write") = "write_back"
        BY <1>5, <3>2 DEF WriteBackHit, AllocatedWrite, DisjointInv, Coherent, CoherentThread,
                          Requesters
      <4>2. ~ WriteThroughOnly
        BY <1>1, <4>1, SafeRequests DEF Handling
      <4>3. w \in Ways /\ valid'[s][w] /\ tag'[s][w] = TagOf(b)
        BY <2>1, <4>2, OwnLine DEF DisjointInv
      <4>4. data'[s][w][WriteOffset(b)] = gp["write"].data
        BY <1>1, <1>2, <2>1, <4>3 DEF WriteWord, Handling, TypeOK
      <4>5. ReadOffset(b) = WriteOffset(b)
        BY <1>2, ClientAddress
      <4> QED
        BY <1>2, <2>2, <2>3, <3>2, <4>3, <4>4, <4>5, ViewIsWhereNext DEF ViewWhere
    <3> QED
      BY <3>1, <3>2
  <2>4. CASE a # b /\ SetIndex(a) = s
    <3>1. \A v \in Ways : tag[s][v] = TagOf(a)
             => data'[s][v][ReadOffset(a)] = data[s][v][ReadOffset(a)]
      BY <2>1, <2>4, OtherWords
    <3>2. Mem(a)' = Mem(a)
      BY <2>1 DEF Mem
    <3> QED
      BY <1>2, <2>1, <2>2, <2>4, <3>1, <3>2, ViewSame
  <2>5. CASE a # b /\ SetIndex(a) # s
    BY <1>1, <2>5, OtherSetView DEF Handling
  <2> QED
    BY <2>3, <2>4, <2>5
<1> QED
  BY <1>4, <1>5 DEF Commits

\* A step that changes no line and no memory.
LEMMA CalmView ==
    ASSUME NEW a \in ClientAddrs, UNCHANGED <<lineVars, page_table>>,
           Stored(a)' <=> Stored(a), Stored(a) => gp'["write"] = gp["write"]
    PROVE  ViewAt(a)' = ViewAt(a)
<1>1. PICK s \in Sets : s = SetIndex(a)
  BY ClientAddress
<1>2. Mem(a)' = Mem(a)
  BY DEF Mem
<1> QED
  BY <1>1, <1>2, ViewSame DEF lineVars

\* The store that follows a write-through hit: memory has the value, which the line
\* had before.
LEMMA StoreView ==
    ASSUME DisjointInv, DisjointInv', SafeAttributes, AlignedAddrs, WriteThroughStore,
           NEW s, NEW b, NEW w, Handling("write", s, b, w), NEW a \in ClientAddrs
    PROVE  ViewAt(a)' = ViewAt(a)
<1>1. /\ HandlerStep("write") /\ TypeOK /\ pc["write"] = "store"
      /\ UNCHANGED lineVars /\ StoreWord("write")
  BY DEF WriteThroughStore, HandlerStep, WriteAccess, DisjointInv
<1>2. CASE a # b
  BY <1>1, <1>2, OtherStoreView
<1>3. CASE a = b
  <2>1. /\ s \in Sets /\ w \in Ways /\ b \in Nat /\ SetIndex(b) = s /\ tag[s][w] = TagOf(b)
        /\ \A v \in Ways \ {w} : valid[s][v] => tag[s][v] # TagOf(b)
    BY <1>1, OwnLine DEF DisjointInv
  <2>2. data[s][w][WriteOffset(b)] = gp["write"].data
    BY <1>1 DEF Handling, DisjointInv, Coherent, CoherentThread
  <2>3. ViewAt(a) = gp["write"].data
    BY <1>1, <1>3 DEF ViewAt, Stored, Handling
  <2>4. pc'["write"] = "put"
    BY <1>1 DEF WriteThroughStore, Finish, Goto, TypeOK, Channels, Requesters
  <2>5. ~ Stored(a)' /\ Mem(a)' = gp["write"].data
    BY <1>1, <1>3, <2>1, <2>4, StoreChanges DEF Stored, Handling
  <2>6. CASE valid'[s][w]
    <3>1. ReadOffset(b) = WriteOffset(b)
      BY <1>3, ClientAddress
    <3> QED
      BY <1>1, <1>3, <2>1, <2>2, <2>3, <2>5, <2>6, <3>1, ViewIsWhereNext
      DEF ViewWhere, lineVars
  <2>7. CASE ~ valid'[s][w]
    <3>1. NotCached(s, TagOf(b))'
      BY <1>1, <2>1, <2>7 DEF NotCached, lineVars
    <3> QED
      BY <1>3, <2>1, <2>3, <2>5, <3>1, ViewIsWhereNext DEF ViewWhere
  <2> QED
    BY <2>6, <2>7
<1> QED
  BY <1>2, <1>3

\* A victim's words are in its line until the way is taken.
LEMMA VictimView ==
    ASSUME DisjointInv, NEW t, NEW s, NEW b, NEW w, Handling(t, s, b, w), WriteBackVictim(t),
           NEW a \in ClientAddrs
    PROVE  ViewAt(a)' = ViewAt(a)
<1>1. HandlerStep(t) /\ t \in Requesters /\ t \in Channels /\ TypeOK
  BY HandlingTypes DEF WriteBackVictim, HandlerStep, Handling, DisjointInv
<1>2. CASE SetIndex(a) # s
  BY <1>1, <1>2, OtherSetView DEF Handling
<1>3. CASE SetIndex(a) = s
  <2>1. /\ s \in Sets /\ w \in Ways /\ valid[s][w]
        /\ victim[t] = LineAddress(tag[s][w], s)
    BY <1>1, HandlingTypes DEF WriteBackVictim, WaitsWithWay, Handling, DisjointInv, Coherent,
                               CoherentThread, HoldsVictim
  <2>2. UNCHANGED <<valid, tag, data, gp>> /\ pc[t] = "evict" /\ pc'[t] = "fill"
    BY <1>1 DEF WriteBackVictim, Goto, TypeOK, locals
  <2>3. PICK g \in Nat, o \in Offsets : g = TagOf(a) /\ a = LineAddress(g, s) + o
    BY <1>3, ClientAddress
  <2>4. Mem(a)' = IF g = tag[s][w] THEN data[s][w][o] ELSE Mem(a)
    BY <1>1, <2>1, <2>3, WriteBackChanges DEF Handling
  <2>5. NotCached(s, TagOf(a)) => Mem(a)' = Mem(a)
    BY <2>1, <2>3, <2>4 DEF NotCached
  <2>6. Stored(a)' <=> Stored(a)
    <3>1. CASE t = "write"
      BY <2>2, <3>1 DEF Stored
    <3>2. CASE t = "read"
      BY <1>1, <3>2, OtherThread DEF Requesters, SameThread, Stored, Addr
    <3> QED
      BY <1>1, <3>1, <3>2 DEF Requesters
  <2> QED
    BY <1>3, <2>1, <2>2, <2>5, <2>6, ViewSame
<1> QED
  BY <1>2, <1>3

\* A fill: the block that leaves is in memory, the one that comes is from there.
LEMMA FillView ==
    ASSUME DisjointInv, DisjointInv', SafeAttributes, AlignedAddrs,
           NEW t, NEW s, NEW b, NEW w, Handling(t, s, b, w), FillLine(t),
           NEW a \in ClientAddrs
    PROVE  ViewAt(a)' = ViewAt(a)
<1>1. /\ HandlerStep(t) /\ t \in Requesters /\ t \in Channels
      /\ TypeOK /\ ClientRule /\ TagsInv /\ Coherent
  BY HandlingTypes DEF FillLine, HandlerStep, Handling, DisjointInv
<1>2. CASE SetIndex(a) # s
  BY <1>1, <1>2, OtherSetView DEF Handling
<1>3. CASE SetIndex(a) = s
  <2>1. /\ s \in Sets /\ w \in Ways /\ b \in Nat /\ SetIndex(b) = s
        /\ pc[t] = "fill" /\ pc'[t] = "access" /\ UNCHANGED page_table
    BY <1>1, HandlingTypes DEF FillLine, WaitsWithWay, Goto, TypeOK
  <2>2. /\ tag'[s][w] = TagOf(b)
        /\ \A v \in Ways \ {w} : valid'[s][v] = valid[s][v] /\ tag'[s][v] = tag[s][v]
    BY <1>1, LinesAfterFill
  <2>3. /\ data'[s][w] = MemoryBlock(b)
        /\ \A v \in Ways \ {w} : data'[s][v] = data[s][v]
    BY <1>1, <2>1 DEF FillLine, Handling, TypeOK
  <2>4. ~ Stored(a) /\ ~ Stored(a)'
    <3>1. CASE t = "write"
      BY <2>1, <3>1 DEF Stored
    <3>2. CASE t = "read"
      <4>1. SameThread("write")
        BY <1>1, <3>2, OtherThread DEF Requesters
      <4>2. pc["write"] = "store" => SetOf("write") # s
        BY <1>1, <3>2, HandledApart DEF Handling, Requesters
      <4> QED
        BY <1>3, <4>1, <4>2 DEF Stored, SameThread, SetOf, Addr
    <3> QED
      BY <1>1, <3>1, <3>2 DEF Requesters
  <2>5. Mem(a)' = Mem(a) /\ ViewWhere /\ ViewWhere'
    BY <2>1, ViewIsWhere, ViewIsWhereNext DEF Mem
  <2>6. CASE \E v \in Ways \ {w} : valid[s][v] /\ tag[s][v] = TagOf(a)
    BY <1>3, <2>2, <2>3, <2>4, <2>5, <2>6 DEF ViewWhere
  <2>7. CASE \A v \in Ways \ {w} : ~ (valid[s][v] /\ tag[s][v] = TagOf(a))
    <3>1. ViewAt(a) = Mem(a)
      <4>1. CASE valid[s][w] /\ tag[s][w] = TagOf(a)
        <5>1. ~ dirty[s][w]
          BY <1>1, <2>1, <4>1 DEF Coherent, CoherentThread, Handling
        <5>2. Matches(s, w)
          BY <1>1, <2>1, <4>1, <5>1 DEF Coherent, CoherentLine
        <5>3. data[s][w][ReadOffset(a)] = Mem(a)
          BY <1>3, <2>1, <2>4, <4>1, <5>2, CleanWord
        <5> QED
          BY <1>3, <2>1, <2>4, <2>5, <4>1, <5>3 DEF ViewWhere
      <4>2. CASE ~ (valid[s][w] /\ tag[s][w] = TagOf(a))
        <5>1. NotCached(s, TagOf(a))
          BY <2>7, <4>2 DEF NotCached
        <5> QED
          BY <1>3, <2>4, <2>5, <5>1 DEF ViewWhere
      <4> QED
        BY <4>1, <4>2
    <3>2. ViewAt(a)' = Mem(a)
      <4>1. CASE valid'[s][w] /\ TagOf(b) = TagOf(a)
        <5>1. PICK o \in Offsets : o = WriteOffset(a)
          BY ClientAddress
        <5>2. MemoryBlock(b)[o] = Mem(a)
          BY <1>3, <2>1, <4>1, <5>1, MemoryBlockWords, ClientAddress
        <5>3. ReadOffset(a) = o
          BY <5>1, ClientAddress
        <5> QED
          BY <1>3, <2>1, <2>2, <2>3, <2>4, <2>5, <4>1, <5>2, <5>3 DEF ViewWhere
      <4>2. CASE ~ (valid'[s][w] /\ TagOf(b) = TagOf(a))
        <5>1. NotCached(s, TagOf(a))'
          BY <2>2, <2>7, <4>2 DEF NotCached
        <5> QED
          BY <1>3, <2>4, <2>5, <5>1 DEF ViewWhere
      <4> QED
        BY <4>1, <4>2
    <3> QED
      BY <3>1, <3>2
  <2> QED
    BY <2>6, <2>7
<1> QED
  BY <1>2, <1>3

\* A dropped line is clean.
LEMMA DropView ==
    ASSUME DisjointInv, DisjointInv', SafeAttributes, AlignedAddrs, Invalidate \/ Flush,
           NEW a \in ClientAddrs
    PROVE  ViewAt(a)' = ViewAt(a)
<1>1. PICK s \in Sets : s = SetIndex(a)
  BY ClientAddress
<1>2. TypeOK /\ TagsInv /\ WriteThroughOnly /\ ViewWhere /\ ViewWhere'
  BY ServicesNeedWriteThrough, ViewIsWhere, ViewIsWhereNext DEF DisjointInv
<1>3. /\ UNCHANGED <<tag, data, page_table>>
      /\ \A w \in Ways : valid'[s][w] => valid[s][w]
  BY <1>2 DEF Invalidate, InvalidateGet, InvalidateLines, InvalidatePut, Flush, FlushGet,
              FlushLines, FlushPut, lineVars, TypeOK
<1>4. pc'["write"] = pc["write"] /\ gp'["write"] = gp["write"]
  BY <1>2 DEF Invalidate, InvalidateGet, InvalidateLines, InvalidatePut, Flush, FlushGet,
              FlushLines, FlushPut, Goto, locals, TypeOK, Requesters, Channels
<1>5. (Stored(a)' <=> Stored(a)) /\ Mem(a)' = Mem(a)
  BY <1>3, <1>4 DEF Stored, Addr, Mem
<1>6. CASE Stored(a)
  BY <1>2, <1>4, <1>5, <1>6 DEF ViewWhere
<1>7. CASE ~ Stored(a) /\ NotCached(s, TagOf(a))
  <2>1. NotCached(s, TagOf(a))'
    BY <1>3, <1>7 DEF NotCached
  <2> QED
    BY <1>1, <1>2, <1>5, <1>7, <2>1 DEF ViewWhere
<1>8. CASE ~ Stored(a) /\ ~ NotCached(s, TagOf(a))
  <2>1. PICK w \in Ways : valid[s][w] /\ tag[s][w] = TagOf(a)
    BY <1>8 DEF NotCached
  <2>2. CASE valid'[s][w]
    BY <1>1, <1>2, <1>3, <1>5, <1>8, <2>1, <2>2 DEF ViewWhere
  <2>3. CASE ~ valid'[s][w]
    <3>1. NotCached(s, TagOf(a))'
      BY <1>2, <1>3, <2>1, <2>3, OnlyCachingWay DEF NotCached
    <3>2. Matches(s, w)
      BY <1>2, <2>1 DEF DisjointInv, Coherent, CoherentLine
    <3>3. data[s][w][ReadOffset(a)] = Mem(a)
      BY <1>1, <1>8, <2>1, <3>2, CleanWord
    <3> QED
      BY <1>1, <1>2, <1>5, <1>8, <2>1, <3>1, <3>3 DEF ViewWhere
  <2> QED
    BY <2>2, <2>3
<1> QED
  BY <1>6, <1>7, <1>8

\* The memory the clients see changes where a write takes effect, and only there.
LEMMA ViewStep ==
    ASSUME DisjointInv, DisjointInv', SafeAttributes, AlignedAddrs, [DisjointNext]_vars
    PROVE  View' = IF Commits THEN [View EXCEPT ![Addr("write")] = gp["write"].data] ELSE View
<1>1. TypeOK /\ ClientRule /\ TagsInv /\ Coherent
  BY DEF DisjointInv
<1>2. ASSUME NEW t \in Requesters, pc[t] # "get"
      PROVE  \E s, b, w : Handling(t, s, b, w) /\ b = Addr(t)
  BY <1>2 DEF Handling
<1>3. CASE Commits
  <2>1. pc["write"] # "get" /\ "write" \in Requesters
    BY <1>3 DEF Commits, WriteDirect, WriteBackHit, WriteThroughHit, WriteThroughMiss,
                AllocatedWrite, Requesters
  <2>2. PICK s, b, w : Handling("write", s, b, w) /\ b = Addr("write")
    BY <1>2, <2>1
  <2>3. \A a \in ClientAddrs : ViewAt(a)' = IF a = b THEN gp["write"].data ELSE ViewAt(a)
    BY <1>3, <2>2, CommitView
  <2>4. PICK F : F = [a \in ClientAddrs |-> ViewAt(a)] /\ View = F
    BY ViewIsAt
  <2>5. View' = [F EXCEPT ![b] = gp["write"].data]
    BY <2>3, <2>4, ViewIsAt
  <2> QED
    BY <1>3, <2>2, <2>4, <2>5
<1>4. CASE ~ Commits
  <2> SUFFICES ASSUME NEW a \in ClientAddrs PROVE ViewAt(a)' = ViewAt(a)
    BY <1>4, ViewIsAt
  <2>1. ASSUME NEW t \in Requesters, Start(t) \/ HandlerStep(t)
        PROVE  ViewAt(a)' = ViewAt(a)
    <3>1. pc[t] # "get" /\ t \in Channels
      BY <1>1, <2>1, EnterChanges, HandlerChanges DEF InFlight, WaitsWithWay, Requesters, Channels
    <3>2. PICK s, b, w : Handling(t, s, b, w)
      BY <1>2, <3>1
    <3>3. CASE t = "write" /\ WriteThroughStore
      BY <3>2, <3>3, StoreView
    <3>4. CASE WriteBackVictim(t)
      BY <3>2, <3>4, VictimView
    <3>5. CASE FillLine(t)
      BY <3>2, <3>5, FillView
    <3>6. CASE Start(t) \/ (t = "read" /\ ReadLine)
      <4>1. UNCHANGED <<lineVars, page_table>>
        BY <3>6 DEF Start, StartInternal, StartHit, StartThrough, StartBypass, StartFill,
                    StartEvict, Miss, Enter, ReadLine
      <4>2. (Stored(a)' <=> Stored(a)) /\ (Stored(a) => gp'["write"] = gp["write"])
        <5>1. CASE t = "read"
          BY <1>1, <2>1, <5>1, OtherThread DEF Requesters, SameThread, Stored, Addr
        <5>2. CASE t = "write"
          <6>1. Start(t)
            BY <3>6, <5>2
          <6>2. pc[t] # "store" /\ pc'[t] # "store"
            BY <1>1, <3>1, <6>1 DEF Start, StartInternal, StartHit, StartThrough, StartBypass,
               StartFill, StartEvict, Miss, Enter, PassMutexes, Goto, TypeOK
          <6> QED
            BY <5>2, <6>2 DEF Stored
        <5> QED
          BY <5>1, <5>2 DEF Requesters
      <4> QED
        BY <4>1, <4>2, CalmView
    <3>7. ~ (t = "read" /\ ReadDirect) /\ ~ (t = "write" /\ WriteThroughAllocate)
      BY <1>1 DEF Coherent, CoherentThread, ReadDirect, WriteThroughAllocate
    <3> QED
      BY <1>4, <2>1, <3>3, <3>4, <3>5, <3>6, <3>7 DEF HandlerStep, WriteAccess, Commits
  <2>2. ASSUME NEW t \in Requesters, ThreadStep(t)
        PROVE  ViewAt(a)' = ViewAt(a)
    <3>1. UNCHANGED <<lineVars, page_table>>
      BY <2>2 DEF ThreadStep, GetRequest, WaitForFlush, PutResponse
    <3>2. (Stored(a)' <=> Stored(a)) /\ (Stored(a) => gp'["write"] = gp["write"])
      <4>1. CASE t = "read"
        BY <1>1, <2>2, <4>1, OtherThread DEF Requesters, SameThread, Stored, Addr
      <4>2. CASE t = "write"
        BY <1>1, <2>2, <4>2 DEF ThreadStep, GetRequest, WaitForFlush, PutResponse, Goto, TypeOK,
                                Stored, Channels, Requesters
      <4> QED
        BY <4>1, <4>2 DEF Requesters
    <3> QED
      BY <3>1, <3>2, CalmView
  <2>3. CASE Invalidate \/ Flush
    BY <2>3, DropView
  <2>4. CASE (\E c \in Channels : PutDisjoint(c) \/ ClientGet(c)) \/ UNCHANGED vars
    <3>1. UNCHANGED <<lineVars, page_table, pc, gp>>
      BY <2>4 DEF PutDisjoint, ClientPut, ClientGet, vars, locals
    <3> QED
      BY <3>1, CalmView DEF Stored, Addr
  <2> QED
    BY <2>1, <2>2, <2>3, <2>4, DisjointSteps
<1> QED
  BY <1>3, <1>4

-----------------------------------------------------------------------------
(***************************************************************************)
(* The ports.                                                              *)
(***************************************************************************)
Pending(r) == [state |-> "pending", req |-> r]
Done(r)    == [state |-> "done", req |-> r]
IdlePort   == [state |-> "idle"]

LEMMA UntouchedPort ==
    ASSUME NEW u \in Requesters, Untouched(u)
    PROVE  PortOf(u)' = PortOf(u)
  BY DEF Untouched, PortOf, Outstanding, Performed, Request

\* A thread between its get and its put.
LEMMA HandledPort ==
    ASSUME OnePerChannel, NEW t \in Requesters, pc[t] # "get"
    PROVE  PortOf(t) = IF pc[t] \in {"put", "store"} THEN Done(gp[t]) ELSE Pending(gp[t])
<1>1. t \in Channels
  BY DEF Requesters, Channels
<1> QED
  BY <1>1 DEF OnePerChannel, PortOf, Outstanding, Performed, Request, Done, Pending

HandledPorts ==
    \A t \in Requesters :
        pc[t] # "get" =>
            PortOf(t) = IF pc[t] \in {"put", "store"} THEN Done(gp[t]) ELSE Pending(gp[t])

LEMMA HandledPortsNext == ClientRule' => HandledPorts'
<1>1. ClientRule => HandledPorts
  BY HandledPort DEF ClientRule, HandledPorts
<1> QED
  BY <1>1, PTL

\* A request that is taken, or answered, changes its place and not its state.
LEMMA ThreadPort ==
    ASSUME TypeOK, ClientRule, ClientRule', NEW t \in Requesters, ThreadStep(t)
    PROVE  PortOf(t)' = PortOf(t)
<1>1. t \in Channels /\ OnePerChannel /\ OnePerChannel'
  BY DEF Requesters, Channels, ClientRule
<1>2. Outstanding(t) /\ Outstanding(t)' /\ Request(t)' = Request(t)
  BY <1>1, ThreadMoves
<1>3. Performed(t)' <=> Performed(t)
  <2>1. CASE GetRequest(t)
    BY <1>1, <2>1 DEF GetRequest, Goto, TypeOK, OnePerChannel, Performed
  <2>2. CASE WaitForFlush(t)
    BY <1>1, <2>2 DEF WaitForFlush, Goto, TypeOK, OnePerChannel, Performed, fifos
  <2>3. CASE PutResponse(t)
    <3>1. gp[t] # NoMsg
      BY <1>1, <2>3, RealMessages DEF PutResponse, TypeOK
    <3> QED
      BY <1>1, <2>3, <3>1 DEF PutResponse, Goto, TypeOK, OnePerChannel, Performed
  <2> QED
    BY <2>1, <2>2, <2>3 DEF ThreadStep
<1> QED
  BY <1>2, <1>3 DEF PortOf

\* A step of the handlers: the access takes effect, or nothing is to be seen.
LEMMA HandlerPort ==
    ASSUME DisjointInv, DisjointInv', NEW t \in Requesters, Start(t) \/ HandlerStep(t)
    PROVE  IF t = "write" /\ Commits
           THEN PortOf(t) = Pending(gp[t]) /\ PortOf(t)' = Done(gp[t])
           ELSE IF t = "read" /\ ReadLine
           THEN PortOf(t) = Pending(gp[t]) /\ PortOf(t)' = Done(gp'[t])
           ELSE PortOf(t)' = PortOf(t)
<1>1. TypeOK /\ ClientRule /\ ClientRule' /\ t \in Channels
  BY DEF DisjointInv, Requesters, Channels
<1>2. pc[t] # "get" /\ pc'[t] # "get"
  BY <1>1, HandlerMoves DEF ClientRule
<1>3. /\ PortOf(t) = IF pc[t] \in {"put", "store"} THEN Done(gp[t]) ELSE Pending(gp[t])
      /\ PortOf(t)' = IF pc'[t] \in {"put", "store"} THEN Done(gp'[t]) ELSE Pending(gp'[t])
  BY <1>1, <1>2, HandledPort, HandledPortsNext DEF ClientRule, HandledPorts
<1>4. CASE t = "write" /\ Commits
  BY <1>1, <1>3, <1>4 DEF Commits, WriteDirect, WriteBackHit, WriteThroughHit,
     WriteThroughMiss, AllocatedWrite, Finish, Goto, TypeOK, locals
<1>5. CASE t = "read" /\ ReadLine
  BY <1>1, <1>3, <1>5 DEF ReadLine, Finish, Goto, TypeOK
<1>6. CASE ~ (t = "write" /\ Commits) /\ ~ (t = "read" /\ ReadLine)
  <2>1. CASE Start(t)
    <3>1. UNCHANGED gp /\ pc[t] \notin {"put", "store"}
      BY <1>1, <2>1 DEF Start, StartInternal, StartHit, StartThrough, StartBypass, StartFill,
                        StartEvict, Miss, Enter, PassMutexes
    <3>2. pc'[t] \notin {"put", "store"}
      BY <1>1, <2>1 DEF Start, StartInternal, StartHit, StartThrough, StartBypass, StartFill,
                        StartEvict, Goto, TypeOK
    <3> QED
      BY <1>3, <1>6, <3>1, <3>2
  <2>2. CASE WriteBackVictim(t) \/ FillLine(t) \/ (t = "write" /\ WriteThroughStore)
    <3>1. /\ UNCHANGED gp
          /\ pc[t] \in {"put", "store"} <=> pc'[t] \in {"put", "store"}
      BY <1>1, <2>2 DEF WriteBackVictim, FillLine, WriteThroughStore, Finish, Goto, TypeOK,
                        locals
    <3> QED
      BY <1>3, <1>6, <3>1
  <2>3. ~ (t = "read" /\ ReadDirect) /\ ~ (t = "write" /\ WriteThroughAllocate)
    BY DEF DisjointInv, Coherent, CoherentThread, ReadDirect, WriteThroughAllocate
  <2> QED
    BY <1>6, <2>1, <2>2, <2>3 DEF HandlerStep, WriteAccess, Commits
<1> QED
  BY <1>3, <1>4, <1>5, <1>6

PortMap == [t \in Requesters |-> PortOf(t)]

LEMMA PortsSame ==
    ASSUME \A u \in Requesters : PortOf(u)' = PortOf(u)
    PROVE  PortMap' = PortMap
  BY DEF PortMap

LEMMA PortChanged ==
    ASSUME NEW t \in Requesters, NEW x, PortOf(t)' = x,
           \A u \in Requesters \ {t} : PortOf(u)' = PortOf(u)
    PROVE  PortMap' = [PortMap EXCEPT ![t] = x]
  BY DEF PortMap

-----------------------------------------------------------------------------
(***************************************************************************)
(* The refinement.                                                         *)
(***************************************************************************)
LEMMA RefinesInit == Init => Atomic!Init
<1> SUFFICES ASSUME Init PROVE Atomic!Init
  OBVIOUS
<1>1. ASSUME NEW a \in ClientAddrs
      PROVE  ViewAt(a) = 0
  <2>1. pc["write"] = "get" /\ page_table = NoPages
    BY DEF Init, Channels, Requesters
  <2>2. CachingWays(a) = {}
    BY ClientAddress DEF Init, CachingWays
  <2> QED
    BY <2>1, <2>2 DEF ViewAt, Stored, Mem, WordAt, ReadMemory, NoPages
<1>2. View = [a \in ClientAddrs |-> 0]
  BY <1>1, ViewIsAt
<1>3. \A t \in Requesters : PortOf(t) = IdlePort
  BY DEF Init, PortOf, Outstanding, IdlePort, Channels
<1> QED
  BY <1>2, <1>3 DEF Atomic!Init, Atomic!Ports, Atomic!Idle, IdlePort, Requesters

LEMMA CommitMoves ==
    ASSUME TypeOK, Commits
    PROVE  pc'["write"] # pc["write"] /\ pc["write"] # "get"
  BY DEF Commits, WriteDirect, WriteBackHit, WriteThroughHit, WriteThroughMiss, AllocatedWrite,
         Finish, Goto, TypeOK, Channels, Requesters

\* A read finds in its line what its client sees in memory.
LEMMA ReadsView ==
    ASSUME DisjointInv, AlignedAddrs, pc["read"] \in {"hit", "access"}
    PROVE  /\ Addr("read") \in ClientAddrs
           /\ data[SetOf("read")][way["read"]][ReadOffset(Addr("read"))] = View[Addr("read")]
<1>1. TypeOK /\ ClientRule /\ "read" \in Requesters /\ "write" \in Requesters
  BY DEF DisjointInv, Requesters
<1>2. PICK s, a, w : Handling("read", s, a, w)
  BY <1>1 DEF Handling
<1>3. /\ s \in Sets /\ w \in Ways /\ SetIndex(a) = s /\ tag[s][w] = TagOf(a)
      /\ \A v \in Ways \ {w} : valid[s][v] => tag[s][v] # TagOf(a)
      /\ valid[s][w] \/ (WriteThroughOnly /\ Matches(s, w))
  BY <1>2, OwnLine DEF DisjointInv
<1>4. a \in ClientAddrs
  BY <1>1, <1>2, WritersAddress DEF Handling
<1>5. ~ Stored(a)
  BY <1>1, <1>2, <1>3, HandledApart DEF Stored, Handling, SetOf, Addr
<1>6. ViewWhere
  BY ViewIsWhere
<1>7. CASE valid[s][w]
  BY <1>2, <1>3, <1>4, <1>5, <1>6, <1>7, ViewIsAt DEF ViewWhere, Handling
<1>8. CASE ~ valid[s][w]
  <2>1. NotCached(s, TagOf(a))
    BY <1>3, <1>8 DEF NotCached
  <2>2. data[s][w][ReadOffset(a)] = Mem(a)
    BY <1>3, <1>4, <1>5, <1>8, CleanWord
  <2> QED
    BY <1>2, <1>3, <1>4, <1>5, <1>6, <2>1, <2>2, ViewIsAt DEF ViewWhere, Handling
<1> QED
  BY <1>7, <1>8

\* Every step is a step of the atomic memory, or changes nothing there.
LEMMA RefinesStep ==
    ASSUME DisjointInv, DisjointInv', SafeAttributes, AlignedAddrs, [DisjointNext]_vars
    PROVE  Atomic!Next \/ (View' = View /\ PortMap' = PortMap)
<1>1. TypeOK /\ ClientRule /\ ClientRule' /\ Requesters \subseteq Channels
  BY DEF DisjointInv, Requesters, Channels
<1>2. View' = IF Commits THEN [View EXCEPT ![Addr("write")] = gp["write"].data] ELSE View
  BY ViewStep
<1>3. ASSUME NEW t \in Requesters, Start(t) \/ HandlerStep(t)
      PROVE  Atomic!Next \/ (View' = View /\ PortMap' = PortMap)
  <2>1. \A u \in Requesters \ {t} : PortOf(u)' = PortOf(u)
    BY <1>1, <1>3, ThreadsApart, UntouchedPort
  <2>2. CASE t = "write" /\ Commits
    <3>1. PortOf(t) = Pending(gp[t]) /\ PortOf(t)' = Done(gp[t])
      BY <1>3, <2>2, HandlerPort
    <3>2. PortMap[t] = Pending(gp[t]) /\ PortMap' = [PortMap EXCEPT ![t].state = "done"]
      BY <2>1, <3>1, PortChanged DEF PortMap, Pending, Done
    <3>3. View' = [View EXCEPT ![PortMap[t].req.addr] = PortMap[t].req.data]
      BY <1>2, <2>2, <3>2 DEF Pending, Addr
    <3>4. PortMap[t].state = "pending"
      BY <3>2 DEF Pending
    <3>5. Atomic!Perform(t)
      BY <2>2, <3>2, <3>3, <3>4 DEF Atomic!Perform, PortMap
    <3> QED
      BY <2>2, <3>5 DEF Atomic!Next, Atomic!Ports
  <2>3. CASE t = "read" /\ ReadLine
    <3>1. PortOf(t) = Pending(gp[t]) /\ PortOf(t)' = Done(gp'[t])
      BY <1>3, <2>3, HandlerPort
    <3>2. PortMap[t] = Pending(gp[t]) /\ PortMap' = [PortMap EXCEPT ![t] = Done(gp'[t])]
      BY <2>1, <3>1, PortChanged DEF PortMap
    <3>3. gp'[t] = [gp[t] EXCEPT !.data = View[gp[t].addr]]
      BY <1>1, <2>3, ReadsView DEF ReadLine, ReadWord, Addr, TypeOK
    <3>4. View' = View
      BY <1>1, <1>2, <2>3, CommitMoves DEF ReadLine, Finish, Goto, TypeOK
    <3>5. PortMap[t].state = "pending" /\ PortMap[t].req = gp[t]
      BY <3>2 DEF Pending
    <3>6. PortMap' = [PortMap EXCEPT ![t] =
                         [state |-> "done",
                          req |-> [PortMap[t].req EXCEPT !.data = View[PortMap[t].req.addr]]]]
      BY <3>2, <3>3, <3>5 DEF Done
    <3>7. Atomic!Perform(t)
      BY <2>3, <3>4, <3>5, <3>6 DEF Atomic!Perform, PortMap
    <3> QED
      BY <2>3, <3>7 DEF Atomic!Next, Atomic!Ports
  <2>4. CASE ~ (t = "write" /\ Commits) /\ ~ (t = "read" /\ ReadLine)
    <3>1. PortOf(t)' = PortOf(t)
      BY <1>3, <2>4, HandlerPort
    <3>2. ~ Commits
      <4>1. CASE t = "write"
        BY <2>4, <4>1
      <4>2. CASE t # "write"
        BY <1>1, <1>3, <4>2, ThreadsApart, CommitMoves DEF Untouched, Channels, Requesters
      <4> QED
        BY <4>1, <4>2
    <3> QED
      BY <1>2, <2>1, <3>1, <3>2, PortsSame
  <2> QED
    BY <2>2, <2>3, <2>4
<1>4. ASSUME NEW t \in Requesters, ThreadStep(t)
      PROVE  View' = View /\ PortMap' = PortMap
  <2>1. \A u \in Requesters \ {t} : Untouched(u)
    BY <1>1, <1>4, ThreadsApart
  <2>2. PortMap' = PortMap
    BY <1>1, <1>4, <2>1, ThreadPort, UntouchedPort, PortsSame
  <2>3. ~ Commits
    <3>1. CASE t = "write"
      BY <1>1, <1>4, <3>1 DEF ThreadStep, GetRequest, WaitForFlush, PutResponse, Commits,
         WriteDirect, WriteBackHit, WriteThroughHit, WriteThroughMiss, AllocatedWrite
    <3>2. CASE t # "write"
      BY <1>1, <2>1, <3>2, CommitMoves DEF Untouched, Requesters
    <3> QED
      BY <3>1, <3>2
  <2> QED
    BY <1>2, <2>2, <2>3
<1>5. ASSUME \A u \in Requesters : Untouched(u)
      PROVE  View' = View /\ PortMap' = PortMap
  <2>1. ~ Commits
    BY <1>1, <1>5, CommitMoves DEF Untouched, Requesters
  <2> QED
    BY <1>2, <1>5, <2>1, UntouchedPort, PortsSame
<1>6. CASE Invalidate \/ Flush
  BY <1>1, <1>5, <1>6
  DEF Invalidate, InvalidateGet, InvalidateLines, InvalidatePut, Flush, FlushGet, FlushLines,
      FlushPut, Goto, Untouched, locals, fifos, TypeOK, Requesters, Channels
<1>7. ASSUME NEW c \in Channels, PutDisjoint(c)
      PROVE  Atomic!Next \/ (View' = View /\ PortMap' = PortMap)
  <2>1. PICK m \in Messages(c) : ClientPut(c, m) /\ ~ Outstanding(c)
    BY <1>7 DEF PutDisjoint
  <2>2. /\ \A d \in Channels \ {c} : Untouched(d)
        /\ Outstanding(c)' /\ Request(c)' = m
        /\ pc'[c] = "get" /\ rsp_fifo'[c] = NoMsg
    BY <1>1, <2>1, PutChanges
  <2>3. CASE c \in Requesters
    <3>1. PortOf(c) = IdlePort /\ PortOf(c)' = Pending(m)
      BY <2>1, <2>2 DEF PortOf, IdlePort, Pending, Performed
    <3>2. PortMap[c] = IdlePort /\ PortMap' = [PortMap EXCEPT ![c] = Pending(m)]
      BY <1>1, <2>2, <2>3, <3>1, UntouchedPort, PortChanged DEF PortMap
    <3>3. View' = View
      <4>1. pc' = pc
        BY <2>1 DEF ClientPut
      <4> QED
        BY <1>1, <1>2, <4>1, CommitMoves
    <3>4. Atomic!Invoke(c)
      BY <2>1, <3>2, <3>3 DEF Atomic!Invoke, Atomic!Idle, IdlePort, Pending, PortMap
    <3> QED
      BY <2>3, <3>4 DEF Atomic!Next, Atomic!Ports, Requesters
  <2>4. CASE c \notin Requesters
    BY <1>1, <1>5, <2>2, <2>4
  <2> QED
    BY <2>3, <2>4
<1>8. ASSUME NEW c \in Channels, ClientGet(c)
      PROVE  Atomic!Next \/ (View' = View /\ PortMap' = PortMap)
  <2>1. /\ rsp_fifo[c] # NoMsg /\ rsp_fifo'[c] = NoMsg
        /\ \A d \in Channels \ {c} : Untouched(d)
        /\ UNCHANGED <<pc, req_fifo>>
    BY <1>1, <1>8 DEF ClientGet, Untouched, locals, TypeOK
  <2>2. req_fifo[c] = NoMsg /\ pc[c] = "get"
    BY <2>1 DEF DisjointInv, ClientRule, OnePerChannel
  <2>3. CASE c \in Requesters
    <3>1. PortOf(c) = Done(rsp_fifo[c]) /\ PortOf(c)' = IdlePort
      BY <2>1, <2>2 DEF PortOf, IdlePort, Done, Performed, Outstanding, Request
    <3>2. PortMap[c] = Done(rsp_fifo[c]) /\ PortMap' = [PortMap EXCEPT ![c] = IdlePort]
      BY <1>1, <2>1, <2>3, <3>1, UntouchedPort, PortChanged DEF PortMap
    <3>3. View' = View
      BY <1>1, <1>2, <2>1, CommitMoves
    <3>4. Atomic!Return(c)
      BY <3>2, <3>3 DEF Atomic!Return, Atomic!Idle, IdlePort, Done, PortMap
    <3> QED
      BY <2>3, <3>4 DEF Atomic!Next, Atomic!Ports, Requesters
  <2>4. CASE c \notin Requesters
    BY <1>1, <1>5, <2>1, <2>4
  <2> QED
    BY <2>3, <2>4
<1>9. CASE UNCHANGED vars
  BY <1>5, <1>9 DEF vars, locals, fifos, Untouched
<1> QED
  BY <1>3, <1>4, <1>6, <1>7, <1>8, <1>9, DisjointSteps

\* Reads and writes are atomic accesses to one memory, whatever is filled, evicted,
\* written back, invalidated and flushed between their requests and their answers.
\* The conditions are those that the attributes of the code and its clients need.
THEOREM ControllerLinearizes ==
    ASSUME SafeAttributes, AlignedAddrs
    PROVE  DisjointSpec => LinearizesMemory
<1>1. DisjointInv /\ [DisjointNext]_vars => DisjointInv'
  BY DisjointInvStep
<1>2. DisjointInv /\ DisjointInv' /\ [DisjointNext]_vars
      => [Atomic!Next]_<<View, PortMap>>
  BY RefinesStep
<1> QED
  BY <1>1, <1>2, DisjointInvInit, RefinesInit, PTL
  DEF DisjointSpec, LinearizesMemory, Atomic!Spec, PortMap

=============================================================================
