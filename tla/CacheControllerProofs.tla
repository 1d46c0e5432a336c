----------------------- MODULE CacheControllerProofs -----------------------
(***************************************************************************)
(* Invariants of CacheController for every geometry of the cache and the   *)
(* memory, and every client.                                               *)
(***************************************************************************)
EXTENDS CacheController, MainMemoryProofs, WellFoundedInduction

-----------------------------------------------------------------------------
(***************************************************************************)
(* Lemmas about the operators the actions are built from.                  *)
(***************************************************************************)

\* The first of a set of ways exists.
LEMMA MinOfWays ==
    ASSUME NEW S \in SUBSET Ways, S # {}
    PROVE  Min(S) \in S /\ \A y \in S : Min(S) <= y
<1> DEFINE Less == {p \in Nat \X Nat : p[1] < p[2]}
<1>1. S \subseteq Nat
  BY NumWaysAssumption DEF Ways
<1>2. IsWellFoundedOn(Less, Nat)
  BY NatLessThanWellFounded DEF OpToRel
<1>3. PICK x \in S : \A y \in S : ~ (<<y, x>> \in Less)
  <2> HIDE DEF Less
  <2> QED
    BY <1>1, <1>2, WFMin
<1>4. \A y \in S : x <= y
  <2> SUFFICES ASSUME NEW y \in S PROVE x <= y
    OBVIOUS
  <2>1. x \in Nat /\ y \in Nat /\ ~ (y < x)
    BY <1>1, <1>3
  <2> QED
    BY <2>1
<1> QED
  BY <1>3, <1>4 DEF Min

\* What a thread derives from its request.
LEMMA RequestTypes ==
    ASSUME TypeOK, NEW t \in Requesters, pc[t] # "get"
    PROVE  /\ gp[t] \in Payloads
           /\ Addr(t) \in Nat
           /\ SetOf(t) \in Sets
           /\ TagOf(Addr(t)) \in Nat
           /\ ReadOffset(Addr(t)) \in Offsets /\ WriteOffset(Addr(t)) \in Offsets
           /\ Key(t) \in Keys
<1>1. gp[t] \in Payloads
  BY AddrsAssumption, ValuesAssumption
  DEF TypeOK, Served, Messages, Payloads, Requesters, Channels
<1>2. Addr(t) \in Nat
  BY <1>1, AddrsAssumption DEF Payloads, Addr
<1>3. TagOf(Addr(t)) \in Nat
  BY <1>2, FieldTypes
<1>4. Key(t) \in Keys
  BY <1>3, DivMod, KeyModAssumption DEF Key, RequestKey, Keys
<1> QED
  BY <1>1, <1>2, <1>4, FieldTypes DEF SetOf

LEMMA AllocWayType ==
    ASSUME TypeOK, NEW s \in Sets
    PROVE  LruWay(s) \in Ways /\ AllocWay(s) \in Ways
<1>1. LruWay(s) \in Ways
  BY NumWaysAssumption DEF TypeOK, LruWay
<1>2. FreeWays(s) \in SUBSET Ways
  BY DEF FreeWays
<1> QED
  BY <1>1, <1>2, MinOfWays DEF AllocWay

LEMMA HitWaysType ==
    ASSUME NEW t \in Requesters, HitWays(t) # {}
    PROVE  Min(HitWays(t)) \in Ways
<1>1. HitWays(t) \in SUBSET Ways
  BY DEF HitWays
<1> QED
  BY <1>1, MinOfWays

LEMMA MemoryBlockType ==
    ASSUME TypeOK, NEW a \in Nat
    PROVE  MemoryBlock(a) \in [Offsets -> Values]
<1>1. BlockAddress(a) \in Nat /\ IsPageTable(page_table)
  BY BlockAddressType DEF TypeOK
<1>2. \A o \in Offsets : ReadMemory(page_table, BlockAddress(a), o) \in Values
  <2> SUFFICES ASSUME NEW o \in Offsets
               PROVE  ReadMemory(page_table, BlockAddress(a), o) \in Values
    OBVIOUS
  <2>1. o \in Nat
    BY LineSizeAssumption DEF Offsets
  <2>2. PageOffset(BlockAddress(a)) + o \in PageOffsets
    BY BlocksStayInPage
  <2> QED
    BY <1>1, <2>1, <2>2, ReadMemoryType
<1> QED
  BY <1>2 DEF MemoryBlock

\* update_lru yields a list of ways, and keeps a permutation one.
LEMMA MoveToFrontType ==
    ASSUME NEW list \in [1 .. NumWays -> Ways], NEW w \in Ways
    PROVE  MoveToFront(list, w) \in [1 .. NumWays -> Ways]
<1> DEFINE p == CHOOSE i \in 1 .. NumWays : list[i] = w
<1>1. MoveToFront(list, w) =
        [i \in 1 .. NumWays |->
            IF i = 1 THEN w ELSE IF i <= p THEN list[i - 1] ELSE list[i]]
  BY DEF MoveToFront
<1> HIDE DEF p
<1> QED
  BY <1>1, NumWaysAssumption

LEMMA MoveToFrontPermutes ==
    ASSUME NEW list \in [1 .. NumWays -> Ways], NEW w \in Ways,
           IsPermutation(list)
    PROVE  IsPermutation(MoveToFront(list, w))
<1> DEFINE p == CHOOSE i \in 1 .. NumWays : list[i] = w
           new == MoveToFront(list, w)
<1>1. p \in 1 .. NumWays /\ list[p] = w
  BY DEF IsPermutation
<1>2. new = [i \in 1 .. NumWays |->
                IF i = 1 THEN w ELSE IF i <= p THEN list[i - 1] ELSE list[i]]
  BY DEF MoveToFront
<1>3. \A i, j \in 1 .. NumWays : list[i] = list[j] => i = j
  BY DEF IsPermutation
<1>4. \A v \in Ways : \E i \in 1 .. NumWays : list[i] = v
  BY DEF IsPermutation
<1> HIDE DEF p, new
<1>5. ASSUME NEW i \in 1 .. NumWays, NEW j \in 1 .. NumWays, new[i] = new[j]
      PROVE  i = j
  <2> DEFINE old(k) == IF k = 1 THEN p ELSE IF k <= p THEN k - 1 ELSE k
  <2>1. \A k \in 1 .. NumWays : old(k) \in 1 .. NumWays /\ new[k] = list[old(k)]
    BY <1>1, <1>2, NumWaysAssumption
  <2>2. old(i) = old(j)
    BY <2>1, <1>3, <1>5
  <2> QED
    BY <2>2, <1>1, NumWaysAssumption
<1>6. ASSUME NEW v \in Ways
      PROVE  \E i \in 1 .. NumWays : new[i] = v
  <2>1. PICK j \in 1 .. NumWays : list[j] = v
    BY <1>4
  <2>2. CASE j = p
    BY <2>1, <2>2, <1>1, <1>2, NumWaysAssumption
  <2>3. CASE j < p
    <3>1. j + 1 \in 1 .. NumWays /\ new[j + 1] = v
      BY <2>1, <2>3, <1>1, <1>2, NumWaysAssumption
    <3> QED
      BY <3>1
  <2>4. CASE j > p
    BY <2>1, <2>4, <1>1, <1>2, NumWaysAssumption
  <2> QED
    BY <2>2, <2>3, <2>4, <1>1, NumWaysAssumption
<1> QED
  BY <1>5, <1>6 DEF IsPermutation, new

-----------------------------------------------------------------------------
(***************************************************************************)
(* Type correctness.                                                       *)
(***************************************************************************)

LEMMA MessagesAreServed ==
    ASSUME NEW c \in Channels, NEW m \in Messages(c)
    PROVE  m \in Served(c)
<1>1. CASE c = "read"
  BY <1>1, ValuesAssumption DEF Messages, Served
<1>2. CASE c # "read"
  BY <1>2 DEF Served
<1> QED
  BY <1>1, <1>2

LEMMA ReadWithData ==
    ASSUME NEW m \in Served("read"), NEW v \in Values
    PROVE  [m EXCEPT !.data = v] \in Served("read")
  BY DEF Served

LEMMA WriteData ==
    ASSUME NEW m \in Served("write")
    PROVE  m.data \in Values
  BY DEF Served, Messages

\* The part of TypeOK about where the threads are and what they keep there.
LocalsType ==
    /\ pc \in [Channels -> Labels]
    /\ way \in [Requesters -> Ways \union {NoWay}]
    /\ \A t \in Requesters : pc[t] \in WaitsWithWay => way[t] \in Ways
    /\ victim \in [Requesters -> Nat]

LEMMA TypeInit == Init => TypeOK
<1> SUFFICES ASSUME Init PROVE TypeOK
  OBVIOUS
<1> USE DEF Init
<1>1. 0 \in Values
  BY ValuesAssumption
<1>2. /\ valid \in [Sets -> [Ways -> BOOLEAN]]
      /\ dirty \in [Sets -> [Ways -> BOOLEAN]]
      /\ tag \in [Sets -> [Ways -> Nat]]
      /\ data \in [Sets -> [Ways -> [Offsets -> Values]]]
  BY <1>1
<1>3. lru_lists \in [Sets -> [1 .. NumWays -> Ways]]
  BY NumWaysAssumption DEF Ways
<1>4. ongoing_requests \in [Sets -> [Keys -> {"absent", "live", "cancelled"}]]
  OBVIOUS
<1>5. /\ pc \in [Channels -> Labels]
      /\ \A c \in Channels : pc[c] = "get"
  BY DEF Labels
<1>6. /\ way \in [Requesters -> Ways \union {NoWay}]
      /\ victim \in [Requesters -> Nat]
  OBVIOUS
<1>7. \A t \in Requesters : t \in Channels /\ pc[t] \notin WaitsWithWay
  BY <1>5 DEF Requesters, Channels, WaitsWithWay
<1> QED
  BY <1>2, <1>3, <1>4, <1>5, <1>6, <1>7 DEF TypeOK, IsPageTable, NoPages

LEMMA EnterType ==
    ASSUME TypeOK, NEW t \in Requesters, Start(t)
    PROVE  TypeOK'
<1>1. t \in Channels /\ pc[t] # "get"
  BY DEF Start, StartInternal, StartHit, StartThrough, StartBypass, StartFill, StartEvict,
         Miss, Enter, PassMutexes, Requesters, Channels
<1>2. /\ SetOf(t) \in Sets /\ Key(t) \in Keys
      /\ LruWay(SetOf(t)) \in Ways /\ AllocWay(SetOf(t)) \in Ways
  BY <1>1, RequestTypes, AllocWayType
<1>3. ongoing_requests' \in [Sets -> [Keys -> {"absent", "live", "cancelled"}]]
  <2>1. SetOngoing(t, "live")
    BY DEF Start, StartInternal, StartHit, StartThrough, StartBypass, StartFill, StartEvict,
           Miss, Enter
  <2> QED
    BY <1>2, <2>1 DEF TypeOK, SetOngoing
<1>4. UNCHANGED <<lineVars, lru_lists, page_table, mutexes, gp, fifos>>
  BY DEF Start, StartInternal, StartHit, StartThrough, StartBypass, StartFill, StartEvict,
         Miss, Enter
<1>5. LocalsType'
  <2> USE DEF TypeOK, LocalsType, Labels, WaitsWithWay, Goto, Requesters, Channels
  <2>1. CASE StartInternal(t)
    BY <2>1 DEF StartInternal
  <2>2. CASE StartHit(t)
    BY <2>2, HitWaysType DEF StartHit
  <2>3. CASE t = "write" /\ StartThrough
    BY <2>3 DEF StartThrough
  <2>4. CASE StartBypass(t)
    BY <2>4 DEF StartBypass
  <2>5. CASE StartFill(t)
    BY <2>5, <1>2 DEF StartFill
  <2>6. CASE StartEvict(t)
    <3> DEFINE v == LineAddress(tag[SetOf(t)][LruWay(SetOf(t))], SetOf(t))
    <3>1. v \in Nat
      BY <1>2, LineAddressType
    <3>2. victim' = [victim EXCEPT ![t] = v]
      BY <2>6 DEF StartEvict
    <3> HIDE DEF v
    <3> QED
      BY <2>6, <3>1, <3>2, <1>2 DEF StartEvict
  <2> QED
    BY <2>1, <2>2, <2>3, <2>4, <2>5, <2>6 DEF Start
<1>6. \A c \in Channels : pc'[c] # "get" => pc[c] # "get"
  BY <1>1 DEF Start, StartInternal, StartHit, StartThrough, StartBypass, StartFill,
              StartEvict, Goto, TypeOK
<1> QED
  BY <1>3, <1>4, <1>5, <1>6 DEF TypeOK, LocalsType, lineVars, mutexes, fifos

\* The threads take and answer requests, and pass mutexes.
LEMMA ThreadType ==
    ASSUME TypeOK, NEW t \in Requesters,
           GetRequest(t) \/ WaitForFlush(t) \/ PutResponse(t)
    PROVE  TypeOK'
<1>1. t \in Channels /\ "get" \notin WaitsWithWay
  BY DEF Requesters, Channels, WaitsWithWay
<1>2. CASE GetRequest(t)
  <2>1. req_fifo[t] \in Messages(t)
    BY <1>1, <1>2 DEF GetRequest, TypeOK
  <2>2. req_fifo[t] \in Served(t)
    BY <1>1, <2>1, MessagesAreServed
  <2>3. \A c \in Channels : pc'[c] # "get" => gp'[c] \in Served(c)
    BY <1>1, <1>2, <2>2 DEF GetRequest, TypeOK, Goto
  <2>4. \A c \in Channels : req_fifo'[c] \in Messages(c) \union {NoMsg}
    BY <1>1, <1>2 DEF GetRequest, TypeOK
  <2>5. LocalsType'
    BY <1>1, <1>2 DEF GetRequest, TypeOK, Goto, LocalsType, Labels, WaitsWithWay
  <2> QED
    BY <1>2, <2>3, <2>4, <2>5 DEF GetRequest, TypeOK, LocalsType, lineVars, mutexes
<1>3. CASE WaitForFlush(t)
  <2>1. LocalsType'
    BY <1>1, <1>3 DEF WaitForFlush, TypeOK, Goto, LocalsType, Labels, WaitsWithWay, locals
  <2>2. \A c \in Channels : pc'[c] # "get" => pc[c] # "get"
    BY <1>3 DEF WaitForFlush, TypeOK, Goto
  <2> QED
    BY <1>3, <2>1, <2>2 DEF WaitForFlush, TypeOK, LocalsType, lineVars, mutexes, fifos, locals
<1>4. CASE PutResponse(t)
  <2>1. \A c \in Channels : rsp_fifo'[c] \in Served(c) \union {NoMsg}
    BY <1>1, <1>4 DEF PutResponse, TypeOK
  <2>2. \A c \in Channels : pc'[c] # "get" => gp'[c] \in Served(c)
    BY <1>1, <1>4 DEF PutResponse, TypeOK, Goto
  <2>3. LocalsType'
    BY <1>1, <1>4 DEF PutResponse, TypeOK, Goto, LocalsType, Labels, WaitsWithWay
  <2> QED
    BY <1>4, <2>1, <2>2, <2>3 DEF PutResponse, TypeOK, LocalsType, lineVars, mutexes
<1> QED
  BY <1>2, <1>3, <1>4

\* The rest of the read handler.
LEMMA ReadType ==
    ASSUME TypeOK, ReadDirect \/ ReadLine
    PROVE  TypeOK'
<1> DEFINE a == Addr("read")
           s == SetOf("read")
<1>1. /\ "read" \in Requesters /\ "read" \in Channels
      /\ pc["read"] # "get" /\ "put" \in Labels
  BY DEF Requesters, Channels, ReadDirect, ReadLine, Labels
<1>2. /\ a \in Nat /\ s \in Sets /\ Key("read") \in Keys
      /\ ReadOffset(a) \in Offsets
  BY <1>1, RequestTypes
<1>3. LocalsType'
  <2>1. Finish("read") /\ UNCHANGED <<way, victim>>
    BY DEF ReadDirect, ReadLine
  <2>2. "put" \notin WaitsWithWay
    BY DEF WaitsWithWay
  <2> QED
    BY <1>1, <2>1, <2>2 DEF Finish, Goto, TypeOK, LocalsType
<1>4. ongoing_requests' \in [Sets -> [Keys -> {"absent", "live", "cancelled"}]]
  <2>1. ongoing_requests' = [ongoing_requests EXCEPT ![s][Key("read")] = "absent"]
    BY DEF ReadDirect, ReadLine, Finish, EraseOngoing, SetOngoing
  <2> HIDE DEF s
  <2> QED
    BY <1>2, <2>1 DEF TypeOK
<1>5. \E v \in Values : gp' = [gp EXCEPT !["read"] = [gp["read"] EXCEPT !.data = v]]
  <2>1. CASE ReadDirect
    <3>1. MemoryBlock(a)[0] \in Values
      BY <1>2, MemoryBlockType, LineSizeAssumption DEF Offsets
    <3> QED
      BY <2>1, <3>1 DEF ReadDirect
  <2>2. CASE ReadLine
    <3>1. way["read"] \in Ways
      BY <2>2, <1>1 DEF ReadLine, TypeOK, WaitsWithWay
    <3>2. data[s][way["read"]][ReadOffset(a)] \in Values
      BY <3>1, <1>2 DEF TypeOK
    <3> QED
      BY <2>2, <3>2 DEF ReadLine, ReadWord
  <2> QED
    BY <2>1, <2>2
<1>6. \A c \in Channels : pc'[c] # "get" => gp'[c] \in Served(c)
  <2>1. PICK v \in Values : gp' = [gp EXCEPT !["read"] = [gp["read"] EXCEPT !.data = v]]
    BY <1>5
  <2>2. gp["read"] \in Served("read")
    BY <1>1 DEF TypeOK
  <2>3. [gp["read"] EXCEPT !.data = v] \in Served("read")
    BY <2>2, ReadWithData
  <2>4. \A c \in Channels : c # "read" => pc'[c] = pc[c]
    BY DEF ReadDirect, ReadLine, Finish, Goto, TypeOK
  <2> QED
    BY <2>1, <2>3, <2>4 DEF TypeOK
<1>7. lru_lists' \in [Sets -> [1 .. NumWays -> Ways]]
  <2>1. CASE ReadDirect
    BY <2>1 DEF ReadDirect, TypeOK
  <2>2. CASE ReadLine
    BY <2>2, <1>1, <1>2, MoveToFrontType DEF ReadLine, UpdateLru, TypeOK, WaitsWithWay
  <2> QED
    BY <2>1, <2>2
<1>8. UNCHANGED <<lineVars, page_table, mutexes, fifos>> /\ DOMAIN gp' = Channels
  BY DEF ReadDirect, ReadLine, ReadWord, TypeOK
<1> QED
  BY <1>3, <1>4, <1>6, <1>7, <1>8 DEF TypeOK, LocalsType, lineVars, mutexes, fifos

\* What the write handler is built from.
LEMMA WritePartsType ==
    ASSUME TypeOK, pc["write"] # "get"
    PROVE  /\ StoreWord("write") => IsPageTable(page_table')
           /\ pc["write"] \in WaitsWithWay /\ WriteWord("write")
              => data' \in [Sets -> [Ways -> [Offsets -> Values]]]
           /\ pc["write"] \in WaitsWithWay /\ UpdateLru(SetOf("write"), way["write"])
              => lru_lists' \in [Sets -> [1 .. NumWays -> Ways]]
<1> DEFINE a == Addr("write")
           s == SetOf("write")
<1>1. "write" \in Requesters /\ "write" \in Channels
  BY DEF Requesters, Channels
<1>2. a \in Nat /\ s \in Sets /\ WriteOffset(a) \in Offsets
  BY <1>1, RequestTypes
<1>3. gp["write"].data \in Values
  BY <1>1, WriteData DEF TypeOK
<1>4. pc["write"] \in WaitsWithWay => way["write"] \in Ways
  BY <1>1 DEF TypeOK
<1>5. StoreWord("write") => IsPageTable(page_table')
  BY <1>2, <1>3, WriteMemoryType DEF StoreWord, TypeOK
<1>6. ASSUME pc["write"] \in WaitsWithWay, WriteWord("write")
      PROVE  data' \in [Sets -> [Ways -> [Offsets -> Values]]]
  BY <1>2, <1>3, <1>4, <1>6 DEF WriteWord, TypeOK
<1>7. ASSUME pc["write"] \in WaitsWithWay, UpdateLru(s, way["write"])
      PROVE  lru_lists' \in [Sets -> [1 .. NumWays -> Ways]]
  BY <1>2, <1>4, <1>7, MoveToFrontType DEF UpdateLru, TypeOK
<1> QED
  BY <1>5, <1>6, <1>7

\* An entry of ongoing_requests is written.
LEMMA OngoingType ==
    ASSUME TypeOK, NEW t \in Requesters, pc[t] # "get",
           NEW state \in {"absent", "live", "cancelled"}, SetOngoing(t, state)
    PROVE  ongoing_requests' \in [Sets -> [Keys -> {"absent", "live", "cancelled"}]]
<1>1. SetOf(t) \in Sets /\ Key(t) \in Keys
  BY RequestTypes
<1> QED
  BY <1>1 DEF SetOngoing, TypeOK

\* A thread waits somewhere else in its handler.
LEMMA GotoType ==
    ASSUME TypeOK, NEW t \in Requesters, NEW label \in Labels, Goto(t, label),
           label \in WaitsWithWay => pc[t] \in WaitsWithWay,
           pc[t] # "get", UNCHANGED locals
    PROVE  LocalsType' /\ \A c \in Channels : pc'[c] # "get" => gp'[c] \in Served(c)
<1>1. t \in Channels
  BY DEF Requesters, Channels
<1>2. UNCHANGED <<gp, way, victim>> /\ pc' = [pc EXCEPT ![t] = label]
  BY DEF locals, Goto
<1>3. LocalsType'
  BY <1>1, <1>2 DEF TypeOK, LocalsType
<1>4. \A c \in Channels : pc'[c] # "get" => pc[c] # "get"
  BY <1>1, <1>2 DEF TypeOK
<1> QED
  BY <1>2, <1>3, <1>4 DEF TypeOK

WriteAccess ==
    \/ WriteDirect \/ WriteBackHit \/ WriteThroughHit \/ WriteThroughStore
    \/ WriteThroughMiss \/ AllocatedWrite

\* The write handler, but for the two steps that claim a line.
LEMMA WriteType ==
    ASSUME TypeOK, WriteAccess
    PROVE  TypeOK'
<1>1. /\ "write" \in Requesters /\ "write" \in Channels
      /\ pc["write"] # "get" /\ "put" \in Labels /\ "put" \notin WaitsWithWay
      /\ "store" \in Labels /\ "hit" \in WaitsWithWay
      /\ UNCHANGED <<valid, tag, mutexes, locals, fifos>>
  BY DEF Requesters, Channels, WriteAccess, WriteDirect, WriteBackHit, WriteThroughHit,
         WriteThroughStore, WriteThroughMiss, AllocatedWrite, Labels, WaitsWithWay, lineVars
<1>2. ASSUME Finish("write")
      PROVE  ongoing_requests' \in [Sets -> [Keys -> {"absent", "live", "cancelled"}]]
  BY <1>1, <1>2, OngoingType DEF Finish, EraseOngoing
<1>3. ASSUME Finish("write")
      PROVE  LocalsType' /\ \A c \in Channels : pc'[c] # "get" => gp'[c] \in Served(c)
  BY <1>1, <1>3, GotoType DEF Finish
<1>4. /\ IsPageTable(page_table')
      /\ data' \in [Sets -> [Ways -> [Offsets -> Values]]]
      /\ lru_lists' \in [Sets -> [1 .. NumWays -> Ways]]
  BY <1>1, WritePartsType
  DEF WriteAccess, WriteDirect, WriteBackHit, WriteThroughHit, WriteThroughStore,
      WriteThroughMiss, AllocatedWrite, WaitsWithWay, TypeOK, lineVars
<1>5. /\ ongoing_requests' \in [Sets -> [Keys -> {"absent", "live", "cancelled"}]]
      /\ LocalsType'
      /\ \A c \in Channels : pc'[c] # "get" => gp'[c] \in Served(c)
  <2>1. CASE WriteThroughHit
    <3>1. Goto("write", "store") /\ pc["write"] = "hit" /\ UNCHANGED ongoing_requests
      BY <2>1 DEF WriteThroughHit
    <3> QED
      BY <1>1, <3>1, GotoType DEF TypeOK
  <2>2. CASE ~ WriteThroughHit
    <3>1. Finish("write")
      BY <2>2 DEF WriteAccess, WriteDirect, WriteBackHit, WriteThroughStore,
                  WriteThroughMiss, AllocatedWrite
    <3> QED
      BY <3>1, <1>2, <1>3
  <2> QED
    BY <2>1, <2>2
<1>6. dirty' \in [Sets -> [Ways -> BOOLEAN]]
  <2>1. CASE WriteBackHit
    BY <2>1 DEF WriteBackHit, TypeOK
  <2>2. CASE ~ WriteBackHit
    BY <2>2 DEF WriteAccess, WriteDirect, WriteThroughHit, WriteThroughStore,
                WriteThroughMiss, AllocatedWrite, TypeOK, lineVars
  <2> QED
    BY <2>1, <2>2
<1> QED
  BY <1>1, <1>4, <1>5, <1>6 DEF TypeOK, LocalsType, mutexes, locals, fifos

\* The steps that write a victim back and that claim a line for a block.
LEMMA ClaimType ==
    ASSUME TypeOK, NEW t \in Requesters,
           WriteBackVictim(t) \/ FillLine(t) \/ (t = "write" /\ WriteThroughAllocate)
    PROVE  TypeOK'
<1> DEFINE s == SetOf(t)
<1>1. /\ t \in Channels /\ pc[t] # "get"
      /\ {"fill", "access"} \subseteq Labels /\ {"evict", "fill"} \subseteq WaitsWithWay
      /\ "access" \in WaitsWithWay
  BY DEF Requesters, Channels, WriteBackVictim, FillLine, WriteThroughAllocate, Labels,
         WaitsWithWay
<1>2. /\ s \in Sets /\ TagOf(Addr(t)) \in Nat /\ Addr(t) \in Nat
  BY <1>1, RequestTypes
<1>3. ASSUME ProbeOngoing(t)
      PROVE  ongoing_requests' \in [Sets -> [Keys -> {"absent", "live", "cancelled"}]]
  <2>1. CASE Live(t)
    <3>1. SetOngoing(t, "live")
      BY <1>3, <2>1 DEF ProbeOngoing
    <3> QED
      BY <1>1, <3>1, OngoingType
  <2>2. CASE ~ Live(t)
    <3>1. SetOngoing(t, "cancelled")
      BY <1>3, <2>2 DEF ProbeOngoing
    <3> QED
      BY <1>1, <3>1, OngoingType
  <2> QED
    BY <2>1, <2>2
<1>4. CASE WriteBackVictim(t)
  <2>1. way[t] \in Ways
    BY <1>1, <1>4 DEF WriteBackVictim, TypeOK
  <2>2. IsPageTable(page_table')
    <3>1. /\ \A o \in DOMAIN data[s][way[t]] : data[s][way[t]][o] \in Values
          /\ victim[t] \in Nat /\ IsPageTable(page_table)
      BY <1>2, <2>1 DEF TypeOK
    <3> QED
      BY <1>4, <3>1, WriteMemoryType DEF WriteBackVictim
  <2>3. dirty' \in [Sets -> [Ways -> BOOLEAN]]
    BY <1>2, <1>4, <2>1 DEF WriteBackVictim, TypeOK
  <2>4. LocalsType' /\ \A c \in Channels : pc'[c] # "get" => gp'[c] \in Served(c)
    BY <1>1, <1>4, GotoType DEF WriteBackVictim
  <2> QED
    BY <1>4, <2>2, <2>3, <2>4
    DEF WriteBackVictim, TypeOK, LocalsType, mutexes, locals, fifos
<1>5. CASE FillLine(t)
  <2>1. way[t] \in Ways
    BY <1>1, <1>5 DEF FillLine, TypeOK
  <2>2. /\ valid' \in [Sets -> [Ways -> BOOLEAN]]
        /\ tag' \in [Sets -> [Ways -> Nat]]
        /\ dirty' \in [Sets -> [Ways -> BOOLEAN]]
    BY <1>2, <1>5, <2>1 DEF FillLine, TypeOK
  <2>3. MemoryBlock(Addr(t)) \in [Offsets -> Values]
    BY <1>2, MemoryBlockType
  <2>4. data' \in [Sets -> [Ways -> [Offsets -> Values]]]
    BY <1>2, <1>5, <2>1, <2>3 DEF FillLine, TypeOK
  <2>5. LocalsType' /\ \A c \in Channels : pc'[c] # "get" => gp'[c] \in Served(c)
    BY <1>1, <1>5, GotoType DEF FillLine
  <2> QED
    BY <1>3, <1>5, <2>2, <2>4, <2>5
    DEF FillLine, TypeOK, LocalsType, mutexes, locals, fifos
<1>6. CASE t = "write" /\ WriteThroughAllocate
  <2> DEFINE w == AllocWay(s)
  <2>1. w \in Ways
    BY <1>2, AllocWayType
  <2>2. /\ valid' \in [Sets -> [Ways -> BOOLEAN]]
        /\ tag' \in [Sets -> [Ways -> Nat]]
    BY <1>2, <1>6, <2>1 DEF WriteThroughAllocate, TypeOK
  <2>3. IsPageTable(page_table')
    BY <1>1, <1>6, WritePartsType DEF WriteThroughAllocate
  <2>4. way' = [way EXCEPT ![t] = w] /\ pc' = [pc EXCEPT ![t] = "access"]
        /\ UNCHANGED <<victim, gp>>
    BY <1>6 DEF WriteThroughAllocate, Goto
  <2> HIDE DEF w
  <2>5. LocalsType'
    BY <1>1, <2>1, <2>4 DEF TypeOK, LocalsType
  <2>6. \A c \in Channels : pc'[c] # "get" => gp'[c] \in Served(c)
    BY <1>1, <2>4 DEF TypeOK
  <2> QED
    BY <1>3, <1>6, <2>2, <2>3, <2>5, <2>6
    DEF WriteThroughAllocate, TypeOK, LocalsType, mutexes, fifos
<1> QED
  BY <1>4, <1>5, <1>6

\* invalidate() and flush().
LEMMA ServicesType ==
    ASSUME TypeOK, Invalidate \/ Flush
    PROVE  TypeOK'
<1>1. /\ {"invalidate", "flush"} \subseteq Channels
      /\ "invalidate" \notin Requesters /\ "flush" \notin Requesters
      /\ {"get", "delay", "put", "spin"} \subseteq Labels
  BY DEF Requesters, Channels, Labels
<1>2. ASSUME NEW c \in {"invalidate", "flush"}, NEW label \in Labels, Goto(c, label),
             UNCHANGED <<way, victim>>
      PROVE  LocalsType'
  BY <1>1, <1>2 DEF Goto, TypeOK, LocalsType
<1>3. ASSUME NEW c \in {"invalidate", "flush"}, req_fifo[c] # NoMsg
      PROVE  req_fifo[c] \in Served(c)
  BY <1>1, <1>3, MessagesAreServed DEF TypeOK
<1>4. CASE InvalidateGet
  <2>1. \A c \in Channels : pc'[c] # "get" => gp'[c] \in Served(c)
    BY <1>3, <1>4 DEF InvalidateGet, Goto, TypeOK
  <2> QED
    BY <1>1, <1>2, <1>4, <2>1 DEF InvalidateGet, TypeOK, LocalsType, lineVars
<1>5. CASE InvalidateLines
  <2>1. valid' \in [Sets -> [Ways -> BOOLEAN]]
    BY <1>5 DEF InvalidateLines, TypeOK
  <2>2. ongoing_requests' \in [Sets -> [Keys -> {"absent", "live", "cancelled"}]]
    BY <1>5 DEF InvalidateLines, TypeOK
  <2>3. Goto("invalidate", "put") /\ pc["invalidate"] # "get"
        /\ UNCHANGED <<dirty, tag, data, lru_lists, page_table, mutexes, locals, fifos>>
    BY <1>5 DEF InvalidateLines
  <2>4. LocalsType'
    BY <1>1, <1>2, <2>3 DEF locals
  <2>5. \A c \in Channels : pc'[c] # "get" => gp'[c] \in Served(c)
    BY <2>3 DEF Goto, TypeOK, locals
  <2> QED
    BY <2>1, <2>2, <2>3, <2>4, <2>5 DEF TypeOK, LocalsType, mutexes, locals, fifos
<1>6. CASE InvalidatePut
  <2>1. gp["invalidate"] \in Served("invalidate")
    BY <1>1, <1>6 DEF InvalidatePut, TypeOK
  <2>2. /\ \A c \in Channels : pc'[c] # "get" => gp'[c] \in Served(c)
        /\ \A c \in Channels : rsp_fifo'[c] \in Served(c) \union {NoMsg}
    BY <1>1, <1>6, <2>1 DEF InvalidatePut, Goto, TypeOK
  <2> QED
    BY <1>1, <1>2, <1>6, <2>2 DEF InvalidatePut, TypeOK, LocalsType, lineVars
<1>7. CASE FlushGet
  <2>1. \A c \in Channels : pc'[c] # "get" => gp'[c] \in Served(c)
    BY <1>3, <1>7 DEF FlushGet, Goto, TypeOK
  <2>2. LocalsType'
    BY <1>1, <1>2, <1>7 DEF FlushGet
  <2> QED
    BY <1>1, <1>7, <2>1, <2>2 DEF FlushGet, TypeOK, LocalsType, lineVars
<1>8. CASE FlushLines
  <2>1. LocalsType'
    BY <1>1, <1>2, <1>8 DEF FlushLines, locals
  <2>2. \A c \in Channels : pc'[c] # "get" => gp'[c] \in Served(c)
    BY <1>8 DEF FlushLines, Goto, TypeOK, locals
  <2> QED
    BY <1>8, <2>1, <2>2 DEF FlushLines, TypeOK, LocalsType, mutexes, locals, fifos
<1>9. CASE FlushPut
  <2>1. gp["flush"] \in Served("flush")
    BY <1>1, <1>9 DEF FlushPut, TypeOK
  <2>2. /\ \A c \in Channels : pc'[c] # "get" => gp'[c] \in Served(c)
        /\ \A c \in Channels : rsp_fifo'[c] \in Served(c) \union {NoMsg}
    BY <1>1, <1>9, <2>1 DEF FlushPut, Goto, TypeOK
  <2> QED
    BY <1>1, <1>2, <1>9, <2>2 DEF FlushPut, TypeOK, LocalsType, lineVars
<1> QED
  BY <1>4, <1>5, <1>6, <1>7, <1>8, <1>9 DEF Invalidate, Flush

LEMMA ClientType ==
    ASSUME TypeOK, Client
    PROVE  TypeOK'
<1>1. PICK c \in Channels : (\E m \in Messages(c) : ClientPut(c, m)) \/ ClientGet(c)
  BY DEF Client
<1>2. CASE \E m \in Messages(c) : ClientPut(c, m)
  BY <1>2 DEF ClientPut, TypeOK, lineVars, mutexes, locals
<1>3. CASE ClientGet(c)
  BY <1>3 DEF ClientGet, TypeOK, lineVars, mutexes, locals
<1> QED
  BY <1>1, <1>2, <1>3

LEMMA TypeStep == TypeOK /\ [Next]_vars => TypeOK'
<1> SUFFICES ASSUME TypeOK, [Next]_vars PROVE TypeOK'
  OBVIOUS
<1>1. {"read", "write"} \subseteq Requesters
  BY DEF Requesters
<1>2. CASE Read
  BY <1>1, <1>2, ThreadType, EnterType, ReadType, ClaimType DEF Read
<1>3. CASE Write
  BY <1>1, <1>3, ThreadType, EnterType, WriteType, ClaimType DEF Write, WriteAccess
<1>4. CASE Invalidate \/ Flush
  BY <1>4, ServicesType
<1>5. CASE Client
  BY <1>5, ClientType
<1>6. CASE UNCHANGED vars
  BY <1>6 DEF vars, TypeOK, lineVars, mutexes, locals, fifos
<1> QED
  BY <1>2, <1>3, <1>4, <1>5, <1>6 DEF Next, Controller, FlushSpin

\* In every reachable state every variable has its type; in particular no thread
\* accesses a line of the placeholder way -1.
THEOREM TypeCorrect == Spec => []TypeOK
  BY TypeInit, TypeStep, PTL DEF Spec

-----------------------------------------------------------------------------
(***************************************************************************)
(* The order of eviction.                                                  *)
(***************************************************************************)
LEMMA LruInit == Init => LruIsPermutation
<1> SUFFICES ASSUME Init, NEW s \in Sets PROVE IsPermutation(lru_lists[s])
  BY DEF LruIsPermutation
<1>1. lru_lists[s] = [i \in 1 .. NumWays |-> i - 1]
  BY DEF Init
<1>2. \A w \in Ways : w + 1 \in 1 .. NumWays /\ (w + 1) - 1 = w
  BY NumWaysAssumption DEF Ways
<1> QED
  BY <1>1, <1>2, NumWaysAssumption DEF IsPermutation

\* Every step leaves the lists alone or moves a way to the front of one.
LEMMA LruChanges ==
    ASSUME TypeOK, [Next]_vars
    PROVE  \/ UNCHANGED lru_lists
           \/ \E s \in Sets, w \in Ways : UpdateLru(s, w)
<1> DEFINE Moves == \E s \in Sets, w \in Ways : UpdateLru(s, w)
<1>1. ASSUME NEW t \in Requesters, pc[t] \in WaitsWithWay, UpdateLru(SetOf(t), way[t])
      PROVE  Moves
  <2>1. pc[t] # "get"
    BY <1>1 DEF WaitsWithWay
  <2>2. SetOf(t) \in Sets /\ way[t] \in Ways
    BY <1>1, <2>1, RequestTypes DEF TypeOK
  <2> QED
    BY <1>1, <2>2
<1>2. CASE ReadLine
  BY <1>1, <1>2 DEF ReadLine, Requesters, WaitsWithWay
<1>3. CASE WriteBackHit \/ WriteThroughStore \/ AllocatedWrite
  BY <1>1, <1>3 DEF WriteBackHit, WriteThroughStore, AllocatedWrite, Requesters, WaitsWithWay
<1>4. ASSUME NEW t \in Requesters,
             \/ GetRequest(t) \/ WaitForFlush(t) \/ Start(t) \/ PutResponse(t)
             \/ WriteBackVictim(t) \/ FillLine(t)
      PROVE  UNCHANGED lru_lists
  BY <1>4 DEF GetRequest, WaitForFlush, PutResponse, WriteBackVictim, FillLine, Start,
       StartInternal, StartHit, StartThrough, StartBypass, StartFill, StartEvict, Miss, Enter
<1>5. CASE ReadDirect \/ WriteDirect \/ WriteThroughHit \/ WriteThroughMiss
           \/ WriteThroughAllocate \/ Invalidate \/ Flush \/ Client \/ UNCHANGED vars
  BY <1>5 DEF ReadDirect, WriteDirect, WriteThroughHit, WriteThroughMiss,
       WriteThroughAllocate, Invalidate, InvalidateGet, InvalidateLines, InvalidatePut,
       Flush, FlushGet, FlushLines, FlushPut, Client, ClientPut, ClientGet, vars
<1> HIDE DEF Moves
<1> QED
  BY <1>2, <1>3, <1>4, <1>5
  DEF Next, Controller, FlushSpin, Read, Write, Requesters

LEMMA LruStep == TypeOK /\ LruIsPermutation /\ [Next]_vars => LruIsPermutation'
<1> SUFFICES ASSUME TypeOK, LruIsPermutation, [Next]_vars PROVE LruIsPermutation'
  OBVIOUS
<1>1. CASE UNCHANGED lru_lists
  BY <1>1 DEF LruIsPermutation
<1>2. ASSUME NEW s \in Sets, NEW w \in Ways, UpdateLru(s, w)
      PROVE  LruIsPermutation'
  <2>1. lru_lists' = [lru_lists EXCEPT ![s] = MoveToFront(lru_lists[s], w)]
    BY <1>2 DEF UpdateLru
  <2>2. IsPermutation(MoveToFront(lru_lists[s], w))
    BY MoveToFrontPermutes DEF TypeOK, LruIsPermutation
  <2>3. \A r \in Sets : IsPermutation(lru_lists'[r])
    BY <2>1, <2>2 DEF TypeOK, LruIsPermutation
  <2> QED
    BY <2>3 DEF LruIsPermutation, IsPermutation
<1> QED
  BY <1>1, <1>2, LruChanges

\* No eviction order ever loses or repeats a way, with any number of ways.
THEOREM LruPermutation == Spec => []LruIsPermutation
<1>1. Init => TypeOK /\ LruIsPermutation
  BY TypeInit, LruInit
<1>2. TypeOK /\ LruIsPermutation /\ [Next]_vars => (TypeOK /\ LruIsPermutation)'
  BY TypeStep, LruStep
<1> QED
  BY <1>1, <1>2, PTL DEF Spec

-----------------------------------------------------------------------------
(***************************************************************************)
(* The bookkeeping of ongoing requests.                                    *)
(***************************************************************************)

\* A request enters: the one step that makes an entry live.
EnterStep == \E t \in Requesters : Start(t)

HandlerStep(t) ==
    \/ t = "read"  /\ (ReadDirect \/ ReadLine)
    \/ t = "write" /\ (WriteAccess \/ WriteThroughAllocate)
    \/ WriteBackVictim(t) \/ FillLine(t)

\* A step of a request that is being handled: it stays in flight and its entry
\* stays, live or not, or the entry is erased and the request is done.
LEMMA HandlerChanges ==
    ASSUME TypeOK, NEW t \in Requesters, HandlerStep(t)
    PROVE  /\ InFlight(t)
           /\ gp'[t].addr = gp[t].addr
           /\ \A u \in Channels \ {t} : pc'[u] = pc[u] /\ gp'[u] = gp[u]
           /\ \/ InFlight(t)' /\ UNCHANGED ongoing_requests
              \/ InFlight(t)' /\ ProbeOngoing(t)
              \/ EraseOngoing(t)
<1>1. t \in Channels /\ (t = "read" \/ t = "write")
  BY DEF Requesters, Channels
<1>2. CASE t = "read" /\ (ReadDirect \/ ReadLine)
  <2>1. gp'["read"].addr = gp["read"].addr
    <3>1. gp["read"] \in Served("read")
      BY <1>1, <1>2 DEF TypeOK, ReadDirect, ReadLine
    <3> DEFINE v == IF ReadDirect THEN MemoryBlock(Addr("read"))[0]
                    ELSE data[SetOf("read")][way["read"]][ReadOffset(Addr("read"))]
    <3>2. gp' = [gp EXCEPT !["read"] = [gp["read"] EXCEPT !.data = v]]
      BY <1>2 DEF ReadDirect, ReadLine, ReadWord
    <3> HIDE DEF v
    <3> QED
      BY <1>1, <1>2, <3>1, <3>2 DEF Served, TypeOK
  <2> QED
    BY <1>1, <1>2, <2>1
    DEF ReadDirect, ReadLine, ReadWord, Finish, Goto, InFlight, WaitsWithWay, TypeOK
<1>3. CASE t = "write" /\ (WriteAccess \/ WriteThroughAllocate)
  BY <1>1, <1>3
  DEF WriteAccess, WriteDirect, WriteBackHit, WriteThroughHit, WriteThroughStore,
      WriteThroughMiss, AllocatedWrite, WriteThroughAllocate, Finish, Goto, InFlight,
      WaitsWithWay, TypeOK, locals
<1>4. CASE WriteBackVictim(t) \/ FillLine(t)
  BY <1>1, <1>4 DEF WriteBackVictim, FillLine, Goto, InFlight, WaitsWithWay, TypeOK, locals
<1> QED
  BY <1>2, <1>3, <1>4 DEF HandlerStep

\* A step outside the handlers: no entry appears, none is revived, and no request
\* in flight is touched.
LEMMA OtherChanges ==
    ASSUME TypeOK, [Next]_vars, ~ EnterStep, \A t \in Requesters : ~ HandlerStep(t)
    PROVE  /\ \A s \in Sets, k \in Keys :
                 \/ ongoing_requests'[s][k] = ongoing_requests[s][k]
                 \/ /\ ongoing_requests[s][k] = "live"
                    /\ ongoing_requests'[s][k] = "cancelled"
           /\ \A t \in Requesters : InFlight(t) => InFlight(t)' /\ gp'[t] = gp[t]
<1> DEFINE Untouched == \A t \in Requesters : InFlight(t) => InFlight(t)' /\ gp'[t] = gp[t]
<1>1. "invalidate" \notin Requesters /\ "flush" \notin Requesters
      /\ Requesters \subseteq Channels
  BY DEF Requesters, Channels
<1>2. ASSUME NEW t \in Requesters, GetRequest(t) \/ WaitForFlush(t) \/ PutResponse(t)
      PROVE  UNCHANGED ongoing_requests /\ Untouched
  BY <1>1, <1>2 DEF GetRequest, WaitForFlush, PutResponse, Goto, InFlight, WaitsWithWay,
                    TypeOK, locals
<1>3. CASE InvalidateGet \/ InvalidatePut \/ Flush
  BY <1>1, <1>3 DEF InvalidateGet, InvalidatePut, Flush, FlushGet, FlushLines, FlushPut,
                    Goto, InFlight, TypeOK, locals
<1>4. CASE InvalidateLines
  <2>1. \A s \in Sets, k \in Keys :
           \/ ongoing_requests'[s][k] = ongoing_requests[s][k]
           \/ /\ ongoing_requests[s][k] = "live"
              /\ ongoing_requests'[s][k] = "cancelled"
    BY <1>4 DEF InvalidateLines, TypeOK
  <2>2. Untouched
    BY <1>1, <1>4 DEF InvalidateLines, Goto, InFlight, TypeOK, locals
  <2> QED
    BY <2>1, <2>2
<1>5. CASE Client \/ UNCHANGED vars
  BY <1>5 DEF Client, ClientPut, ClientGet, vars, locals, InFlight
<1>6. ~ Start("read") /\ ~ Start("write") /\ ~ HandlerStep("read") /\ ~ HandlerStep("write")
  BY DEF EnterStep, Requesters
<1> HIDE DEF Untouched
<1>7. CASE Read \/ Write
  <2>1. \/ GetRequest("read") \/ WaitForFlush("read") \/ PutResponse("read")
        \/ GetRequest("write") \/ WaitForFlush("write") \/ PutResponse("write")
    BY <1>6, <1>7 DEF Read, Write, HandlerStep, WriteAccess
  <2>2. "read" \in Requesters /\ "write" \in Requesters
    BY DEF Requesters
  <2>3. UNCHANGED ongoing_requests /\ Untouched
    BY <1>2, <2>1, <2>2
  <2> QED
    BY <2>3 DEF Untouched
<1> QED
  BY <1>3, <1>4, <1>5, <1>7 DEF Next, Controller, FlushSpin, Invalidate, Untouched

LEMMA EnterChanges ==
    ASSUME TypeOK, NEW t \in Requesters, Start(t)
    PROVE  /\ ~ InFlight(t) /\ InFlight(t)' /\ pc[t] # "get"
           /\ UNCHANGED <<gp, valid, mutexes>>
           /\ \A u \in Channels \ {t} : pc'[u] = pc[u]
           /\ SetOngoing(t, "live")
           /\ ~ flush_mutex
<1>1. t \in Channels
  BY DEF Requesters, Channels
<1>2. Enter(t)
  BY DEF Start, StartInternal, StartHit, StartThrough, StartBypass, StartFill, StartEvict, Miss
<1>3. \E label \in WaitsWithWay \union {"direct", "through"} : Goto(t, label)
  BY DEF Start, StartInternal, StartHit, StartThrough, StartBypass, StartFill, StartEvict,
         WaitsWithWay
<1> QED
  BY <1>1, <1>2, <1>3
  DEF Enter, PassMutexes, Goto, InFlight, WaitsWithWay, TypeOK, lineVars

LEMMA OwnedInit == Init => OngoingOwned
  BY DEF Init, OngoingOwned

LEMMA OwnedStep == TypeOK /\ OngoingOwned /\ [Next]_vars => OngoingOwned'
<1> SUFFICES ASSUME TypeOK, OngoingOwned, [Next]_vars,
                    NEW s \in Sets, NEW k \in Keys, ongoing_requests'[s][k] # "absent"
             PROVE  \E u \in Requesters : (InFlight(u) /\ SetOf(u) = s /\ Key(u) = k)'
  BY DEF OngoingOwned
<1>1. \A u \in Requesters : gp'[u].addr = gp[u].addr => SetOf(u)' = SetOf(u) /\ Key(u)' = Key(u)
  BY DEF SetOf, Key, Addr
<1>2. ASSUME NEW t \in Requesters, Start(t)
      PROVE  \E u \in Requesters : (InFlight(u) /\ SetOf(u) = s /\ Key(u) = k)'
  <2>1. /\ ~ InFlight(t) /\ InFlight(t)' /\ UNCHANGED gp /\ pc[t] # "get"
        /\ \A u \in Requesters \ {t} : pc'[u] = pc[u]
        /\ ongoing_requests' = [ongoing_requests EXCEPT ![SetOf(t)][Key(t)] = "live"]
    BY <1>2, EnterChanges DEF SetOngoing, Requesters, Channels
  <2>2. SetOf(t) \in Sets /\ Key(t) \in Keys
    BY <2>1, RequestTypes
  <2>3. CASE SetOf(t) = s /\ Key(t) = k
    BY <1>1, <2>1, <2>3
  <2>4. CASE ~ (SetOf(t) = s /\ Key(t) = k)
    <3>1. ongoing_requests[s][k] # "absent"
      BY <2>1, <2>2, <2>4 DEF TypeOK
    <3>2. PICK u \in Requesters : InFlight(u) /\ SetOf(u) = s /\ Key(u) = k
      BY <3>1 DEF OngoingOwned
    <3>3. u # t /\ InFlight(u)'
      BY <2>1, <3>2 DEF InFlight
    <3> QED
      BY <1>1, <2>1, <3>2, <3>3
  <2> QED
    BY <2>3, <2>4
<1>3. ASSUME NEW t \in Requesters, HandlerStep(t)
      PROVE  \E u \in Requesters : (InFlight(u) /\ SetOf(u) = s /\ Key(u) = k)'
  <2>1. /\ InFlight(t) /\ gp'[t].addr = gp[t].addr
        /\ \A u \in Requesters \ {t} : pc'[u] = pc[u] /\ gp'[u] = gp[u]
        /\ \/ InFlight(t)' /\ UNCHANGED ongoing_requests
           \/ InFlight(t)' /\ ProbeOngoing(t)
           \/ EraseOngoing(t)
    BY <1>3, HandlerChanges DEF Requesters, Channels
  <2>2. SetOf(t) \in Sets /\ Key(t) \in Keys
    BY <2>1, RequestTypes DEF InFlight, WaitsWithWay
  <2>3. CASE SetOf(t) = s /\ Key(t) = k
    <3>1. ~ EraseOngoing(t)
      BY <2>2, <2>3 DEF EraseOngoing, SetOngoing, TypeOK
    <3> QED
      BY <1>1, <2>1, <2>3, <3>1
  <2>4. CASE ~ (SetOf(t) = s /\ Key(t) = k)
    <3>1. ongoing_requests[s][k] # "absent"
      BY <2>1, <2>2, <2>4 DEF TypeOK, EraseOngoing, ProbeOngoing, SetOngoing
    <3>2. PICK u \in Requesters : InFlight(u) /\ SetOf(u) = s /\ Key(u) = k
      BY <3>1 DEF OngoingOwned
    <3>3. u # t /\ InFlight(u)'
      BY <2>1, <2>4, <3>2 DEF InFlight
    <3> QED
      BY <1>1, <2>1, <3>2, <3>3
  <2> QED
    BY <2>3, <2>4
<1>4. CASE ~ EnterStep /\ \A t \in Requesters : ~ HandlerStep(t)
  <2>1. ongoing_requests[s][k] # "absent"
    BY <1>4, OtherChanges
  <2>2. PICK u \in Requesters : InFlight(u) /\ SetOf(u) = s /\ Key(u) = k
    BY <2>1 DEF OngoingOwned
  <2>3. InFlight(u)' /\ gp'[u] = gp[u]
    BY <1>4, <2>2, OtherChanges
  <2> QED
    BY <1>1, <2>2, <2>3
<1> QED
  BY <1>2, <1>3, <1>4 DEF EnterStep

\* No interleaving of any requests leaves an entry of ongoing_requests behind.
THEOREM OngoingIsOwned == Spec => []OngoingOwned
<1>1. Init => TypeOK /\ OngoingOwned
  BY TypeInit, OwnedInit
<1>2. TypeOK /\ OngoingOwned /\ [Next]_vars => (TypeOK /\ OngoingOwned)'
  BY TypeStep, OwnedStep
<1> QED
  BY <1>1, <1>2, PTL DEF Spec

-----------------------------------------------------------------------------
(***************************************************************************)
(* Flush.                                                                  *)
(***************************************************************************)

\* The inductive invariant: the mutex is held between the request and the answer,
\* and what the busy loop has seen stays true as long as it is held.
FlushInv ==
    /\ pc["flush"] \in {"get", "delay", "put", "spin"}
    /\ flush_mutex <=> pc["flush"] # "get"
    /\ FlushSeesNoLiveRequest
    /\ FlushLeavesCacheEmpty
    /\ SpinsOnlyOnRequest

\* With no request live, a handler makes no entry live and no line valid.
LEMMA HandlerWithoutLive ==
    ASSUME TypeOK, NEW t \in Requesters, HandlerStep(t), NoLiveRequest
    PROVE  /\ NoLiveRequest'
           /\ \A s \in Sets, w \in Ways : valid'[s][w] => valid[s][w]
<1>1. InFlight(t) /\ pc[t] # "get"
  BY HandlerChanges DEF InFlight, WaitsWithWay
<1>2. SetOf(t) \in Sets /\ Key(t) \in Keys /\ AllocWay(SetOf(t)) \in Ways
  BY <1>1, RequestTypes, AllocWayType
<1>3. ~ Live(t)
  BY <1>2 DEF NoLiveRequest, Live
<1>4. NoLiveRequest'
  <2>1. \/ UNCHANGED ongoing_requests
        \/ SetOngoing(t, "cancelled")
        \/ SetOngoing(t, "absent")
    BY <1>3, HandlerChanges DEF ProbeOngoing, EraseOngoing
  <2> QED
    BY <1>2, <2>1 DEF SetOngoing, NoLiveRequest, TypeOK
<1>5. \A s \in Sets, w \in Ways : valid'[s][w] => valid[s][w]
  <2>1. CASE FillLine(t)
    <3>1. way[t] \in Ways
      BY <2>1 DEF FillLine, TypeOK, WaitsWithWay
    <3> QED
      BY <1>2, <1>3, <2>1, <3>1 DEF FillLine, TypeOK
  <2>2. CASE t = "write" /\ WriteThroughAllocate
    BY <1>2, <1>3, <2>2 DEF WriteThroughAllocate, TypeOK
  <2>3. CASE ~ FillLine(t) /\ ~ (t = "write" /\ WriteThroughAllocate)
    BY <2>3 DEF HandlerStep, ReadDirect, ReadLine, WriteAccess, WriteDirect, WriteBackHit,
                WriteThroughHit, WriteThroughStore, WriteThroughMiss, AllocatedWrite,
                WriteBackVictim, lineVars
  <2> QED
    BY <2>1, <2>2, <2>3
<1> QED
  BY <1>4, <1>5

\* Only flush() locks and unlocks flush_mutex.
LEMMA FlushUntouched ==
    ASSUME TypeOK, [Next]_vars, ~ Flush
    PROVE  UNCHANGED flush_mutex /\ pc'["flush"] = pc["flush"]
<1>1. "flush" \notin Requesters /\ "flush" \in Channels
  BY DEF Requesters, Channels
<1>2. ASSUME NEW t \in Requesters,
             \/ GetRequest(t) \/ WaitForFlush(t) \/ Start(t) \/ PutResponse(t)
             \/ HandlerStep(t)
      PROVE  UNCHANGED flush_mutex /\ pc'["flush"] = pc["flush"]
  <2>1. CASE Start(t)
    BY <1>1, <2>1, EnterChanges DEF mutexes
  <2>2. CASE HandlerStep(t)
    BY <1>1, <2>2, HandlerChanges
    DEF HandlerStep, ReadDirect, ReadLine, WriteAccess, WriteDirect, WriteBackHit,
        WriteThroughHit, WriteThroughStore, WriteThroughMiss, AllocatedWrite,
        WriteThroughAllocate, WriteBackVictim, FillLine, mutexes
  <2>3. CASE GetRequest(t) \/ WaitForFlush(t) \/ PutResponse(t)
    BY <1>1, <2>3 DEF GetRequest, WaitForFlush, PutResponse, Goto, mutexes, TypeOK
  <2> QED
    BY <1>2, <2>1, <2>2, <2>3
<1>3. CASE Invalidate
  BY <1>1, <1>3 DEF Invalidate, InvalidateGet, InvalidateLines, InvalidatePut, Goto, mutexes,
                    TypeOK
<1>4. CASE Client \/ UNCHANGED vars
  BY <1>4 DEF Client, ClientPut, ClientGet, vars, mutexes
<1>5. CASE Read
  BY <1>2, <1>5 DEF Read, HandlerStep, Requesters
<1>6. CASE Write
  BY <1>2, <1>6 DEF Write, HandlerStep, WriteAccess, Requesters
<1> QED
  BY <1>3, <1>4, <1>5, <1>6 DEF Next, Controller, FlushSpin

\* While flush() holds flush_mutex and has seen no live request, a step makes
\* nothing live and nothing valid.
LEMMA FlushHolds ==
    ASSUME TypeOK, FlushInv, [Next]_vars, pc["flush"] \in {"delay", "put"}
    PROVE  /\ NoLiveRequest'
           /\ \A s \in Sets, w \in Ways : valid'[s][w] => valid[s][w]
<1>1. flush_mutex /\ NoLiveRequest
  BY DEF FlushInv, FlushSeesNoLiveRequest
<1>2. ~ EnterStep
  BY <1>1, EnterChanges DEF EnterStep
<1>3. ASSUME NEW t \in Requesters, HandlerStep(t)
      PROVE  /\ NoLiveRequest'
             /\ \A s \in Sets, w \in Ways : valid'[s][w] => valid[s][w]
  BY <1>1, <1>3, HandlerWithoutLive
<1>4. CASE \A t \in Requesters : ~ HandlerStep(t)
  <2>1. NoLiveRequest'
    BY <1>1, <1>2, <1>4, OtherChanges DEF NoLiveRequest
  <2>2. ~ Start("read") /\ ~ Start("write") /\ ~ HandlerStep("read") /\ ~ HandlerStep("write")
    BY <1>2, <1>4 DEF EnterStep, Requesters
  <2>3. CASE Read \/ Write
    <3>1. \E t \in {"read", "write"} : GetRequest(t) \/ WaitForFlush(t) \/ PutResponse(t)
      BY <2>2, <2>3 DEF Read, Write, HandlerStep, WriteAccess
    <3> QED
      BY <2>1, <3>1 DEF GetRequest, WaitForFlush, PutResponse, lineVars
  <2>4. CASE Invalidate \/ Flush \/ Client \/ UNCHANGED vars
    <3>1. CASE InvalidateLines
      BY <2>1, <3>1 DEF InvalidateLines
    <3>2. CASE FlushLines
      BY <2>1, <3>2 DEF FlushLines
    <3>3. CASE InvalidateGet \/ InvalidatePut \/ FlushGet \/ FlushPut
      BY <2>1, <3>3 DEF InvalidateGet, InvalidatePut, FlushGet, FlushPut, lineVars
    <3>4. CASE Client \/ UNCHANGED vars
      BY <2>1, <3>4 DEF Client, ClientPut, ClientGet, vars, lineVars
    <3> QED
      BY <2>4, <3>1, <3>2, <3>3, <3>4 DEF Invalidate, Flush
  <2> QED
    BY <2>3, <2>4 DEF Next, Controller, FlushSpin
<1> QED
  BY <1>3, <1>4

LEMMA FlushInit == Init => FlushInv
  BY DEF Init, FlushInv, FlushSeesNoLiveRequest, FlushLeavesCacheEmpty, SpinsOnlyOnRequest,
         Spinning, Channels

LEMMA FlushStep ==
    TypeOK /\ OngoingOwned /\ FlushInv /\ [Next]_vars => FlushInv'
<1> SUFFICES ASSUME TypeOK, OngoingOwned, FlushInv, [Next]_vars PROVE FlushInv'
  OBVIOUS
<1>1. "flush" \in Channels /\ "flush" \notin Requesters
  BY DEF Requesters, Channels
<1>2. CASE FlushGet
  <2>1. /\ pc' = [pc EXCEPT !["flush"] = IF NoLiveRequest THEN "delay" ELSE "spin"]
        /\ UNCHANGED ongoing_requests /\ flush_mutex' = TRUE
    BY <1>2 DEF FlushGet, Goto
  <2>2. NoLiveRequest' <=> NoLiveRequest
    BY <2>1 DEF NoLiveRequest
  <2>3. ASSUME ~ NoLiveRequest
        PROVE  \E t \in Requesters : InFlight(t)'
    <3>1. \E t \in Requesters : InFlight(t)
      BY <2>3 DEF NoLiveRequest, OngoingOwned
    <3> QED
      BY <1>1, <2>1, <3>1 DEF InFlight, TypeOK
  <2> QED
    BY <1>1, <2>1, <2>2, <2>3
    DEF FlushInv, FlushSeesNoLiveRequest, FlushLeavesCacheEmpty, SpinsOnlyOnRequest, Spinning,
        TypeOK
<1>3. CASE FlushLines
  <2>1. NoLiveRequest'
    BY <1>3 DEF FlushLines, FlushInv, FlushSeesNoLiveRequest, NoLiveRequest
  <2> QED
    BY <1>1, <1>3, <2>1
    DEF FlushLines, Goto, FlushInv, FlushSeesNoLiveRequest, FlushLeavesCacheEmpty,
        SpinsOnlyOnRequest, Spinning, TypeOK, mutexes
<1>4. CASE FlushPut
  BY <1>1, <1>4
  DEF FlushPut, Goto, FlushInv, FlushSeesNoLiveRequest, FlushLeavesCacheEmpty,
      SpinsOnlyOnRequest, Spinning, TypeOK
<1>5. CASE ~ Flush
  <2>1. UNCHANGED flush_mutex /\ pc'["flush"] = pc["flush"]
    BY <1>5, FlushUntouched
  <2>2. FlushSeesNoLiveRequest'
    BY <2>1, FlushHolds DEF FlushSeesNoLiveRequest
  <2>3. FlushLeavesCacheEmpty'
    BY <2>1, FlushHolds DEF FlushInv, FlushLeavesCacheEmpty
  <2>4. SpinsOnlyOnRequest'
    <3>1. Spinning => UNCHANGED pc
      BY <1>5 DEF Next, Controller, FlushSpin, Client, vars
    <3> QED
      BY <2>1, <3>1 DEF FlushInv, SpinsOnlyOnRequest, Spinning, InFlight
  <2> QED
    BY <2>1, <2>2, <2>3, <2>4 DEF FlushInv
<1> QED
  BY <1>2, <1>3, <1>4, <1>5 DEF Flush

\* What the proofs of this section have in common.
LEMMA FlushInvariant == Spec => [](TypeOK /\ FlushInv)
<1>1. Init => TypeOK /\ OngoingOwned /\ FlushInv
  BY TypeInit, OwnedInit, FlushInit
<1>2. TypeOK /\ OngoingOwned /\ FlushInv /\ [Next]_vars
      => (TypeOK /\ OngoingOwned /\ FlushInv)'
  BY TypeStep, OwnedStep, FlushStep
<1> QED
  BY <1>1, <1>2, PTL DEF Spec

\* flush() works on a cache that no live request can fill.
THEOREM FlushExcludesRequests == Spec => []FlushSeesNoLiveRequest
<1>1. FlushInv => FlushSeesNoLiveRequest
  BY DEF FlushInv
<1> QED
  BY <1>1, FlushInvariant, PTL

\* The cache is empty when flush() answers, whatever was in flight.
THEOREM FlushEmptiesCache == Spec => []FlushLeavesCacheEmpty
<1>1. FlushInv => FlushLeavesCacheEmpty
  BY DEF FlushInv
<1> QED
  BY <1>1, FlushInvariant, PTL

\* The busy loop of flush() never runs on an entry that nobody owns.
THEOREM FlushSpinsOnRequest == Spec => []SpinsOnlyOnRequest
<1>1. FlushInv => SpinsOnlyOnRequest
  BY DEF FlushInv
<1> QED
  BY <1>1, FlushInvariant, PTL

\* No step makes a line valid while flush() holds its mutex.
THEOREM FlushExcludesFills == Spec => NoFillDuringFlush
<1> DEFINE NoFill == flush_mutex => \A s \in Sets, w \in Ways : valid'[s][w] => valid[s][w]
<1>1. TypeOK /\ FlushInv /\ [Next]_vars => [NoFill]_vars
  <2> SUFFICES ASSUME TypeOK, FlushInv, [Next]_vars, flush_mutex,
                      NEW s \in Sets, NEW w \in Ways, valid'[s][w]
               PROVE  valid[s][w]
    OBVIOUS
  <2>1. CASE pc["flush"] \in {"delay", "put"}
    BY <2>1, FlushHolds
  <2>2. CASE pc["flush"] = "spin"
    BY <2>2 DEF Next, Controller, Client, FlushSpin, Spinning, vars, lineVars
  <2> QED
    BY <2>1, <2>2 DEF FlushInv
<1> QED
  BY <1>1, FlushInvariant, PTL DEF Spec, NoFillDuringFlush

=============================================================================
